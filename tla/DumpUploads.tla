---------------------------- MODULE DumpUploads ----------------------------
(***************************************************************************)
(* core/handlers/inventory_upload.py with net/p99planner.py: dumps on their *)
(* way to pigparse.org or p99planner.com, and the review link ("claim") the *)
(* player is handed.  Jobs are queued by the driver (DumpWatch says which   *)
(* dumps) and by the GUI, and run one at a time on the net worker; the GUI  *)
(* also moves the destination and cancels the link.  Whether the link has    *)
(* expired the app judges by its own clock, in naive local time, and the     *)
(* site by its own.                                                         *)
(*                                                                          *)
(* What a dump says is left out; it is an inventory, which both sites take. *)
(***************************************************************************)
EXTENDS Integers, Sequences, FiniteSets

CONSTANTS
  MaxQueue,    \* bound: jobs in the worker's queue
  MaxClaims,   \* bound: claims minted by the site
  MaxLost      \* bound: no reply is lost once so many links are orphans

ASSUME UploadsAssumption == {MaxQueue, MaxClaims, MaxLost} \subseteq Nat

VARIABLES
  dest,      \* dumps.upload_target
  jobs,      \* the worker's queue
  hand,      \* what the worker has in hand
  claim,     \* _claim, 0 for none
  lapsed,    \* that claim has expired by the app's clock
  cancel,    \* what forget_claim has read, 0 for no link, NoCancel outside of it
  minted,    \* claims the site has given out
  open,      \* those it still accepts
  orphans,   \* ghost: open ones lost with a reply, a release or an overtaken cancel, or
             \* because the app's clock held them expired
  strays     \* ghost: jobs sent to a site after the user left it

uploadVars == <<dest, jobs, hand, claim, lapsed, cancel, minted, open, orphans, strays>>

Site  == {"pigparse", "p99planner"}
Claim == 1..MaxClaims
NoCancel == -1
\* A job in the queue, and one in hand with the request it is at.
Job   == [do : {"pigparse", "p99planner"}] \cup [do : {"release"}, of : Claim]
Hand  == {[do |-> "rest"], [do |-> "stage"], [do |-> "pigparse"]} \cup [do : {"add", "release"}, of : Claim]

UploadsTypeOK ==
  /\ dest \in Site \cup {"off"}
  /\ jobs \in Seq(Job) /\ hand \in Hand
  /\ claim \in Claim \cup {0} /\ lapsed \in BOOLEAN /\ cancel \in Claim \cup {0, NoCancel}
  /\ minted \in 0..MaxClaims
  /\ {open, orphans} \subseteq SUBSET Claim /\ strays \in Nat

UploadsInit ==
  /\ dest \in Site \cup {"off"} /\ jobs = <<>> /\ hand = [do |-> "rest"]
  /\ claim = 0 /\ lapsed = FALSE /\ cancel = NoCancel
  /\ minted = 0 /\ open = {} /\ orphans = {} /\ strays = 0

linkVars == <<claim, lapsed>>
siteVars == <<minted, open, orphans>>

\* _current_claim
CurrentClaim == IF lapsed THEN 0 ELSE claim
\* _store_claim
StoreClaim(c) == claim' = c /\ lapsed' = FALSE

\* A link that is let go of while the site still takes it, and nobody releases it.
LetGo == ({claim} \ {cancel}) \cap open

-----------------------------------------------------------------------------
(* The driver and the GUI                                                   *)

\* Settings > Apply
SetDestination(d) ==
  /\ d # dest /\ dest' = d /\ strays' = 0
  /\ UNCHANGED <<cancel, jobs, hand, linkVars, siteVars>>

\* upload_now, for a fresh dump or for the Upload button.
UploadNow ==
  /\ dest # "off" /\ Len(jobs) < MaxQueue
  /\ jobs' = Append(jobs, [do |-> dest])
  /\ UNCHANGED <<cancel, dest, hand, linkVars, siteVars, strays>>

\* The cancel was confirmed: forget_claim reads the link, unless it is gone or has
\* lapsed by now ...
ForgetReads ==
  /\ minted > 0 /\ cancel = NoCancel /\ cancel' = CurrentClaim
  /\ UNCHANGED <<dest, jobs, hand, linkVars, siteVars, strays>>

\* ... clears whatever link there is by then, and queues the release of the one
\* it read.  A link it did not read is lost to the player.
ForgetDrops ==
  /\ cancel # NoCancel /\ cancel' = NoCancel /\ StoreClaim(0)
  /\ \/ cancel = 0 /\ UNCHANGED jobs
     \/ /\ cancel # 0 /\ Len(jobs) < MaxQueue
        /\ jobs' = Append(jobs, [do |-> "release", of |-> cancel])
  /\ orphans' = orphans \cup LetGo
  /\ UNCHANGED <<dest, hand, minted, open, strays>>

\* The app's clock passes the link's expiry, or is set back before it.
ClockMoves ==
  /\ claim # 0 /\ lapsed' = ~lapsed
  /\ UNCHANGED <<dest, jobs, hand, claim, cancel, siteVars, strays>>

\* The player approves a claim, or it expires at the site.
ClaimCloses(c) ==
  /\ c \in open
  /\ open' = open \ {c} /\ orphans' = orphans \ {c}
  /\ UNCHANGED <<cancel, dest, jobs, hand, linkVars, minted, strays>>

-----------------------------------------------------------------------------
(* The worker                                                               *)

Adding == IF CurrentClaim = 0 THEN [do |-> "stage"] ELSE [do |-> "add", of |-> CurrentClaim]
AtRest == [do |-> "rest"]

\* Wrong variant: the destination was read when the job was queued.
TakeJobUnchecked ==
  /\ hand = AtRest /\ jobs # <<>> /\ jobs' = Tail(jobs)
  /\ LET j == Head(jobs)
     IN hand' = IF j.do = "p99planner" THEN Adding ELSE j
  /\ UNCHANGED <<cancel, dest, linkVars, siteVars, strays>>

\* _still_targeting, then _send_to_planner looks at the claim.
TakeJob ==
  /\ hand = AtRest /\ jobs # <<>> /\ jobs' = Tail(jobs)
  /\ LET j == Head(jobs)
     IN hand' = CASE j.do = "release" -> j
                  [] j.do # "release" /\ j.do # dest -> AtRest
                  [] j.do = "pigparse" /\ dest = "pigparse" -> j
                  [] OTHER -> Adding
  /\ UNCHANGED <<cancel, dest, linkVars, siteVars, strays>>

\* The job is over; did it go to a site the user had left meanwhile?
Over(site) ==
  /\ hand' = AtRest
  /\ strays' = IF site # dest THEN strays + 1 ELSE strays

\* upload_inventory, whatever it answers.
SendPigparse ==
  /\ hand.do = "pigparse" /\ Over("pigparse")
  /\ UNCHANGED <<cancel, dest, jobs, linkVars, siteVars>>

\* Wrong variant: any failure mints a new link.
AddFailsOver ==
  /\ hand.do = "add"
  /\ \/ hand.of \in open /\ StoreClaim(hand.of) /\ Over("p99planner")
     \/ StoreClaim(0) /\ hand' = [do |-> "stage"] /\ UNCHANGED strays
  /\ UNCHANGED <<cancel, dest, jobs, siteVars>>

\* planner.add: the answer is the link again, "gone", or an error.
Add ==
  /\ hand.do = "add"
  /\ \/ hand.of \in open /\ StoreClaim(hand.of) /\ Over("p99planner")
     \/ hand.of \notin open /\ StoreClaim(0) /\ hand' = [do |-> "stage"] /\ UNCHANGED strays
     \/ Over("p99planner") /\ UNCHANGED linkVars
  /\ UNCHANGED <<cancel, dest, jobs, siteVars>>

\* planner.stage: a new claim in place of the one held, if any, which then has lapsed;
\* an error; or a claim whose reply is lost.
StageFiles ==
  /\ hand.do = "stage" /\ Over("p99planner")
  /\ \/ /\ minted < MaxClaims /\ minted' = minted + 1
        /\ open' = open \cup {minted'}
        /\ \/ StoreClaim(minted') /\ orphans' = orphans \cup LetGo
           \/ /\ Cardinality(orphans) < MaxLost
              /\ orphans' = orphans \cup {minted'} /\ UNCHANGED linkVars
     \/ UNCHANGED <<linkVars, siteVars>>
  /\ UNCHANGED <<cancel, dest, jobs>>

\* planner.release is tried and not answered for.
Release ==
  /\ hand.do = "release" /\ hand' = AtRest
  /\ \/ open' = open \ {hand.of} /\ UNCHANGED orphans
     \/ orphans' = orphans \cup ({hand.of} \cap open) /\ UNCHANGED open
  /\ UNCHANGED <<cancel, dest, jobs, linkVars, minted, strays>>

UploadsNext ==
  \/ \E d \in Site \cup {"off"} : SetDestination(d)
  \/ UploadNow \/ ForgetReads \/ ForgetDrops \/ ClockMoves \/ \E c \in Claim : ClaimCloses(c)
  \/ TakeJob \/ SendPigparse \/ Add \/ StageFiles \/ Release

UploadsSpec == UploadsInit /\ [][UploadsNext]_uploadVars

-----------------------------------------------------------------------------
(* Properties                                                               *)

\* After the user left a site, the one job past its last check may still reach
\* it; what is queued behind does not, however long the queue.
OneJobStrays == strays <= 1

Releasing == {jobs[i].of : i \in {k \in DOMAIN jobs : jobs[k].do = "release"}}
             \cup (IF hand.do = "release" THEN {hand.of} ELSE {})

\* The player is handed one link: an open claim is the one the app holds, or on its
\* way to be released, so two dumps in a row, with an approval or a cancel in between,
\* never end in two links.  Four things still make an orphan of an open link: its
\* reply or its release is lost, a cancel overtakes a new link, or the app's clock,
\* fast or shifted, holds it expired when the next dump or the cancel comes: the app
\* then stages a second link, or releases nothing.
OneLink == \A c \in open : c \in {claim, cancel} \cup Releasing \cup orphans
=============================================================================
