----------------------------- MODULE LogDriver ------------------------------
(***************************************************************************)
(* core/driver.py and the chain of core/pipeline.py: the log-driver thread, *)
(* its command inbox and the gate in front of it.                           *)
(*                                                                          *)
(* Any thread submits registration changes (submit_to_driver).  While the   *)
(* gate is open they are queued and the driver applies them at one point of *)
(* its loop; while it is shut they run on the caller.  The GUI thread       *)
(* starts and stops the loop; the driver itself shuts the gate on its way   *)
(* out.  The driver offers each line to the live parser chain, first match  *)
(* wins, so a change that lands inside a walk would skip a parser.          *)
(***************************************************************************)
EXTENDS Naturals, Sequences, SequencesExt

CONSTANTS
  Parser,      \* parsers that are registered and removed at run time
  Cmd,         \* registration changes, each submitted at most once
  Change,      \* [Cmd -> [op : {"append", "remove"}, parser : Parser]]
  Caller,      \* the threads that submit, other than the driver
  Gui,         \* the one of them that calls start() and stop()
  Driver,      \* the log-driver thread
  MaxLines,    \* bound: lines one poll returns
  QuietStart,  \* TRUE: no other thread has a change in hand when start() runs
  Readable     \* TRUE: the newest log can always be opened while none is tailed

Thread == Caller \cup {Driver}
Place  == {"new", "queued", "applied"}

ASSUME ThreadAssumption == /\ Gui \in Caller
                           /\ Driver \notin Caller
                           /\ Thread \cap Place = {}
ASSUME ChangeAssumption ==
  Change \in [Cmd -> [op : {"append", "remove"}, parser : Parser]]
ASSUME BoundAssumption ==
  MaxLines \in Nat /\ QuietStart \in BOOLEAN /\ Readable \in BOOLEAN

VARIABLES
  accepting,   \* _accepting_commands
  inbox,       \* _inbox, a FIFO queue
  where,       \* Cmd -> "new", "queued", "applied" or the thread about to run it
  stopSet,     \* the _stop event
  thread,      \* _thread: never created, alive, or ended
  at,          \* what the driver thread is doing
  gui,         \* how far the GUI thread is inside start() or stop()
  attached,    \* _tail is not None
  justFailed,  \* the log switch raised less than LOG_SWITCH_CHECK_S ago
  chain,       \* LogPipeline._parsers
  left,        \* lines of the current poll still to process
  cursor,      \* index of the parser the current line is offered next
  owed         \* parsers in the chain when the line arrived, not offered it yet

gate == <<accepting, inbox, where>>
loop == <<stopSet, thread, at, gui>>
tail == <<attached, justFailed>>
walk == <<left, cursor, owed>>
vars == <<accepting, inbox, where, stopSet, thread, at, gui, attached, justFailed,
          chain, left, cursor, owed>>

Hand(t) == {c \in Cmd : where[c] = t}

Init ==
  /\ accepting = FALSE /\ inbox = <<>>
  /\ where = [c \in Cmd |-> "new"]
  /\ stopSet = FALSE /\ thread = "none" /\ at = "off" /\ gui = "idle"
  /\ attached = FALSE /\ justFailed = FALSE
  /\ chain = <<>>
  /\ left = 0 /\ cursor = 1 /\ owed = {}

-----------------------------------------------------------------------------
(* Submitting and running changes                                          *)

\* A thread runs code of ours that may register something: a caller that is not
\* inside start/stop/join, or the driver inside a switch, a handler or a tick.
MaySubmit(t) ==
  IF t = Driver THEN at \in {"switch", "offer", "ticks"} \/ Hand(Driver) # {}
  ELSE t = Gui => gui = "idle"

\* Wrong variant: the change runs on the caller whatever the gate says.
SubmitInline(t, c) ==
  /\ MaySubmit(t) /\ where[c] = "new"
  /\ where' = [where EXCEPT ![c] = t]
  /\ UNCHANGED <<accepting, inbox, loop, tail, chain, walk>>

\* submit_to_driver: reading the gate and enqueueing are one step, under
\* _command_lock.  Behind a shut gate the caller keeps the change, to run it.
Submit(t, c) ==
  /\ MaySubmit(t) /\ where[c] = "new"
  /\ IF accepting
     THEN /\ inbox' = Append(inbox, c)
          /\ where' = [where EXCEPT ![c] = "queued"]
     ELSE /\ where' = [where EXCEPT ![c] = t]
          /\ UNCHANGED inbox
  /\ UNCHANGED <<accepting, loop, tail, chain, walk>>

Changed(parsers, change) ==
  IF change.op = "append" THEN Append(parsers, change.parser)
  ELSE RemoveFirst(parsers, change.parser)

\* _invoke: the change runs on the thread that has it in hand.
Invoke(t, c) ==
  /\ where[c] = t
  /\ chain' = Changed(chain, Change[c])
  /\ where' = [where EXCEPT ![c] = "applied"]
  /\ UNCHANGED <<accepting, inbox, loop, tail, walk>>

\* Wrong variant: the newest command is taken first.
DrainNewest ==
  /\ at \in {"drain", "closing"} /\ Hand(Driver) = {} /\ inbox # <<>>
  /\ where' = [where EXCEPT ![Last(inbox)] = Driver]
  /\ inbox' = Front(inbox)
  /\ UNCHANGED <<accepting, loop, tail, chain, walk>>

\* One turn of _drain_commands on the driver thread.
Drain ==
  /\ at \in {"drain", "closing"} /\ Hand(Driver) = {} /\ inbox # <<>>
  /\ where' = [where EXCEPT ![Head(inbox)] = Driver]
  /\ inbox' = Tail(inbox)
  /\ UNCHANGED <<accepting, loop, tail, chain, walk>>

-----------------------------------------------------------------------------
(* start() and stop(), on the GUI thread                                   *)

Start ==
  /\ gui = "idle" /\ Hand(Gui) = {} /\ thread # "alive"
  /\ QuietStart => \A t \in Caller : Hand(t) = {}
  /\ stopSet' = FALSE /\ accepting' = TRUE /\ gui' = "starting"
  /\ UNCHANGED <<inbox, where, thread, at, tail, chain, walk>>

Spawn ==
  /\ gui = "starting"
  /\ thread' = "alive" /\ at' = "test" /\ gui' = "idle"
  /\ UNCHANGED <<gate, stopSet, tail, chain, walk>>

\* A driver that never ran owns nothing: shut the gate and drain here.
StopNeverStarted ==
  /\ gui = "idle" /\ Hand(Gui) = {} /\ thread = "none"
  /\ stopSet' = TRUE /\ accepting' = FALSE
  /\ where' = [c \in Cmd |-> IF where[c] = "queued" THEN Gui ELSE where[c]]
  /\ inbox' = <<>>
  /\ UNCHANGED <<thread, at, gui, tail, chain, walk>>

StopAndJoin ==
  /\ gui = "idle" /\ Hand(Gui) = {} /\ thread # "none"
  /\ stopSet' = TRUE /\ gui' = "joining"
  /\ UNCHANGED <<gate, thread, at, tail, chain, walk>>

\* Wrong variant: stop() drains for a driver that did not end in time.
JoinReturnsDraining ==
  /\ gui = "joining" /\ gui' = "idle"
  /\ where' = [c \in Cmd |-> IF where[c] = "queued" THEN Gui ELSE where[c]]
  /\ inbox' = <<>>
  /\ UNCHANGED <<accepting, stopSet, thread, at, tail, chain, walk>>

\* join(timeout=2.0) returns: the thread has ended, or the wait ran out.
JoinReturns ==
  /\ gui = "joining" /\ gui' = "idle"
  /\ UNCHANGED <<gate, stopSet, thread, at, tail, chain, walk>>

\* set_log_dir: whatever was tailed is dropped, for the loop to look again.
SetLogDir ==
  /\ gui = "idle" /\ Hand(Gui) = {} /\ attached' = FALSE
  /\ UNCHANGED <<gate, loop, justFailed, chain, walk>>

-----------------------------------------------------------------------------
(* _run and _iterate, on the driver thread                                 *)

Goto(from, to) == at = from /\ at' = to /\ UNCHANGED <<stopSet, thread, gui>>

LoopTest == /\ Goto("test", IF stopSet THEN "closing" ELSE "switch")
            /\ UNCHANGED <<gate, tail, chain, walk>>

\* _maybe_switch_log: looked too recently, found no log, or attached to one.
Switched == /\ Goto("switch", "drain")
            /\ attached' \in {attached, TRUE} /\ justFailed' = FALSE
            /\ UNCHANGED <<gate, chain, walk>>

\* LogTail.attach raises.  While a log is tailed the next attempt waits for
\* LOG_SWITCH_CHECK_S; while none is, every iteration tries again.
SwitchFails == /\ IF attached THEN ~justFailed ELSE ~Readable
               /\ Goto("switch", "test")
               /\ justFailed' = TRUE
               /\ UNCHANGED <<gate, attached, chain, walk>>

\* The inbox was found empty; the tail is polled.
Poll == /\ inbox = <<>> /\ Hand(Driver) = {}
        /\ Goto("drain", "lines")
        /\ left' \in 0..MaxLines
        /\ UNCHANGED <<gate, tail, chain, cursor, owed>>

\* Wrong variant: nothing notices that the poll's lines are used up.
BeginLineAnyway == /\ Goto("lines", "offer")
                   /\ left' = left - 1 /\ cursor' = 1
                   /\ owed' = {chain[k] : k \in 1..Len(chain)}
                   /\ UNCHANGED <<gate, tail, chain>>

BeginLine == /\ left > 0 /\ Goto("lines", "offer")
             /\ left' = left - 1 /\ cursor' = 1
             /\ owed' = {chain[k] : k \in 1..Len(chain)}
             /\ UNCHANGED <<gate, tail, chain>>

\* The live list is iterated by index; this parser does not take the line.
OfferLine == /\ cursor <= Len(chain) /\ Goto("offer", "offer")
             /\ owed' = owed \ {chain[cursor]}
             /\ cursor' = cursor + 1
             /\ UNCHANGED <<gate, tail, chain, left>>

\* First match wins: a parser takes the line and the later ones never see it.
LineTaken == /\ cursor <= Len(chain) /\ Goto("offer", "lines")
             /\ owed' = {} /\ UNCHANGED <<gate, tail, chain, left, cursor>>

LineEnds == /\ cursor > Len(chain) /\ Goto("offer", "lines")
            /\ UNCHANGED <<gate, tail, chain, walk>>

LinesDone == /\ left = 0 /\ Goto("lines", "ticks")
             /\ UNCHANGED <<gate, tail, chain, walk>>

TicksDone == /\ Goto("ticks", "test")
             /\ UNCHANGED <<gate, tail, chain, walk>>

\* An exception out of the poll or a tick ends the iteration only.
IterationFails ==
  /\ at \in {"drain", "ticks"} /\ Hand(Driver) = {}
  /\ at = "drain" => inbox = <<>>
  /\ at' = "test" /\ UNCHANGED <<gate, stopSet, thread, gui, tail, chain, walk>>

\* Wrong variants: close before the final drain; close without a second look.
CloseGateFirst == /\ at = "closing" /\ accepting' = FALSE
                  /\ at' = IF inbox = <<>> /\ Hand(Driver) = {} THEN "exiting" ELSE at
                  /\ UNCHANGED <<inbox, where, stopSet, thread, gui, tail, chain, walk>>
CloseGateBlindly == /\ Hand(Driver) = {} /\ Goto("closing", "exiting")
                    /\ accepting' = FALSE
                    /\ UNCHANGED <<inbox, where, tail, chain, walk>>

\* _close_command_gate: shut it only on an inbox seen empty under the lock.
CloseGate == /\ inbox = <<>> /\ Hand(Driver) = {} /\ Goto("closing", "exiting")
             /\ accepting' = FALSE
             /\ UNCHANGED <<inbox, where, tail, chain, walk>>

ThreadEnds == /\ at = "exiting" /\ at' = "off" /\ thread' = "dead"
              /\ UNCHANGED <<gate, stopSet, gui, tail, chain, walk>>

-----------------------------------------------------------------------------
DriverStep == \/ LoopTest \/ Switched \/ SwitchFails \/ Drain \/ Poll
              \/ BeginLine \/ OfferLine \/ LineTaken \/ LineEnds \/ LinesDone
              \/ TicksDone \/ IterationFails \/ CloseGate \/ ThreadEnds
GuiStep == Start \/ Spawn \/ StopNeverStarted \/ StopAndJoin \/ JoinReturns \/ SetLogDir

Next == \/ DriverStep
        \/ GuiStep
        \/ \E t \in Thread, c \in Cmd : Submit(t, c) \/ Invoke(t, c)

\* The driver thread and a thread with a change in hand keep running, and
\* start() creates the thread it opened the gate for.  Nobody is obliged to
\* submit, to start or to stop.
Fairness == /\ WF_vars(DriverStep)
            /\ WF_vars(Spawn)
            /\ \A t \in Thread, c \in Cmd : WF_vars(Invoke(t, c))

Spec == Init /\ [][Next]_vars /\ Fairness

-----------------------------------------------------------------------------
TypeOK ==
  /\ accepting \in BOOLEAN /\ stopSet \in BOOLEAN
  /\ inbox \in Seq(Cmd)
  /\ where \in [Cmd -> Place \cup Thread]
  /\ thread \in {"none", "alive", "dead"}
  /\ at \in {"off", "test", "switch", "drain", "lines", "offer", "ticks", "closing", "exiting"}
  /\ gui \in {"idle", "starting", "joining"}
  /\ attached \in BOOLEAN /\ justFailed \in BOOLEAN
  /\ chain \in Seq(Parser)
  /\ left \in 0..MaxLines /\ cursor \in Nat \ {0} /\ owed \subseteq Parser

\* "Runs on the caller" always means "there is no driver thread left to run it"
\* (submit_to_driver): while the loop is running no other thread has a change
\* in hand that it is about to apply to the chain.
CallerMeansNoDriver ==
  at \notin {"off", "exiting"} => \A t \in Caller : Hand(t) = {}

\* Nothing is stranded behind a shut gate, and a thread that has ended left its
\* gate shut: no change waits in a queue nobody will ever read again.
NothingStranded ==
  /\ ~accepting => inbox = <<>> /\ Hand(Driver) = {}
  /\ (at \in {"off", "exiting"} /\ gui # "starting") => ~accepting

\* A line that no parser takes reaches every parser that was registered when it
\* arrived: those it has not reached yet are still ahead of the index.
NoParserSkipped ==
  at = "offer" => owed \subseteq {chain[k] : k \in cursor..Len(chain)}

\* Changes that were queued are applied in the order they were queued: a change
\* leaves the queue only once every change queued before it has been applied.
QueueOrder ==
  [][\A c \in Cmd : where[c] = "queued" /\ where'[c] # "queued"
       => c = Head(inbox) /\ Hand(Driver) = {}]_vars

\* A change submitted while the loop accepts it runs sooner or later: at the
\* next loop boundary, or on the driver's way out (submit_to_driver).
AcceptedIsApplied ==
  \A c \in Cmd : where[c] = "queued" ~> where[c] = "applied"

\* How far a change has come, as its submitter sees it.
Standing == [c \in Cmd |-> IF where[c] \in {"new", "applied"} THEN where[c] ELSE "accepted"]

Promise == INSTANCE CommandInbox WITH promise <- Standing, walking <- (at = "offer")

\* The loop keeps the promise of submit_to_driver: exactly once, between lines,
\* and sooner or later, across stops that time out and restarts.
KeepsPromise == Promise!Spec

-----------------------------------------------------------------------------
(* The inductive invariant behind the safety properties.                   *)

\* Who may hold changes, given the gate: with it open only the driver, between
\* lines or on its way out; with it shut only the callers.
GateInv ==
  /\ accepting => \A t \in Caller : Hand(t) = {}
  /\ ~accepting => inbox = <<>> /\ Hand(Driver) = {}
  /\ accepting <=> (gui = "starting" \/ at \notin {"off", "exiting"})
  /\ Hand(Driver) # {} => at \in {"drain", "closing"}

\* start() creates a thread only where there is none, and ends when it did.
ThreadInv ==
  /\ thread = "alive" <=> at # "off"
  /\ gui = "starting" => at = "off"

\* The queue holds exactly the queued changes, each of them once.
InboxInv ==
  /\ \A i \in 1..Len(inbox) : where[inbox[i]] = "queued"
  /\ \A i, j \in 1..Len(inbox) : inbox[i] = inbox[j] => i = j
  /\ \A c \in Cmd : where[c] = "queued" => \E i \in 1..Len(inbox) : inbox[i] = c

IInv == TypeOK /\ GateInv /\ ThreadInv /\ InboxInv /\ NoParserSkipped
=============================================================================
