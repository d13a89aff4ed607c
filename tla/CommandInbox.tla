---------------------------- MODULE CommandInbox ----------------------------
(***************************************************************************)
(* What LogDriver.submit_to_driver (core/driver.py) promises a caller, with *)
(* no threads, gate or queue: a registration change that was accepted is    *)
(* applied exactly once, and never while a line is inside the parser chain. *)
(* LogDriver implements this specification.                                 *)
(***************************************************************************)
CONSTANT Cmd        \* the registration changes callers may submit

VARIABLES promise,  \* Cmd -> how far the change has come
          walking   \* TRUE while one line is being offered to the chain

vars == <<promise, walking>>

TypeOK == /\ promise \in [Cmd -> {"new", "accepted", "applied"}]
          /\ walking \in BOOLEAN

Init == /\ promise = [c \in Cmd |-> "new"]
        /\ walking = FALSE

Accept(c) == /\ promise[c] = "new"
             /\ promise' = [promise EXCEPT ![c] = "accepted"]
             /\ UNCHANGED walking

\* The change takes effect between lines, on whichever thread owns the chain.
ApplyOnce(c) == /\ promise[c] = "accepted"
                /\ ~walking
                /\ promise' = [promise EXCEPT ![c] = "applied"]
                /\ UNCHANGED walking

Walk == /\ walking' = ~walking
        /\ UNCHANGED promise

Next == \/ Walk
        \/ \E c \in Cmd : Accept(c) \/ ApplyOnce(c)

\* Nothing obliges a caller to submit or the log to grow; an accepted change
\* is applied even though lines keep it out for a while at a time.
Fairness == \A c \in Cmd : SF_vars(ApplyOnce(c))

Spec == Init /\ [][Next]_vars /\ Fairness
=============================================================================
