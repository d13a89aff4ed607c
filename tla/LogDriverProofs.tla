-------------------------- MODULE LogDriverProofs ---------------------------
(***************************************************************************)
(* Proofs about LogDriver for every set of callers, parsers and changes:    *)
(* the inductive invariant IInv, the safety properties it implies, and that *)
(* every step of the loop is a step of CommandInbox or a stutter.           *)
(***************************************************************************)
EXTENDS LogDriver, SequenceFacts

-----------------------------------------------------------------------------
(* Type correctness                                                        *)

LEMMA ChangedType ==
  ASSUME NEW c \in Cmd, chain \in Seq(Parser)
  PROVE  Changed(chain, Change[c]) \in Seq(Parser)
<1>1. Change[c].parser \in Parser
  BY ChangeAssumption
<1>2. Append(chain, Change[c].parser) \in Seq(Parser)
  BY <1>1, AppendFacts
<1>3. RemoveFirst(chain, Change[c].parser) \in Seq(Parser)
  BY RemoveFirstType
<1> QED BY <1>2, <1>3 DEF Changed

LEMMA TypeInit == Init => TypeOK
<1> SUFFICES ASSUME Init PROVE TypeOK
  OBVIOUS
<1>1. where \in [Cmd -> Place \cup Thread]
  BY DEF Init, Place
<1>2. inbox \in Seq(Cmd) /\ chain \in Seq(Parser)
  BY DEF Init
<1>3. left \in 0..MaxLines
  BY BoundAssumption DEF Init
<1>4. cursor \in Nat \ {0} /\ owed \subseteq Parser
  BY DEF Init
<1>5. /\ accepting \in BOOLEAN /\ stopSet \in BOOLEAN /\ thread = "none" /\ at = "off"
      /\ gui = "idle" /\ attached \in BOOLEAN /\ justFailed \in BOOLEAN
  BY DEF Init
<1> QED BY <1>1, <1>2, <1>3, <1>4, <1>5, Zenon DEF TypeOK

LEMMA TypeStep == TypeOK /\ [Next]_vars => TypeOK'
<1> SUFFICES ASSUME TypeOK, [Next]_vars PROVE TypeOK'
  OBVIOUS
<1> USE DEF TypeOK, gate, loop, tail, walk, Goto
<1>1. ASSUME NEW t \in Thread, NEW c \in Cmd, Submit(t, c) PROVE TypeOK'
  <2>1. Append(inbox, c) \in Seq(Cmd)
    BY AppendFacts
  <2> QED BY <1>1, <2>1 DEF Submit, Place
<1>2. ASSUME NEW t \in Thread, NEW c \in Cmd, Invoke(t, c) PROVE TypeOK'
  BY <1>2, ChangedType DEF Invoke, Place
<1>3. CASE Drain
  <2>1. Head(inbox) \in Cmd /\ Tail(inbox) \in Seq(Cmd)
    BY <1>3, TailFacts DEF Drain
  <2> QED BY <1>3, <2>1 DEF Drain, Thread
<1>4. CASE BeginLine
  <2>1. {chain[k] : k \in 1..Len(chain)} \subseteq Parser
    OBVIOUS
  <2> QED BY <1>4, <2>1, BoundAssumption DEF BeginLine
<1>5. CASE OfferLine
  BY <1>5 DEF OfferLine
<1>6. CASE StopNeverStarted
  <2>1. where' \in [Cmd -> Place \cup Thread]
    BY <1>6, ThreadAssumption DEF StopNeverStarted, Thread
  <2>2. inbox' \in Seq(Cmd)
    BY <1>6 DEF StopNeverStarted
  <2> QED BY <1>6, <2>1, <2>2 DEF StopNeverStarted
<1>7. CASE Poll
  BY <1>7 DEF Poll
<1>8. CASE LoopTest \/ Switched \/ SwitchFails
  BY <1>8 DEF LoopTest, Switched, SwitchFails
<1>9. CASE LineTaken \/ LineEnds \/ LinesDone \/ TicksDone
  BY <1>9 DEF LineTaken, LineEnds, LinesDone, TicksDone
<1>10. CASE IterationFails \/ CloseGate \/ ThreadEnds
  BY <1>10 DEF IterationFails, CloseGate, ThreadEnds
<1>11. CASE Start \/ Spawn
  BY <1>11 DEF Start, Spawn
<1>12. CASE StopAndJoin \/ JoinReturns \/ SetLogDir
  <2>1. CASE StopAndJoin
    BY <2>1 DEF StopAndJoin
  <2>2. CASE JoinReturns \/ SetLogDir
    BY <2>2 DEF JoinReturns, SetLogDir
  <2> QED BY <1>12, <2>1, <2>2
<1>13. CASE UNCHANGED vars
  BY <1>13 DEF vars
<1> QED
  BY <1>1, <1>2, <1>3, <1>4, <1>5, <1>6, <1>7, <1>8, <1>9, <1>10, <1>11, <1>12, <1>13
  DEF Next, DriverStep, GuiStep

\* The state of the loop keeps its types.
THEOREM LoopTypes == Spec => []TypeOK
BY TypeInit, TypeStep, PTL DEF Spec

-----------------------------------------------------------------------------
(* The inductive invariant                                                 *)

LEMMA PlacesApart ==
  /\ "new" \notin Thread /\ "queued" \notin Thread /\ "applied" \notin Thread
  /\ Driver \notin Caller /\ Gui \in Caller /\ Driver \in Thread /\ Gui \in Thread
BY ThreadAssumption DEF Thread, Place

LEMMA IInvInit == Init => IInv
<1> SUFFICES ASSUME Init PROVE IInv
  OBVIOUS
<1>1. \A t \in Thread : Hand(t) = {}
  BY PlacesApart DEF Init, Hand
<1>2. GateInv
  BY <1>1 DEF Init, GateInv, Thread
<1>3. ThreadInv
  BY DEF Init, ThreadInv
<1>4. InboxInv
  BY DEF Init, InboxInv
<1>5. NoParserSkipped
  BY DEF Init, NoParserSkipped
<1> QED BY <1>2, <1>3, <1>4, <1>5, TypeInit DEF IInv

LEMMA ThreadStep == TypeOK /\ ThreadInv /\ [Next]_vars => ThreadInv'
<1> SUFFICES ASSUME TypeOK, ThreadInv, [Next]_vars PROVE ThreadInv'
  OBVIOUS
<1> USE DEF ThreadInv, gate, loop, tail, walk, Goto
<1>1. ASSUME NEW t \in Thread, NEW c \in Cmd, Submit(t, c) \/ Invoke(t, c) PROVE ThreadInv'
  BY <1>1 DEF Submit, Invoke
<1>2. CASE GuiStep
  BY <1>2 DEF GuiStep, Start, Spawn, StopNeverStarted, StopAndJoin, JoinReturns, SetLogDir
<1>3. CASE DriverStep
  BY <1>3 DEF DriverStep, LoopTest, Switched, SwitchFails, Drain, Poll, BeginLine, OfferLine,
     LineTaken, LineEnds, LinesDone, TicksDone, IterationFails, CloseGate, ThreadEnds
<1>4. CASE UNCHANGED vars
  BY <1>4 DEF vars
<1> QED BY <1>1, <1>2, <1>3, <1>4 DEF Next

LEMMA InboxStep == TypeOK /\ InboxInv /\ [Next]_vars => InboxInv'
<1> SUFFICES ASSUME TypeOK, InboxInv, [Next]_vars PROVE InboxInv'
  OBVIOUS
<1> USE PlacesApart
<1>1. ASSUME NEW t \in Thread, NEW c \in Cmd, Submit(t, c) PROVE InboxInv'
  <2>1. CASE accepting
    <3>1. /\ Len(inbox') = Len(inbox) + 1 /\ inbox'[Len(inbox) + 1] = c
          /\ \A i \in 1..Len(inbox) : inbox'[i] = inbox[i] /\ inbox[i] \in Cmd
          /\ Len(inbox) \in Nat
      BY <1>1, <2>1, AppendFacts DEF Submit, TypeOK
    <3>2. where[c] = "new" /\ where' = [where EXCEPT ![c] = "queued"]
      BY <1>1, <2>1 DEF Submit
    <3>3. \A i \in 1..Len(inbox) : inbox[i] # c
      BY <3>2 DEF InboxInv
    <3>4. \A i \in 1..Len(inbox') : where'[inbox'[i]] = "queued"
      BY <3>1, <3>2, <3>3 DEF InboxInv, TypeOK
    <3>5. \A i, j \in 1..Len(inbox') : inbox'[i] = inbox'[j] => i = j
      BY <3>1, <3>3 DEF InboxInv
    <3>6. ASSUME NEW d \in Cmd, where'[d] = "queued"
          PROVE  \E i \in 1..Len(inbox') : inbox'[i] = d
      <4>1. CASE d = c
        BY <4>1, <3>1
      <4>2. CASE d # c
        BY <4>2, <3>1, <3>2, <3>6 DEF InboxInv, TypeOK
      <4> QED BY <4>1, <4>2
    <3> QED BY <3>4, <3>5, <3>6 DEF InboxInv
  <2>2. CASE ~accepting
    BY <1>1, <2>2 DEF Submit, InboxInv, TypeOK
  <2> QED BY <2>1, <2>2
<1>2. ASSUME NEW t \in Thread, NEW c \in Cmd, Invoke(t, c) PROVE InboxInv'
  BY <1>2 DEF Invoke, InboxInv, TypeOK
<1>3. CASE Drain
  <2>1. /\ Head(inbox) \in Cmd /\ Head(inbox) = inbox[1] /\ Len(inbox) \in Nat \ {0}
        /\ Len(inbox') = Len(inbox) - 1
        /\ \A i \in 1..(Len(inbox) - 1) : inbox'[i] = inbox[i + 1]
    BY <1>3, TailFacts DEF Drain, TypeOK
  <2>2. where' = [where EXCEPT ![inbox[1]] = Driver]
    BY <1>3, <2>1 DEF Drain
  <2>3. \A i \in 1..(Len(inbox) - 1) : inbox[i + 1] # inbox[1] /\ inbox[i + 1] \in Cmd
    BY <2>1 DEF InboxInv, TypeOK
  <2>4. \A i \in 1..Len(inbox') : where'[inbox'[i]] = "queued"
    <3>1. ASSUME NEW i \in 1..Len(inbox') PROVE where'[inbox'[i]] = "queued"
      <4>1. i \in 1..(Len(inbox) - 1) /\ i + 1 \in 1..Len(inbox)
        BY <2>1
      <4>2. inbox'[i] = inbox[i + 1] /\ where[inbox[i + 1]] = "queued"
        BY <4>1, <2>1 DEF InboxInv
      <4> QED BY <4>1, <4>2, <2>2, <2>3 DEF TypeOK
    <3> QED BY <3>1
  <2>5. \A i, j \in 1..Len(inbox') : inbox'[i] = inbox'[j] => i = j
    BY <2>1 DEF InboxInv
  <2>6. ASSUME NEW d \in Cmd, where'[d] = "queued"
        PROVE  \E i \in 1..Len(inbox') : inbox'[i] = d
    <3>1. d # inbox[1] /\ where[d] = "queued"
      BY <2>1, <2>2, <2>6 DEF TypeOK
    <3>2. PICK k \in 1..Len(inbox) : inbox[k] = d
      BY <3>1 DEF InboxInv
    <3>3. k - 1 \in 1..(Len(inbox) - 1)
      BY <3>1, <3>2, <2>1
    <3>4. inbox'[k - 1] = inbox[(k - 1) + 1] /\ (k - 1) + 1 = k
      BY <3>3, <2>1
    <3> QED BY <3>2, <3>3, <3>4, <2>1
  <2> QED BY <2>4, <2>5, <2>6 DEF InboxInv
<1>4. CASE StopNeverStarted
  <2>1. \A c \in Cmd : where'[c] # "queued"
    BY <1>4 DEF StopNeverStarted, TypeOK
  <2>2. Len(inbox') = 0
    BY <1>4 DEF StopNeverStarted
  <2> QED BY <2>1, <2>2 DEF InboxInv
<1>5. ASSUME UNCHANGED <<inbox, where>> PROVE InboxInv'
  BY <1>5 DEF InboxInv
<1> USE DEF gate, Goto
<1>6. CASE Start \/ Spawn \/ StopAndJoin \/ JoinReturns \/ SetLogDir
  BY <1>6, <1>5 DEF Start, Spawn, StopAndJoin, JoinReturns, SetLogDir
<1>7. CASE LoopTest \/ Switched \/ SwitchFails \/ Poll \/ BeginLine \/ OfferLine \/ LineTaken
  BY <1>7, <1>5 DEF LoopTest, Switched, SwitchFails, Poll, BeginLine, OfferLine, LineTaken
<1>8. CASE LineEnds \/ LinesDone \/ TicksDone \/ IterationFails \/ CloseGate \/ ThreadEnds
  BY <1>8, <1>5 DEF LineEnds, LinesDone, TicksDone, IterationFails, CloseGate, ThreadEnds
<1>9. CASE UNCHANGED vars
  BY <1>9, <1>5 DEF vars
<1> QED BY <1>1, <1>2, <1>3, <1>4, <1>6, <1>7, <1>8, <1>9 DEF Next, DriverStep, GuiStep

LEMMA GateStep ==
  ASSUME QuietStart
  PROVE  TypeOK /\ GateInv /\ ThreadInv /\ InboxInv /\ [Next]_vars => GateInv'
<1> SUFFICES ASSUME TypeOK, GateInv, ThreadInv, InboxInv, [Next]_vars PROVE GateInv'
  OBVIOUS
<1> USE PlacesApart DEF gate, loop, tail, walk, Goto
<1>0. \A t \in Caller : t \in Thread /\ t # Driver
  BY DEF Thread
<1>1. ASSUME NEW t \in Thread, NEW c \in Cmd, Submit(t, c) PROVE GateInv'
  <2>1. CASE accepting
    <3>1. \A u \in Thread : Hand(u)' \subseteq Hand(u)
      BY <1>1, <2>1 DEF Submit, Hand, TypeOK
    <3>2. UNCHANGED <<accepting, at, gui>>
      BY <1>1 DEF Submit
    <3> QED BY <1>0, <2>1, <3>1, <3>2 DEF GateInv
  <2>2. CASE ~accepting
    <3>1. t # Driver
      BY <1>1, <2>2 DEF Submit, MaySubmit, GateInv
    <3>2. Hand(Driver)' = Hand(Driver)
      BY <1>1, <2>2, <3>1 DEF Submit, Hand, TypeOK
    <3>3. UNCHANGED <<accepting, inbox, at, gui>>
      BY <1>1, <2>2 DEF Submit
    <3> QED BY <2>2, <3>2, <3>3 DEF GateInv
  <2> QED BY <2>1, <2>2
<1>2. ASSUME NEW t \in Thread, NEW c \in Cmd, Invoke(t, c) PROVE GateInv'
  <2>1. \A u \in Thread : Hand(u)' \subseteq Hand(u)
    BY <1>2 DEF Invoke, Hand, TypeOK
  <2>2. UNCHANGED <<accepting, inbox, at, gui>>
    BY <1>2 DEF Invoke
  <2> QED BY <1>0, <2>1, <2>2 DEF GateInv
<1>3. CASE Drain
  <2>1. accepting /\ UNCHANGED <<accepting, at, gui>>
    BY <1>3 DEF Drain, GateInv
  <2>2. \A u \in Caller : Hand(u)' \subseteq Hand(u)
    BY <1>0, <1>3, TailFacts DEF Drain, Hand, TypeOK
  <2>3. at \in {"drain", "closing"}
    BY <1>3 DEF Drain
  <2> QED BY <2>1, <2>2, <2>3 DEF GateInv
<1>4. CASE StopNeverStarted
  <2>1. at = "off" /\ gui = "idle" /\ UNCHANGED <<at, gui>> /\ accepting' = FALSE /\ inbox' = <<>>
    BY <1>4 DEF StopNeverStarted, ThreadInv, TypeOK
  <2>2. inbox = <<>> /\ Hand(Driver) = {}
    BY <2>1 DEF GateInv
  <2>3. Hand(Driver)' = {}
    BY <1>4, <2>2 DEF StopNeverStarted, Hand, Thread
  <2> QED BY <2>1, <2>3 DEF GateInv
<1>5. CASE Start
  <2>1. \A t \in Caller : Hand(t)' = {}
    BY <1>5 DEF Start, Hand
  <2>2. at = "off" /\ gui = "idle" /\ ~accepting
    BY <1>5 DEF Start, ThreadInv, GateInv, TypeOK
  <2>3. Hand(Driver)' = {}
    BY <1>5, <2>2 DEF Start, Hand, GateInv
  <2> QED BY <1>5, <2>1, <2>3 DEF Start, GateInv
<1>6. ASSUME UNCHANGED where PROVE \A t \in Thread : Hand(t)' = Hand(t)
  BY <1>6 DEF Hand
<1>7. CASE CloseGate
  <2>1. \A t \in Thread : Hand(t)' = Hand(t)
    BY <1>7, <1>6 DEF CloseGate
  <2>2. /\ at = "closing" /\ at' = "exiting" /\ accepting' = FALSE /\ gui' = gui
        /\ inbox' = <<>> /\ Hand(Driver)' = {}
    BY <1>7, <2>1 DEF CloseGate
  <2>3. gui # "starting"
    BY <2>2 DEF ThreadInv
  <2> QED BY <2>2, <2>3 DEF GateInv
<1>8. CASE Spawn \/ StopAndJoin \/ JoinReturns \/ SetLogDir
  <2>1. UNCHANGED <<accepting, inbox>> /\ \A t \in Thread : Hand(t)' = Hand(t)
    BY <1>8, <1>6 DEF Spawn, StopAndJoin, JoinReturns, SetLogDir
  <2>2. Spawn => at' = "test" /\ gui' = "idle" /\ accepting /\ at = "off"
    BY DEF Spawn, GateInv, ThreadInv
  <2>3. StopAndJoin \/ JoinReturns \/ SetLogDir => at' = at /\ gui # "starting" /\ gui' # "starting"
    BY DEF StopAndJoin, JoinReturns, SetLogDir
  <2> QED BY <1>0, <1>8, <2>1, <2>2, <2>3 DEF GateInv
<1>9. CASE \/ LoopTest \/ Switched \/ SwitchFails \/ Poll \/ BeginLine \/ OfferLine \/ LineTaken
            \/ LineEnds \/ LinesDone \/ TicksDone \/ IterationFails
  <2>1. UNCHANGED <<accepting, inbox, gui>> /\ \A t \in Thread : Hand(t)' = Hand(t)
    BY <1>9, <1>6 DEF LoopTest, Switched, SwitchFails, Poll, BeginLine, OfferLine, LineTaken,
       LineEnds, LinesDone, TicksDone, IterationFails
  <2>2. at \notin {"off", "exiting"} /\ at' \notin {"off", "exiting"}
    BY <1>9 DEF LoopTest, Switched, SwitchFails, Poll, BeginLine, OfferLine, LineTaken,
       LineEnds, LinesDone, TicksDone, IterationFails
  <2>3. at \in {"drain", "closing"} => Hand(Driver) = {} \/ at' = at
    BY <1>9 DEF LoopTest, Switched, SwitchFails, Poll, BeginLine, OfferLine, LineTaken,
       LineEnds, LinesDone, TicksDone, IterationFails
  <2> QED BY <1>0, <2>1, <2>2, <2>3 DEF GateInv
<1>10. CASE ThreadEnds
  <2>1. /\ UNCHANGED <<accepting, inbox, gui>> /\ at = "exiting" /\ at' = "off"
        /\ \A t \in Thread : Hand(t)' = Hand(t)
    BY <1>10, <1>6 DEF ThreadEnds
  <2> QED BY <1>0, <2>1 DEF GateInv
<1>11. CASE UNCHANGED vars
  BY <1>0, <1>6, <1>11 DEF vars, GateInv
<1> QED BY <1>1, <1>2, <1>3, <1>4, <1>5, <1>7, <1>8, <1>9, <1>10, <1>11
    DEF Next, DriverStep, GuiStep

\* While a line is offered nobody holds a change, so the chain stands still.
LEMMA NobodyChangesWhileOffering ==
  ASSUME GateInv, at = "offer", NEW t \in Thread, NEW c \in Cmd
  PROVE  ~Invoke(t, c)
<1>1. Hand(Driver) = {} /\ \A u \in Caller : Hand(u) = {}
  BY DEF GateInv
<1> QED BY <1>1 DEF Invoke, Hand, Thread

LEMMA SkipStep == TypeOK /\ GateInv /\ NoParserSkipped /\ [Next]_vars => NoParserSkipped'
<1> SUFFICES ASSUME TypeOK, GateInv, NoParserSkipped, [Next]_vars, at' = "offer"
             PROVE  owed' \subseteq {chain'[k] : k \in cursor'..Len(chain')}
  BY DEF NoParserSkipped
<1> USE DEF gate, loop, tail, walk, Goto
<1>1. ASSUME at = "offer", UNCHANGED <<chain, owed, cursor>>
      PROVE  owed' \subseteq {chain'[k] : k \in cursor'..Len(chain')}
  BY <1>1 DEF NoParserSkipped
<1>2. ASSUME NEW t \in Thread, NEW c \in Cmd, Submit(t, c)
      PROVE  owed' \subseteq {chain'[k] : k \in cursor'..Len(chain')}
  BY <1>1, <1>2 DEF Submit
<1>3. ASSUME NEW t \in Thread, NEW c \in Cmd, Invoke(t, c) PROVE FALSE
  <2>1. at = "offer"
    BY <1>3 DEF Invoke
  <2> QED BY <1>3, <2>1, NobodyChangesWhileOffering
<1>4. CASE BeginLine
  BY <1>4 DEF BeginLine
<1>5. CASE OfferLine
  <2>1. /\ at = "offer" /\ cursor <= Len(chain) /\ cursor \in Nat \ {0} /\ Len(chain) \in Nat
        /\ owed' = owed \ {chain[cursor]} /\ cursor' = cursor + 1 /\ chain' = chain
    BY <1>5 DEF OfferLine, TypeOK
  <2>2. ASSUME NEW p \in owed' PROVE p \in {chain'[k] : k \in cursor'..Len(chain')}
    <3>1. PICK k \in cursor..Len(chain) : chain[k] = p
      BY <2>1, <2>2 DEF NoParserSkipped
    <3>2. k # cursor
      BY <2>1, <2>2, <3>1
    <3>3. k \in (cursor + 1)..Len(chain)
      BY <2>1, <3>1, <3>2
    <3> QED BY <2>1, <3>1, <3>3
  <2> QED BY <2>2
<1>6. CASE \/ LoopTest \/ Switched \/ SwitchFails \/ Drain \/ Poll \/ LineTaken \/ LineEnds
            \/ LinesDone \/ TicksDone \/ IterationFails \/ CloseGate \/ ThreadEnds
  BY <1>6 DEF LoopTest, Switched, SwitchFails, Drain, Poll, LineTaken, LineEnds, LinesDone,
     TicksDone, IterationFails, CloseGate, ThreadEnds
<1>7. CASE GuiStep
  BY <1>1, <1>7 DEF GuiStep, Start, Spawn, StopNeverStarted, StopAndJoin, JoinReturns, SetLogDir
<1>8. CASE UNCHANGED vars
  BY <1>1, <1>8 DEF vars
<1> QED BY <1>2, <1>3, <1>4, <1>5, <1>6, <1>7, <1>8 DEF Next, DriverStep

LEMMA Inductive == ASSUME QuietStart PROVE Spec => []IInv
<1>1. IInv /\ [Next]_vars => IInv'
  BY TypeStep, ThreadStep, InboxStep, GateStep, SkipStep DEF IInv
<1> QED BY IInvInit, <1>1, PTL DEF Spec

-----------------------------------------------------------------------------
(* What a reader should know, when start() finds no change in flight        *)

\* No thread other than the driver holds a change while the loop runs.
THEOREM NoCallerBesideDriver == ASSUME QuietStart PROVE Spec => []CallerMeansNoDriver
<1>1. IInv => CallerMeansNoDriver
  BY DEF IInv, GateInv, CallerMeansNoDriver
<1> QED BY <1>1, Inductive, PTL

\* No change is left behind a gate that nobody will open or drain again.
THEOREM InboxNeverStranded == ASSUME QuietStart PROVE Spec => []NothingStranded
<1>1. IInv => NothingStranded
  BY DEF IInv, GateInv, NothingStranded
<1> QED BY <1>1, Inductive, PTL

\* A line no parser takes is offered to every parser registered when it came.
THEOREM EveryParserOffered == ASSUME QuietStart PROVE Spec => []NoParserSkipped
<1>1. IInv => NoParserSkipped
  BY DEF IInv
<1> QED BY <1>1, Inductive, PTL

-----------------------------------------------------------------------------
(* The action properties                                                   *)

LEMMA QueuedLeaves ==
  ASSUME IInv, [Next]_vars, NEW c \in Cmd, where[c] = "queued", where'[c] # "queued"
  PROVE  c = Head(inbox) /\ Hand(Driver) = {} /\ Drain
<1> USE PlacesApart DEF gate, loop, tail, walk, Goto, IInv
<1>1. ASSUME NEW t \in Thread, NEW d \in Cmd, Submit(t, d) PROVE FALSE
  BY <1>1 DEF Submit, TypeOK
<1>2. ASSUME NEW t \in Thread, NEW d \in Cmd, Invoke(t, d) PROVE FALSE
  BY <1>2 DEF Invoke, TypeOK
<1>3. CASE Drain
  <2>1. c = Head(inbox)
    BY <1>3, TailFacts DEF Drain, TypeOK
  <2> QED BY <1>3, <2>1 DEF Drain
<1>4. ASSUME StopNeverStarted PROVE FALSE
  <2>1. at = "off" /\ gui = "idle"
    BY <1>4 DEF StopNeverStarted, ThreadInv
  <2>2. Len(inbox) = 0
    BY <2>1 DEF GateInv
  <2> QED BY <2>2 DEF InboxInv
<1>5. ASSUME Start \/ Spawn \/ StopAndJoin \/ JoinReturns \/ SetLogDir PROVE FALSE
  BY <1>5 DEF Start, Spawn, StopAndJoin, JoinReturns, SetLogDir
<1>6. ASSUME \/ LoopTest \/ Switched \/ SwitchFails \/ Poll \/ BeginLine \/ OfferLine
              \/ LineTaken \/ LineEnds \/ LinesDone \/ TicksDone \/ IterationFails
              \/ CloseGate \/ ThreadEnds
      PROVE  FALSE
  BY <1>6 DEF LoopTest, Switched, SwitchFails, Poll, BeginLine, OfferLine, LineTaken,
     LineEnds, LinesDone, TicksDone, IterationFails, CloseGate, ThreadEnds
<1>7. ASSUME UNCHANGED vars PROVE FALSE
  BY <1>7 DEF vars
<1> QED BY <1>1, <1>2, <1>3, <1>4, <1>5, <1>6, <1>7 DEF Next, DriverStep, GuiStep

\* Queued changes leave the queue in order, each after the one before it ran.
THEOREM ChangesInOrder == ASSUME QuietStart PROVE Spec => QueueOrder
<1>1. IInv /\ [Next]_vars =>
      [\A c \in Cmd : where[c] = "queued" /\ where'[c] # "queued"
         => c = Head(inbox) /\ Hand(Driver) = {}]_vars
  BY QueuedLeaves
<1> QED BY <1>1, Inductive, PTL DEF Spec, QueueOrder

-----------------------------------------------------------------------------
(* The loop implements CommandInbox                                        *)

LEMMA PromiseInit == Init => Promise!Init
BY PlacesApart DEF Init, Promise!Init, Standing

LEMMA PromiseStep ==
  ASSUME IInv, [Next]_vars
  PROVE  [Promise!Next]_(Promise!vars)
<1> USE PlacesApart DEF gate, loop, tail, walk, Goto
<1>1. TypeOK /\ GateInv /\ ThreadInv /\ InboxInv
  BY DEF IInv
<1>2. ASSUME NEW t \in Thread, NEW c \in Cmd, Submit(t, c) PROVE Promise!Accept(c)
  <2>1. Standing[c] = "new" /\ at' = at
    BY <1>2 DEF Submit, Standing
  <2>2. where' \in {[where EXCEPT ![c] = "queued"], [where EXCEPT ![c] = t]}
    BY <1>2 DEF Submit
  <2>3. Standing' = [Standing EXCEPT ![c] = "accepted"]
    BY <1>1, <2>2 DEF Standing, TypeOK
  <2> QED BY <2>1, <2>3 DEF Promise!Accept
<1>3. ASSUME NEW t \in Thread, NEW c \in Cmd, Invoke(t, c) PROVE Promise!ApplyOnce(c)
  <2>1. Standing[c] = "accepted" /\ at' = at
    BY <1>3 DEF Invoke, Standing
  <2>2. at # "offer"
    BY <1>1, <1>3, NobodyChangesWhileOffering
  <2>3. Standing' = [Standing EXCEPT ![c] = "applied"]
    BY <1>1, <1>3 DEF Invoke, Standing, TypeOK
  <2> QED BY <2>1, <2>2, <2>3 DEF Promise!ApplyOnce
<1>4. CASE Drain
  <2>1. Head(inbox) \in Cmd /\ where[Head(inbox)] = "queued"
    BY <1>1, <1>4, TailFacts DEF Drain, InboxInv, TypeOK
  <2>2. Standing' = Standing
    BY <1>1, <1>4, <2>1 DEF Drain, Standing, TypeOK
  <2>3. at' = at
    BY <1>4 DEF Drain
  <2> QED BY <2>2, <2>3 DEF Promise!vars
<1>5. CASE StopNeverStarted
  <2>1. Standing' = Standing
    BY <1>5 DEF StopNeverStarted, Standing
  <2>2. at' = at
    BY <1>5 DEF StopNeverStarted
  <2> QED BY <2>1, <2>2 DEF Promise!vars
<1>6. ASSUME UNCHANGED where PROVE [Promise!Next]_(Promise!vars)
  <2>1. Standing' = Standing
    BY <1>6 DEF Standing
  <2>2. CASE (at = "offer") = (at' = "offer")
    BY <2>1, <2>2 DEF Promise!vars
  <2>3. CASE (at = "offer") # (at' = "offer")
    BY <2>1, <2>3 DEF Promise!Next, Promise!Walk
  <2> QED BY <2>2, <2>3
<1>7. CASE Start \/ Spawn \/ StopAndJoin \/ JoinReturns \/ SetLogDir
  BY <1>6, <1>7 DEF Start, Spawn, StopAndJoin, JoinReturns, SetLogDir
<1>8. CASE \/ LoopTest \/ Switched \/ SwitchFails \/ Poll \/ BeginLine \/ OfferLine \/ LineTaken
            \/ LineEnds \/ LinesDone \/ TicksDone \/ IterationFails \/ CloseGate \/ ThreadEnds
  BY <1>6, <1>8 DEF LoopTest, Switched, SwitchFails, Poll, BeginLine, OfferLine, LineTaken,
     LineEnds, LinesDone, TicksDone, IterationFails, CloseGate, ThreadEnds
<1>9. CASE UNCHANGED vars
  BY <1>6, <1>9 DEF vars
<1> QED
  BY <1>2, <1>3, <1>4, <1>5, <1>7, <1>8, <1>9 DEF Next, DriverStep, GuiStep, Promise!Next

\* Every behaviour of the loop is one CommandInbox allows: a change is applied
\* at most once, only after it was submitted, and never while a line is walked.
THEOREM LoopKeepsPromise ==
  ASSUME QuietStart
  PROVE  Spec => Promise!Init /\ [][Promise!Next]_(Promise!vars)
BY PromiseInit, PromiseStep, Inductive, PTL DEF Spec
=============================================================================
