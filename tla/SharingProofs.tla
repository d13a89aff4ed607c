--------------------------- MODULE SharingProofs ----------------------------
(***************************************************************************)
(* What holds of the sharing components for every number of servers,        *)
(* sockets, requests and mode changes.  SharingGate: a dropped client stops *)
(* new requests because the worker asks the gate after the drop, so only    *)
(* what it holds is still to go out.  HubClient: set_server stores the      *)
(* server before it looks for the transport to close, and the client thread *)
(* joins before it looks at the server: one of them notices.                *)
(* LocationServer: whoever joins a name adds a connection with the zone, whoever *)
(* leaves one takes every zone of it along.                                 *)
(***************************************************************************)
EXTENDS HubClient, SharingGate, LocationServer, TLAPS, SequenceTheorems, FiniteSetTheorems

-----------------------------------------------------------------------------
(* The gate                                                                 *)

\* What is late already, and what can still become late: one request the worker
\* has in hand, one result tick is about to apply.
InHand == IF worker = "query" THEN 1 ELSE 0
Admitted == IF tick = "apply" THEN 1 ELSE 0

EscapeInv ==
  /\ GateTypeOK
  /\ client => late.fetched = 0 /\ late.applied = 0
  /\ late.fetched + InHand <= 1
  /\ late.applied + Admitted <= 1

LEMMA ModeStep ==
  ASSUME ModeTypeOK, \/ \E m \in Mode : SetMode(m)
                     \/ DropClient
                     \/ UNCHANGED modeVars
  PROVE  ModeTypeOK' /\ (client' => client)
<1>1. ASSUME NEW m \in Mode, SetMode(m) PROVE ModeTypeOK' /\ (client' => client)
  <2>1. applying' \in BOOLEAN
    BY <1>1, Zenon DEF SetMode
  <2> QED BY <1>1, <2>1 DEF ModeTypeOK, SetMode
<1>2. CASE DropClient
  BY <1>2 DEF ModeTypeOK, DropClient
<1>3. CASE UNCHANGED modeVars
  BY <1>3 DEF ModeTypeOK, modeVars
<1> QED BY <1>1, <1>2, <1>3

LEMMA TakeOne ==
  ASSUME NEW S, NEW s \in Seq(S), s # <<>>
  PROVE  Head(s) \in S /\ Tail(s) \in Seq(S)
BY HeadTailProperties

LEMMA PutOne ==
  ASSUME NEW S, NEW s \in Seq(S), NEW e \in S
  PROVE  Append(s, e) \in Seq(S)
BY AppendProperties

LEMMA EscapeInit == GateInit => EscapeInv
<1> SUFFICES ASSUME GateInit PROVE EscapeInv
  OBVIOUS
<1>1. client \in BOOLEAN /\ applying \in BOOLEAN /\ synced \in BOOLEAN
  BY Zenon DEF GateInit, ModeInit
<1>a. /\ mode \in Mode /\ launch \in Mode
      /\ late = [fetched |-> 0, applied |-> 0] /\ inbox = <<>> /\ queue = <<>>
      /\ worker = "idle" /\ tick = "rest" /\ upload = "none"
  BY Zenon DEF GateInit, ModeInit
<1>b. late \in [fetched : Nat, applied : Nat] /\ inbox \in Seq(Item) /\ queue \in Seq({"query", "upload"})
  BY <1>a
<1>2. GateTypeOK
  BY <1>1, <1>a, <1>b DEF GateTypeOK, ModeTypeOK
<1> QED BY <1>2 DEF GateInit, EscapeInv, InHand, Admitted

LEMMA EscapeStep == EscapeInv /\ [GateNext]_gateVars => EscapeInv'
<1> SUFFICES ASSUME EscapeInv, [GateNext]_gateVars PROVE EscapeInv'
  OBVIOUS
<1>0. /\ ModeTypeOK /\ synced \in BOOLEAN /\ inbox \in Seq(Item) /\ queue \in Seq({"query", "upload"})
      /\ worker \in {"idle", "query", "upload"} /\ tick \in {"rest", "sync", "drain", "apply"}
      /\ upload \in {"none", "sent", "done", "failed"} /\ late \in [fetched : Nat, applied : Nat]
      /\ client \in BOOLEAN
  BY DEF EscapeInv, GateTypeOK, ModeTypeOK
<1>1. ASSUME UNCHANGED <<synced, inbox, queue, worker, tick, upload, late>>,
             (\E m \in Mode : SetMode(m)) \/ DropClient \/ UNCHANGED modeVars
      PROVE  EscapeInv'
  BY <1>0, <1>1, ModeStep DEF EscapeInv, GateTypeOK, InHand, Admitted
<1>2. CASE ChangesMode
  BY <1>1, <1>2 DEF ChangesMode
<1>3. ASSUME UNCHANGED <<modeVars, worker, tick, late>>, synced' \in BOOLEAN,
             inbox' \in Seq(Item), queue' \in Seq({"query", "upload"}),
             upload' \in {"none", "sent", "done", "failed"}
      PROVE  EscapeInv'
  BY <1>0, <1>3 DEF EscapeInv, GateTypeOK, ModeTypeOK, InHand, Admitted, modeVars
<1>4. CASE SwitchServer
  BY <1>0, <1>3, <1>4 DEF SwitchServer
<1>5. CASE SubmitQuery
  <2>1. queue' \in Seq({"query", "upload"})
    BY <1>0, <1>5, PutOne DEF SubmitQuery
  <2> QED BY <1>0, <1>3, <1>5, <2>1 DEF SubmitQuery
<1>6. CASE SubmitUpload
  <2>1. queue' \in Seq({"query", "upload"})
    BY <1>0, <1>6, PutOne DEF SubmitUpload
  <2> QED BY <1>0, <1>3, <1>6, <2>1 DEF SubmitUpload
<1>7. CASE FrameArrives
  <2>1. inbox' \in Seq(Item)
    BY <1>0, <1>7, PutOne DEF FrameArrives, Item
  <2> QED BY <1>0, <1>3, <1>7, <2>1 DEF FrameArrives
<1>8. CASE WorkerTakes
  <2>1. Head(queue) \in {"query", "upload"} /\ queue' \in Seq({"query", "upload"})
    BY <1>0, <1>8, TakeOne DEF WorkerTakes
  <2>2. /\ UNCHANGED <<modeVars, synced, tick, upload, late>> /\ worker = "idle"
        /\ \/ (Head(queue) = "upload" \/ RestAllowed) /\ worker' = Head(queue) /\ inbox' = inbox
           \/ inbox' = Append(inbox, "dropped") /\ worker' = worker
    BY <1>8 DEF WorkerTakes
  <2>3. inbox' \in Seq(Item)
    <3>1. inbox \in Seq(Item) /\ "dropped" \in Item
      BY <1>0 DEF Item
    <3> QED BY <2>2, <3>1, PutOne
  <2>4. late.fetched + InHand' <= 1
    <3>1. worker' = "query" => late.fetched = 0
      BY <2>1, <2>2 DEF RestAllowed, EscapeInv
    <3> QED BY <1>0, <3>1 DEF EscapeInv, InHand
  <2>5. GateTypeOK'
    BY <1>0, <2>1, <2>2, <2>3 DEF GateTypeOK, ModeTypeOK, modeVars
  <2> QED BY <2>2, <2>4, <2>5 DEF EscapeInv, Admitted, modeVars
<1>9. ASSUME worker # "idle", worker' = "idle", CountFetch, UNCHANGED <<modeVars, synced, queue, tick>>,
             inbox' \in Seq(Item), upload' \in {"none", "sent", "done", "failed"}
      PROVE  EscapeInv'
  <2>1. /\ late' \in [fetched : Nat, applied : Nat] /\ late'.applied = late.applied
        /\ late'.fetched = late.fetched + (IF worker = "query" /\ ~client THEN 1 ELSE 0)
    BY <1>0, <1>9 DEF CountFetch
  <2>2. late'.fetched + InHand' <= 1
    BY <1>0, <1>9, <2>1 DEF EscapeInv, InHand
  <2>3. GateTypeOK'
    BY <1>0, <1>9, <2>1 DEF GateTypeOK, ModeTypeOK, modeVars
  <2>4. client' => late'.fetched = 0 /\ late'.applied = 0
    BY <1>0, <1>9, <2>1 DEF EscapeInv, modeVars
  <2> QED BY <1>9, <2>1, <2>2, <2>3, <2>4 DEF EscapeInv, Admitted
<1>10. CASE WorkerFetches
  <2>1. worker \in Item
    BY <1>0, <1>10 DEF WorkerFetches, Item
  <2>2. inbox' \in Seq(Item)
    BY <1>0, <1>10, <2>1, PutOne DEF WorkerFetches
  <2> QED BY <1>0, <1>9, <1>10, <2>2 DEF WorkerFetches
<1>11. CASE WorkerFails
  BY <1>0, <1>9, <1>11 DEF WorkerFails
<1>12. ASSUME tick' \in {"rest", "sync", "drain", "apply"}, tick' = "apply" => client /\ tick # "apply",
              UNCHANGED <<modeVars, queue, worker, late>>, synced' \in BOOLEAN, inbox' \in Seq(Item),
              upload' \in {"none", "sent", "done", "failed"}
       PROVE  EscapeInv'
  <2>1. late.applied + Admitted' <= 1
    BY <1>0, <1>12 DEF EscapeInv, Admitted
  <2>2. GateTypeOK'
    BY <1>0, <1>12 DEF GateTypeOK, ModeTypeOK, modeVars
  <2> QED BY <1>12, <2>1, <2>2 DEF EscapeInv, InHand, modeVars
<1>13. CASE TickBegins
  BY <1>0, <1>12, <1>13 DEF TickBegins
<1>14. CASE SyncServer
  BY <1>0, <1>12, <1>14 DEF SyncServer
<1>15. CASE Dispatch
  <2>1. Head(inbox) \in Item /\ inbox' \in Seq(Item)
    BY <1>0, <1>15, TakeOne DEF Dispatch
  <2>2. tick' = "apply" => client /\ tick # "apply"
    BY <1>15 DEF Dispatch, RestAllowed
  <2> QED BY <1>0, <1>12, <1>15, <2>1, <2>2 DEF Dispatch
<1>16. CASE ApplyResult
  <2>1. /\ late' \in [fetched : Nat, applied : Nat] /\ late'.fetched = late.fetched
        /\ late'.applied = late.applied + (IF client THEN 0 ELSE 1)
    BY <1>0, <1>16 DEF ApplyResult
  <2>2. late'.applied + Admitted' <= 1
    BY <1>0, <1>16, <2>1 DEF ApplyResult, EscapeInv, Admitted
  <2>3. GateTypeOK'
    BY <1>0, <1>16, <2>1 DEF ApplyResult, GateTypeOK, ModeTypeOK, modeVars
  <2>4. client' => late'.fetched = 0 /\ late'.applied = 0
    BY <1>0, <1>16, <2>1 DEF ApplyResult, EscapeInv, modeVars
  <2> QED BY <1>16, <2>1, <2>2, <2>3, <2>4 DEF ApplyResult, EscapeInv, InHand
<1>17. CASE TickEnds
  BY <1>0, <1>12, <1>17 DEF TickEnds
<1>18. CASE UNCHANGED gateVars
  BY <1>1, <1>18 DEF gateVars
<1> QED BY <1>2, <1>4, <1>5, <1>6, <1>7, <1>8, <1>10, <1>11, <1>13, <1>14, <1>15, <1>16, <1>17, <1>18
        DEF GateNext, WorkerStep, TickStep

LEMMA EscapeHolds == GateSpec => []EscapeInv
BY EscapeInit, EscapeStep, PTL DEF GateSpec

\* Type correctness of the gate.
THEOREM GateTypes == GateSpec => []GateTypeOK
<1>1. EscapeInv => GateTypeOK
  BY DEF EscapeInv
<1> QED BY <1>1, EscapeHolds, PTL

\* sharing_gated_submit, apply_mode: once the client was dropped at most the one
\* request in the worker's hand goes out and the one result let through is applied.
THEOREM GateOneEscapes == GateSpec => []OneEscapes
<1>1. EscapeInv => OneEscapes
  BY DEF EscapeInv, OneEscapes, GateTypeOK, InHand, Admitted
<1> QED BY <1>1, EscapeHolds, PTL

-----------------------------------------------------------------------------
(* The hub client                                                           *)

\* A thread with a session holds the transport that set_server will find.
SessionInv ==
  /\ HubTypeOK
  /\ pc \in {"joining", "holding"} => held \in Sock /\ transport = held
  /\ driver.do \in {"check", "send"} => driver.sock \in Sock
  /\ StaleGroupIsClosing

LEMMA SessionInit == HubInit => SessionInv
<1> USE HubAssumption
<1>a. HubInit => connected \in BOOLEAN /\ closed \in BOOLEAN /\ stop \in BOOLEAN /\ wake \in BOOLEAN
  BY Zenon DEF HubInit
<1>b. HubInit =>
        /\ sock \in [Sock -> {"open", "closed"}]
        /\ driver \in [do : {"rest", "wake", "close", "check", "send"}, sock : Sock \cup {NoSock}]
        /\ changes \in 0..MaxChanges /\ sends \in 0..MaxSends /\ faults \in 0..MaxFaults
  BY DEF HubInit, Resting
<1>1. HubInit => HubTypeOK
  BY <1>a, <1>b DEF HubInit, HubTypeOK, Pc
<1> QED BY <1>1 DEF HubInit, SessionInv, StaleGroupIsClosing, Resting

LEMMA ClosingTypes ==
  ASSUME HubTypeOK
  PROVE  /\ \A who \in Closer, s \in Sock : NotifyClose(who, s) =>
              /\ notified' = notified \cup {s} /\ closing' \subseteq Closing
         /\ \A c \in closing, stage \in Stage : Then(c, stage) \subseteq Closing
<1>1. ASSUME NEW who \in Closer, NEW s \in Sock, NotifyClose(who, s)
      PROVE  notified' = notified \cup {s} /\ closing' \subseteq Closing
  <2>1. [by |-> who, of |-> s, next |-> "socket"] \in Closing
    BY DEF Closing, Stage
  <2> QED BY <1>1, <2>1 DEF NotifyClose, HubTypeOK
<1>2. ASSUME NEW c \in closing, NEW stage \in Stage
      PROVE  Then(c, stage) \subseteq Closing
  BY DEF Then, HubTypeOK, Closing
<1> QED BY <1>1, <1>2

\* A step that keeps the session, or ends it, and unnotices nobody.
LEMMA SessionKept ==
  ASSUME SessionInv, HubTypeOK', notified \subseteq notified', server' = server,
         \/ UNCHANGED <<pc, held, target, transport>>
         \/ pc' \notin {"joining", "holding"},
         \/ driver' = driver
         \/ /\ driver.do \notin {"wake", "close"}
            /\ driver'.do \in {"check", "send"} => driver'.sock \in Sock
  PROVE  SessionInv'
BY DEF SessionInv, StaleGroupIsClosing

LEMMA SessionStep == SessionInv /\ [HubNext]_hubVars => SessionInv'
<1> SUFFICES ASSUME SessionInv, [HubNext]_hubVars PROVE SessionInv'
  OBVIOUS
<1> USE HubAssumption
<1>0. HubTypeOK
  BY DEF SessionInv
<1>1. CASE StartClient
  <2>1. HubTypeOK'
    BY <1>0, <1>1, ZenonT(30) DEF StartClient, Goto, HubTypeOK, Pc, hubSocks, hubBounds
  <2> QED BY <1>1, <2>1, SessionKept DEF StartClient, Goto, hubSocks, hubBounds
<1>2. CASE LoopHead
  <2>1. HubTypeOK'
    BY <1>0, <1>2 DEF LoopHead, Goto, HubTypeOK, Pc, hubEvents, hubSocks, hubBounds
  <2> QED BY <1>2, <2>1, SessionKept DEF LoopHead, Goto, hubEvents, hubSocks, hubBounds
<1>3. CASE Begin
  <2>a. connected' \in BOOLEAN /\ closed' \in BOOLEAN /\ stop' \in BOOLEAN /\ wake' \in BOOLEAN
    BY <1>0, <1>3, Zenon DEF Begin, HubTypeOK
  <2>b. /\ pc' \in {"retrying", "connecting"} /\ target' \in {target, server} /\ held' = held
        /\ UNCHANGED <<server, transport, sock, notified, closing, driver, gui, changes, sends, faults>>
    BY <1>3 DEF Begin, Goto, hubSocks, hubBounds
  <2>1. HubTypeOK' /\ pc' \notin {"joining", "holding"}
    BY <1>0, <2>a, <2>b DEF HubTypeOK, Pc
  <2> QED BY <1>3, <2>1, SessionKept DEF Begin, hubSocks, hubBounds
<1>4. CASE WaitEnds
  <2>1. HubTypeOK'
    BY <1>0, <1>4 DEF WaitEnds, Goto, HubTypeOK, Pc, hubEvents, hubSocks, hubBounds
  <2> QED BY <1>4, <2>1, SessionKept DEF WaitEnds, Goto, hubEvents, hubSocks, hubBounds
<1>5. CASE WaitClears
  <2>a. connected' \in BOOLEAN /\ closed' \in BOOLEAN /\ stop' \in BOOLEAN /\ wake' \in BOOLEAN
    BY <1>0, <1>5, Zenon DEF WaitClears, HubTypeOK
  <2>1. HubTypeOK'
    BY <1>0, <1>5, <2>a DEF WaitClears, Goto, HubTypeOK, Pc, hubSocks, hubBounds
  <2> QED BY <1>5, <2>1, SessionKept DEF WaitClears, Goto, hubSocks, hubBounds
<1>6. CASE Connects
  <2>1. PICK s \in Sock : /\ sock' = [sock EXCEPT ![s] = "open"] /\ notified' = notified \ {s}
                          /\ transport' = s /\ held' = s
    BY <1>6 DEF Connects, Unused
  <2>2. HubTypeOK'
    BY <1>0, <1>6, <2>1, ZenonT(30) DEF Connects, HubTypeOK, Pc, hubBounds
  <2> QED BY <1>6, <2>1, <2>2 DEF Connects, SessionInv, StaleGroupIsClosing
<1>7. CASE ConnectFails
  <2>a. connected' \in BOOLEAN /\ closed' \in BOOLEAN /\ stop' \in BOOLEAN /\ wake' \in BOOLEAN
    BY <1>0, <1>7, Zenon DEF ConnectFails, HubTypeOK
  <2>b. pc' \in {"loop", "retrying"} /\ faults' \in 0..MaxFaults
    BY <1>0, <1>7 DEF ConnectFails, Goto, HubTypeOK
  <2>1. HubTypeOK'
    BY <1>0, <1>7, <2>a, <2>b DEF ConnectFails, Goto, HubTypeOK, Pc, hubSocks
  <2> QED BY <1>7, <2>1, SessionKept DEF ConnectFails, Goto, hubSocks
<1>8. CASE Joins
  <2>1. HubTypeOK'
    BY <1>0, <1>8 DEF Joins, Goto, HubTypeOK, Pc, hubEvents, hubBounds
  <2> QED BY <1>8, <2>1 DEF Joins, Goto, SessionInv, StaleGroupIsClosing
<1>9. ASSUME NEW next \in Pc \ {"joining", "holding"}, DropSession(next), held \in Sock,
             UNCHANGED <<server, stop, wake, closing, driver, gui, changes, sends>>,
             faults' \in 0..MaxFaults
      PROVE  SessionInv'
  <2>1. HubTypeOK'
    BY <1>0, <1>9 DEF DropSession, HubTypeOK
  <2> QED BY <1>9, <2>1, SessionKept DEF DropSession
<1>10. CASE JoinFails
  <2>1. faults' \in 0..MaxFaults
    BY <1>0, <1>10 DEF JoinFails, HubTypeOK
  <2>2. (IF stop THEN "loop" ELSE "retrying") \in Pc \ {"joining", "holding"}
    BY DEF Pc
  <2> QED BY <1>9, <1>10, <2>1, <2>2 DEF JoinFails, SessionInv
<1>11. CASE HoldEnds
  <2>1. faults' \in 0..MaxFaults /\ "ended" \in Pc \ {"joining", "holding"}
    BY <1>0, <1>11 DEF HoldEnds, HubTypeOK, hubBounds, Pc
  <2> QED BY <1>9, <1>11, <2>1 DEF HoldEnds, SessionInv, hubBounds
<1>12. CASE AfterSession
  <2>1. HubTypeOK'
    BY <1>0, <1>12 DEF AfterSession, Goto, HubTypeOK, Pc, hubEvents, hubSocks, hubBounds
  <2> QED BY <1>12, <2>1, SessionKept DEF AfterSession, Goto, hubEvents, hubSocks, hubBounds
<1>13. ASSUME NEW c \in closing, CloseSocket(c) \/ CloseClears(c) \/ CloseSets(c)
       PROVE  SessionInv'
  <2>1. c.of \in Sock /\ {"clear", "set"} \subseteq Stage
    BY <1>0 DEF HubTypeOK, Closing, Stage
  <2>2. closing' \subseteq Closing
    BY <1>0, <1>13, <2>1, ClosingTypes DEF CloseSocket, CloseClears, CloseSets, HubTypeOK
  <2>3. HubTypeOK'
    BY <1>0, <1>13, <2>1, <2>2, ZenonT(30)
       DEF CloseSocket, CloseClears, CloseSets, HubTypeOK, hubEvents, hubThread, hubSocks, hubBounds
  <2> QED BY <1>13, <2>3, SessionKept DEF CloseSocket, CloseClears, CloseSets, hubThread, hubSocks
<1>14. CASE SetServerWakes
  <2>1. HubTypeOK'
    BY <1>0, <1>14 DEF SetServerWakes, HubTypeOK, hubThread, hubSocks, hubBounds
  <2> QED BY <1>14, <2>1 DEF SetServerWakes, SessionInv, StaleGroupIsClosing, hubThread, hubSocks
<1>15. CASE SetServerCloses
  <2>1. /\ transport = NoSock => UNCHANGED <<notified, closing>>
        /\ transport # NoSock => notified' = notified \cup {transport} /\ closing' \subseteq Closing
    BY <1>0, <1>15, ClosingTypes DEF SetServerCloses, HubTypeOK, Closer
  <2>2. HubTypeOK'
    BY <1>0, <1>15, <2>1 DEF SetServerCloses, HubTypeOK, Resting, hubEvents, hubThread, hubBounds
  <2>3. pc \in {"joining", "holding"} => held \in notified'
    BY <2>1 DEF SessionInv
  <2>4. driver'.do = "rest"
    BY <1>15 DEF SetServerCloses, Resting
  <2> QED BY <1>15, <2>2, <2>3, <2>4 DEF SetServerCloses, SessionInv, StaleGroupIsClosing, hubThread
<1>16. CASE InvokeChecks
  <2>1. HubTypeOK'
    BY <1>0, <1>16 DEF InvokeChecks, HubTypeOK, Resting, hubEvents, hubThread, hubSocks, hubBounds
  <2>2. driver.do = "check" /\ (driver'.do \in {"check", "send"} => driver'.sock = driver.sock)
    BY <1>0, <1>16 DEF InvokeChecks, Resting, HubTypeOK
  <2>3. driver.do \notin {"wake", "close"} /\ (driver'.do \in {"check", "send"} => driver'.sock \in Sock)
    BY <2>2 DEF SessionInv
  <2> QED BY <1>16, <2>1, <2>3, SessionKept DEF InvokeChecks, hubThread, hubSocks
<1>17. CASE InvokeSends
  <2>1. driver.sock \in Sock /\ [by |-> "driver", of |-> driver.sock, next |-> "clear"] \in Closing
    BY <1>17 DEF InvokeSends, SessionInv, Closing, Closer, Stage
  <2>2. /\ notified \subseteq notified' /\ notified' \subseteq Sock /\ closing' \subseteq Closing
        /\ driver.do = "send" /\ driver' = Resting /\ Resting.do = "rest"
        /\ driver' \in [do : {"rest", "wake", "close", "check", "send"}, sock : Sock \cup {NoSock}]
    BY <1>0, <1>17, <2>1 DEF InvokeSends, HubTypeOK, Resting
  <2>3. HubTypeOK'
    BY <1>0, <1>17, <2>2 DEF InvokeSends, HubTypeOK, hubEvents, hubThread, hubBounds
  <2> QED BY <1>17, <2>2, <2>3, SessionKept DEF InvokeSends, hubThread
<1>18. CASE StopCloses
  <2>1. /\ transport = NoSock => UNCHANGED <<notified, closing>>
        /\ transport # NoSock => notified' = notified \cup {transport} /\ closing' \subseteq Closing
    BY <1>0, <1>18, ClosingTypes DEF StopCloses, HubTypeOK, Closer
  <2>2. HubTypeOK' /\ notified \subseteq notified'
    BY <1>0, <1>18, <2>1 DEF StopCloses, HubTypeOK, hubEvents, hubThread, hubBounds
  <2> QED BY <1>18, <2>2, SessionKept DEF StopCloses, hubThread
<1>19. CASE StopReturns
  <2>1. HubTypeOK'
    BY <1>0, <1>19 DEF StopReturns, HubTypeOK, hubEvents, hubThread, hubSocks, hubBounds
  <2> QED BY <1>19, <2>1, SessionKept DEF StopReturns, hubThread, hubSocks
<1>20. ASSUME NEW s \in Server \cup {NoServer}, SetServer(s) PROVE SessionInv'
  <2>1. HubTypeOK' /\ driver'.do = "wake"
    BY <1>0, <1>20 DEF SetServer, HubTypeOK, hubEvents, hubThread, hubSocks
  <2> QED BY <1>20, <2>1 DEF SetServer, SessionInv, StaleGroupIsClosing, hubThread
<1>21. CASE InvokeCaptures
  <2>1. HubTypeOK' /\ driver.do \notin {"wake", "close"} /\ driver'.sock \in Sock
    BY <1>0, <1>21 DEF InvokeCaptures, DriverFree, Resting, HubTypeOK, hubEvents, hubThread, hubSocks
  <2> QED BY <1>21, <2>1, SessionKept DEF InvokeCaptures, hubThread, hubSocks
<1>22. CASE StopSets
  <2>1. HubTypeOK'
    BY <1>0, <1>22 DEF StopSets, HubTypeOK, hubThread, hubSocks, hubBounds
  <2> QED BY <1>22, <2>1, SessionKept DEF StopSets, hubThread, hubSocks
<1>23. ASSUME NEW s \in Sock, SocketLost(s) PROVE SessionInv'
  <2>1. notified' = notified \cup {s} /\ closing' \subseteq Closing
    BY <1>0, <1>23, ClosingTypes DEF SocketLost, Closer
  <2>2. HubTypeOK'
    BY <1>0, <1>23, <2>1 DEF SocketLost, HubTypeOK, hubEvents, hubThread
  <2> QED BY <1>23, <2>1, <2>2, SessionKept DEF SocketLost, hubThread
<1>24. CASE UNCHANGED hubVars
  BY <1>0, <1>24 DEF hubVars, hubEvents, hubThread, hubSocks, hubBounds, HubTypeOK, SessionInv,
                     StaleGroupIsClosing
<1> QED BY <1>1, <1>2, <1>3, <1>4, <1>5, <1>6, <1>7, <1>8, <1>10, <1>11, <1>12, <1>13, <1>14, <1>15,
           <1>16, <1>17, <1>18, <1>19, <1>20, <1>21, <1>22, <1>23, <1>24
        DEF HubNext, ClientThread, CloseStep, DriverStep, GuiStep

LEMMA SessionHolds == HubSpec => []SessionInv
BY SessionInit, SessionStep, PTL DEF HubSpec

\* Type correctness of the hub client.
THEOREM HubTypes == HubSpec => []HubTypeOK
<1>1. SessionInv => HubTypeOK
  BY DEF SessionInv
<1> QED BY <1>1, SessionHolds, PTL

\* PigParseHubClient.set_server against _connect_once: a session in the group of a
\* server the player has left is being closed.
THEOREM HubStaleGroupIsClosing == HubSpec => []StaleGroupIsClosing
<1>1. SessionInv => StaleGroupIsClosing
  BY DEF SessionInv
<1> QED BY <1>1, SessionHolds, PTL

-----------------------------------------------------------------------------
(* The location server                                                      *)

LEMMA NoMoreZones ==
  ASSUME NEW Z, NEW C, NEW Y, NEW D, IsFiniteSet(Z), IsFiniteSet(D),
         Cardinality(Z) <= Cardinality(C), Y \subseteq Z, C \subseteq D
  PROVE  Cardinality(Y) <= Cardinality(D)
<1>1. Cardinality(Y) \in Nat /\ Cardinality(Y) <= Cardinality(Z)
  BY FS_Subset, FS_CardinalityType
<1>2. Cardinality(C) \in Nat /\ Cardinality(C) <= Cardinality(D)
  BY FS_Subset, FS_CardinalityType
<1>3. Cardinality(Z) \in Nat /\ Cardinality(D) \in Nat
  BY FS_CardinalityType
<1> QED BY <1>1, <1>2, <1>3

LEMMA OneMoreSender ==
  ASSUME NEW Z, NEW C, NEW Y, NEW D, NEW z, NEW c, IsFiniteSet(Z), IsFiniteSet(D),
         Cardinality(Z) <= Cardinality(C), Y \subseteq Z \cup {z}, c \notin C,
         C \cup {c} \subseteq D
  PROVE  Cardinality(Y) <= Cardinality(D)
<1>1. IsFiniteSet(C)
  BY FS_Subset
<1>2. Cardinality(C \cup {c}) = Cardinality(C) + 1 /\ IsFiniteSet(C \cup {c})
  BY <1>1, FS_AddElement
<1>3. IsFiniteSet(Z \cup {z}) /\ Cardinality(Z \cup {z}) <= Cardinality(Z) + 1
  <2>1. /\ IsFiniteSet(Z \cup {z})
        /\ \/ Cardinality(Z \cup {z}) = Cardinality(Z)
           \/ Cardinality(Z \cup {z}) = Cardinality(Z) + 1
    BY FS_AddElement
  <2>2. Cardinality(Z) \in Nat
    BY FS_CardinalityType
  <2> QED BY <2>1, <2>2
<1>4. Cardinality(Z \cup {z}) <= Cardinality(C \cup {c})
  BY <1>1, <1>2, <1>3, FS_CardinalityType
<1> QED BY <1>2, <1>3, <1>4, NoMoreZones

LEMMA OneSender ==
  ASSUME NEW Y, NEW D, NEW z, NEW c, IsFiniteSet(D), Y \subseteq {z}, c \in D
  PROVE  Cardinality(Y) <= Cardinality(D)
<1>1. Cardinality({z}) = 1 /\ IsFiniteSet({z}) /\ Cardinality({c}) = 1
  BY FS_Singleton
<1> QED BY <1>1, NoMoreZones

LEMMA NoZone ==
  ASSUME NEW D, IsFiniteSet(D)
  PROVE  Cardinality({}) <= Cardinality(D)
<1>1. Cardinality({}) = 0
  BY FS_EmptySet
<1> QED BY <1>1, FS_CardinalityType

LocationInv == LocationTypeOK /\ ZonesHaveSenders

LEMMA LocationTypeStep == LocationTypeOK /\ [LocationNext]_locationVars => LocationTypeOK'
<1> SUFFICES ASSUME LocationTypeOK, [LocationNext]_locationVars PROVE LocationTypeOK'
  OBVIOUS
<1> USE DEF LocationTypeOK
<1>0. Unnamed \in Identity
  BY DEF Unnamed, Identity
<1>1. ASSUME NEW c \in Conn, Register(c) PROVE LocationTypeOK'
  BY <1>0, <1>1 DEF Register
<1>2. ASSUME NEW c \in Conn, Unregister(c) PROVE LocationTypeOK'
  BY <1>0, <1>2 DEF Unregister, Without
<1>3. ASSUME NEW c \in Conn, NEW g \in Group, NEW z \in Zone, NEW p \in Player,
             Location(c, g, z, p)
      PROVE  LocationTypeOK'
  <2> DEFINE who == [player |-> p, group |-> g]
             dot == [group |-> g, zone |-> z, player |-> p]
  <2>1. who \in Identity /\ dot \in Dot /\ <<g, z>> \in Group \X Zone
    BY DEF Identity, Dot
  <2>2. KeptByMove(c, who, z) \subseteq dots
    BY DEF KeptByMove, Without, WithoutElsewhere
  <2>3. dots' \subseteq Dot /\ leftBehind' \subseteq dots'
    BY <1>3, <2>1, <2>2 DEF Location
  <2>4. online' \subseteq Conn /\ identity' \in [Conn -> Identity]
    BY <1>3, <2>1 DEF Location
  <2>5. recent' \subseteq Group \X Zone /\ waypoints' \subseteq Waypoint
    BY <1>3, <2>1 DEF Location, NotifyLocation
  <2> QED BY <2>3, <2>4, <2>5
<1>4. ASSUME NEW c \in Conn, NEW g \in Group, NEW z \in Zone, NEW p \in Player,
             SetWaypoint(c, g, z, p)
      PROVE  LocationTypeOK'
  <2> DEFINE who == [player |-> p, group |-> g]
             mark == [group |-> g, zone |-> z, player |-> p, over |-> FALSE]
  <2>1. who \in Identity /\ mark \in Waypoint /\ <<g, z>> \in Group \X Zone
    BY DEF Identity, Waypoint
  <2>2. dots' \subseteq Dot /\ leftBehind' \subseteq dots'
    BY <1>4 DEF SetWaypoint
  <2>3. online' \subseteq Conn /\ identity' \in [Conn -> Identity]
    BY <1>4, <2>1 DEF SetWaypoint
  <2>4. recent' \subseteq Group \X Zone /\ waypoints' \subseteq Waypoint
    BY <1>4, <2>1 DEF SetWaypoint, NotifyLocation
  <2> QED BY <2>2, <2>3, <2>4
<1>5. ASSUME NEW g \in Group, NEW z \in Zone, SecondPasses(g, z) PROVE LocationTypeOK'
  BY <1>5 DEF SecondPasses
<1>6. ASSUME NEW w \in waypoints, WaypointExpires(w) PROVE LocationTypeOK'
  <2>1. [w EXCEPT !.over = TRUE] \in Waypoint
    BY DEF Waypoint
  <2> QED BY <1>6, <2>1 DEF WaypointExpires
<1>7. CASE UNCHANGED locationVars
  BY <1>7 DEF locationVars
<1> QED BY <1>1, <1>2, <1>3, <1>4, <1>5, <1>6, <1>7 DEF LocationNext

LEMMA ZonesAndSendersAreFinite ==
  ASSUME NEW who, online \subseteq Conn
  PROVE  IsFiniteSet(ZonesOf(who)) /\ IsFiniteSet(SendersOf(who))
<1>1. ZonesOf(who) \subseteq Zone /\ SendersOf(who) \subseteq Conn
  BY DEF ZonesOf, SendersOf
<1> QED BY <1>1, LocationAssumption, FS_Subset

LEMMA LocationStep == LocationInv /\ [LocationNext]_locationVars => LocationInv'
<1> SUFFICES ASSUME LocationInv, [LocationNext]_locationVars, LocationTypeOK',
                    NEW who \in Identity
             PROVE  Cardinality(ZonesOf(who)') <= Cardinality(SendersOf(who)')
  BY LocationTypeStep DEF LocationInv, ZonesHaveSenders
<1> DEFINE Z == ZonesOf(who)
           C == SendersOf(who)
<1>a. LocationTypeOK /\ Cardinality(Z) <= Cardinality(C)
  BY DEF LocationInv, ZonesHaveSenders
<1>b. IsFiniteSet(Z) /\ IsFiniteSet(C)
  BY <1>a, ZonesAndSendersAreFinite DEF LocationTypeOK
<1>c. IsFiniteSet(Z') /\ IsFiniteSet(C')
  <2>1. Z' \subseteq Zone /\ C' \subseteq Conn
    BY DEF ZonesOf, SendersOf, LocationTypeOK
  <2> QED BY <2>1, LocationAssumption, FS_Subset
<1>d. ASSUME Z' \subseteq Z, C \subseteq C' PROVE Cardinality(Z') <= Cardinality(C')
  <2> HIDE DEF Z, C
  <2> QED BY <1>a, <1>b, <1>c, <1>d, NoMoreZones
<1>e. ASSUME Z' = {} PROVE Cardinality(Z') <= Cardinality(C')
  <2> HIDE DEF Z, C
  <2> QED BY <1>c, <1>e, NoZone
<1>1. ASSUME NEW c \in Conn, Register(c) PROVE Cardinality(Z') <= Cardinality(C')
  <2>1. Z' \subseteq Z
    BY <1>1 DEF Register, ZonesOf
  <2>2. C \subseteq C'
    BY <1>1, <1>a DEF Register, SendersOf, LocationTypeOK
  <2> QED BY <1>d, <2>1, <2>2
<1>2. ASSUME NEW c \in Conn, Unregister(c) PROVE Cardinality(Z') <= Cardinality(C')
  <2>1. CASE identity[c] = who
    <3>1. Z' = {}
      BY <1>2, <2>1 DEF Unregister, Without, ZonesOf
    <3> QED BY <1>e, <3>1
  <2>2. CASE identity[c] # who
    <3>1. Z' \subseteq Z
      BY <1>2 DEF Unregister, Without, ZonesOf
    <3>2. C \subseteq C'
      BY <1>2, <1>a, <2>2 DEF Unregister, SendersOf, LocationTypeOK
    <3> QED BY <1>d, <3>1, <3>2
  <2> QED BY <2>1, <2>2
<1>3. ASSUME NEW c \in Conn, NEW g \in Group, NEW z \in Zone, NEW p \in Player,
             Location(c, g, z, p)
      PROVE  Cardinality(Z') <= Cardinality(C')
  <2> DEFINE new == [player |-> p, group |-> g]
             dot == [group |-> g, zone |-> z, player |-> p]
             kept == KeptByMove(c, new, z)
  <2>a. Of(dot) = new /\ dot.zone = z
    BY DEF Of
  <2>b. kept \subseteq dots /\ dots' \ leftBehind' \subseteq (kept \ leftBehind) \cup {dot}
    BY <1>3 DEF Location, KeptByMove, Without, WithoutElsewhere
  <2>c. \A k \in Conn : k # c => identity'[k] = identity[k]
    BY <1>3, <1>a DEF Location, LocationTypeOK
  <2>d. identity'[c] = new /\ c \in online /\ online' = online
    BY <1>3, <1>a DEF Location, LocationTypeOK
  <2>1. CASE who = new /\ identity[c] = who
    <3>1. Z' \subseteq {z}
      BY <2>1, <2>a, <2>b DEF ZonesOf, KeptByMove, WithoutElsewhere
    <3>2. c \in C'
      BY <2>1, <2>d DEF SendersOf
    <3> HIDE DEF Z, C
    <3> QED BY <1>c, <3>1, <3>2, OneSender
  <2>2. CASE who = new /\ identity[c] # who
    <3>1. Z' \subseteq Z \cup {z}
      BY <2>a, <2>b DEF ZonesOf
    <3>2. c \notin C /\ C \cup {c} \subseteq C'
      BY <1>a, <2>2, <2>c, <2>d DEF SendersOf, LocationTypeOK
    <3> HIDE DEF Z, C
    <3> QED BY <1>a, <1>b, <1>c, <3>1, <3>2, OneMoreSender
  <2>3. CASE who # new /\ identity[c] = who
    <3>1. Z' = {}
      BY <2>3, <2>a, <2>b DEF ZonesOf, KeptByMove, Without
    <3> QED BY <1>e, <3>1
  <2>4. CASE who # new /\ identity[c] # who
    <3>1. Z' \subseteq Z
      BY <2>4, <2>a, <2>b DEF ZonesOf
    <3>2. C \subseteq C'
      BY <1>a, <2>4, <2>c, <2>d DEF SendersOf, LocationTypeOK
    <3> QED BY <1>d, <3>1, <3>2
  <2> QED BY <2>1, <2>2, <2>3, <2>4
<1>4. ASSUME NEW c \in Conn, NEW g \in Group, NEW z \in Zone, NEW p \in Player,
             SetWaypoint(c, g, z, p)
      PROVE  Cardinality(Z') <= Cardinality(C')
  <2> DEFINE new == [player |-> p, group |-> g]
  <2>a. \A k \in Conn : k # c => identity'[k] = identity[k]
    BY <1>4, <1>a DEF SetWaypoint, LocationTypeOK
  <2>b. identity'[c] = new /\ online' = online /\ dots' = dots
    BY <1>4, <1>a DEF SetWaypoint, LocationTypeOK
  <2>c. leftBehind \subseteq leftBehind'
    BY <1>4 DEF SetWaypoint
  <2>1. CASE identity[c] = who /\ new # who
    <3>1. leftBehind' = leftBehind \cup {d \in dots : Of(d) = who}
      BY <1>4, <2>1 DEF SetWaypoint
    <3>2. Z' = {}
      BY <2>b, <3>1 DEF ZonesOf
    <3> QED BY <1>e, <3>2
  <2>2. CASE identity[c] # who \/ new = who
    <3>1. Z' \subseteq Z
      BY <2>b, <2>c DEF ZonesOf
    <3>2. C \subseteq C'
      BY <1>a, <2>2, <2>a, <2>b DEF SendersOf, LocationTypeOK
    <3> QED BY <1>d, <3>1, <3>2
  <2> QED BY <2>1, <2>2
<1>5. CASE UNCHANGED <<online, identity, dots, leftBehind>>
  <2>1. Z' = Z /\ C' = C
    BY <1>5 DEF ZonesOf, SendersOf
  <2> QED BY <1>a, <2>1
<1> QED
  BY <1>1, <1>2, <1>3, <1>4, <1>5
  DEF LocationNext, SecondPasses, WaypointExpires, locationVars

LEMMA LocationStart == LocationInit => LocationInv
<1> SUFFICES ASSUME LocationInit PROVE LocationInv
  OBVIOUS
<1>1. LocationTypeOK
  BY DEF LocationInit, LocationTypeOK, Unnamed, Identity
<1>2. ASSUME NEW who \in Identity PROVE Cardinality(ZonesOf(who)) <= Cardinality(SendersOf(who))
  <2>1. ZonesOf(who) = {}
    BY DEF LocationInit, ZonesOf
  <2>2. IsFiniteSet(SendersOf(who))
    BY ZonesAndSendersAreFinite DEF LocationInit
  <2> QED BY <2>1, <2>2, NoZone
<1> QED BY <1>1, <1>2 DEF LocationInv, ZonesHaveSenders

\* The location server's tables keep their types: what is known of a connection,
\* the dots, the way-points and the zones told a moment ago.
THEOREM LocationTypes == LocationSpec => []LocationTypeOK
<1>1. LocationInit => LocationTypeOK
  BY LocationStart DEF LocationInv
<1> QED BY <1>1, LocationTypeStep, PTL DEF LocationSpec

\* For any connections, names, groups and zones: a player stands in at most as many
\* zones as connections send the name, and in none once the last of them is gone,
\* up to dots orphaned by a way-point (remove_player_from_zones).
THEOREM LocationZonesHaveSenders == LocationSpec => []ZonesHaveSenders
<1>1. LocationInv => ZonesHaveSenders
  BY DEF LocationInv
<1> QED BY <1>1, LocationStart, LocationStep, PTL DEF LocationSpec
=============================================================================
