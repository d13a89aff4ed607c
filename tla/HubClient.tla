----------------------------- MODULE HubClient -----------------------------
(***************************************************************************)
(* net/pigparse_hub.py: PigParseHubClient with the sockets it opens         *)
(* (RawWsTransport).  Four kinds of thread meet here: the client's own      *)
(* thread (_run), the driver (set_server, sends), the GUI (stop) and one    *)
(* reader per socket.  on_close says which socket closed to nobody: a late  *)
(* one hits whatever session is up then.                                    *)
(*                                                                          *)
(* Waits that time out may end at any step.  Ping frames, status strings    *)
(* and payloads are left out.                                               *)
(***************************************************************************)
EXTENDS Naturals, FiniteSets

CONSTANTS
  Server,      \* EverQuest servers
  NoServer,    \* no character yet
  Sock,        \* socket identities, reused once nothing refers to them
  NoSock,      \* None
  MaxChanges,  \* bound: set_server calls that change the server
  MaxSends,    \* bound: invocations
  MaxFaults    \* bound: connects, joins and sessions lost to the network

ASSUME HubAssumption == /\ NoServer \notin Server /\ NoSock \notin Sock
                        /\ {MaxChanges, MaxSends, MaxFaults} \subseteq Nat

VARIABLES
  server,     \* _server
  transport,  \* _transport
  connected,  \* _connected
  closed,     \* _session_closed
  stop,       \* _stop
  wake,       \* _wake
  pc,         \* where the client thread is
  target,     \* the local "server" of _connect_once
  held,       \* the local "transport" of _connect_once and _hold_session
  sock,       \* Sock -> "open" or "closed"
  notified,   \* the sockets with _close_notified set
  closing,    \* calls of _notify_close and _handle_close under way
  driver,     \* what the driver is doing: [do, sock]
  gui,        \* how far stop() got
  changes, sends, faults

hubEvents == <<connected, closed, stop, wake>>
hubThread == <<pc, target, held>>
hubSocks  == <<sock, notified>>
hubBounds == <<changes, sends, faults>>
hubVars   == <<server, transport, hubEvents, hubThread, hubSocks, closing, driver, gui, hubBounds>>

Resting == [do |-> "rest", sock |-> NoSock]
Closer  == {"driver", "gui"} \cup Sock   \* a reader is named by its socket
Stage   == {"socket", "clear", "set"}    \* what the call does next
Closing == [by : Closer, of : Sock, next : Stage]
Pc      == {"new", "loop", "begin", "idle", "waking", "connecting", "joining", "holding", "ended", "retrying", "done"}

HubTypeOK ==
  /\ server \in Server \cup {NoServer} /\ target \in Server \cup {NoServer}
  /\ transport \in Sock \cup {NoSock} /\ held \in Sock \cup {NoSock}
  /\ connected \in BOOLEAN /\ closed \in BOOLEAN /\ stop \in BOOLEAN /\ wake \in BOOLEAN
  /\ pc \in Pc
  /\ sock \in [Sock -> {"open", "closed"}] /\ notified \subseteq Sock
  /\ closing \subseteq Closing
  /\ driver \in [do : {"rest", "wake", "close", "check", "send"}, sock : Sock \cup {NoSock}]
  /\ gui \in {"run", "close", "join", "returned"}
  /\ changes \in 0..MaxChanges /\ sends \in 0..MaxSends /\ faults \in 0..MaxFaults

HubInit ==
  /\ server = NoServer /\ target = NoServer /\ transport = NoSock /\ held = NoSock
  /\ connected = FALSE /\ closed = FALSE /\ stop = FALSE /\ wake = FALSE
  /\ pc = "new"
  /\ sock = [s \in Sock |-> "closed"] /\ notified = Sock
  /\ closing = {} /\ driver = Resting /\ gui = "run"
  /\ changes = 0 /\ sends = 0 /\ faults = 0

-----------------------------------------------------------------------------
(* Closing a socket                                                         *)

\* A thread enters transport.close(): only the first one per socket goes on.
NotifyClose(who, s) ==
  IF s \in notified THEN UNCHANGED <<notified, closing>>
  ELSE /\ notified' = notified \cup {s}
       /\ closing' = closing \cup {[by |-> who, of |-> s, next |-> "socket"]}

Then(c, stage) == (closing \ {c}) \cup {[c EXCEPT !.next = stage]}

\* _notify_close closes the socket ...
CloseSocket(c) ==
  /\ c.next = "socket"
  /\ sock' = [sock EXCEPT ![c.of] = "closed"]
  /\ closing' = Then(c, "clear")
  /\ UNCHANGED <<server, transport, hubEvents, hubThread, notified, driver, gui, hubBounds>>

\* ... and calls on_close = _handle_close, which clears one event
CloseClears(c) ==
  /\ c.next = "clear"
  /\ connected' = FALSE
  /\ closing' = Then(c, "set")
  /\ UNCHANGED <<server, transport, closed, stop, wake, hubThread, hubSocks, driver, gui, hubBounds>>

\* and sets the other.
CloseSets(c) ==
  /\ c.next = "set"
  /\ closed' = TRUE
  /\ closing' = closing \ {c}
  /\ UNCHANGED <<server, transport, connected, stop, wake, hubThread, hubSocks, driver, gui, hubBounds>>

\* The reader of an open socket loses it.
SocketLost(s) ==
  /\ sock[s] = "open" /\ s \notin notified /\ faults < MaxFaults
  /\ NotifyClose(s, s) /\ faults' = faults + 1
  /\ UNCHANGED <<server, transport, hubEvents, hubThread, sock, driver, gui, changes, sends>>

-----------------------------------------------------------------------------
(* The driver                                                               *)

DriverFree == driver = Resting /\ \A c \in closing : c.by # "driver"

\* set_server, one store, one wake and one close after the other.
SetServer(s) ==
  /\ DriverFree /\ gui = "run" /\ s # server /\ changes < MaxChanges
  /\ server' = s /\ driver' = [do |-> "wake", sock |-> NoSock] /\ changes' = changes + 1
  /\ UNCHANGED <<transport, hubEvents, hubThread, hubSocks, closing, gui, sends, faults>>

SetServerWakes ==
  /\ driver.do = "wake"
  /\ wake' = TRUE
  /\ driver' = [do |-> "close", sock |-> NoSock]
  /\ UNCHANGED <<server, transport, connected, closed, stop, hubThread, hubSocks, closing, gui, hubBounds>>

SetServerCloses ==
  /\ driver.do = "close"
  /\ IF transport = NoSock THEN UNCHANGED <<notified, closing>> ELSE NotifyClose("driver", transport)
  /\ driver' = Resting
  /\ UNCHANGED <<server, transport, hubEvents, hubThread, sock, gui, hubBounds>>

\* _invoke captures the transport before it looks at the event.
InvokeCaptures ==
  /\ DriverFree /\ gui = "run" /\ transport # NoSock /\ sends < MaxSends
  /\ driver' = [do |-> "check", sock |-> transport] /\ sends' = sends + 1
  /\ UNCHANGED <<server, transport, hubEvents, hubThread, hubSocks, closing, gui, changes, faults>>

InvokeChecks ==
  /\ driver.do = "check"
  /\ driver' = IF connected THEN [driver EXCEPT !.do = "send"] ELSE Resting
  /\ UNCHANGED <<server, transport, hubEvents, hubThread, hubSocks, closing, gui, hubBounds>>

\* Sent, or failed: then _handle_close, for whichever session is up, and close.
InvokeSends ==
  /\ driver.do = "send"
  /\ driver' = Resting
  /\ IF sock[driver.sock] = "open" THEN UNCHANGED <<notified, closing>>
     ELSE /\ notified' = notified \cup {driver.sock}
          /\ closing' = closing \cup {[by |-> "driver", of |-> driver.sock, next |-> "clear"]}
  /\ UNCHANGED <<server, transport, hubEvents, hubThread, sock, gui, hubBounds>>

-----------------------------------------------------------------------------
(* The GUI                                                                  *)

StopSets ==
  /\ gui = "run"
  /\ stop' = TRUE /\ wake' = TRUE /\ gui' = "close"
  /\ UNCHANGED <<server, transport, connected, closed, hubThread, hubSocks, closing, driver, hubBounds>>

StopCloses ==
  /\ gui = "close"
  /\ IF transport = NoSock THEN UNCHANGED <<notified, closing>> ELSE NotifyClose("gui", transport)
  /\ gui' = "join"
  /\ UNCHANGED <<server, transport, hubEvents, hubThread, sock, driver, hubBounds>>

\* join(timeout=5): the thread has ended, or it has not.
StopReturns ==
  /\ gui = "join" /\ \A c \in closing : c.by # "gui"
  /\ gui' = "returned"
  /\ UNCHANGED <<server, transport, hubEvents, hubThread, hubSocks, closing, driver, hubBounds>>

-----------------------------------------------------------------------------
(* The client thread                                                        *)

Goto(p) == pc' = p /\ UNCHANGED <<target, held>>

\* start(), called once; _run forgets the wakes of before.
StartClient ==
  /\ pc = "new" /\ gui = "run"
  /\ wake' = FALSE /\ Goto("loop")
  /\ UNCHANGED <<server, transport, connected, closed, stop, hubSocks, closing, driver, gui, hubBounds>>

\* The head of the loop of _run.
LoopHead ==
  /\ pc = "loop"
  /\ Goto(IF stop THEN "done" ELSE IF server = NoServer THEN "idle" ELSE "begin")
  /\ UNCHANGED <<server, transport, hubEvents, hubSocks, closing, driver, gui, hubBounds>>

\* Wrong variant: the event of the last session stays set.
BeginKeepsClosed ==
  /\ pc = "begin"
  /\ IF server = NoServer
     THEN Goto("retrying")
     ELSE pc' = "connecting" /\ target' = server /\ UNCHANGED held
  /\ UNCHANGED <<server, transport, hubEvents, hubSocks, closing, driver, gui, hubBounds>>

\* _connect_once reads the server once more, and goes down to connect().
Begin ==
  /\ pc = "begin"
  /\ IF server = NoServer
     THEN Goto("retrying") /\ UNCHANGED closed
     ELSE pc' = "connecting" /\ target' = server /\ closed' = FALSE /\ UNCHANGED held
  /\ UNCHANGED <<server, transport, connected, stop, wake, hubSocks, closing, driver, gui, hubBounds>>

\* Event.wait() of _wait_for_wake and _wait returned; clear() comes after.
WaitEnds ==
  /\ \/ pc = "idle" /\ wake
     \/ pc = "retrying"
  /\ Goto("waking")
  /\ UNCHANGED <<server, transport, hubEvents, hubSocks, closing, driver, gui, hubBounds>>

WaitClears ==
  /\ pc = "waking"
  /\ wake' = FALSE /\ Goto("loop")
  /\ UNCHANGED <<server, transport, connected, closed, stop, hubSocks, closing, driver, gui, hubBounds>>

\* A new socket: one that no thread refers to any more.
Unused == {s \in Sock : driver.sock # s /\ \A c \in closing : c.of # s}

\* connect() returned and the transport is published.
Connects ==
  /\ pc = "connecting" /\ Unused # {}
  /\ LET s == CHOOSE s \in Unused : TRUE
     IN /\ sock' = [sock EXCEPT ![s] = "open"] /\ notified' = notified \ {s}
        /\ transport' = s /\ held' = s
  /\ connected' = TRUE /\ pc' = "joining"
  /\ UNCHANGED <<server, closed, stop, wake, target, closing, driver, gui, hubBounds>>

\* The failed socket is closed, which calls on_close.
ConnectFails ==
  /\ pc = "connecting" /\ faults < MaxFaults
  /\ faults' = faults + 1
  /\ connected' = FALSE /\ closed' = TRUE
  /\ Goto(IF stop THEN "loop" ELSE "retrying")
  /\ UNCHANGED <<server, transport, stop, wake, hubSocks, closing, driver, gui, changes, sends>>

\* The client thread closes the transport it holds: on_close runs at once.
DropSession(next) ==
  /\ connected' = FALSE /\ transport' = NoSock
  /\ pc' = next /\ held' = NoSock /\ target' = NoServer
  /\ IF held \in notified THEN UNCHANGED <<sock, notified, closed>>
     ELSE sock' = [sock EXCEPT ![held] = "closed"] /\ notified' = notified \cup {held} /\ closed' = TRUE

\* Wrong variant: the server is not looked at again.
JoinsUnchecked ==
  /\ pc = "joining" /\ sock[held] = "open" /\ ~closed
  /\ Goto("holding")
  /\ UNCHANGED <<server, transport, hubEvents, sock, notified, closing, driver, gui, hubBounds>>

\* The server acknowledged JoinServerGroup; nothing happened meanwhile.
Joins ==
  /\ pc = "joining" /\ sock[held] = "open"
  /\ server = target /\ ~closed
  /\ Goto("holding")
  /\ UNCHANGED <<server, transport, hubEvents, sock, notified, closing, driver, gui, hubBounds>>

\* The invocation failed or timed out, or the answer is not wanted any more.
JoinFails ==
  /\ pc = "joining"
  /\ \/ (server # target \/ closed \/ held \in notified) /\ UNCHANGED faults
     \/ faults < MaxFaults /\ faults' = faults + 1
  /\ DropSession(IF stop THEN "loop" ELSE "retrying")
  /\ UNCHANGED <<server, stop, wake, closing, driver, gui, changes, sends>>

\* _hold_session: the event, or a ping interval with stop set.
HoldEnds ==
  /\ pc = "holding" /\ (closed \/ stop)
  /\ DropSession("ended")
  /\ UNCHANGED <<server, stop, wake, closing, driver, gui, hubBounds>>

AfterSession ==
  /\ pc = "ended"
  /\ Goto(IF stop THEN "done" ELSE IF wake THEN "waking" ELSE "retrying")
  /\ UNCHANGED <<server, transport, hubEvents, hubSocks, closing, driver, gui, hubBounds>>

-----------------------------------------------------------------------------
ClientThread ==
  LoopHead \/ Begin \/ WaitEnds \/ WaitClears \/ Connects \/ ConnectFails
  \/ Joins \/ JoinFails \/ HoldEnds \/ AfterSession

CloseStep ==
  \E c \in closing : CloseSocket(c) \/ CloseClears(c) \/ CloseSets(c)

DriverStep == SetServerWakes \/ SetServerCloses \/ InvokeChecks \/ InvokeSends

GuiStep == StopCloses \/ StopReturns

HubNext ==
  \/ StartClient \/ ClientThread \/ CloseStep \/ DriverStep \/ GuiStep
  \/ \E s \in Server \cup {NoServer} : SetServer(s)
  \/ InvokeCaptures
  \/ StopSets
  \/ \E s \in Sock : SocketLost(s)

\* Every thread that can run does; calls and faults need not come.
HubFairness == WF_hubVars(ClientThread) /\ WF_hubVars(CloseStep)
               /\ WF_hubVars(DriverStep) /\ WF_hubVars(GuiStep)

HubSpec == HubInit /\ [][HubNext]_hubVars /\ HubFairness

-----------------------------------------------------------------------------
(* Properties                                                               *)

\* A session never stays up in the group of a server the player has left: while
\* it is held for another server than the current one, set_server has yet to
\* close it or its socket is being closed.
StaleGroupIsClosing ==
  pc = "holding" /\ server # target /\ driver.do \notin {"wake", "close"} => held \in notified

Up == connected /\ pc = "holding" /\ target = server /\ transport = held

\* When the network and the user leave it alone, the client comes to rest, and
\* rightly: in the group of the player's server, or waiting for a character, or
\* stopped with every socket closed, which stop() does not wait for.
HubSettles ==
  <>[](\/ pc = "new"
       \/ pc = "idle" /\ server = NoServer
       \/ Up
       \/ pc = "done" /\ \A s \in Sock : sock[s] # "open")
=============================================================================
