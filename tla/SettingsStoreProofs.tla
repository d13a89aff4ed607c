------------------------ MODULE SettingsStoreProofs -------------------------
(***************************************************************************)
(* Proofs about SettingsStore for every number of changes: the types, and,  *)
(* when no save starts while another is writing, the inductive invariants   *)
(* AloneInv, from which settings.json is never torn, and KeepInv, from      *)
(* which no request is forgotten and quitting loses only saves in flight.   *)
(***************************************************************************)
EXTENDS SettingsStore, TLAPS

-----------------------------------------------------------------------------
(* Type correctness                                                        *)

LEMMA TypeInit == Init => TypeOK
<1> SUFFICES ASSUME Init PROVE TypeOK
  OBVIOUS
<1>1. 0 \in Version /\ 0 \in Saver
  BY BoundAssumption DEF Version, Saver, Gui
<1>2. job \in [Saver -> [step : {"idle", "dump", "open", "write", "replace"},
                         payload : Version, file : {"none", "tmp", "disk", "gone"}]]
  BY <1>1 DEF Init, Snapshot, Idle
<1> QED BY <1>1, <1>2 DEF Init, TypeOK, Content

\* What loading returns is a version, whatever the file holds.
LEMMA LoadedType == Loaded \in Version /\ (disk # Torn /\ disk \in Content => Loaded >= disk)
BY BoundAssumption DEF Loaded, Version, Content, Missing, Torn

LEMMA TypeStep == TypeOK /\ [Next]_vars => TypeOK'
<1> SUFFICES ASSUME TypeOK, [Next]_vars PROVE TypeOK'
  OBVIOUS
<1> USE BoundAssumption DEF TypeOK, saver, files
<1>1. /\ Version \subseteq Int /\ 0 \in Version /\ Version \subseteq Content
      /\ Torn \in Content /\ Missing \in Content /\ Gui \in Saver /\ Timers \subseteq Saver
      /\ 0 \in Saver /\ \A n \in Version : n < MaxVersion => n + 1 \in Version \cap Timers
  BY DEF Version, Content, Saver, Timers, Gui
<1>2. /\ Snapshot.step = "dump" /\ Snapshot.payload = 0 /\ Snapshot.file = "none"
      /\ Snapshot \in [step : {"dump"}, payload : Version, file : {"none"}]
      /\ Idle \in [step : {"idle"}, payload : Version, file : {"none"}]
  BY <1>1 DEF Snapshot, Idle
<1>3. CASE RequestSave
  BY <1>1, <1>3 DEF RequestSave, Cancelled
<1>4. CASE SaveNow
  BY <1>1, <1>2, <1>4 DEF SaveNow
<1>5. ASSUME NEW t \in Timers, TimerStep(t) PROVE TypeOK'
  <2>1. CASE Fire(t)
    BY <1>1, <2>1 DEF Fire
  <2>2. CASE OnTimer(t) /\ ~pending
    BY <1>1, <2>2 DEF OnTimer
  <2>3. CASE OnTimer(t) /\ pending
    <3>1. /\ job' = [job EXCEPT ![t] = Snapshot] /\ clock' = [clock EXCEPT ![t] = "over"]
          /\ pending' = FALSE /\ timer' = 0
          /\ UNCHANGED <<life, memory, asked, files, sealed>>
      BY <2>3 DEF OnTimer
    <3>2. Snapshot \in [step : {"idle", "dump", "open", "write", "replace"},
                        payload : Version, file : {"none", "tmp", "disk", "gone"}]
      BY <1>2
    <3> QED BY <1>1, <3>1, <3>2
  <2> QED BY <1>5, <2>1, <2>2, <2>3 DEF TimerStep
<1>6. ASSUME NEW s \in Saver, SaveStep(s) PROVE TypeOK'
  <2>1. CASE Dump(s)
    BY <1>1, <2>1 DEF Dump
  <2>2. CASE Open(s)
    BY <1>1, <2>2 DEF Open
  <2>3. CASE Write(s)
    <3>1. job[s].payload \in Version
      OBVIOUS
    <3>2. tmp' \in Content /\ disk' \in Content
      BY <1>1, <2>3, <3>1 DEF Write, Overlay
    <3> QED BY <1>1, <2>3, <3>2 DEF Write
  <2>4. CASE WriteRaises(s)
    BY <1>1, <1>2, <2>4 DEF WriteRaises, GivenUp
  <2>5. CASE Replace(s)
    <3>1. CASE tmp = Missing
      BY <1>1, <1>2, <2>5, <3>1 DEF Replace, GivenUp
    <3>2. CASE tmp # Missing
      <4>1. \A f \in {"none", "tmp", "disk", "gone"} :
               Renamed(f) \in {"none", "tmp", "disk", "gone"}
        BY DEF Renamed
      <4>2. \A u \in Saver : job'[u] \in
               [step : {"idle", "dump", "open", "write", "replace"},
                payload : Version, file : {"none", "tmp", "disk", "gone"}]
        BY <1>2, <2>5, <3>2, <4>1 DEF Replace
      <4>3. job' = [u \in Saver |-> job'[u]]
        BY <2>5, <3>2 DEF Replace
      <4>4. job' \in [Saver -> [step : {"idle", "dump", "open", "write", "replace"},
                payload : Version, file : {"none", "tmp", "disk", "gone"}]]
        BY <4>2, <4>3
      <4> QED BY <1>1, <2>5, <3>2, <4>4 DEF Replace
    <3> QED BY <3>1, <3>2
  <2> QED BY <1>6, <2>1, <2>2, <2>3, <2>4, <2>5 DEF SaveStep
<1>7. CASE Quit \/ Exit \/ Crash
  BY <1>7 DEF Quit, Exit, Crash
<1>8. CASE Flush
  BY <1>1, <1>2, <1>8 DEF Flush, Cancelled
<1>9. CASE Launch
  BY <1>1, <1>2, <1>9, LoadedType DEF Launch
<1>10. CASE UNCHANGED vars
  BY <1>10 DEF vars
<1> QED BY <1>3, <1>4, <1>5, <1>6, <1>7, <1>8, <1>9, <1>10 DEF Next

\* The saver, the files and the saves in progress keep their types.
THEOREM StoreTypes == Spec => []TypeOK
BY TypeInit, TypeStep, PTL DEF Spec

-----------------------------------------------------------------------------
(* Saves that take turns                                                   *)

\* One save at a time writes; it is alone with the .tmp file, which is what its
\* step says it is; and versions only grow from the disk over the save in
\* progress to memory.
AloneInv ==
  /\ \A s, u \in Saver : Writing(s) /\ Writing(u) => s = u
  /\ \A s \in Saver :
       /\ Writing(s) => disk <= job[s].payload /\ job[s].payload <= memory
       /\ job[s].step = "write" => job[s].file = "tmp" /\ tmp = Torn
       /\ job[s].step = "replace" => job[s].file = "tmp" /\ tmp = job[s].payload
  /\ disk # Torn /\ disk <= memory

LEMMA AloneInit == Init => AloneInv
<1> SUFFICES ASSUME Init PROVE AloneInv
  OBVIOUS
<1>1. \A s \in Saver : ~Writing(s) /\ job[s].step \notin {"write", "replace"}
  BY DEF Init, Writing, Snapshot, Idle
<1> QED BY <1>1 DEF Init, AloneInv, Missing, Torn

LEMMA AloneStep ==
  ASSUME ~Overlap
  PROVE  TypeOK /\ AloneInv /\ [Next]_vars => (AloneInv' /\ disk' >= disk)
<1> SUFFICES ASSUME TypeOK, AloneInv, [Next]_vars PROVE AloneInv' /\ disk' >= disk
  OBVIOUS
<1> DEFINE Goal == AloneInv' /\ disk' >= disk
<1>1. /\ disk \in Int /\ memory \in Int /\ \A s \in Saver : job[s].payload \in Int
      /\ \A s \in Saver : job[s].payload # Torn /\ job[s].payload # Missing
      /\ Gui \in Saver /\ Timers \subseteq Saver
  BY BoundAssumption DEF TypeOK, Version, Content, Missing, Torn, Saver
<1>2. ~Writing(Gui) \/ Busy(Gui)
  BY DEF Writing, Busy
<1>3. Snapshot.step = "dump" /\ Idle.step = "idle"
  BY DEF Snapshot, Idle
\* A save that begins or ends elsewhere does not change who writes what.
<1>4. ASSUME disk' = disk, tmp' = tmp, memory' >= memory, memory' \in Int,
             \A s \in Saver : job'[s] = job[s] \/ job'[s].step \in {"idle", "dump"}
      PROVE  Goal
  <2>1. \A s \in Saver : job'[s].step \in {"open", "write", "replace"} => job'[s] = job[s]
    BY <1>4
  <2> QED BY <1>1, <1>4, <2>1 DEF AloneInv, Writing
<1>5. CASE RequestSave
  BY <1>1, <1>4, <1>5 DEF RequestSave, files
<1>6. CASE SaveNow
  BY <1>1, <1>3, <1>4, <1>6 DEF SaveNow, saver, files, TypeOK
<1>7. ASSUME NEW t \in Timers, TimerStep(t) PROVE Goal
  BY <1>1, <1>3, <1>4, <1>7 DEF TimerStep, Fire, OnTimer, files, TypeOK
<1>8. CASE Quit \/ Exit \/ Crash
  BY <1>1, <1>4, <1>8 DEF Quit, Exit, Crash, files
<1>9. CASE Flush
  BY <1>1, <1>3, <1>4, <1>9 DEF Flush, files, TypeOK
<1>10. CASE Launch
  <2>1. \A s \in Saver : job'[s].step \in {"dump", "idle"}
    BY <1>3, <1>10 DEF Launch
  <2>2. memory' = Loaded /\ disk' = disk /\ Loaded >= disk
    BY <1>10, LoadedType DEF Launch, AloneInv, TypeOK
  <2> QED BY <1>1, <2>1, <2>2 DEF AloneInv, Writing
<1>11. ASSUME NEW s \in Saver, SaveStep(s) PROVE Goal
  <2>1. CASE Dump(s)
    <3>1. /\ \A u \in Saver : ~Writing(u)
          /\ job'[s].step = "open" /\ job'[s].payload = memory
          /\ \A u \in Saver : u # s => job'[u] = job[u]
          /\ disk' = disk /\ memory' = memory
      BY <2>1 DEF Dump, saver, files, TypeOK
    <3> QED BY <1>1, <3>1 DEF AloneInv, Writing
  <2>2. CASE Open(s)
    <3>1. /\ Writing(s) /\ job'[s].step = "write" /\ job'[s].file = "tmp" /\ tmp' = Torn
          /\ job'[s].payload = job[s].payload
          /\ \A u \in Saver : u # s => job'[u] = job[u]
          /\ disk' = disk /\ memory' = memory
      BY <2>2 DEF Open, Writing, saver, TypeOK
    <3> QED BY <1>1, <3>1 DEF AloneInv, Writing
  <2>3. CASE Write(s)
    <3>1. Writing(s) /\ tmp = Torn /\ job[s].file = "tmp"
      BY <2>3 DEF Write, Writing, AloneInv
    <3>2. /\ tmp' = job[s].payload /\ disk' = disk /\ memory' = memory
          /\ job'[s].step = "replace" /\ job'[s].file = "tmp"
          /\ job'[s].payload = job[s].payload
          /\ \A u \in Saver : u # s => job'[u] = job[u]
      BY <2>3, <3>1 DEF Write, Overlay, TypeOK
    <3> QED BY <1>1, <3>1, <3>2 DEF AloneInv, Writing
  <2>4. CASE WriteRaises(s)
    BY <1>1, <1>3, <1>4, <2>4 DEF WriteRaises, TypeOK
  <2>5. CASE Replace(s)
    <3>1. /\ Writing(s) /\ tmp = job[s].payload /\ tmp # Missing /\ tmp # Torn
          /\ disk <= tmp /\ tmp <= memory
      BY <1>1, <2>5 DEF Replace, Writing, AloneInv
    <3>2. /\ disk' = tmp /\ memory' = memory
          /\ \A u \in Saver : u # s => job'[u].step = job[u].step
          /\ job'[s].step = "idle"
      BY <1>3, <2>5, <3>1 DEF Replace, TypeOK
    <3>3. \A u \in Saver : job'[u].step \notin {"open", "write", "replace"}
      BY <3>1, <3>2 DEF AloneInv, Writing
    <3> QED BY <1>1, <3>1, <3>2, <3>3 DEF AloneInv, Writing
  <2> QED BY <1>11, <2>1, <2>2, <2>3, <2>4, <2>5 DEF SaveStep
<1>12. CASE UNCHANGED vars
  BY <1>1, <1>4, <1>12 DEF vars
<1> QED
  BY <1>5, <1>6, <1>7, <1>8, <1>9, <1>10, <1>11, <1>12 DEF Next

\* As long as saves take turns, settings.json is at every moment, a crash or a
\* failed write included, one complete version (save_settings' .tmp and rename).
THEOREM TurnsNeverTear ==
  ASSUME ~Overlap
  PROVE  Spec => []NeverTorn
<1>1. AloneInv => NeverTorn
  BY DEF AloneInv, NeverTorn
<1>2. TypeOK /\ AloneInv /\ [Next]_vars => AloneInv'
  BY AloneStep
<1> QED BY <1>1, <1>2, StoreTypes, AloneInit, PTL DEF Spec

-----------------------------------------------------------------------------
(* No request is forgotten                                                 *)

\* The newest request is on its way unless its save raised; what was asked for
\* when flush() decided is on disk or in a save; and quitting finds the GUI thread
\* without a save of its own.
KeepInv ==
  /\ asked <= memory /\ sealed <= asked
  /\ life # "crashed" /\ asked > lost => pending \/ Held(asked)
  /\ life \in {"flushed", "exited"} /\ sealed > lost => Held(sealed)
  /\ life \in {"stopping", "exited"} => ~Busy(Gui)

LEMMA KeepInit == Init => KeepInv
<1> SUFFICES ASSUME Init PROVE KeepInv
  OBVIOUS
<1>1. Gui \in Saver /\ job[Gui].step = "dump"
  BY DEF Init, Saver, Snapshot, Idle
<1> QED BY <1>1 DEF Init, KeepInv, Held

\* A save in progress lets go of a version only by bringing it to the disk or by
\* raising with it.
LEMMA SaveHolds ==
  ASSUME ~Overlap, TypeOK, AloneInv, asked <= memory,
         NEW s \in Saver, SaveStep(s), NEW v \in Version, v <= asked, Held(v)
  PROVE  lost' >= v \/ Held(v)'
<1>1. /\ disk \in Int /\ memory \in Int /\ asked \in Int /\ lost \in Int /\ v \in Int
      /\ \A u \in Saver : job[u].payload \in Int
  BY BoundAssumption DEF TypeOK, Version, Content, Missing, Torn
<1>2. disk' >= disk /\ disk' \in Int
  <2>1. Next
    BY DEF Next
  <2> QED BY <2>1, AloneStep, TypeStep, BoundAssumption DEF TypeOK, Version, Content, Missing, Torn
<1>3. \A u \in Saver : u # s =>
        job'[u].step = job[u].step /\ job'[u].payload = job[u].payload
  <2>1. CASE Replace(s) /\ tmp # Missing
    BY <2>1 DEF Replace, TypeOK
  <2>2. ASSUME ~(Replace(s) /\ tmp # Missing)
        PROVE  \A u \in Saver : u # s => job'[u] = job[u]
    BY <2>2 DEF SaveStep, Dump, Open, Write, WriteRaises, Replace, TypeOK
  <2> QED BY <2>1, <2>2
<1>4. CASE disk >= v
  BY <1>1, <1>2, <1>4 DEF Held
<1>5. ASSUME NEW u \in Saver, u # s, job[u].step = "dump" \/ (Writing(u) /\ job[u].payload >= v)
      PROVE  Held(v)'
  BY <1>3, <1>5 DEF Held, Writing
<1>6. CASE job[s].step = "dump"
  <2>1. Dump(s)
    BY <1>6 DEF SaveStep, Open, Write, WriteRaises, Replace
  <2>2. job'[s].step = "open" /\ job'[s].payload = memory
    BY <2>1 DEF Dump, TypeOK
  <2> QED BY <1>1, <2>2 DEF Held, Writing
<1>7. CASE Writing(s) /\ job[s].payload >= v
  <2>1. CASE Open(s) \/ Write(s)
    <3>1. job'[s].step \in {"write", "replace"} /\ job'[s].payload = job[s].payload
      BY <2>1 DEF Open, Write, TypeOK
    <3> QED BY <1>7, <3>1 DEF Held, Writing
  <2>2. CASE GivenUp(s)
    BY <1>1, <1>7, <2>2 DEF GivenUp
  <2>3. CASE Replace(s) /\ tmp # Missing
    <3>1. disk' = job[s].payload
      BY <2>3 DEF Replace, AloneInv
    <3> QED BY <1>7, <3>1 DEF Held
  <2> QED BY <1>7, <2>1, <2>2, <2>3 DEF SaveStep, Dump, WriteRaises, Replace, Writing
<1> QED BY <1>4, <1>5, <1>6, <1>7 DEF Held

LEMMA KeepStep ==
  ASSUME ~Overlap
  PROVE  TypeOK /\ AloneInv /\ KeepInv /\ [Next]_vars => KeepInv'
<1> SUFFICES ASSUME TypeOK, AloneInv, KeepInv, [Next]_vars PROVE KeepInv'
  OBVIOUS
<1>1. /\ disk \in Int /\ memory \in Int /\ asked \in Int /\ lost \in Int /\ sealed \in Int
      /\ asked \in Version /\ sealed \in Version
      /\ \A s \in Saver : job[s].payload \in Int
      /\ Gui \in Saver /\ Gui \notin Timers /\ Timers \subseteq Saver
  BY BoundAssumption DEF TypeOK, Version, Content, Missing, Torn, Saver, Timers, Gui
<1>2. Snapshot.step = "dump" /\ Idle.step = "idle"
  BY DEF Snapshot, Idle
\* A save that begins holds every version; the others keep theirs.
<1>3. ASSUME NEW s \in Saver, job'[s].step = "dump"
      PROVE  \A v \in Int : Held(v)'
  BY <1>3 DEF Held
<1>4. CASE RequestSave
  <2>1. \A v \in Int : Held(v) => Held(v)'
    BY <1>4 DEF RequestSave, Held, Writing, files
  <2> QED BY <1>1, <1>4, <2>1 DEF RequestSave, KeepInv, Busy, files
<1>5. CASE SaveNow
  <2>1. job'[Gui].step = "dump"
    BY <1>1, <1>2, <1>5 DEF SaveNow, TypeOK
  <2> QED BY <1>1, <1>3, <1>5, <2>1 DEF SaveNow, KeepInv, files
<1>6. ASSUME NEW t \in Timers, TimerStep(t) PROVE KeepInv'
  <2>1. CASE Fire(t) \/ (OnTimer(t) /\ ~pending)
    <3>1. \A v \in Int : Held(v) => Held(v)'
      BY <2>1 DEF Fire, OnTimer, Held, Writing, files
    <3> QED BY <1>1, <2>1, <3>1 DEF Fire, OnTimer, KeepInv, Busy, files
  <2>2. CASE OnTimer(t) /\ pending
    <3>1. /\ t \in Saver /\ job'[t].step = "dump" /\ job'[Gui] = job[Gui]
          /\ UNCHANGED <<life, memory, asked, sealed>>
      BY <1>1, <1>2, <2>2 DEF OnTimer, TypeOK
    <3> QED BY <1>1, <1>3, <3>1 DEF KeepInv, Busy
  <2> QED BY <1>6, <2>1, <2>2 DEF TimerStep
<1>7. ASSUME NEW s \in Saver, SaveStep(s) PROVE KeepInv'
  <2>1. Busy(s) /\ UNCHANGED <<life, memory, asked, pending, sealed>>
    BY <1>7 DEF SaveStep, Dump, Open, Write, WriteRaises, Replace, saver, Busy
  <2>2. life \in {"up", "flushed"} \/ s # Gui
    BY <1>7, <2>1 DEF SaveStep, Running, KeepInv
  <2>3. \A u \in Saver : u # s => job'[u].step = job[u].step
    BY <1>7 DEF SaveStep, Dump, Open, Write, WriteRaises, Replace, Idle, TypeOK
  <2>4. life # "exited" /\ life # "crashed"
    BY <1>7 DEF SaveStep, Running
  <2>5. lost' >= lost /\ lost' \in Int
    BY <1>1, <1>7 DEF SaveStep, Dump, Open, Write, WriteRaises, Replace, GivenUp, files
  <2>6. Held(asked) => lost' >= asked \/ Held(asked)'
    BY <1>1, <1>7, <2>1, SaveHolds DEF KeepInv, Held
  <2>7. Held(sealed) => lost' >= sealed \/ Held(sealed)'
    BY <1>1, <1>7, <2>1, SaveHolds DEF KeepInv, Held
  <2> QED BY <1>1, <2>1, <2>2, <2>3, <2>4, <2>5, <2>6, <2>7 DEF KeepInv, Busy
<1>8. CASE Quit \/ Exit \/ Crash
  <2>1. \A v \in Int : Held(v) => Held(v)'
    BY <1>8 DEF Quit, Exit, Crash, Held, Writing, files
  <2> QED BY <1>1, <1>8, <2>1 DEF Quit, Exit, Crash, KeepInv, Busy, saver, files
<1>9. CASE Flush
  <2>1. CASE pending
    <3>1. job'[Gui].step = "dump"
      BY <1>1, <1>2, <1>9, <2>1 DEF Flush, TypeOK
    <3> QED BY <1>1, <1>3, <1>9, <3>1 DEF Flush, KeepInv
  <2>2. CASE ~pending
    <3>1. \A v \in Int : Held(v) => Held(v)'
      BY <1>9, <2>2 DEF Flush, Held, Writing, files
    <3> QED BY <1>1, <1>9, <2>2, <3>1 DEF Flush, KeepInv, files
  <2> QED BY <2>1, <2>2
<1>10. CASE Launch
  <2>1. /\ job'[Gui].step = "dump" /\ memory' = Loaded /\ asked' = Loaded /\ sealed' = 0
        /\ life' = "up" /\ Loaded \in Int /\ Loaded >= 0
    BY <1>1, <1>2, <1>10, LoadedType, BoundAssumption DEF Launch, Version
  <2> QED BY <1>1, <1>3, <2>1 DEF KeepInv
<1>11. CASE UNCHANGED vars
  BY <1>11 DEF vars, KeepInv, Held, Writing, Busy
<1> QED
  BY <1>4, <1>5, <1>6, <1>7, <1>8, <1>9, <1>10, <1>11 DEF Next

\* As long as saves take turns, no request is dropped between the requesters,
\* the timers and flush(), whatever the timing, and a save that raises costs only
\* the versions it was writing (DebouncedSaver).
THEOREM TurnsForgetNothing ==
  ASSUME ~Overlap
  PROVE  Spec => []NothingForgotten
<1>1. TypeOK /\ AloneInv /\ [Next]_vars => AloneInv'
  BY AloneStep
<1>2. TypeOK /\ AloneInv /\ KeepInv /\ [Next]_vars => KeepInv'
  BY KeepStep
<1>3. KeepInv => NothingForgotten
  BY DEF KeepInv, NothingForgotten, Running
<1> QED BY <1>1, <1>2, <1>3, StoreTypes, AloneInit, KeepInit, PTL DEF Spec

\* As long as saves take turns, of what was asked for when flush() decided, only
\* a save in flight on a timer thread can be missing after a clean exit; changes
\* may be requested at any moment, after flush() too.
THEOREM TurnsLoseOnlyInFlight ==
  ASSUME ~Overlap
  PROVE  Spec => []QuitLosesOnlyInFlight
<1>1. TypeOK /\ AloneInv /\ [Next]_vars => AloneInv'
  BY AloneStep
<1>2. TypeOK /\ AloneInv /\ KeepInv /\ [Next]_vars => KeepInv'
  BY KeepStep
<1>3. TypeOK /\ KeepInv => QuitLosesOnlyInFlight
  <2> SUFFICES ASSUME TypeOK, KeepInv, life = "exited", sealed > lost, sealed > disk
               PROVE  \E t \in Timers :
                        Busy(t) /\ (job[t].step = "dump" \/ job[t].payload >= sealed)
    BY DEF QuitLosesOnlyInFlight
  <2>1. Held(sealed) /\ ~Busy(Gui)
    BY DEF KeepInv
  <2>2. sealed \in Int /\ disk \in Int
    BY BoundAssumption DEF TypeOK, Version, Content, Missing, Torn
  <2>3. PICK s \in Saver : job[s].step = "dump" \/ (Writing(s) /\ job[s].payload >= sealed)
    <3>1. ~(disk >= sealed)
      BY <2>2
    <3> QED BY <2>1, <3>1 DEF Held
  <2>4. Busy(s) /\ s # Gui
    BY <2>1, <2>3 DEF Busy, Writing
  <2> QED BY <2>3, <2>4 DEF Saver
<1> QED BY <1>1, <1>2, <1>3, StoreTypes, AloneInit, KeepInit, PTL DEF Spec
=============================================================================
