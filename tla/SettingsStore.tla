--------------------------- MODULE SettingsStore ----------------------------
(***************************************************************************)
(* config/settings.py: the one settings.json, written by save_settings from *)
(* two directions - the GUI's save() writes at once, everything else asks   *)
(* the DebouncedSaver, whose timer threads write later - and read back by   *)
(* load_settings at the next launch.                                        *)
(*                                                                          *)
(* The settings are a version number, one higher after every change.  A     *)
(* save is the steps of save_settings: take a snapshot, truncate the .tmp   *)
(* file, fill it, rename it over settings.json.  Nothing serialises two     *)
(* saves: Overlap says whether one may start inside another.                *)
(***************************************************************************)
EXTENDS Integers, FiniteSets

CONSTANTS MaxVersion,  \* bound: changes made to the settings
          Overlap      \* TRUE: a save may start while another is writing

ASSUME BoundAssumption == MaxVersion \in Nat \ {0} /\ Overlap \in BOOLEAN

Version == 0..MaxVersion     \* 0 is the defaults
Missing == -1                \* no such file
Torn    == -2                \* truncated, partly written or mixed content
Content == Version \cup {Missing, Torn}

Timers == 1..MaxVersion      \* the timer request_save armed for a version
Gui    == 0                  \* the GUI thread, saving directly or in flush()
Saver  == Timers \cup {Gui}
Idle   == [step |-> "idle", payload |-> 0, file |-> "none"]

VARIABLES
  life,      \* "up", "stopping" (backend.stop ran), "flushed", "exited", "crashed"
  memory,    \* the version in memory
  asked,     \* the newest version a save was asked for
  pending,   \* DebouncedSaver._pending
  timer,     \* DebouncedSaver._timer: the timer it can still cancel, 0 for None
  clock,     \* Timers -> "new", "armed", "fired" (about to take the lock), "over"
  job,       \* Saver -> the save it is in
  tmp, disk, \* what settings.json.tmp and settings.json contain
  lost,      \* history: the newest version a save that raised was writing
  sealed     \* history: the newest version asked for when flush() decided

saver == <<pending, timer, clock>>
files == <<tmp, disk, lost>>
vars  == <<life, memory, asked, pending, timer, clock, job, tmp, disk, lost, sealed>>

Running == life \in {"up", "stopping", "flushed"}

Busy(s)    == job[s].step # "idle"
Writing(s) == job[s].step \in {"open", "write", "replace"}
Snapshot   == [Idle EXCEPT !.step = "dump"]

Init ==
  /\ life = "up" /\ memory = 0 /\ asked = 0
  /\ pending = FALSE /\ timer = 0 /\ clock = [t \in Timers |-> "new"]
  /\ job = [s \in Saver |-> IF s = Gui THEN Snapshot ELSE Idle]  \* create_app's save()
  /\ tmp = Missing /\ disk = Missing /\ lost = Missing /\ sealed = 0

-----------------------------------------------------------------------------
(* DebouncedSaver                                                          *)

\* cancel() stops a timer that is still waiting; one that fired runs anyway.
Cancelled(t) == IF t # 0 /\ clock[t] = "armed" THEN [clock EXCEPT ![t] = "over"] ELSE clock

\* Wrong variant: the running timer is cancelled and none takes its place.
RequestSaveUnarmed ==
  /\ Running /\ memory < MaxVersion
  /\ memory' = memory + 1 /\ asked' = memory + 1
  /\ pending' = TRUE /\ timer' = memory + 1
  /\ clock' = Cancelled(timer)
  /\ UNCHANGED <<life, job, files, sealed>>

\* A change, on any thread, and request_save: (re)arm the timer.  Nothing refuses
\* a request that comes after flush(); its daemon timer dies with the process.
RequestSave ==
  /\ Running /\ memory < MaxVersion
  /\ memory' = memory + 1 /\ asked' = memory + 1
  /\ pending' = TRUE /\ timer' = memory + 1
  /\ clock' = [Cancelled(timer) EXCEPT ![memory + 1] = "armed"]
  /\ UNCHANGED <<life, job, files, sealed>>

Fire(t) ==
  /\ Running /\ clock[t] = "armed"
  /\ clock' = [clock EXCEPT ![t] = "fired"]
  /\ UNCHANGED <<life, memory, asked, pending, timer, job, files, sealed>>

\* Wrong variants: a timer that is no longer the current one drops the request;
\* a timer writes the settings as they were when it was armed.
OnTimerStale(t) ==
  /\ clock[t] = "fired"
  /\ clock' = [clock EXCEPT ![t] = "over"]
  /\ pending' = FALSE
  /\ IF pending /\ timer = t
     THEN timer' = 0 /\ job' = [job EXCEPT ![t] = Snapshot]
     ELSE UNCHANGED <<timer, job>>
  /\ UNCHANGED <<life, memory, asked, files, sealed>>
OnTimerAsArmed(t) ==
  /\ clock[t] = "fired"
  /\ clock' = [clock EXCEPT ![t] = "over"]
  /\ IF pending
     THEN /\ pending' = FALSE /\ timer' = 0
          /\ job' = [job EXCEPT ![t] = [Idle EXCEPT !.step = "open", !.payload = t]]
     ELSE UNCHANGED <<pending, timer, job>>
  /\ UNCHANGED <<life, memory, asked, files, sealed>>

\* _on_timer: whoever finds a save pending takes it, and saves off the lock.
OnTimer(t) ==
  /\ clock[t] = "fired"
  /\ clock' = [clock EXCEPT ![t] = "over"]
  /\ IF pending
     THEN pending' = FALSE /\ timer' = 0 /\ job' = [job EXCEPT ![t] = Snapshot]
     ELSE UNCHANGED <<pending, timer, job>>
  /\ UNCHANGED <<life, memory, asked, files, sealed>>

-----------------------------------------------------------------------------
(* save_settings, a step at a time                                         *)

\* The GUI's own save(): a change and a save on the spot.
SaveNow ==
  /\ life = "up" /\ ~Busy(Gui) /\ memory < MaxVersion
  /\ memory' = memory + 1 /\ asked' = memory + 1
  /\ job' = [job EXCEPT ![Gui] = Snapshot]
  /\ UNCHANGED <<life, saver, files, sealed>>

\* settings.model_dump
Dump(s) ==
  /\ job[s].step = "dump" /\ (Overlap \/ \A u \in Saver : ~Writing(u))
  /\ job' = [job EXCEPT ![s] = [@ EXCEPT !.step = "open", !.payload = memory]]
  /\ UNCHANGED <<life, memory, asked, saver, files, sealed>>

\* Wrong variant: settings.json itself is truncated and rewritten.
OpenInPlace(s) ==
  /\ job[s].step = "open"
  /\ disk' = Torn
  /\ job' = [job EXCEPT ![s] = [@ EXCEPT !.step = "write", !.file = "disk"]]
  /\ UNCHANGED <<life, memory, asked, saver, tmp, lost, sealed>>

\* write_text opens the shared .tmp name, truncating what is there.
Open(s) ==
  /\ job[s].step = "open"
  /\ tmp' = Torn
  /\ job' = [job EXCEPT ![s] = [@ EXCEPT !.step = "write", !.file = "tmp"]]
  /\ UNCHANGED <<life, memory, asked, saver, disk, lost, sealed>>

\* Two writers of one file each start at its beginning: the longer text shows.
Overlay(old, new) == IF old = Torn THEN {new} ELSE {new, Torn}

\* The open handle follows the file when another save renames it.
Write(s) ==
  /\ job[s].step = "write"
  /\ tmp'  \in IF job[s].file = "tmp"  THEN Overlay(tmp, job[s].payload)  ELSE {tmp}
  /\ disk' \in IF job[s].file = "disk" THEN Overlay(disk, job[s].payload) ELSE {disk}
  /\ job' = [job EXCEPT ![s].step = "replace"]
  /\ UNCHANGED <<life, memory, asked, saver, lost, sealed>>

\* A save that raises is given up: nothing puts its request back.
GivenUp(s) == lost' = IF job[s].payload > lost THEN job[s].payload ELSE lost

\* The disk is full or the file is held by someone.
WriteRaises(s) ==
  /\ job[s].step = "write"
  /\ job' = [job EXCEPT ![s] = Idle] /\ GivenUp(s)
  /\ UNCHANGED <<life, memory, asked, saver, tmp, disk, sealed>>

Renamed(file) == CASE file = "tmp" -> "disk" [] file = "disk" -> "gone" [] OTHER -> file

\* tmp_path.replace(path); it raises when another save already took the .tmp.
Replace(s) ==
  /\ job[s].step = "replace"
  /\ IF tmp = Missing
     THEN /\ job' = [job EXCEPT ![s] = Idle] /\ GivenUp(s)
          /\ UNCHANGED <<tmp, disk>>
     ELSE /\ disk' = tmp /\ tmp' = Missing /\ UNCHANGED lost
          /\ job' = [u \in Saver |-> IF u = s THEN Idle
                                     ELSE [job[u] EXCEPT !.file = Renamed(@)]]
  /\ UNCHANGED <<life, memory, asked, saver, sealed>>

-----------------------------------------------------------------------------
(* Quitting, crashing and the next launch                                  *)

\* aboutToQuit: backend.stop has run; its export may still ask for a save.
Quit == /\ life = "up" /\ ~Busy(Gui) /\ life' = "stopping"
        /\ UNCHANGED <<memory, asked, saver, job, files, sealed>>

\* Wrong variant: flush() disarms the timer and forgets what it was for.
FlushDisarmsOnly ==
  /\ life = "stopping" /\ life' = "flushed"
  /\ clock' = Cancelled(timer) /\ timer' = 0 /\ pending' = FALSE /\ sealed' = asked
  /\ UNCHANGED <<memory, asked, job, files>>

\* flush(): disarm, take a pending save and run it on this thread.
Flush ==
  /\ life = "stopping" /\ life' = "flushed"
  /\ clock' = Cancelled(timer) /\ timer' = 0 /\ pending' = FALSE /\ sealed' = asked
  /\ job' = IF pending THEN [job EXCEPT ![Gui] = Snapshot] ELSE job
  /\ UNCHANGED <<memory, asked, files>>

\* The interpreter ends; timer threads are daemons and die where they are.
Exit == /\ life = "flushed" /\ ~Busy(Gui) /\ life' = "exited"
        /\ UNCHANGED <<memory, asked, saver, job, files, sealed>>

Crash == /\ Running /\ life' = "crashed"
         /\ UNCHANGED <<memory, asked, saver, job, files, sealed>>

\* Wrong variant: what was read is taken as it is.
LoadedUnchecked == disk

\* load_settings: what cannot be read is replaced by the defaults, which
\* create_app then saves over it.
Loaded == IF disk \in Version THEN disk ELSE 0

Launch ==
  /\ life \in {"exited", "crashed"} /\ life' = "up"
  /\ memory' = Loaded /\ asked' = Loaded
  /\ pending' = FALSE /\ timer' = 0 /\ clock' = [t \in Timers |-> "new"]
  /\ job' = [s \in Saver |-> IF s = Gui THEN Snapshot ELSE Idle]
  /\ lost' = Missing /\ sealed' = 0
  /\ UNCHANGED <<tmp, disk>>

-----------------------------------------------------------------------------
SaveStep(s) == /\ Running
               /\ Dump(s) \/ Open(s) \/ Write(s) \/ WriteRaises(s) \/ Replace(s)
TimerStep(t) == Running /\ (Fire(t) \/ OnTimer(t))

Next == \/ RequestSave \/ SaveNow
        \/ \E t \in Timers : TimerStep(t)
        \/ \E s \in Saver : SaveStep(s)
        \/ Quit \/ Flush \/ Exit \/ Crash \/ Launch

\* Timer threads and saves make progress while the process runs.  Nothing is
\* assumed of the user, of crashes or of the next launch.
Fairness == /\ \A t \in Timers : WF_vars(TimerStep(t))
            /\ \A s \in Saver : WF_vars(SaveStep(s))

Spec == Init /\ [][Next]_vars /\ Fairness

-----------------------------------------------------------------------------
TypeOK ==
  /\ life \in {"up", "stopping", "flushed", "exited", "crashed"}
  /\ memory \in Version /\ asked \in Version
  /\ pending \in BOOLEAN /\ timer \in Saver
  /\ clock \in [Timers -> {"new", "armed", "fired", "over"}]
  /\ job \in [Saver -> [step : {"idle", "dump", "open", "write", "replace"},
                        payload : Version, file : {"none", "tmp", "disk", "gone"}]]
  /\ tmp \in Content /\ disk \in Content
  /\ lost \in Version \cup {Missing} /\ sealed \in Version

\* save_settings writes atomically: at no moment, a crash included, does
\* settings.json hold anything but one complete version.  A torn file would be
\* replaced by the defaults at the next launch.
NeverTorn == disk # Torn

\* v is on disk or a save in progress will write it.
Held(v) == \/ disk >= v
           \/ \E s \in Saver : \/ job[s].step = "dump"
                               \/ Writing(s) /\ job[s].payload >= v

\* No request is dropped between the requesters, the timers and flush(): the
\* newest one asked for is on disk, pending or being written, unless the very
\* save that carried it raised.  A save that raised costs no later request.
NothingForgotten == Running /\ asked > lost => pending \/ Held(asked)

\* After a clean exit, of the changes asked for when flush() decided, only one
\* that a timer thread was still writing, or a save that raised, can be missing.
\* A request made after flush() is not promised anything.
QuitLosesOnlyInFlight ==
  life = "exited" /\ sealed > lost /\ sealed > disk
    => \E t \in Timers : Busy(t) /\ (job[t].step = "dump" \/ job[t].payload >= sealed)

\* flush() runs any pending save now, synchronously: what was asked for before it
\* is on disk after a clean exit, unless the save raised.
QuitKeepsEverything == life = "exited" /\ sealed > lost => disk >= sealed

\* A change that asked to be saved is on disk sooner or later, unless a save of
\* it raises or the process stops first; an earlier save that raised is no excuse.
EventuallySaved ==
  \A v \in Version :
    asked = v /\ life = "up" ~> disk >= v \/ lost >= v \/ life # "up"
=============================================================================
