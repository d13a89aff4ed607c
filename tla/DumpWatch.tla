----------------------------- MODULE DumpWatch -----------------------------
(***************************************************************************)
(* core/dumps/watcher.py over core/dumps/store.py: one dump file of the EQ  *)
(* directory and the newest snapshot of its character and kind.  The game   *)
(* writes the file, the GUI moves the two toggles and asks for scans, the   *)
(* driver ticks.  A file's time is a counter of writes, so every write moves *)
(* it, and half a dump read while the game writes is one more write; 0 is    *)
(* before the session, whose dumps are never uploaded by themselves.         *)
(***************************************************************************)
EXTENDS Naturals

CONSTANTS
  Content,    \* what a dump may say, by its digest
  Nothing,    \* no file, or no snapshot
  MaxWrites   \* bound: /outputfile runs

ASSUME WatchAssumption == Content \subseteq Nat /\ Nothing \notin Content /\ MaxWrites \in Nat

VARIABLES
  file,       \* the dump: what it says, and when it was written
  cached,     \* _mtimes holds that time
  newest,     \* library.latest()
  toggles,    \* dumps.auto_import and dumps.auto_update
  were,       \* _updates_were_enabled
  rescan,     \* _scan_requested
  excused,    \* ghost: the last look at the file could not read or could not store it, or
              \* a hand-picked dump has become the newest since
  uploads     \* ghost: the time of the last dump on_fresh_dump let through, or 0

watchVars == <<file, cached, newest, toggles, were, rescan, excused, uploads>>

None == [says |-> Nothing, at |-> 0]
Dump == [says : Content \cup {Nothing}, at : 0..MaxWrites]

WatchTypeOK ==
  /\ file \in Dump /\ newest \in Dump /\ cached \in BOOLEAN
  /\ toggles \in [imports : BOOLEAN, updates : BOOLEAN] /\ were \in {"unknown", "on", "off"}
  /\ rescan \in BOOLEAN /\ excused \in BOOLEAN /\ uploads \in 0..MaxWrites

WatchInit ==
  /\ file \in {None} \cup [says : Content, at : {0}]
  /\ newest = None /\ cached = FALSE
  /\ toggles \in [imports : BOOLEAN, updates : BOOLEAN] /\ were = "unknown"
  /\ rescan = FALSE /\ excused = FALSE /\ uploads = 0

-----------------------------------------------------------------------------
(* The game and the GUI                                                     *)

\* /outputfile
Writes(c) ==
  /\ file.at < MaxWrites
  /\ file' = [says |-> c, at |-> file.at + 1] /\ cached' = FALSE /\ excused' = FALSE
  /\ UNCHANGED <<newest, toggles, were, rescan, uploads>>

SetToggles(t) ==
  /\ t # toggles /\ toggles' = t
  /\ UNCHANGED <<file, cached, newest, were, rescan, excused, uploads>>

\* request_scan
ImportNow ==
  /\ rescan' = TRUE
  /\ UNCHANGED <<file, cached, newest, toggles, were, excused, uploads>>

-----------------------------------------------------------------------------
(* The driver's tick                                                        *)

\* DumpLibrary.store, when it succeeds: latest() goes by time, then digest.
Stored(d) ==
  IF newest = None \/ d.at > newest.at \/ (d.at = newest.at /\ d.says > newest.says)
  THEN d ELSE newest

\* _ingest of the file; on_fresh_dump runs before the retention decision.
Ingest(d, updating) ==
  IF newest # None /\ d.says = newest.says
  THEN excused' = FALSE /\ UNCHANGED <<newest, uploads>>
  ELSE /\ uploads' = IF d.at > 0 THEN d.at ELSE uploads
       /\ IF newest # None /\ ~updating
          THEN excused' = FALSE /\ UNCHANGED newest
          ELSE \/ newest' = Stored(d) /\ excused' = FALSE
               \/ excused' = TRUE /\ UNCHANGED newest    \* the write failed

\* The file's time is remembered before read_dump_file, which gives nothing when the
\* file is locked or its text is refused: the file counts as read all the same.
Reads(updating) ==
  /\ file # None /\ cached' = TRUE
  /\ \/ Ingest(file, updating)
     \/ excused' = TRUE /\ UNCHANGED <<newest, uploads>>

\* scan: a file whose time is known, that is not there or that stat() refuses is left;
\* so is every file until the 20 s since the last scan are over.
Scan(known, updating) ==
  \/ ~known /\ Reads(updating)
  \/ cached' = known /\ UNCHANGED <<newest, excused, uploads>>

TickRescans ==
  /\ rescan /\ rescan' = FALSE
  /\ Scan(FALSE, TRUE)
  /\ UNCHANGED <<file, toggles, were>>

Known == cached /\ ~(toggles.updates /\ were = "off")

\* Wrong variant: what the toggle held back stays cached.
TickKeepsCache ==
  /\ ~rescan /\ toggles.imports
  /\ were' = IF toggles.updates THEN "on" ELSE "off"
  /\ Scan(cached, toggles.updates)
  /\ UNCHANGED <<file, toggles, rescan>>

\* With auto_import on.
TickScans ==
  /\ ~rescan /\ toggles.imports
  /\ were' = IF toggles.updates THEN "on" ELSE "off"
  /\ Scan(Known, toggles.updates)
  /\ UNCHANGED <<file, toggles, rescan>>

\* A hand-picked file, drained by the tick: stored, never uploaded.  It may not be
\* read, say nothing new, or fail to be stored.
ImportFile(c, at) ==
  /\ \/ UNCHANGED newest
     \/ c # newest.says /\ newest' = Stored([says |-> c, at |-> at])
  /\ excused' = (excused \/ newest' # newest)
  /\ UNCHANGED <<file, cached, toggles, were, rescan, uploads>>

WatchNext ==
  \/ \E c \in Content : Writes(c) \/ \E at \in 0..MaxWrites : ImportFile(c, at)
  \/ \E t \in [imports : BOOLEAN, updates : BOOLEAN] : SetToggles(t)
  \/ ImportNow \/ TickRescans \/ TickScans

WatchSpec == WatchInit /\ [][WatchNext]_watchVars

-----------------------------------------------------------------------------
(* Properties                                                               *)

\* Once the last tick saw both toggles on and the file counts as read, the newest
\* snapshot says what the file says or is of a dump as late: what auto_update held
\* back is not forgotten, whatever the order the toggles, the scans and the game's
\* writes come in.  Excused is a file whose last read gave nothing (its time was
\* remembered first, so no scan by itself tries again), a snapshot that could not be
\* written, and a library where a hand-picked dump has become the newest since.
LibraryCatchesUp ==
  cached /\ were = "on" /\ ~excused => newest.says = file.says \/ newest.at >= file.at
=============================================================================
