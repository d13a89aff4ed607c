--------------------------- MODULE PluginInstall ---------------------------
(***************************************************************************)
(* core/plugins/install.py: one plugin path of the plugins directory, with  *)
(* the installs and updates that a worker thread runs and the uninstall of  *)
(* the GUI thread.  The worker is a daemon thread: quitting kills it        *)
(* between any two steps, and what is on disk stays.                        *)
(*                                                                          *)
(* A copy is a plugin id and a version; what the archive screens test       *)
(* (checksum, members, root name) is one refusal.  The plugin is a package  *)
(* directory, so shutil.move, where it cannot rename, copies the files and   *)
(* then removes them, and may raise, or be killed, half-way through either.  *)
(* The removals that ignore errors are taken to succeed.                    *)
(***************************************************************************)
EXTENDS FiniteSets

CONSTANTS
  PluginId,   \* ids that code under this name may declare
  Version,    \* versions of each
  NoCopy,     \* no file there
  Half        \* some of a copy's files

ASSUME InstallAssumption == {NoCopy, Half} \cap [id : PluginId, version : Version] = {} /\ NoCopy # Half

VARIABLES
  place,      \* the plugin path itself
  nested,     \* a copy a rollback moved inside of it
  backup,     \* .install-backup
  staging,    \* .install-staging
  trashBin,   \* trash/
  job,        \* what the worker does: "fresh" or "update"
  step,       \* how far it got
  outcome,    \* how the last one ended
  before      \* ghost: the copy the last update replaces

installVars == <<place, nested, backup, staging, trashBin, job, step, outcome, before>>

Copy == [id : PluginId, version : Version]

InstallTypeOK ==
  /\ {place, nested, backup} \subseteq Copy \cup {NoCopy, Half}
  /\ {staging, before} \subseteq Copy \cup {NoCopy} /\ trashBin \subseteq Copy \cup {Half}
  /\ job \in {"fresh", "update"}
  /\ step \in {"rest", "staged", "aside", "undo", "swap", "restore", "trash", "clear"}
  /\ outcome \in {"none", "ok", "failed", "stuck"}

InstallInit ==
  /\ place = NoCopy /\ nested = NoCopy /\ backup = NoCopy /\ staging = NoCopy /\ trashBin = {}
  /\ job = "fresh" /\ step = "rest" /\ outcome = "none" /\ before = NoCopy

\* A move that raised, as <<what is left, what is there>>: nothing could be copied, some
\* was, all was, or all was and some of the source is gone.
BrokenMove(c) ==
  IF c = NoCopy THEN {<<NoCopy, NoCopy>>} ELSE ({c} \X {NoCopy, Half, c}) \cup {<<Half, c>>}

-----------------------------------------------------------------------------
(* The worker                                                               *)

\* The archive passed its screens and is extracted; the last leftovers go.  What an
\* earlier rollback nested is from here on part of what is in place.
Extract(c, what) ==
  /\ step = "rest" /\ (what = "fresh" <=> place = NoCopy)
  /\ job' = what /\ staging' = c /\ step' = "staged"
  /\ outcome' = "none" /\ before' = NoCopy /\ nested' = NoCopy
  /\ UNCHANGED <<place, backup, trashBin>>

Ends(how) == step' = "rest" /\ outcome' = how /\ staging' = NoCopy

\* It does not validate, or the update is another plugin.
Refuse ==
  /\ step = "staged" /\ Ends("failed")
  /\ UNCHANGED <<place, nested, backup, trashBin, job, before>>

\* A fresh install: one move, whose error nobody catches.
MoveIn ==
  /\ step = "staged" /\ job = "fresh"
  /\ \/ place' = staging /\ Ends("ok")
     \/ place' \in {NoCopy, Half, staging} /\ Ends("failed")
  /\ UNCHANGED <<nested, backup, trashBin, job, before>>

\* _swap_in starts with an empty backup directory.
ClearBackup ==
  /\ step = "staged" /\ job = "update"
  /\ place \in Copy => place.id = staging.id
  /\ before' = IF place \in Copy THEN place ELSE NoCopy
  /\ backup' = NoCopy /\ step' = "aside"
  /\ UNCHANGED <<place, nested, staging, trashBin, job, outcome>>

SetAside ==
  /\ step = "aside" /\ place # NoCopy
  /\ backup' = place /\ place' = NoCopy /\ step' = "swap"
  /\ UNCHANGED <<nested, staging, trashBin, job, outcome, before>>

\* The old copy cannot be moved, or was uninstalled meanwhile.
SetAsideFails ==
  /\ step = "aside" /\ step' = "undo"
  /\ \E m \in BrokenMove(place) : place' = m[1] /\ backup' = m[2]
  /\ UNCHANGED <<nested, staging, trashBin, job, outcome, before>>

SwapIn ==
  /\ step = "swap"
  /\ place' = staging /\ staging' = NoCopy /\ step' = "trash"
  /\ UNCHANGED <<nested, backup, trashBin, job, outcome, before>>

SwapInFails ==
  /\ step = "swap" /\ step' = "restore"
  /\ place' \in {NoCopy, Half, staging}
  /\ UNCHANGED <<nested, backup, staging, trashBin, job, outcome, before>>

\* The old copy goes back; a move to a directory that is there goes inside of it.
Restore ==
  /\ step = "restore" /\ backup' = NoCopy /\ Ends("failed")
  /\ \/ place = NoCopy /\ place' = backup /\ UNCHANGED nested
     \/ place # NoCopy /\ nested' = backup /\ UNCHANGED place
  /\ UNCHANGED <<trashBin, job, before>>

\* Wrong variant: the backup is removed here as well.
RestoreFailsClearing ==
  /\ step = "restore" /\ backup' = NoCopy /\ Ends("stuck")
  /\ place' \in {place, Half}
  /\ UNCHANGED <<nested, trashBin, job, before>>

\* When that fails as well, the backup stays.
RestoreFails ==
  /\ step = "restore" /\ Ends("stuck")
  /\ \E m \in BrokenMove(backup) :
       /\ backup' = m[1]
       /\ \/ place = NoCopy /\ place' = m[2] /\ UNCHANGED nested
          \/ place # NoCopy /\ nested' = m[2] /\ UNCHANGED place
  /\ UNCHANGED <<trashBin, job, before>>

TrashOld ==
  /\ step = "trash" /\ trashBin' = trashBin \cup {backup} /\ backup' = NoCopy /\ Ends("ok")
  /\ UNCHANGED <<place, nested, job, before>>

\* No error of the update's.
TrashOldFails ==
  /\ step = "trash" /\ step' = "clear"
  /\ \E m \in BrokenMove(backup) : backup' = m[1] /\ trashBin' = trashBin \cup ({m[2]} \ {NoCopy})
  /\ UNCHANGED <<place, nested, staging, job, outcome, before>>

\* After a failed move of the old copy, aside or to the trash, the backup directory is
\* removed with what it holds.
CleanUp ==
  /\ \/ step = "undo" /\ Ends("failed")
     \/ step = "clear" /\ Ends("ok")
  /\ backup' = NoCopy
  /\ UNCHANGED <<place, nested, trashBin, job, before>>

-----------------------------------------------------------------------------
\* The GUI does not wait for the worker.  When the move raises, the trash has a whole
\* copy and the place half of one, or the other way round.
Uninstall ==
  /\ place # NoCopy
  /\ \/ /\ place' \in {NoCopy, Half} /\ nested' = NoCopy
        /\ trashBin' = trashBin \cup ({place, nested} \ {NoCopy})
     \/ trashBin' = trashBin \cup {Half} /\ UNCHANGED <<place, nested>>
  /\ UNCHANGED <<backup, staging, job, step, outcome, before>>

\* The app ends; the worker never reaches its finally.
Killed ==
  /\ step # "rest" /\ step' = "rest"
  /\ UNCHANGED <<place, nested, backup, staging, trashBin, job, outcome, before>>

InstallNext ==
  \/ \E c \in Copy, what \in {"fresh", "update"} : Extract(c, what)
  \/ Refuse \/ MoveIn \/ ClearBackup \/ SetAside \/ SetAsideFails
  \/ SwapIn \/ SwapInFails \/ Restore \/ RestoreFails
  \/ TrashOld \/ TrashOldFails \/ CleanUp
  \/ Uninstall \/ Killed

InstallSpec == InstallInit /\ [][InstallNext]_installVars

-----------------------------------------------------------------------------
(* Properties                                                               *)

\* Where a copy may be found, until the next install.
Copies == {place, nested, backup} \cup trashBin

\* Killed between any two steps, half-way through a move or after the rollback failed
\* too, an update keeps a whole copy of what it replaces: in place or inside what is in
\* place, in the backup or in the trash.  One that reports success leaves the same
\* plugin in place, and one that reports failure keeps the old copy unless a removal
\* stopped half-way through it.  That exception is against the module's docstring ("A
\* failure at any point leaves the working copy in place"): the backup, whole by then, is
\* removed.  So it is after a success whose old copy could not be trashed.
OldCopySurvives ==
  before # NoCopy =>
    /\ outcome \in {"none", "stuck"} => before \in Copies
    /\ outcome = "ok" => place \in {NoCopy, Half} \/ place.id = before.id
    /\ outcome = "failed" => before \in Copies \/ Half \in {place} \cup trashBin
=============================================================================
