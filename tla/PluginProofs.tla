---------------------------- MODULE PluginProofs ----------------------------
(***************************************************************************)
(* Plugins, for any plugins and versions: an update keeps the old copy      *)
(* (PluginInstall), and nothing runs without consent, or keeps a            *)
(* registration once it is not active (PluginHost).                         *)
(***************************************************************************)
EXTENDS PluginInstall, PluginHost, TLAPS, SequenceTheorems

-----------------------------------------------------------------------------
(* Installing                                                               *)

\* While an update is under way nothing is decided, and the copy it replaces is whole in
\* place or in the trash, then in the backup, whatever the user moves to the trash.
InstallInv ==
  /\ InstallTypeOK /\ OldCopySurvives
  /\ step # "rest" => outcome = "none"
  /\ step \in {"staged", "aside", "undo", "swap", "restore"} => staging \in Copy
  /\ step = "staged" => before = NoCopy
  /\ step \in {"aside", "undo", "swap", "restore"} /\ before # NoCopy => staging.id = before.id
  /\ step = "aside" => before \in {NoCopy, place} \cup trashBin
  /\ step = "undo" => before \in {NoCopy, place} \cup trashBin \/ Half \in {place} \cup trashBin
  /\ step \in {"swap", "restore", "trash"} => backup # NoCopy /\ before \in {NoCopy, backup} \cup trashBin
  /\ step \in {"trash", "clear"} /\ before # NoCopy => place \in {NoCopy, Half} \/ place.id = before.id

\* Of a move that raised, one end has the whole copy, and the source is whole or half.
LEMMA BrokenMoves ==
  ASSUME NEW c \in Copy \cup {NoCopy, Half}, NEW m \in BrokenMove(c)
  PROVE  /\ m[1] \in {c, Half} /\ m[2] \in {c, NoCopy, Half} /\ c \in {m[1], m[2]}
         /\ c = NoCopy => m[1] = NoCopy
<1>1. CASE c = NoCopy
  BY <1>1 DEF BrokenMove
<1>2. CASE c # NoCopy
  BY <1>2 DEF BrokenMove
<1> QED BY <1>1, <1>2

LEMMA InstallInvHolds == InstallSpec => []InstallInv
<1> USE InstallAssumption
<1>0. NoCopy \notin Copy /\ Half \notin Copy /\ NoCopy # Half
  BY DEF Copy
<1>1. InstallInit => InstallInv
  BY DEF InstallInit, InstallInv, InstallTypeOK, OldCopySurvives
<1>2. InstallInv /\ [InstallNext]_installVars => InstallInv'
  <2> SUFFICES ASSUME InstallInv, [InstallNext]_installVars PROVE InstallInv'
    OBVIOUS
  <2> USE <1>0 DEF InstallInv, InstallTypeOK, OldCopySurvives, Copies
  <2>1. ASSUME NEW c \in Copy, NEW what \in {"fresh", "update"}, Extract(c, what) PROVE InstallInv'
    BY <2>1 DEF Extract
  <2>2. CASE Refuse
    BY <2>2 DEF Refuse, Ends
  <2>3. CASE MoveIn
    BY <2>3 DEF MoveIn, Ends
  <2>4. CASE ClearBackup
    BY <2>4 DEF ClearBackup
  <2>5. CASE SetAside
    BY <2>5 DEF SetAside
  <2>6. CASE SetAsideFails
    <3>1. PICK m \in BrokenMove(place) : place' = m[1] /\ backup' = m[2]
      BY <2>6 DEF SetAsideFails
    <3>2. /\ place' \in {place, Half} /\ backup' \in {place, NoCopy, Half} /\ place \in {place', backup'}
          /\ place = NoCopy => place' = NoCopy
      BY <3>1, BrokenMoves
    <3> QED BY <2>6, <3>2 DEF SetAsideFails
  <2>7. CASE SwapIn
    BY <2>7 DEF SwapIn
  <2>8. CASE SwapInFails
    BY <2>8 DEF SwapInFails
  <2>9. CASE Restore
    BY <2>9 DEF Restore, Ends
  <2>10. CASE RestoreFails
    <3>1. PICK m \in BrokenMove(backup) :
            /\ backup' = m[1]
            /\ \/ place = NoCopy /\ place' = m[2] /\ UNCHANGED nested
               \/ place # NoCopy /\ nested' = m[2] /\ UNCHANGED place
      BY <2>10 DEF RestoreFails
    <3>2. m[1] \in {backup, Half} /\ m[2] \in {backup, NoCopy, Half} /\ backup \in {m[1], m[2]}
      BY <3>1, BrokenMoves
    <3> QED BY <2>10, <3>1, <3>2 DEF RestoreFails, Ends
  <2>11. CASE TrashOld
    BY <2>11 DEF TrashOld, Ends
  <2>12. CASE TrashOldFails
    <3>1. PICK m \in BrokenMove(backup) : backup' = m[1] /\ trashBin' = trashBin \cup ({m[2]} \ {NoCopy})
      BY <2>12 DEF TrashOldFails
    <3>2. m[1] \in {backup, Half} /\ m[2] \in {backup, NoCopy, Half} /\ backup \in {m[1], m[2]}
      BY <3>1, BrokenMoves
    <3> QED BY <2>12, <3>1, <3>2 DEF TrashOldFails
  <2>13. CASE CleanUp
    BY <2>13 DEF CleanUp, Ends
  <2>14. CASE Uninstall
    BY <2>14 DEF Uninstall
  <2>15. CASE Killed
    BY <2>15 DEF Killed
  <2>16. CASE UNCHANGED installVars
    BY <2>16 DEF installVars
  <2> QED BY <2>1, <2>2, <2>3, <2>4, <2>5, <2>6, <2>7, <2>8, <2>9, <2>10, <2>11, <2>12, <2>13, <2>14,
             <2>15, <2>16 DEF InstallNext
<1> QED BY <1>1, <1>2, PTL DEF InstallSpec

\* Type correctness of the installer.
THEOREM InstallTypes == InstallSpec => []InstallTypeOK
<1>1. InstallInv => InstallTypeOK
  BY DEF InstallInv
<1> QED BY <1>1, InstallInvHolds, PTL

\* _swap_in: whenever the app is killed, and when the rollback fails as well, the old
\* copy is whole in place, in the backup or in the trash; a success leaves the same
\* plugin in place, and a failure loses the old copy only to a removal that stopped
\* half-way.
THEOREM InstallOldCopySurvives == InstallSpec => []OldCopySurvives
<1>1. InstallInv => OldCopySurvives
  BY DEF InstallInv
<1> QED BY <1>1, InstallInvHolds, PTL

-----------------------------------------------------------------------------
(* The host                                                                 *)

\* Only a ready plugin is being activated, only while the app runs, and nothing
\* of a launch outlives it.
LifeInv ==
  /\ HostTypeOK
  /\ phase = "off" => subs = {} /\ hooks = {} /\ rows = {} /\ activating = {}
  /\ phase # "running" => commands = <<>> /\ handling = {}
  /\ \A p \in activating : status[p] = "ready"
  /\ \A p \in Plugin : status[p] = "active" \/ p \in activating => run[p] # 0

\* What may run, and what will at the next launch, was answered for.
ConsentInv ==
  \A p \in Plugin : entry[p].approved \/ status[p] \in {"ready", "active"} => p \in answered

LEMMA CtxTypes ==
  ASSUME LifeInv
  PROVE  /\ \A p \in activating : p \in Plugin /\ Ctx(p) \in Context
         /\ \A p \in Plugin : status[p] = "active" => Ctx(p) \in Context
         /\ \A p \in Plugin : <<p, 1>> \in Context
BY HostAssumption DEF LifeInv, HostTypeOK, Ctx, Context

LEMMA DoneTypes ==
  ASSUME NEW c \in Command, Done(c), rows \subseteq Row, hooks \subseteq Context
  PROVE  rows' \subseteq Row /\ hooks' \subseteq Context
<1>1. c.ctx \in Context /\ c.ctx[1] \in Plugin /\ c.do \in {"hook", "unhook", "add row", "drop rows"}
  BY DEF Command, Context
<1>2. [owner |-> c.ctx[1], by |-> "hook"] \in Row
  BY <1>1 DEF Row
<1>3. hooks' \subseteq Context
  BY <1>1 DEF Done
<1>4. rows' \subseteq Row
  BY <1>1, <1>2 DEF Done
<1> QED BY <1>3, <1>4

LEMMA SubmitTypes ==
  ASSUME LifeInv, NEW c \in Command, Submit(c)
  PROVE  /\ commands' \in Seq(Command) /\ rows' \subseteq Row /\ hooks' \subseteq Context
         /\ phase # "running" => commands' = <<>>
<1>1. commands \in Seq(Command) /\ rows \subseteq Row /\ hooks \subseteq Context
  BY DEF LifeInv, HostTypeOK
<1>2. CASE phase = "running"
  BY <1>1, <1>2, AppendProperties DEF Submit
<1>3. CASE phase # "running"
  BY <1>1, <1>3, DoneTypes DEF Submit, LifeInv
<1> QED BY <1>2, <1>3

LEMMA TeardownTypes ==
  ASSUME LifeInv, NEW p \in Plugin, NEW next \in Status, Teardown(p, next)
  PROVE  commands' \in Seq(Command) /\ subs' \subseteq Context /\ status' \in [Plugin -> Status]
<1>1. [do |-> "drop rows", ctx |-> <<p, 1>>] \in Command
  BY CtxTypes DEF Command
<1>2. status[p] = "active" => [do |-> "unhook", ctx |-> Ctx(p)] \in Command
  BY CtxTypes DEF Command
<1>3. Unhooks(p) \in Seq(Command) /\ DropsRows(p) \in Seq(Command)
  <2>1. <<>> \in Seq(Command) /\ \A c \in Command : <<c>> \in Seq(Command)
    OBVIOUS
  <2>2. Unhooks(p) \in Seq(Command)
    BY <1>2, <2>1 DEF Unhooks
  <2> QED BY <1>1, <2>1, <2>2 DEF DropsRows
<1>4. commands \in Seq(Command) /\ subs \subseteq Context /\ status \in [Plugin -> Status]
  BY DEF LifeInv, HostTypeOK
<1>5. commands' \in Seq(Command)
  BY <1>3, <1>4, ConcatProperties DEF Teardown
<1>6. subs' \subseteq Context /\ status' \in [Plugin -> Status]
  BY <1>4 DEF Teardown
<1> QED BY <1>5, <1>6

LEMMA ClassifiedTypes ==
  ASSUME NEW e \in Entry
  PROVE  /\ Classified(e) \in {"pending_consent", "disabled", "ready"}
         /\ Classified(e) = "ready" => e.approved
BY DEF Classified, Entry

LEMMA LifeInit == HostInit => LifeInv /\ ConsentInv
<1> SUFFICES ASSUME HostInit PROVE LifeInv /\ ConsentInv
  OBVIOUS
<1>1. entry \in [Plugin -> Entry] /\ \A p \in Plugin : entry[p].approved = FALSE
  BY DEF HostInit, NoEntry, Entry
<1>2. status \in [Plugin -> Status] /\ \A p \in Plugin : status[p] = "absent"
  BY DEF HostInit, Status
<1>3. run \in [Plugin -> 0..MaxRuns] /\ launches \in 0..MaxLaunches
  BY HostAssumption DEF HostInit
<1>4. commands \in Seq(Command) /\ commands = <<>>
  BY DEF HostInit
<1>5. /\ subs = {} /\ hooks = {} /\ rows = {} /\ activating = {} /\ handling = {} /\ flights = {}
      /\ answered = {} /\ code \in SUBSET Plugin /\ phase = "off"
  BY DEF HostInit
<1>6. HostTypeOK
  BY <1>1, <1>2, <1>3, <1>4, <1>5 DEF HostTypeOK
<1> QED BY <1>1, <1>2, <1>4, <1>5, <1>6 DEF LifeInv, ConsentInv

LEMMA LifeStep == LifeInv /\ ConsentInv /\ [HostNext]_hostVars => LifeInv' /\ ConsentInv'
<1> SUFFICES ASSUME LifeInv, ConsentInv, [HostNext]_hostVars PROVE LifeInv' /\ ConsentInv'
  OBVIOUS
<1> USE HostAssumption
<1>0. HostTypeOK
  BY DEF LifeInv
<1>1. CASE RunCommand
  <2>1. /\ commands \in Seq(Command) /\ commands # <<>> /\ commands' = Tail(commands)
        /\ Done(Head(commands)) /\ rows \subseteq Row /\ hooks \subseteq Context
    BY <1>0, <1>1 DEF RunCommand, HostTypeOK
  <2>2. Head(commands) \in Command /\ commands' \in Seq(Command)
    BY <2>1, HeadTailProperties
  <2>3. rows' \subseteq Row /\ hooks' \subseteq Context
    BY <2>1, <2>2, DoneTypes
  <2> QED BY <1>1, <2>2, <2>3 DEF RunCommand, onDisk, onGui, LifeInv, ConsentInv, HostTypeOK
<1>2. CASE RowEnds
  BY <1>2 DEF RowEnds, onDisk, onGui, LifeInv, ConsentInv, HostTypeOK
<1>3. CASE Launch
  <2>1. status' \in [Plugin -> Status] /\ \A p \in Plugin :
          /\ status'[p] # "active"
          /\ status'[p] = "ready" => entry[p].approved
    BY <1>0, <1>3, ClassifiedTypes DEF Launch, HostTypeOK, Status
  <2>2. launches' \in 0..MaxLaunches
    BY <1>0, <1>3 DEF Launch, HostTypeOK
  <2> QED BY <1>0, <1>3, <2>1, <2>2 DEF Launch, onDriver, LifeInv, ConsentInv, HostTypeOK
<1>4. CASE Start
  BY <1>4 DEF Start, onDisk, onDriver, LifeInv, ConsentInv, HostTypeOK
<1>5. CASE Quit
  <2>1. /\ status' \in [Plugin -> Status] /\ run' \in [Plugin -> 0..MaxRuns]
        /\ \A p \in Plugin : status'[p] = "absent"
        /\ commands' = <<>> /\ <<>> \in Seq(Command)
    BY <1>5 DEF Quit, Status
  <2>2. activating = {} /\ activating' = {}
    BY <1>5 DEF Quit, GuiFree
  <2> QED BY <1>0, <1>5, <2>1, <2>2 DEF Quit, onDisk, LifeInv, ConsentInv, HostTypeOK
<1>6. ASSUME NEW ctx \in Context, Publish(ctx) PROVE LifeInv' /\ ConsentInv'
  BY <1>6 DEF Publish, onDisk, onGui, LifeInv, ConsentInv, HostTypeOK
<1>7. ASSUME NEW ctx \in Context, NEW by \in {"hook", "apply"}, MakesRow(ctx[1], by)
      PROVE  rows' \subseteq Row
  BY <1>0, <1>7 DEF MakesRow, HostTypeOK, Row, Context
<1>8. ASSUME NEW ctx \in Context, Handle(ctx) PROVE LifeInv' /\ ConsentInv'
  <2>0. phase = "running"
    BY <1>8 DEF Handle, LifeInv
  <2>1. rows' \subseteq Row
    BY <1>0, <1>7, <1>8 DEF Handle, HostTypeOK
  <2>2. flights' \in SUBSET Plugin
    BY <1>0, <1>8 DEF Handle, HostTypeOK, Context
  <2> QED BY <1>0, <1>8, <2>0, <2>1, <2>2 DEF Handle, onDisk, onGui, LifeInv, ConsentInv, HostTypeOK
<1>9. ASSUME NEW ctx \in Context, TickRuns(ctx) PROVE LifeInv' /\ ConsentInv'
  <2>1. rows' \subseteq Row
    BY <1>7, <1>9 DEF TickRuns
  <2> QED BY <1>0, <1>9, <2>1 DEF TickRuns, onDisk, onGui, LifeInv, ConsentInv, HostTypeOK
<1>10. ASSUME NEW p \in Plugin, ResultLands(p) PROVE LifeInv' /\ ConsentInv'
  <2>1. rows' \subseteq Row
    BY <1>0, <1>10 DEF ResultLands, MakesRow, Row, HostTypeOK
  <2> QED BY <1>0, <1>10, <2>1 DEF ResultLands, onDisk, onGui, LifeInv, ConsentInv, HostTypeOK
<1>11. ASSUME NEW p \in Plugin, Activating(p), run[p] < MaxRuns
       PROVE  /\ run' \in [Plugin -> 0..MaxRuns] /\ activating' \in SUBSET Plugin
              /\ run'[p] # 0 /\ \A q \in Plugin : q # p => run'[q] = run[q]
              /\ activating' = activating \cup {p}
  BY <1>0, <1>11 DEF Activating, HostTypeOK
<1>12. ASSUME NEW p \in Plugin, Activate(p) PROVE LifeInv' /\ ConsentInv'
  BY <1>0, <1>11, <1>12 DEF Activate, GuiFree, onDisk, onDriver, LifeInv, ConsentInv, HostTypeOK
<1>13. ASSUME NEW p \in Plugin, Subscribe(p) PROVE LifeInv' /\ ConsentInv'
  <2>1. subs' \in SUBSET Context /\ phase # "off"
    BY <1>0, <1>13, CtxTypes DEF Subscribe, HostTypeOK, LifeInv
  <2> QED BY <1>0, <1>13, <2>1 DEF Subscribe, onDisk, onGui, onDriver, LifeInv, ConsentInv, HostTypeOK
<1>14. ASSUME NEW p \in Plugin, AddHook(p) PROVE LifeInv' /\ ConsentInv'
  <2>0. phase # "off" /\ [do |-> "hook", ctx |-> Ctx(p)] \in Command
    BY <1>14, CtxTypes DEF AddHook, LifeInv, Command
  <2>1. /\ commands' \in Seq(Command) /\ rows' \subseteq Row /\ hooks' \subseteq Context
        /\ phase # "running" => commands' = <<>>
    BY <1>14, <2>0, SubmitTypes DEF AddHook
  <2> QED BY <1>0, <1>14, <2>0, <2>1 DEF AddHook, onDisk, onGui, LifeInv, ConsentInv, HostTypeOK
<1>15. ASSUME NEW p \in Plugin, AddRow(p) PROVE LifeInv' /\ ConsentInv'
  <2>0. phase # "off" /\ [do |-> "add row", ctx |-> Ctx(p)] \in Command
    BY <1>15, CtxTypes DEF AddRow, LifeInv, Command
  <2>1. /\ commands' \in Seq(Command) /\ rows' \subseteq Row /\ hooks' \subseteq Context
        /\ phase # "running" => commands' = <<>>
    BY <1>15, <2>0, SubmitTypes DEF AddRow
  <2> QED BY <1>0, <1>15, <2>0, <2>1 DEF AddRow, onDisk, onGui, LifeInv, ConsentInv, HostTypeOK
<1>16. ASSUME NEW p \in Plugin, NEW s \in {"active", "error"}, p \in activating,
              activating' = activating \ {p}, status' = [status EXCEPT ![p] = s]
       PROVE  /\ status' \in [Plugin -> Status] /\ activating' \in SUBSET Plugin /\ phase # "off"
              /\ \A q \in activating' : status'[q] = "ready"
              /\ \A q \in Plugin : status'[q] = "active" \/ q \in activating' => run[q] # 0
              /\ \A q \in Plugin : status'[q] \in {"ready", "active"} => q \in answered
  <2>1. /\ status \in [Plugin -> Status] /\ activating \in SUBSET Plugin /\ phase # "off"
        /\ \A q \in activating : status[q] = "ready" /\ run[q] # 0
        /\ \A q \in Plugin : status[q] = "active" => run[q] # 0
        /\ \A q \in Plugin : status[q] \in {"ready", "active"} => q \in answered
    BY <1>0, <1>16 DEF HostTypeOK, LifeInv, ConsentInv
  <2>2. status' \in [Plugin -> Status]
    BY <1>16, <2>1 DEF Status
  <2> QED BY <1>16, <2>1, <2>2
<1>17. ASSUME NEW p \in Plugin, ActivateReturns(p) PROVE LifeInv' /\ ConsentInv'
  BY <1>0, <1>16, <1>17 DEF ActivateReturns, onDisk, onDriver, LifeInv, ConsentInv, HostTypeOK
<1>18. ASSUME NEW p \in Plugin, ActivateRaises(p) PROVE LifeInv' /\ ConsentInv'
  <2>0. phase # "off" /\ [do |-> "unhook", ctx |-> Ctx(p)] \in Command
    BY <1>18, CtxTypes DEF ActivateRaises, LifeInv, Command
  <2>1. /\ commands' \in Seq(Command) /\ rows' \subseteq Row /\ hooks' \subseteq Context
        /\ phase # "running" => commands' = <<>>
    BY <1>18, <2>0, SubmitTypes DEF ActivateRaises
  <2> QED BY <1>0, <1>16, <1>18, <2>1 DEF ActivateRaises, onDisk, LifeInv, ConsentInv, HostTypeOK
<1>19. ASSUME NEW p \in Plugin, Enable(p) PROVE LifeInv' /\ ConsentInv'
  <2>1. /\ entry' \in [Plugin -> Entry]
        /\ \A q \in Plugin : entry'[q].approved = entry[q].approved
    BY <1>0, <1>19 DEF Enable, HostTypeOK, Entry
  <2>2. CASE entry[p].approved /\ status[p] \in {"disabled", "ready"}
    <3>1. /\ status' = [status EXCEPT ![p] = "ready"] /\ Activating(p) /\ activating = {}
          /\ run[p] < MaxRuns /\ phase = "running" /\ p \in answered
      BY <1>19, <2>2 DEF Enable, GuiFree, ConsentInv
    <3>2. status' \in [Plugin -> Status] /\ status'[p] = "ready"
          /\ \A q \in Plugin : q # p => status'[q] = status[q]
      BY <1>0, <3>1 DEF HostTypeOK, Status
    <3> QED BY <1>0, <1>11, <1>19, <2>1, <3>1, <3>2 DEF Enable, onDriver, LifeInv, ConsentInv, HostTypeOK
  <2>3. CASE UNCHANGED <<status, run, activating>>
    BY <1>0, <1>19, <2>1, <2>3 DEF Enable, onDriver, LifeInv, ConsentInv, HostTypeOK
  <2> QED BY <1>19, <2>2, <2>3 DEF Enable
<1>20. ASSUME NEW p \in Plugin, NEW next \in Status, Teardown(p, next), next \notin {"ready", "active"}, activating = {},
              phase = "running"
       PROVE  /\ status' \in [Plugin -> Status] /\ commands' \in Seq(Command) /\ subs' \subseteq Context
              /\ \A q \in Plugin : status'[q] \in {"ready", "active"} => q # p /\ status[q] = status'[q]
              /\ UNCHANGED onDriver
  BY <1>0, <1>20, TeardownTypes DEF Teardown, HostTypeOK
<1>21. ASSUME NEW p \in Plugin, Disable(p) PROVE LifeInv' /\ ConsentInv'
  <2>1. entry' \in [Plugin -> Entry] /\ \A q \in Plugin : entry'[q].approved = entry[q].approved
    BY <1>0, <1>21 DEF Disable, HostTypeOK, Entry
  <2>2. Retired(status[p]) \in Status \ {"ready", "active"}
    BY <1>0 DEF Retired, HostTypeOK, Status
  <2>3. /\ status' \in [Plugin -> Status] /\ commands' \in Seq(Command) /\ subs' \subseteq Context
        /\ \A q \in Plugin : status'[q] \in {"ready", "active"} => q # p /\ status[q] = status'[q]
        /\ UNCHANGED onDriver /\ phase = "running" /\ activating = {}
    BY <1>20, <1>21, <2>2 DEF Disable, GuiFree
  <2> QED BY <1>0, <1>21, <2>1, <2>3 DEF Disable, onDriver, LifeInv, ConsentInv, HostTypeOK
<1>22. ASSUME NEW p \in Plugin, Forget(p) PROVE LifeInv' /\ ConsentInv'
  <2>1. /\ entry' \in [Plugin -> Entry] /\ entry'[p].approved = FALSE
        /\ \A q \in Plugin : q # p => entry'[q] = entry[q]
    BY <1>0, <1>22 DEF Forget, HostTypeOK, Entry, NoEntry
  <2>3. /\ status' \in [Plugin -> Status] /\ commands' \in Seq(Command) /\ subs' \subseteq Context
        /\ \A q \in Plugin : status'[q] \in {"ready", "active"} => q # p /\ status[q] = status'[q]
        /\ UNCHANGED onDriver /\ phase = "running" /\ activating = {}
    BY <1>20, <1>22 DEF Forget, GuiFree, Status
  <2> QED BY <1>0, <1>22, <2>1, <2>3 DEF Forget, onDriver, LifeInv, ConsentInv, HostTypeOK
<1>23. ASSUME NEW p \in Plugin, NEW allowed \in BOOLEAN, RecordConsent(p, allowed)
       PROVE LifeInv' /\ ConsentInv'
  <2>1. entry' \in [Plugin -> Entry] /\ \A q \in Plugin : q # p => entry'[q] = entry[q]
    BY <1>0, <1>23 DEF RecordConsent, HostTypeOK, Entry
  <2>2. /\ status' \in [Plugin -> Status] /\ status'[p] # "active"
        /\ \A q \in Plugin : q # p => status'[q] = status[q]
        /\ activating = {} /\ activating' = {} /\ phase # "off"
    BY <1>0, <1>23 DEF RecordConsent, HostTypeOK, Status, GuiFree
  <2>3. answered' = answered \cup {p}
    BY <1>23 DEF RecordConsent
  <2> QED BY <1>0, <1>23, <2>1, <2>2, <2>3 DEF RecordConsent, onDriver, LifeInv, ConsentInv, HostTypeOK
<1>24. ASSUME NEW p \in Plugin, Install(p) PROVE LifeInv' /\ ConsentInv'
  <2>1. entry[p] \in Entry
    BY <1>0 DEF HostTypeOK
  <2>2. /\ status' \in [Plugin -> Status]
        /\ \A q \in Plugin : q # p => status'[q] = status[q]
        /\ status'[p] = status[p] \/ (status'[p] # "active" /\ (status'[p] = "ready" => entry[p].approved))
        /\ activating = {} /\ activating' = {} /\ phase # "off"
    BY <1>0, <1>24, <2>1, ClassifiedTypes DEF Install, HostTypeOK, Status, GuiFree
  <2> QED BY <1>0, <1>24, <2>2 DEF Install, onDriver, LifeInv, ConsentInv, HostTypeOK
<1>25. CASE UNCHANGED hostVars
  BY <1>0, <1>25 DEF hostVars, onDisk, onGui, onDriver, LifeInv, ConsentInv, HostTypeOK
<1> QED BY <1>1, <1>2, <1>3, <1>4, <1>5, <1>6, <1>8, <1>9, <1>10, <1>12, <1>13, <1>14, <1>15, <1>17,
           <1>18, <1>19, <1>21, <1>22, <1>23, <1>24, <1>25 DEF HostNext

LEMMA LifeHolds == HostSpec => [](LifeInv /\ ConsentInv)
BY LifeInit, LifeStep, PTL DEF HostSpec

\* Type correctness of the host.
THEOREM HostTypes == HostSpec => []HostTypeOK
<1>1. LifeInv /\ ConsentInv => HostTypeOK
  BY DEF LifeInv
<1> QED BY <1>1, LifeHolds, PTL

\* PluginHost.forget and record_consent: nothing runs under an id whose consent
\* was not asked for since the id was new.
THEOREM HostStrangersAsk == HostSpec => []StrangersAsk
<1>1. LifeInv /\ ConsentInv => StrangersAsk
  BY DEF LifeInv, ConsentInv, StrangersAsk
<1> QED BY <1>1, LifeHolds, PTL

-----------------------------------------------------------------------------
(* The order of the driver's commands                                       *)

Current(ctx) == ctx = Ctx(ctx[1]) /\ (status[ctx[1]] = "active" \/ ctx[1] \in activating)

\* Statuses a plugin has left the driver alone in.
Quiet == {"absent", "disabled", "pending_consent"}

Whose(c) == c.ctx[1]

\* A command that takes the context out, or drops the rows, is after position i.
Unhooking(ctx, i) == \E j \in DOMAIN commands : j > i /\ commands[j] = [do |-> "unhook", ctx |-> ctx]
Dropping(p, i) ==
  \E j \in DOMAIN commands : j > i /\ commands[j].do = "drop rows" /\ Whose(commands[j]) = p

\* p still has something of its own on the driver.
Touches(p) == [owner |-> p, by |-> "hook"] \in rows \/ \E ctx \in hooks \cup handling : ctx[1] = p

\* Whatever is not of the current activation is about to be taken out, and a quiet
\* plugin's last command drops its rows.
OrderInv ==
  /\ \A ctx \in subs : Current(ctx)
  /\ \A ctx \in hooks : Current(ctx) \/ Unhooking(ctx, 0)
  /\ \A i \in DOMAIN commands, ctx \in Context :
       commands[i] = [do |-> "hook", ctx |-> ctx] => Current(ctx) \/ Unhooking(ctx, i)
  /\ \A p \in Plugin : status[p] \in Quiet =>
       /\ Touches(p) => Dropping(p, 0)
       /\ \A i \in DOMAIN commands :
            Whose(commands[i]) = p /\ commands[i].do # "drop rows" => Dropping(p, i)

\* A step that leaves the registrations and the inbox alone, lets nothing run that
\* could not and quiets nobody.
LEMMA CalmStep ==
  ASSUME LifeInv, OrderInv, commands' = commands, hooks' = hooks,
         \A ctx \in subs' : Current(ctx)',
         \A ctx \in Context : Current(ctx) => Current(ctx)',
         \A p \in Plugin : status'[p] \in Quiet => status[p] \in Quiet /\ (Touches(p)' => Touches(p))
  PROVE  OrderInv'
<1>1. \A ctx, i : Unhooking(ctx, i)' <=> Unhooking(ctx, i)
  BY DEF Unhooking
<1>2. \A p, i : Dropping(p, i)' <=> Dropping(p, i)
  BY DEF Dropping
<1>3. hooks \subseteq Context /\ \A i \in DOMAIN commands : commands[i].ctx \in Context
  <2>1. commands \in Seq(Command) /\ hooks \subseteq Context
    BY DEF LifeInv, HostTypeOK
  <2>2. \A i \in DOMAIN commands : commands[i] \in Command
    BY <2>1
  <2> QED BY <2>1, <2>2 DEF Command
<1>4. \A ctx \in hooks' : Current(ctx)' \/ Unhooking(ctx, 0)'
  BY <1>1, <1>3 DEF OrderInv
<1>5. \A i \in DOMAIN commands', ctx \in Context :
        commands'[i] = [do |-> "hook", ctx |-> ctx] => Current(ctx)' \/ Unhooking(ctx, i)'
  BY <1>1 DEF OrderInv
<1>6. \A p \in Plugin : status'[p] \in Quiet =>
        /\ Touches(p)' => Dropping(p, 0)'
        /\ \A i \in DOMAIN commands' :
             Whose(commands'[i]) = p /\ commands'[i].do # "drop rows" => Dropping(p, i)'
  BY <1>2 DEF OrderInv
<1> QED BY <1>4, <1>5, <1>6 DEF OrderInv

\* The head of the inbox is done.
LEMMA CommandStep == LifeInv /\ OrderInv /\ RunCommand => OrderInv'
<1> SUFFICES ASSUME LifeInv, OrderInv, RunCommand PROVE OrderInv'
  OBVIOUS
<1> DEFINE c == Head(commands)
<1>1. /\ commands \in Seq(Command) /\ commands # <<>> /\ commands' = Tail(commands) /\ Done(c)
      /\ handling = {} /\ handling' = {} /\ UNCHANGED <<subs, status, run, activating>>
      /\ rows \subseteq Row /\ hooks \subseteq Context
  BY DEF RunCommand, LifeInv, HostTypeOK, onGui
<1>2. /\ c \in Command /\ c = commands[1] /\ Len(commands) \in Nat \ {0}
      /\ DOMAIN commands = 1..Len(commands) /\ DOMAIN commands' = 1..(Len(commands) - 1)
      /\ \A i \in DOMAIN commands' : commands'[i] = commands[i + 1] /\ i + 1 \in DOMAIN commands
      /\ \A i \in DOMAIN commands : i # 1 => i - 1 \in DOMAIN commands' /\ commands'[i - 1] = commands[i]
  <2>1. /\ c \in Command /\ c = commands[1] /\ Len(commands) \in Nat \ {0}
        /\ Len(commands') = Len(commands) - 1 /\ commands' \in Seq(Command)
        /\ DOMAIN commands = 1..Len(commands)
        /\ \A i \in 1..Len(commands') : commands'[i] = commands[i + 1]
    BY <1>1, HeadTailProperties
  <2> QED BY <2>1
<1> HIDE DEF c
<1>3. \A ctx : Current(ctx)' <=> Current(ctx)
  BY <1>1 DEF Current, Ctx
<1>a. \A j \in DOMAIN commands : j \in Nat /\ j > 0
  BY <1>2
<1>4. ASSUME NEW ctx, NEW i \in Nat, NEW k \in Nat, Unhooking(ctx, i),
             i = k + 1 \/ (i = 0 /\ k = 0 /\ c # [do |-> "unhook", ctx |-> ctx])
      PROVE  Unhooking(ctx, k)'
  <2>1. PICK j \in DOMAIN commands : j > i /\ commands[j] = [do |-> "unhook", ctx |-> ctx]
    BY <1>4 DEF Unhooking
  <2>2. j # 1
    BY <1>2, <1>4, <1>a, <2>1
  <2>3. j - 1 \in DOMAIN commands' /\ commands'[j - 1] = commands[j]
    BY <1>2, <2>1, <2>2
  <2>4. j - 1 > k
    BY <1>4, <1>a, <2>1, <2>2
  <2> QED BY <2>1, <2>3, <2>4 DEF Unhooking
<1>5. ASSUME NEW p, NEW i \in Nat, NEW k \in Nat, Dropping(p, i),
             i = k + 1 \/ (i = 0 /\ k = 0 /\ ~(c.do = "drop rows" /\ Whose(c) = p))
      PROVE  Dropping(p, k)'
  <2>1. PICK j \in DOMAIN commands : j > i /\ commands[j].do = "drop rows" /\ Whose(commands[j]) = p
    BY <1>5 DEF Dropping
  <2>a. j > i
    BY <2>1, Zenon
  <2>b. commands[j].do = "drop rows" /\ Whose(commands[j]) = p
    BY <2>1, Zenon
  <2>0. j \in Nat /\ j > 0
    BY <1>a
  <2>2. j # 1
    <3>1. CASE i = k + 1
      BY <2>0, <2>a, <3>1
    <3>2. CASE ~(c.do = "drop rows" /\ Whose(c) = p)
      <4>1. commands[j] # commands[1]
        BY <1>2, <2>b, <3>2
      <4> QED BY <4>1
    <3> QED BY <1>5, <3>1, <3>2
  <2>3. j - 1 \in DOMAIN commands' /\ commands'[j - 1] = commands[j]
    BY <1>2, <2>1, <2>2
  <2>4. j - 1 > k
    <3>1. i = k + 1 \/ k = 0
      BY <1>5
    <3> QED BY <2>0, <2>a, <2>2, <3>1
  <2> QED BY <2>1, <2>3, <2>4 DEF Dropping
<1>b. ASSUME NEW p, NEW k \in Nat, Dropping(p, k + 1) PROVE Dropping(p, k)'
  <2>1. k + 1 \in Nat
    OBVIOUS
  <2> QED BY <1>5, <1>b, <2>1, Zenon
<1>c. ASSUME NEW p, Dropping(p, 0), Whose(c) # p PROVE Dropping(p, 0)'
  <2>1. 0 \in Nat /\ ~(c.do = "drop rows" /\ Whose(c) = p)
    BY <1>c
  <2> QED BY <1>5, <1>c, <2>1, Zenon
<1>6. \A ctx \in subs' : Current(ctx)'
  BY <1>1, <1>3 DEF OrderInv
<1>7. ASSUME NEW ctx \in hooks' PROVE Current(ctx)' \/ Unhooking(ctx, 0)'
  <2>1. CASE ctx \in hooks /\ c # [do |-> "unhook", ctx |-> ctx]
    BY <1>3, <1>4, <2>1 DEF OrderInv
  <2>2. CASE c.do = "hook" /\ ctx = c.ctx
    <3>0. c.ctx \in Context /\ c = [do |-> c.do, ctx |-> c.ctx]
      BY <1>2 DEF Command
    <3>1. 1 \in DOMAIN commands /\ commands[1] = [do |-> "hook", ctx |-> ctx] /\ ctx \in Context
      BY <1>2, <2>2, <3>0
    <3>2. Current(ctx) \/ Unhooking(ctx, 1)
      BY <3>1 DEF OrderInv
    <3> QED BY <1>3, <1>4, <3>2
  <2>3. c = [do |-> "unhook", ctx |-> ctx] => ctx \notin hooks'
    BY <1>1 DEF Done
  <2> QED BY <1>1, <1>7, <2>1, <2>2, <2>3 DEF Done
<1>8. ASSUME NEW i \in DOMAIN commands', NEW ctx \in Context, commands'[i] = [do |-> "hook", ctx |-> ctx]
      PROVE  Current(ctx)' \/ Unhooking(ctx, i)'
  <2>1. i + 1 \in DOMAIN commands /\ commands'[i] = commands[i + 1] /\ i \in Nat /\ i + 1 \in Nat
    BY <1>2
  <2>2. Current(ctx) \/ Unhooking(ctx, i + 1)
    BY <1>8, <2>1 DEF OrderInv
  <2> QED BY <1>3, <1>4, <2>1, <2>2
<1>9. ASSUME NEW p \in Plugin, status'[p] \in Quiet, NEW i \in DOMAIN commands',
             Whose(commands'[i]) = p, commands'[i].do # "drop rows"
      PROVE  Dropping(p, i)'
  <2>1. i + 1 \in DOMAIN commands /\ commands'[i] = commands[i + 1] /\ i \in Nat
    BY <1>2
  <2>2. Whose(commands[i + 1]) = p
    BY <1>9, <2>1
  <2>3. commands[i + 1].do # "drop rows"
    BY <1>9, <2>1
  <2>4. status[p] \in Quiet
    BY <1>1, <1>9
  <2>5. Dropping(p, i + 1)
    BY <2>1, <2>2, <2>3, <2>4, Zenon DEF OrderInv
  <2> QED BY <1>b, <2>1, <2>5, Zenon
<1>10. ASSUME NEW p \in Plugin, status'[p] \in Quiet, Touches(p)'
       PROVE  Dropping(p, 0)'
  <2>0. status[p] \in Quiet
    BY <1>1, <1>10
  <2>1. CASE Whose(c) = p /\ c.do # "drop rows"
    <3>1. 1 \in DOMAIN commands
      BY <1>2
    <3>2. Whose(commands[1]) = p /\ commands[1].do # "drop rows"
      BY <1>2, <2>1, Zenon
    <3>3. Dropping(p, 1)
      BY <2>0, <3>1, <3>2, Zenon DEF OrderInv
    <3>4. Dropping(p, 0 + 1)
      BY <3>3
    <3> QED BY <1>b, <3>4
  <2>2. CASE Whose(c) = p /\ c.do = "drop rows"
    <3>1. [owner |-> p, by |-> "hook"] \notin rows' /\ hooks' = hooks
      BY <1>1, <2>2 DEF Done, Whose
    <3>2. PICK ctx \in hooks : ctx[1] = p
      BY <1>1, <1>10, <3>1 DEF Touches
    <3>3. ~Current(ctx)
      BY <2>0, <3>2 DEF Current, Quiet, LifeInv
    <3>4. PICK k \in DOMAIN commands : k > 0 /\ commands[k] = [do |-> "unhook", ctx |-> ctx]
      BY <3>2, <3>3 DEF OrderInv, Unhooking
    <3>5. Whose(commands[k]) = p /\ commands[k].do # "drop rows"
      BY <3>2, <3>4 DEF Whose
    <3>6. Dropping(p, k)
      BY <2>0, <3>5 DEF OrderInv
    <3>7. k \in Nat /\ k # 0 /\ k - 1 \in Nat /\ k = (k - 1) + 1
      BY <1>a
    <3>8. Dropping(p, k - 1)'
      BY <1>b, <3>6, <3>7
    <3>9. PICK j \in DOMAIN commands' :
            j > k - 1 /\ commands'[j].do = "drop rows" /\ Whose(commands'[j]) = p
      BY <3>8, Zenon DEF Dropping, Whose
    <3>10. j > k - 1
      BY <3>9, Zenon
    <3>11. j \in Nat
      BY <1>2
    <3>12. j > 0
      BY <3>7, <3>10, <3>11
    <3> QED BY <3>9, <3>12, Zenon DEF Dropping, Whose
  <2>3. CASE Whose(c) # p
    <3>1. Touches(p)
      BY <1>1, <1>10, <2>3 DEF Touches, Done, Whose
    <3>2. Dropping(p, 0)
      BY <2>0, <3>1 DEF OrderInv
    <3> QED BY <1>c, <2>3, <3>2
  <2> QED BY <2>1, <2>2, <2>3
<1> QED BY <1>6, <1>7, <1>8, <1>9, <1>10 DEF OrderInv

LEMMA AppendPositions ==
  ASSUME NEW S, NEW s \in Seq(S), NEW e \in S, NEW t, t = Append(s, e)
  PROVE  /\ DOMAIN s = 1..Len(s) /\ Len(s) \in Nat
         /\ DOMAIN t = 1..(Len(s) + 1)
         /\ \A i \in DOMAIN s : i \in DOMAIN t /\ t[i] = s[i]
         /\ t[Len(s) + 1] = e
         /\ \A i \in DOMAIN t : i \in DOMAIN s \/ t[i] = e
BY AppendProperties

\* A command for a plugin that is being activated.
LEMMA SubmitStep ==
  ASSUME LifeInv, OrderInv, NEW p \in activating, NEW c \in Command, c.ctx = Ctx(p),
         Submit(c), UNCHANGED <<subs, status, run, activating, handling>>
  PROVE  OrderInv'
<1>1. /\ p \in Plugin /\ Ctx(p) \in Context /\ status[p] = "ready"
      /\ Current(Ctx(p)) /\ Ctx(p)[1] = p
  BY CtxTypes DEF LifeInv, Current, Ctx
<1>2. \A ctx : Current(ctx)' <=> Current(ctx)
  BY DEF Current, Ctx
<1>3. c.ctx = Ctx(p) /\ Whose(c) = p
  BY <1>1 DEF Whose
<1>4. status[p] \notin Quiet /\ status' = status
  BY <1>1 DEF Quiet
<1>5. \A q \in Plugin : q # p /\ Touches(q)' => Touches(q)
  <2>1. Done(c) \/ UNCHANGED <<hooks, rows>>
    BY DEF Submit
  <2>2. rows' \subseteq rows \cup {[owner |-> p, by |-> "hook"]} /\ hooks' \subseteq hooks \cup {Ctx(p)}
    BY <1>1, <1>3, <2>1 DEF Done
  <2>3. ASSUME NEW q \in Plugin, q # p, Touches(q)'
        PROVE  Touches(q)
    <3>1. CASE [owner |-> q, by |-> "hook"] \in rows'
      <4>1. [owner |-> q, by |-> "hook"] # [owner |-> p, by |-> "hook"]
        BY <2>3
      <4> QED BY <2>2, <3>1, <4>1 DEF Touches
    <3>2. CASE \E ctx \in hooks' \cup handling : ctx[1] = q
      BY <1>1, <2>2, <2>3, <3>2 DEF Touches
    <3> QED BY <2>3, <3>1, <3>2 DEF Touches
  <2> QED BY <2>3
<1>6. \A ctx \in hooks' : ctx \in hooks \/ ctx = Ctx(p)
  <2>1. Done(c) \/ UNCHANGED <<hooks, rows>>
    BY DEF Submit
  <2> QED BY <1>3, <2>1 DEF Done
<1>7. CASE commands' = commands
  <2>1. \A ctx, i : Unhooking(ctx, i)' <=> Unhooking(ctx, i)
    BY <1>7 DEF Unhooking
  <2>2. \A q, i : Dropping(q, i)' <=> Dropping(q, i)
    BY <1>7 DEF Dropping, Whose
  <2>3. \A ctx \in hooks' : Current(ctx)' \/ Unhooking(ctx, 0)'
    BY <1>1, <1>2, <1>6, <2>1 DEF OrderInv
  <2>4. \A ctx \in subs' : Current(ctx)'
    BY <1>2 DEF OrderInv
  <2>5. \A i \in DOMAIN commands', ctx \in Context :
          commands'[i] = [do |-> "hook", ctx |-> ctx] => Current(ctx)' \/ Unhooking(ctx, i)'
    BY <1>2, <1>7, <2>1 DEF OrderInv
  <2>6. \A q \in Plugin : status'[q] \in Quiet =>
          /\ Touches(q)' => Dropping(q, 0)'
          /\ \A i \in DOMAIN commands' :
               Whose(commands'[i]) = q /\ commands'[i].do # "drop rows" => Dropping(q, i)'
    BY <1>4, <1>5, <1>7, <2>2 DEF OrderInv
  <2> QED BY <2>3, <2>4, <2>5, <2>6 DEF OrderInv, Whose
<1>8. CASE commands' = Append(commands, c)
  <2>0. commands \in Seq(Command)
    BY DEF LifeInv, HostTypeOK
  <2>1. /\ DOMAIN commands = 1..Len(commands) /\ Len(commands) \in Nat
        /\ DOMAIN commands' = 1..(Len(commands) + 1)
        /\ \A i \in DOMAIN commands : i \in DOMAIN commands' /\ commands'[i] = commands[i]
        /\ commands'[Len(commands) + 1] = c
        /\ \A i \in DOMAIN commands' : i \in DOMAIN commands \/ commands'[i] = c
    BY <1>8, <2>0, AppendPositions
  <2>2. \A ctx, i : Unhooking(ctx, i) => Unhooking(ctx, i)'
    BY <2>1 DEF Unhooking
  <2>3. \A q, i : Dropping(q, i) => Dropping(q, i)'
    BY <2>1, Zenon DEF Dropping, Whose
  <2>4. \A ctx \in hooks' : Current(ctx)' \/ Unhooking(ctx, 0)'
    BY <1>1, <1>2, <1>6, <2>2 DEF OrderInv
  <2>5. \A ctx \in subs' : Current(ctx)'
    BY <1>2 DEF OrderInv
  <2>6. ASSUME NEW i \in DOMAIN commands', NEW ctx \in Context, commands'[i] = [do |-> "hook", ctx |-> ctx]
        PROVE  Current(ctx)' \/ Unhooking(ctx, i)'
    <3>1. CASE i \in DOMAIN commands
      BY <1>2, <2>1, <2>2, <2>6, <3>1 DEF OrderInv
    <3>2. CASE commands'[i] = c
      <4>0. c = [do |-> "hook", ctx |-> ctx]
        BY <2>6, <3>2, Zenon
      <4>1. ctx = Ctx(p)
        BY <1>3, <4>0
      <4> QED BY <1>1, <1>2, <4>1
    <3> QED BY <2>1, <3>1, <3>2
  <2>7. ASSUME NEW q \in Plugin, status'[q] \in Quiet
        PROVE  /\ Touches(q)' => Dropping(q, 0)'
               /\ \A i \in DOMAIN commands' :
                    Whose(commands'[i]) = q /\ commands'[i].do # "drop rows" => Dropping(q, i)'
    <3>1. q # p /\ status[q] \in Quiet
      BY <1>4, <2>7
    <3>2. Touches(q)' => Dropping(q, 0)'
      BY <1>5, <2>3, <3>1 DEF OrderInv
    <3>3. ASSUME NEW i \in DOMAIN commands', Whose(commands'[i]) = q, commands'[i].do # "drop rows"
          PROVE  Dropping(q, i)'
      <4>1. commands'[i] # c
        BY <1>3, <3>1, <3>3
      <4>2. i \in DOMAIN commands /\ commands'[i] = commands[i]
        BY <2>1, <4>1
      <4>3. Whose(commands[i]) = q /\ commands[i].do # "drop rows"
        BY <3>3, <4>2, Zenon
      <4>4. Dropping(q, i)
        BY <3>1, <4>2, <4>3, Zenon DEF OrderInv
      <4> QED BY <2>3, <4>4, Zenon
    <3> QED BY <3>2, <3>3
  <2> QED BY <2>4, <2>5, <2>6, <2>7 DEF OrderInv, Whose
<1> QED BY <1>7, <1>8 DEF Submit

\* Nobody but p loses anything when p is taken down.
LEMMA OthersStayCurrent ==
  ASSUME NEW p \in Plugin, NEW s, status \in [Plugin -> Status], status' = [status EXCEPT ![p] = s],
         run' = run, activating' = activating \ {p}
  PROVE  \A ctx \in Context : Current(ctx) => Current(ctx)' \/ ctx = Ctx(p)
<1> SUFFICES ASSUME NEW ctx \in Context, Current(ctx), ctx # Ctx(p) PROVE Current(ctx)'
  OBVIOUS
<1>1. ctx[1] \in Plugin /\ ctx[1] # p
  BY DEF Current, Context
<1>2. status'[ctx[1]] = status[ctx[1]] /\ (ctx[1] \in activating => ctx[1] \in activating')
  BY <1>1
<1> QED BY <1>1, <1>2 DEF Current, Ctx

\* Commands are only added behind the others: first those that take the context of
\* p out, then, at n, the one that drops its rows.
LEMMA TeardownStep ==
  ASSUME LifeInv, OrderInv, NEW p \in Plugin, NEW next, next # "active",
         activating = {}, activating' = {}, run' = run,
         status' = [status EXCEPT ![p] = next], subs' = subs \ {Ctx(p)}, UNCHANGED onDriver,
         DOMAIN commands' \subseteq Nat, NEW n \in DOMAIN commands', n > 0,
         commands'[n].do = "drop rows", Whose(commands'[n]) = p,
         \A i \in DOMAIN commands : i \in DOMAIN commands' /\ commands'[i] = commands[i] /\ i < n,
         \A i \in DOMAIN commands' :
           i \in DOMAIN commands \/ i = n \/ (i < n /\ commands'[i] = [do |-> "unhook", ctx |-> Ctx(p)]),
         status[p] = "active" =>
           \E j \in DOMAIN commands' : /\ commands'[j] = [do |-> "unhook", ctx |-> Ctx(p)]
                                       /\ j > 0 /\ \A i \in DOMAIN commands : i < j
  PROVE  OrderInv'
<1>0. /\ status \in [Plugin -> Status] /\ subs \subseteq Context /\ hooks \subseteq Context
      /\ hooks' = hooks /\ handling' = handling /\ rows' = rows
  BY DEF LifeInv, HostTypeOK, onDriver
<1>1. \A ctx \in Context : Current(ctx) => Current(ctx)' \/ ctx = Ctx(p)
  BY <1>0, OthersStayCurrent
<1>2. \A ctx, i : Unhooking(ctx, i) => Unhooking(ctx, i)'
  BY DEF Unhooking
<1>3. \A q, i : Dropping(q, i) => Dropping(q, i)'
  BY DEF Dropping, Whose
<1>4. ASSUME NEW ctx \in Context, Current(ctx), ctx = Ctx(p), NEW i, i = 0 \/ i \in DOMAIN commands
      PROVE  Unhooking(ctx, i)'
  <2>1. status[p] = "active"
    BY <1>4 DEF Current, Ctx
  <2>2. PICK j \in DOMAIN commands' : /\ commands'[j] = [do |-> "unhook", ctx |-> Ctx(p)]
                                     /\ j > 0 /\ \A k \in DOMAIN commands : k < j
    BY <2>1
  <2>3. j > i
    <3>1. CASE i = 0
      BY <2>2, <3>1
    <3>2. CASE i \in DOMAIN commands
      <4>1. i < j
        BY <2>2, <3>2, Zenon
      <4>2. i \in Nat /\ j \in Nat
        BY <3>2
      <4> QED BY <4>1, <4>2
    <3> QED BY <1>4, <3>1, <3>2
  <2> QED BY <1>4, <2>2, <2>3 DEF Unhooking
<1>5. \A ctx \in subs' : Current(ctx)'
  BY <1>0, <1>1 DEF OrderInv
<1>6. \A ctx \in hooks' : Current(ctx)' \/ Unhooking(ctx, 0)'
  BY <1>0, <1>1, <1>2, <1>4 DEF OrderInv
<1>7. ASSUME NEW i \in DOMAIN commands', NEW ctx \in Context, commands'[i] = [do |-> "hook", ctx |-> ctx]
      PROVE  Current(ctx)' \/ Unhooking(ctx, i)'
  <2>1. [do |-> "hook", ctx |-> ctx].do = "hook" /\ [do |-> "unhook", ctx |-> Ctx(p)].do = "unhook"
    OBVIOUS
  <2>a. commands'[i].do = "hook"
    BY <1>7, <2>1, Zenon
  <2>b. "hook" # "unhook" /\ "hook" # "drop rows"
    OBVIOUS
  <2>2. i # n /\ commands'[i] # [do |-> "unhook", ctx |-> Ctx(p)]
    BY <2>1, <2>a, <2>b, Zenon
  <2>3. i \in DOMAIN commands /\ commands[i] = [do |-> "hook", ctx |-> ctx]
    BY <1>7, <2>2
  <2> QED BY <1>1, <1>2, <1>4, <2>3 DEF OrderInv
<1>8. ASSUME NEW q \in Plugin, status'[q] \in Quiet
      PROVE  /\ Touches(q)' => Dropping(q, 0)'
             /\ \A i \in DOMAIN commands' :
                  Whose(commands'[i]) = q /\ commands'[i].do # "drop rows" => Dropping(q, i)'
  <2>1. CASE q = p
    <3>1. Dropping(p, 0)'
      BY DEF Dropping, Whose
    <3>2. ASSUME NEW i \in DOMAIN commands', commands'[i].do # "drop rows"
          PROVE  Dropping(p, i)'
      <4>1. i < n
        <5>1. i # n
          BY <3>2
        <5> QED BY <5>1
      <4>2. n > i
        <5>1. i \in Nat /\ n \in Nat
          OBVIOUS
        <5> QED BY <4>1, <5>1
      <4> QED BY <4>2 DEF Dropping, Whose
    <3> QED BY <2>1, <3>1, <3>2
  <2>2. CASE q # p
    <3>1. status[q] \in Quiet
      BY <1>0, <1>8, <2>2
    <3>2. Touches(q)' => Touches(q)
      BY <1>0 DEF Touches
    <3>3. Touches(q)' => Dropping(q, 0)'
      BY <1>3, <3>1, <3>2 DEF OrderInv
    <3>4. ASSUME NEW i \in DOMAIN commands', Whose(commands'[i]) = q, commands'[i].do # "drop rows"
          PROVE  Dropping(q, i)'
      <4>1. [do |-> "unhook", ctx |-> Ctx(p)].ctx[1] = p
        BY DEF Ctx
      <4>2. i # n /\ commands'[i] # [do |-> "unhook", ctx |-> Ctx(p)]
        BY <2>2, <3>4, <4>1 DEF Whose
      <4>3. i \in DOMAIN commands /\ commands'[i] = commands[i]
        BY <4>2
      <4>4. Whose(commands[i]) = q /\ commands[i].do # "drop rows"
        BY <3>4, <4>3, Zenon
      <4>5. Dropping(q, i)
        BY <3>1, <4>3, <4>4, Zenon DEF OrderInv
      <4> QED BY <1>3, <4>5, Zenon
    <3> QED BY <3>3, <3>4
  <2> QED BY <2>1, <2>2
<1> QED BY <1>5, <1>6, <1>7, <1>8 DEF OrderInv, Whose

LEMMA OneMore ==
  ASSUME NEW S, NEW s \in Seq(S), NEW e \in S
  PROVE  s \o <<e>> = Append(s, e) /\ Append(s, e) \in Seq(S) /\ Len(Append(s, e)) = Len(s) + 1
OBVIOUS

LEMMA TwoBehind ==
  ASSUME NEW S, NEW s \in Seq(S), NEW u \in S, NEW d \in S, NEW t, t = s \o <<u>> \o <<d>>
  PROVE  /\ DOMAIN s = 1..Len(s) /\ Len(s) \in Nat /\ DOMAIN t = 1..(Len(s) + 2)
         /\ \A i \in DOMAIN s : i \in DOMAIN t /\ t[i] = s[i]
         /\ t[Len(s) + 1] = u /\ t[Len(s) + 2] = d
         /\ \A i \in DOMAIN t : i \in DOMAIN s \/ i = Len(s) + 1 \/ i = Len(s) + 2
<1>1. s \o <<u>> = Append(s, u) /\ Append(s, u) \in Seq(S) /\ Len(Append(s, u)) = Len(s) + 1
  BY OneMore
<1>2. t = Append(Append(s, u), d)
  <2>1. Append(s, u) \o <<d>> = Append(Append(s, u), d)
    BY <1>1, OneMore
  <2> QED BY <1>1, <2>1, Zenon
<1> QED BY <1>1, <1>2, AppendProperties

LEMMA OneBehind ==
  ASSUME NEW S, NEW s \in Seq(S), NEW d \in S, NEW t, t = s \o <<>> \o <<d>>
  PROVE  t = Append(s, d)
OBVIOUS

\* _teardown queues an unhook only for an active plugin, and always the drop.
LEMMA TeardownKeepsOrder ==
  ASSUME LifeInv, OrderInv, NEW p \in Plugin, NEW next, next # "active", Teardown(p, next),
         activating = {}, activating' = {}, run' = run
  PROVE  OrderInv'
<1>1. PICK d \in Command : d = [do |-> "drop rows", ctx |-> <<p, 1>>]
  BY CtxTypes DEF Command
<1>2. d.do = "drop rows" /\ Whose(d) = p
  BY <1>1 DEF Whose
<1>3. /\ status' = [status EXCEPT ![p] = next] /\ subs' = subs \ {Ctx(p)} /\ UNCHANGED onDriver
      /\ commands' = commands \o Unhooks(p) \o <<d>>
  BY <1>1 DEF Teardown, DropsRows
<1>4. commands \in Seq(Command)
  BY DEF LifeInv, HostTypeOK
<1>5. CASE status[p] = "active"
  <2>1. PICK u \in Command : u = [do |-> "unhook", ctx |-> Ctx(p)]
    BY <1>5, CtxTypes DEF Command
  <2>2. commands' = commands \o <<u>> \o <<d>>
    BY <1>3, <1>5, <2>1 DEF Unhooks
  <2>3. /\ DOMAIN commands = 1..Len(commands) /\ Len(commands) \in Nat
        /\ DOMAIN commands' = 1..(Len(commands) + 2)
        /\ \A i \in DOMAIN commands : i \in DOMAIN commands' /\ commands'[i] = commands[i]
        /\ commands'[Len(commands) + 1] = u /\ commands'[Len(commands) + 2] = d
        /\ \A i \in DOMAIN commands' :
             i \in DOMAIN commands \/ i = Len(commands) + 1 \/ i = Len(commands) + 2
    BY <1>4, <2>2, TwoBehind
  <2>4. PICK j, n : j = Len(commands) + 1 /\ n = Len(commands) + 2
    OBVIOUS
  <2>5. /\ DOMAIN commands' \subseteq Nat /\ j \in DOMAIN commands' /\ n \in DOMAIN commands'
        /\ j > 0 /\ n > 0 /\ j < n /\ \A i \in DOMAIN commands : i < j /\ i < n
    BY <2>3, <2>4
  <2>6. commands'[j] = u /\ commands'[n] = d
    BY <2>3, <2>4
  <2>7. commands'[n].do = "drop rows" /\ Whose(commands'[n]) = p
    BY <1>2, <2>6, Zenon
  <2>8. \A i \in DOMAIN commands' :
          i \in DOMAIN commands \/ i = n \/ (i < n /\ commands'[i] = [do |-> "unhook", ctx |-> Ctx(p)])
    BY <2>1, <2>3, <2>4, <2>5, <2>6, Zenon
  <2>9. \E k \in DOMAIN commands' : /\ commands'[k] = [do |-> "unhook", ctx |-> Ctx(p)]
                                    /\ k > 0 /\ \A i \in DOMAIN commands : i < k
    BY <2>1, <2>5, <2>6, Zenon
  <2>10. \A i \in DOMAIN commands : i \in DOMAIN commands' /\ commands'[i] = commands[i] /\ i < n
    BY <2>3, <2>5, Zenon
  <2> QED BY <1>3, <2>5, <2>7, <2>8, <2>9, <2>10, TeardownStep, Zenon
<1>6. CASE status[p] # "active"
  <2>2. commands' = Append(commands, d)
    BY <1>3, <1>4, <1>6, OneBehind DEF Unhooks
  <2>3. /\ DOMAIN commands = 1..Len(commands) /\ Len(commands) \in Nat
        /\ DOMAIN commands' = 1..(Len(commands) + 1)
        /\ \A i \in DOMAIN commands : i \in DOMAIN commands' /\ commands'[i] = commands[i]
        /\ commands'[Len(commands) + 1] = d
    BY <1>4, <2>2, AppendPositions
  <2>4. PICK n : n = Len(commands) + 1
    OBVIOUS
  <2>5. /\ DOMAIN commands' \subseteq Nat /\ n \in DOMAIN commands' /\ n > 0
        /\ (\A i \in DOMAIN commands : i < n) /\ \A i \in DOMAIN commands' : i \in DOMAIN commands \/ i = n
    BY <2>3, <2>4
  <2>6. commands'[n] = d
    BY <2>3, <2>4
  <2>7. commands'[n].do = "drop rows" /\ Whose(commands'[n]) = p
    BY <1>2, <2>6, Zenon
  <2>8. \A i \in DOMAIN commands' :
          i \in DOMAIN commands \/ i = n \/ (i < n /\ commands'[i] = [do |-> "unhook", ctx |-> Ctx(p)])
    BY <2>5, Zenon
  <2>10. \A i \in DOMAIN commands : i \in DOMAIN commands' /\ commands'[i] = commands[i] /\ i < n
    BY <2>3, <2>5, Zenon
  <2> QED BY <1>3, <1>6, <2>5, <2>7, <2>8, <2>10, TeardownStep, Zenon
<1> QED BY <1>5, <1>6

\* activate() raised: a status that is not quiet, and an unhook behind whatever
\* the context had asked for.
LEMMA RaiseKeepsOrder ==
  ASSUME LifeInv, OrderInv, NEW p \in Plugin, ActivateRaises(p)
  PROVE  OrderInv'
<1>1. /\ p \in activating /\ activating' = activating \ {p} /\ status' = [status EXCEPT ![p] = "error"]
      /\ subs' = subs \ {Ctx(p)} /\ run' = run /\ handling' = handling
      /\ Submit([do |-> "unhook", ctx |-> Ctx(p)])
  BY DEF ActivateRaises
<1>2. /\ status \in [Plugin -> Status] /\ commands \in Seq(Command)
      /\ subs \subseteq Context /\ hooks \subseteq Context
  BY DEF LifeInv, HostTypeOK
<1>3. PICK u \in Command : u = [do |-> "unhook", ctx |-> Ctx(p)]
  BY <1>1, CtxTypes DEF LifeInv, Command
<1>4. u.do = "unhook" /\ u.ctx = Ctx(p) /\ Submit(u)
  BY <1>1, <1>3
<1>5. \A ctx \in Context : Current(ctx) => Current(ctx)' \/ ctx = Ctx(p)
  BY <1>1, <1>2, OthersStayCurrent
<1>6. \A ctx \in subs' : Current(ctx)'
  BY <1>1, <1>2, <1>5 DEF OrderInv
<1>7. \A q \in Plugin : status'[q] \in Quiet => q # p /\ status[q] \in Quiet
  BY <1>1, <1>2 DEF Quiet
<1>8. rows' = rows /\ hooks' \subseteq hooks
  BY <1>4 DEF Submit, Done
<1>9. \A q : Touches(q)' => Touches(q)
  BY <1>1, <1>8 DEF Touches
<1>10. CASE commands' = Append(commands, u) /\ hooks' = hooks
  <2>1. /\ DOMAIN commands = 1..Len(commands) /\ Len(commands) \in Nat
        /\ DOMAIN commands' = 1..(Len(commands) + 1)
        /\ \A i \in DOMAIN commands : i \in DOMAIN commands' /\ commands'[i] = commands[i]
        /\ commands'[Len(commands) + 1] = u
        /\ \A i \in DOMAIN commands' : i \in DOMAIN commands \/ commands'[i] = u
    BY <1>2, <1>10, AppendPositions
  <2>2. \A ctx, i : Unhooking(ctx, i) => Unhooking(ctx, i)'
    BY <2>1, Zenon DEF Unhooking
  <2>3. \A q, i : Dropping(q, i) => Dropping(q, i)'
    BY <2>1, Zenon DEF Dropping, Whose
  <2>4. ASSUME NEW ctx, ctx = Ctx(p), NEW i, i = 0 \/ i \in DOMAIN commands
        PROVE  Unhooking(ctx, i)'
    <3>1. PICK j : j = Len(commands) + 1
      OBVIOUS
    <3>2. j \in DOMAIN commands' /\ j > i /\ commands'[j] = u
      BY <2>1, <2>4, <3>1
    <3> QED BY <1>3, <2>4, <3>2, Zenon DEF Unhooking
  <2>5. ASSUME NEW ctx \in hooks' PROVE Current(ctx)' \/ Unhooking(ctx, 0)'
    <3>1. ctx \in Context /\ (Current(ctx) \/ Unhooking(ctx, 0))
      BY <1>2, <1>10 DEF OrderInv
    <3> QED BY <1>5, <2>2, <2>4, <3>1, Zenon
  <2>6. ASSUME NEW i \in DOMAIN commands', NEW ctx \in Context, commands'[i] = [do |-> "hook", ctx |-> ctx]
        PROVE  Current(ctx)' \/ Unhooking(ctx, i)'
    <3>1. commands'[i] # u
      <4>1. [do |-> "hook", ctx |-> ctx].do = "hook"
        OBVIOUS
      <4>2. commands'[i].do = "hook"
        BY <2>6, <4>1, Zenon
      <4>3. "hook" # "unhook"
        OBVIOUS
      <4> QED BY <1>4, <4>2, <4>3, Zenon
    <3>2. i \in DOMAIN commands /\ commands[i] = [do |-> "hook", ctx |-> ctx]
      BY <2>1, <2>6, <3>1, Zenon
    <3>3. Current(ctx) \/ Unhooking(ctx, i)
      BY <3>2, Zenon DEF OrderInv
    <3> QED BY <1>5, <2>2, <2>4, <3>2, <3>3, Zenon
  <2>7. ASSUME NEW q \in Plugin, status'[q] \in Quiet
        PROVE  /\ Touches(q)' => Dropping(q, 0)'
               /\ \A i \in DOMAIN commands' :
                    Whose(commands'[i]) = q /\ commands'[i].do # "drop rows" => Dropping(q, i)'
    <3>1. q # p /\ status[q] \in Quiet
      BY <1>7, <2>7
    <3>2. Touches(q)' => Dropping(q, 0)'
      BY <1>9, <2>3, <3>1 DEF OrderInv
    <3>3. ASSUME NEW i \in DOMAIN commands', Whose(commands'[i]) = q, commands'[i].do # "drop rows"
          PROVE  Dropping(q, i)'
      <4>0. Whose(u) = p
        BY <1>4 DEF Whose, Ctx
      <4>1. commands'[i] # u
        BY <4>0, <3>1, <3>3, Zenon
      <4>2. i \in DOMAIN commands /\ commands'[i] = commands[i]
        BY <2>1, <4>1, Zenon
      <4>3. Whose(commands[i]) = q /\ commands[i].do # "drop rows"
        BY <3>3, <4>2, Zenon
      <4>4. Dropping(q, i)
        BY <3>1, <4>2, <4>3, Zenon DEF OrderInv
      <4> QED BY <2>3, <4>4, Zenon
    <3> QED BY <3>2, <3>3
  <2> QED BY <1>6, <2>5, <2>6, <2>7 DEF OrderInv, Whose
<1>11. CASE phase # "running" /\ commands' = commands /\ hooks' = hooks \ {Ctx(p)}
  <2>1. commands = <<>>
    BY <1>11 DEF LifeInv
  <2>2. DOMAIN commands = {} /\ DOMAIN commands' = {}
    BY <1>11, <2>1
  <2>3. \A ctx \in hooks : Current(ctx)
    BY <2>2 DEF OrderInv, Unhooking
  <2>4. \A ctx \in hooks' : Current(ctx)'
    BY <1>2, <1>5, <1>11, <2>3
  <2>5. \A q \in Plugin : status'[q] \in Quiet => ~Touches(q)'
    BY <1>7, <1>9, <2>2 DEF OrderInv, Dropping
  <2> QED BY <1>6, <2>2, <2>4, <2>5 DEF OrderInv
<1> QED BY <1>4, <1>10, <1>11 DEF Submit, Done

\* Between launches there is nothing to order.
LEMMA NothingToOrder ==
  subs = {} /\ hooks = {} /\ handling = {} /\ rows = {} /\ commands = <<>> => OrderInv
BY DEF OrderInv, Touches

LEMMA OrderStep == LifeInv /\ OrderInv /\ [HostNext]_hostVars => OrderInv'
<1> SUFFICES ASSUME LifeInv, OrderInv, [HostNext]_hostVars PROVE OrderInv'
  OBVIOUS
<1>0. /\ status \in [Plugin -> Status] /\ run \in [Plugin -> 0..MaxRuns] /\ activating \in SUBSET Plugin
      /\ subs \subseteq Context /\ hooks \subseteq Context /\ handling \subseteq Context
      /\ \A ctx \in subs : Current(ctx)
  BY DEF LifeInv, HostTypeOK, OrderInv
<1>1. CASE RunCommand
  BY <1>1, CommandStep
<1>2. CASE RowEnds
  <2>1. rows' \subseteq rows /\ UNCHANGED <<status, run, activating, subs, commands, hooks, handling>>
    BY <1>2 DEF RowEnds, onGui
  <2> QED BY <1>0, <2>1, CalmStep DEF Touches, Current, Ctx
<1>3. CASE Launch
  <2>1. subs' = {} /\ hooks' = {} /\ handling' = {} /\ rows' = {} /\ commands' = <<>>
    BY <1>3 DEF Launch, LifeInv, onDriver
  <2>2. DOMAIN commands' = {} /\ \A q : ~Touches(q)'
    BY <2>1 DEF Touches
  <2> QED BY <2>1, <2>2 DEF OrderInv
<1>4. CASE Start
  <2>1. UNCHANGED <<status, run, activating, subs, commands, hooks, handling, rows>>
    BY <1>4 DEF Start, onDriver
  <2> QED BY <1>0, <2>1, CalmStep DEF Touches, Current, Ctx
<1>5. CASE Quit
  <2>1. subs' = {} /\ hooks' = {} /\ handling' = {} /\ rows' = {} /\ commands' = <<>>
    BY <1>5 DEF Quit
  <2>2. DOMAIN commands' = {} /\ \A q : ~Touches(q)'
    BY <2>1 DEF Touches
  <2> QED BY <2>1, <2>2 DEF OrderInv
<1>6. ASSUME NEW ctx \in Context, Publish(ctx) PROVE OrderInv'
  <2>1. /\ handling' = {ctx} /\ UNCHANGED <<status, run, activating, subs, commands, hooks, rows>>
        /\ Current(ctx)
    BY <1>0, <1>6 DEF Publish, onGui
  <2>2. \A q \in Plugin : status[q] \in Quiet => ctx[1] # q
    BY <1>0, <2>1 DEF Current, LifeInv, Quiet
  <2>3. \A q \in Plugin : status'[q] \in Quiet => status[q] \in Quiet /\ (Touches(q)' => Touches(q))
    BY <2>1, <2>2 DEF Touches
  <2> QED BY <1>0, <2>1, <2>3, CalmStep DEF Current, Ctx
<1>7. ASSUME NEW ctx \in hooks \cup handling, MakesRow(ctx[1], "hook") \/ rows' = rows,
             handling' \subseteq handling, UNCHANGED <<status, run, activating, subs, commands, hooks>>
      PROVE  OrderInv'
  <2>1. \A q : [owner |-> q, by |-> "hook"] \in rows' => [owner |-> q, by |-> "hook"] \in rows \/ q = ctx[1]
    <3>1. ASSUME NEW q, [owner |-> q, by |-> "hook"] = [owner |-> ctx[1], by |-> "hook"]
          PROVE  q = ctx[1]
      BY <3>1
    <3> QED BY <1>7, <3>1 DEF MakesRow
  <2>2. \A q : Touches(q)' => Touches(q)
    BY <1>7, <2>1 DEF Touches
  <2> QED BY <1>0, <1>7, <2>2, CalmStep DEF Current, Ctx
<1>8. ASSUME NEW ctx \in Context, Handle(ctx) \/ TickRuns(ctx) PROVE OrderInv'
  BY <1>7, <1>8 DEF Handle, TickRuns, onGui
<1>9. ASSUME NEW p \in Plugin, ResultLands(p) PROVE OrderInv'
  <2>1. \A q : [owner |-> q, by |-> "hook"] # [owner |-> p, by |-> "apply"]
    OBVIOUS
  <2>2. \A q : Touches(q)' => Touches(q)
    BY <1>9, <2>1 DEF ResultLands, MakesRow, Touches
  <2>3. UNCHANGED <<status, run, activating, subs, commands, hooks, handling>>
    BY <1>9 DEF ResultLands, onGui
  <2> QED BY <1>0, <2>2, <2>3, CalmStep DEF Current, Ctx
<1>10. ASSUME NEW p \in Plugin, status[p] # "active", p \notin activating,
              \A q \in Plugin : q # p => status'[q] = status[q] /\ run'[q] = run[q]
                                         /\ (q \in activating => q \in activating'),
              status'[p] \in Quiet => status[p] \in Quiet,
              UNCHANGED <<subs, commands, onDriver>>
       PROVE  OrderInv'
  <2>1. \A ctx \in Context : Current(ctx) => Current(ctx)'
    BY <1>10 DEF Current, Ctx, Context
  <2>2. \A q \in Plugin : status'[q] \in Quiet => status[q] \in Quiet /\ (Touches(q)' => Touches(q))
    BY <1>10 DEF Touches, onDriver
  <2>3. commands' = commands /\ hooks' = hooks /\ \A ctx \in subs' : Current(ctx)'
    BY <1>0, <1>10, <2>1 DEF onDriver
  <2> QED BY <2>1, <2>2, <2>3, CalmStep
<1>11. ASSUME NEW p \in Plugin, Activate(p) PROVE OrderInv'
  BY <1>0, <1>10, <1>11 DEF Activate, Activating, GuiFree, Quiet
<1>12. ASSUME NEW p \in Plugin, Subscribe(p) PROVE OrderInv'
  <2>1. /\ UNCHANGED <<status, run, activating, commands, onDriver>> /\ subs' = subs \cup {Ctx(p)}
        /\ p \in activating
    BY <1>12 DEF Subscribe, onGui
  <2>2. \A ctx \in subs' : Current(ctx)'
    BY <1>0, <2>1 DEF Current, Ctx
  <2> QED BY <2>1, <2>2, CalmStep DEF Current, Ctx, Touches, onDriver
<1>13. ASSUME NEW p \in Plugin, AddHook(p) \/ AddRow(p) PROVE OrderInv'
  <2>1. /\ p \in activating /\ UNCHANGED <<subs, status, run, activating, handling>>
        /\ \/ Submit([do |-> "hook", ctx |-> Ctx(p)])
           \/ Submit([do |-> "add row", ctx |-> Ctx(p)])
    BY <1>13 DEF AddHook, AddRow, onGui
  <2>2. /\ [do |-> "hook", ctx |-> Ctx(p)] \in Command /\ [do |-> "hook", ctx |-> Ctx(p)].ctx = Ctx(p)
        /\ [do |-> "add row", ctx |-> Ctx(p)] \in Command
        /\ [do |-> "add row", ctx |-> Ctx(p)].ctx = Ctx(p)
    BY <2>1, CtxTypes DEF LifeInv, Command
  <2> QED BY <2>1, <2>2, SubmitStep
<1>14. ASSUME NEW p \in Plugin, ActivateReturns(p) PROVE OrderInv'
  <2>1. /\ activating' = activating \ {p} /\ status' = [status EXCEPT ![p] = "active"]
        /\ UNCHANGED <<run, subs, commands, onDriver>>
    BY <1>14 DEF ActivateReturns
  <2>2. \A ctx \in Context : Current(ctx) => Current(ctx)'
    BY <1>0, <2>1 DEF Current, Ctx, Context
  <2>3. \A q \in Plugin : status'[q] \in Quiet => status[q] \in Quiet /\ (Touches(q)' => Touches(q))
    BY <1>0, <2>1 DEF Quiet, Touches, onDriver
  <2>4. commands' = commands /\ hooks' = hooks /\ \A ctx \in subs' : Current(ctx)'
    BY <1>0, <2>1, <2>2 DEF onDriver
  <2> QED BY <2>2, <2>3, <2>4, CalmStep
<1>15. ASSUME NEW p \in Plugin, ActivateRaises(p) PROVE OrderInv'
  BY <1>15, RaiseKeepsOrder
<1>16. ASSUME NEW p \in Plugin, Enable(p) PROVE OrderInv'
  <2>1. CASE entry[p].approved /\ status[p] \in {"disabled", "ready"}
    BY <1>0, <1>10, <1>16, <2>1 DEF Enable, Activating, GuiFree, Quiet
  <2>2. CASE UNCHANGED <<status, run, activating>>
    BY <1>0, <1>16, <2>2, CalmStep DEF Enable, Current, Ctx, Touches, onDriver
  <2> QED BY <1>16, <2>1, <2>2 DEF Enable
<1>17. ASSUME NEW p \in Plugin, Disable(p) PROVE OrderInv'
  <2>1. Retired(status[p]) # "active"
    BY DEF Retired
  <2> QED BY <1>17, <2>1, TeardownKeepsOrder DEF Disable, GuiFree
<1>18. ASSUME NEW p \in Plugin, Forget(p) PROVE OrderInv'
  BY <1>18, TeardownKeepsOrder DEF Forget, GuiFree
<1>19. ASSUME NEW p \in Plugin, NEW allowed \in BOOLEAN, RecordConsent(p, allowed) PROVE OrderInv'
  BY <1>0, <1>10, <1>19 DEF RecordConsent, GuiFree, Quiet
<1>20. ASSUME NEW p \in Plugin, Install(p) PROVE OrderInv'
  <2>1. /\ status' = [status EXCEPT ![p] = IF @ = "absent" THEN Classified(entry[p]) ELSE @]
        /\ activating = {} /\ UNCHANGED <<run, activating, subs, commands, onDriver>>
    BY <1>20 DEF Install, GuiFree
  <2>2. CASE status[p] = "active"
    BY <1>0, <2>1, <2>2, CalmStep DEF Current, Ctx, Touches, onDriver
  <2>3. CASE status[p] # "active"
    BY <1>0, <1>10, <2>1, <2>3 DEF Quiet
  <2> QED BY <2>2, <2>3
<1>21. CASE UNCHANGED hostVars
  BY <1>0, <1>21, CalmStep DEF hostVars, onDisk, onGui, onDriver, Current, Ctx, Touches
<1> QED BY <1>1, <1>2, <1>3, <1>4, <1>5, <1>6, <1>8, <1>9, <1>11, <1>12, <1>13, <1>14, <1>15, <1>16,
           <1>17, <1>18, <1>19, <1>20, <1>21 DEF HostNext

LEMMA OrderHolds == HostSpec => [](LifeInv /\ OrderInv)
<1>1. HostInit => OrderInv
  BY NothingToOrder DEF HostInit
<1> QED BY <1>1, LifeInit, LifeStep, OrderStep, PTL DEF HostSpec

\* PluginHost._teardown, PluginContext.unwind: once the driver has done what it
\* was asked, only the last activation of an active plugin is registered.
THEOREM HostHooksFollowStatus == HostSpec => []HooksFollowStatus
<1>1. LifeInv /\ OrderInv => HooksFollowStatus
  <2> SUFFICES ASSUME LifeInv, OrderInv, NEW p \in Plugin, Settled(p),
                      NEW ctx \in subs \cup hooks, ctx[1] = p
               PROVE  status[p] = "active" /\ ctx = Ctx(p)
    BY DEF HooksFollowStatus
  <2>1. \A j \in DOMAIN commands : commands[j].ctx[1] # p
    BY DEF Settled
  <2>2. ~Unhooking(ctx, 0)
    <3>1. ASSUME NEW j \in DOMAIN commands, commands[j] = [do |-> "unhook", ctx |-> ctx] PROVE FALSE
      <4>1. [do |-> "unhook", ctx |-> ctx].ctx = ctx
        OBVIOUS
      <4> QED BY <2>1, <3>1, <4>1, Zenon
    <3> QED BY <3>1, Zenon DEF Unhooking
  <2>3. Current(ctx)
    BY <2>2 DEF OrderInv
  <2> QED BY <2>3 DEF Current, Settled
<1> QED BY <1>1, OrderHolds, PTL

\* PluginContext.retire: once the driver has done what it was asked, a disabled or
\* removed plugin has no row that its handlers, ticks or activate() made.
THEOREM HostRowsFollowStatus == HostSpec => []RowsFollowStatus
<1>1. LifeInv /\ OrderInv => RowsFollowStatus
  <2> SUFFICES ASSUME LifeInv, OrderInv, NEW p \in Plugin, Settled(p),
                      status[p] \in {"disabled", "absent"}, [owner |-> p, by |-> "hook"] \in rows
               PROVE  FALSE
    BY DEF RowsFollowStatus
  <2>1. status[p] \in Quiet /\ Touches(p)
    BY DEF Quiet, Touches
  <2>2. Dropping(p, 0)
    BY <2>1 DEF OrderInv
  <2> QED BY <2>2, Zenon DEF Dropping, Whose, Settled
<1> QED BY <1>1, OrderHolds, PTL
=============================================================================
