-------------------------- MODULE TimerPersistence --------------------------
(***************************************************************************)
(* core/handlers/timer_persistence.py with what it hangs between:           *)
(* TimersService rows (core/timers.py), CampParser (core/parsers/camp.py)   *)
(* and the log switch of core/driver.py, all on the driver thread; quitting *)
(* is Backend.stop, after that thread was joined.                           *)
(*                                                                          *)
(* Rows carry the character whose log made them ("of"), which the program   *)
(* does not record: it is what the properties are about.  One row name per  *)
(* kind stands for all rows of the kind.  Self counters are cooldowns here  *)
(* (their idle expiry runs in real time), pop windows are respawns.         *)
(***************************************************************************)
EXTENDS Naturals, FiniteSets

CONSTANTS
  Char,       \* characters with a log
  NoChar,     \* no character yet
  Duration,   \* [Kind -> seconds a fresh row runs]
  CampDelay,  \* camp_delay_seconds
  MaxTime,    \* bound: the wall clock
  MaxEnd      \* bound: no restored row ends later

SelfKind == {"buff", "cooldown"}       \* YOU_GROUP rows
Kind     == SelfKind \cup {"respawn"}  \* MOB_TIMER_GROUP rows
Never    == 0                          \* None, where a time is expected
Time     == 1..MaxTime

ASSUME CharAssumption == NoChar \notin Char
ASSUME TimeAssumption == /\ MaxTime \in Nat \ {0} /\ MaxEnd \in Nat /\ CampDelay \in Nat \ {0}
                         /\ Duration \in [Kind -> Nat \ {0}]

VARIABLES
  now,         \* the wall clock
  up,          \* the app is running
  player,      \* ActivePlayer.name, NoChar until a log was found
  tailed,      \* whose log is tailed, NoChar if none
  logAt,       \* LogPipeline.last_entry_time
  screen,      \* TimersService._rows
  saved,       \* Char -> the stores in that character's profile
  camped,      \* _camped
  lastExport,  \* _last_export_anchor
  due,         \* CampParser._deadline
  slipped,     \* history: a log switch failed after the player had been reset
  away         \* history: characters that camped, their log not attached since

clock   == <<now, up>>
who     == <<player, tailed, slipped>>
store   == <<saved, lastExport>>
vars    == <<now, up, player, tailed, logAt, screen, saved, camped, lastExport, due, slipped, away>>

Init ==
  /\ now = 1 /\ up = TRUE
  /\ player = NoChar /\ tailed = NoChar /\ logAt = Never
  /\ screen = {} /\ saved = [c \in Char |-> {}]
  /\ camped = FALSE /\ lastExport = Never /\ due = Never /\ slipped = FALSE
  /\ away = {}

-----------------------------------------------------------------------------
(* Exporting and restoring rows                                            *)

\* export_you_spells and its siblings: what still runs at the anchor, buffs as
\* the time they have left, everything else by its end.
Snapshot(rows, anchor) ==
  {[kind |-> r.kind, of |-> r.of,
    rest |-> IF r.kind = "buff" THEN r.ends - anchor ELSE r.ends] :
   r \in {s \in rows : s.ends > anchor}}

\* restore_you_spells and its siblings: buffs resume, what came up is dropped.
Restored(entries, kinds) ==
  {[kind |-> e.kind, of |-> e.of,
    ends |-> IF e.kind = "buff" THEN now + e.rest ELSE e.rest] :
   e \in {x \in entries : x.kind \in kinds /\ (x.kind = "buff" \/ x.rest > now)}}

Bounded(rows) == \A r \in rows : r.ends <= MaxEnd

Without(rows, kinds) == {r \in rows : r.kind \notin kinds}

\* _export_anchor() or the wall clock.
Anchor(at) == IF at = Never THEN now ELSE at

\* Wrong variant: a camped character's rows are exported like any other's.
ExportedAlways(rows, at) ==
  IF player = NoChar THEN saved
  ELSE [saved EXCEPT ![player] = Snapshot(rows, Anchor(at))]

\* What export_now leaves in the stores, with the log clock at "at".
Exported(rows, at) ==
  IF camped \/ player = NoChar THEN saved
  ELSE [saved EXCEPT ![player] = Snapshot(rows, Anchor(at))]

ExportNow(rows, at) ==
  /\ saved' = Exported(rows, at)
  /\ lastExport' = IF camped \/ player = NoChar THEN lastExport ELSE at

\* _on_timers_changed: skipped when the log has said nothing since the last one.
OnTimersChanged(rows, at) ==
  IF at # Never /\ at = lastExport THEN UNCHANGED store ELSE ExportNow(rows, at)

-----------------------------------------------------------------------------
(* Lines of the tailed log, at the time they are written                    *)

LineArrives == up /\ tailed # NoChar /\ logAt' = now /\ UNCHANGED <<clock, who>>

\* A line that concerns no timer.
OtherLine == LineArrives /\ UNCHANGED <<screen, store, camped, due, away>>

\* Wrong variant: the row of that name stays beside the new one.
RowStartsBeside(k) ==
  /\ LineArrives
  /\ screen' = screen \cup {[kind |-> k, of |-> tailed, ends |-> now + Duration[k]]}
  /\ OnTimersChanged(screen', now)
  /\ UNCHANGED <<camped, due, away>>

\* A spell lands, a reuse timer starts, a mob dies: the row of that name is new.
RowStarts(k) ==
  /\ LineArrives
  /\ screen' = Without(screen, {k})
               \cup {[kind |-> k, of |-> tailed, ends |-> now + Duration[k]]}
  /\ OnTimersChanged(screen', now)
  /\ UNCHANGED <<camped, due, away>>

CampStart   == /\ LineArrives /\ due' = now + CampDelay
               /\ UNCHANGED <<screen, store, camped, away>>
CampAbandon == /\ LineArrives /\ due' = Never
               /\ UNCHANGED <<screen, store, camped, away>>

\* Wrong variant: the removal is exported, over the stores about to be read.
WelcomeUnguarded ==
  /\ LineArrives
  /\ screen' = Without(screen, SelfKind)
  /\ saved' = [saved EXCEPT ![player] = Snapshot(screen', now)]
  /\ camped' = FALSE /\ lastExport' = now /\ away' = away \ {player}
  /\ UNCHANGED due

\* _on_welcome: the last session's rows go, the stores come back, re-anchored.
Welcome ==
  /\ LineArrives
  /\ screen' = Without(screen, SelfKind) \cup Restored(saved[player], SelfKind) /\ Bounded(screen')
  /\ saved' = [saved EXCEPT ![player] = Snapshot(screen', now)]
  /\ camped' = FALSE /\ lastExport' = now /\ away' = away \ {player}
  /\ UNCHANGED due

-----------------------------------------------------------------------------
(* The ticks of one iteration                                              *)

Running == {r \in screen : r.ends > now}
CampDue == due # Never /\ due <= now

\* Wrong variant: the rows are taken off screen before the export.
CampTickHidesFirst ==
  /\ up /\ CampDue /\ due' = Never
  /\ ExportNow(Without(screen, SelfKind), logAt) /\ camped' = TRUE
  /\ screen' = Without(Running, SelfKind) /\ away' = (away \cup {player}) \ {NoChar}
  /\ UNCHANGED <<clock, who, logAt>>

\* The camp is done: export, then hide the character's own rows, whoever that
\* is by now (there is no row before there is a character); timers.tick then
\* drops what ran out among the rest.
CampTick ==
  /\ up /\ CampDue /\ due' = Never
  /\ ExportNow(screen, logAt) /\ camped' = (camped \/ player # NoChar)
  /\ screen' = Without(Running, SelfKind) /\ away' = (away \cup {player}) \ {NoChar}
  /\ UNCHANGED <<clock, who, logAt>>

\* timers.tick: rows that ran out by the wall clock leave the window.
TimersTick ==
  /\ up /\ ~CampDue /\ Running # screen
  /\ screen' = Running /\ OnTimersChanged(screen', logAt)
  /\ UNCHANGED <<clock, who, logAt, camped, due, away>>

-----------------------------------------------------------------------------
(* Switching logs, quitting and starting again                             *)

\* Wrong variant: the mob timers of the outgoing character stay.
SwitchKeepsMobs(c) ==
  /\ up /\ c # tailed
  /\ LET before == Exported(screen, logAt)
     IN /\ screen' = Without(screen, SelfKind) \cup Restored(before[c], Kind) /\ Bounded(screen')
        /\ saved' = [before EXCEPT ![c] = Snapshot(screen', Anchor(logAt))]
  /\ player' = c /\ tailed' = c /\ camped' = FALSE /\ lastExport' = logAt
  /\ away' = away \ {c}
  /\ UNCHANGED <<clock, logAt, due, slipped>>

\* _maybe_switch_log finds another log newest: the outgoing character's final
\* export, reset_for, attach, then the incoming character's rows are restored
\* and exported again.
Switch(c) ==
  /\ up /\ c # tailed
  /\ LET before == Exported(screen, logAt)
     IN /\ screen' = Without(screen, Kind) \cup Restored(before[c], Kind) /\ Bounded(screen')
        /\ saved' = [before EXCEPT ![c] = Snapshot(screen', Anchor(logAt))]
  /\ player' = c /\ tailed' = c /\ camped' = FALSE /\ lastExport' = logAt
  /\ away' = away \ {c}
  /\ UNCHANGED <<clock, logAt, due, slipped>>

\* LogTail.attach raises: the player is the new one, the tail is still the old.
SwitchFails(c) ==
  /\ up /\ c # tailed
  /\ ExportNow(screen, logAt)
  /\ player' = c /\ slipped' = TRUE
  /\ UNCHANGED <<clock, tailed, logAt, screen, camped, due, away>>

\* set_log_dir: the tail is dropped, the next iteration looks for a log anew.
SetLogDir ==
  /\ up /\ tailed # NoChar /\ tailed' = NoChar
  /\ UNCHANGED <<clock, player, logAt, screen, store, camped, due, slipped, away>>

\* Backend.stop: the driver is joined, then one last export; memory goes.
Quit ==
  /\ up /\ up' = FALSE
  /\ saved' = Exported(screen, logAt)
  /\ player' = NoChar /\ tailed' = NoChar /\ logAt' = Never
  /\ screen' = {} /\ camped' = FALSE /\ lastExport' = Never
  /\ due' = Never
  /\ UNCHANGED <<now, slipped, away>>

Restart == ~up /\ up' = TRUE /\ UNCHANGED <<now, who, logAt, screen, store, camped, due, away>>

TimePasses ==
  /\ now < MaxTime /\ now' = now + 1
  /\ UNCHANGED <<up, who, logAt, screen, store, camped, due, away>>

Next == \/ OtherLine \/ CampStart \/ CampAbandon \/ Welcome
        \/ CampTick \/ TimersTick
        \/ SetLogDir \/ Quit \/ Restart \/ TimePasses
        \/ \E k \in Kind : RowStarts(k)
        \/ \E c \in Char : Switch(c) \/ SwitchFails(c)

Spec == Init /\ [][Next]_vars

-----------------------------------------------------------------------------
TypeOK ==
  /\ now \in Time /\ up \in BOOLEAN /\ slipped \in BOOLEAN
  /\ player \in Char \cup {NoChar} /\ tailed \in Char \cup {NoChar}
  /\ logAt \in Time \cup {Never} /\ lastExport \in Time \cup {Never}
  /\ screen \subseteq [kind : Kind, of : Char, ends : Nat]
  /\ \A r, s \in screen : r.kind = s.kind => r = s
  /\ saved \in [Char -> SUBSET [kind : Kind, of : Char, rest : Nat \ {0}]]
  /\ camped \in BOOLEAN /\ due \in Nat
  /\ away \subseteq Char

\* The stores are per character: unless a switch failed half-way, nothing one
\* character's log made is in another's profile, and the window shows only rows
\* of the active character.
OwnRowsOnly ==
  ~slipped => /\ \A c \in Char : \A e \in saved[c] : e.of = c
              /\ \A r \in screen : r.of = player

\* "Camp-then-quit must not lose the buffs": from the camp of a character until
\* its log is attached again or it logs in, nothing changes its snapshot: not
\* quitting, restarting, playing others, or their camps; unless a switch failed
\* half-way.  An attach or a login ends the promise, as they export anew.
CampKeepsSnapshot ==
  [][~slipped => \A c \in away \cap away' : saved'[c] = saved[c]]_vars

\* "Camping hides nothing it cannot bring back": a row that still runs leaves the
\* window, other than at a login, only when the profile holds it or one of its
\* name replaces it; so too across a switch and a quit.  It says so of steps taken
\* while not camped: while camped nothing is exported, so that rows of whoever
\* plays under another's camp (a deadline outlives a switch) go unsaved.
NothingHiddenUnsaved ==
  [][~camped /\ ~Welcome => \A r \in screen :
       (r.ends > now /\ \A s \in screen' : s.kind # r.kind)
       => \E e \in saved'[player] : e.kind = r.kind]_vars

\* Buff clocks freeze while the character is away: a login brings back every
\* buff of the profile with the time it had left, and saves the same again.
RelogRestoresBuffs ==
  [][Welcome => {e \in saved'[player] : e.kind = "buff"}
                = {e \in saved[player] : e.kind = "buff"}]_vars

\* A change the log did not explain, a row the wall clock drained out from under
\* a client that is gone, does not rewrite the store: it erases no buff.
DrainKeepsBuffs ==
  [][TimersTick /\ logAt # Never /\ ~slipped =>
       \A c \in Char : \A e \in saved[c] :
         e.kind = "buff" => \E f \in saved'[c] : f.kind = "buff"]_vars
=============================================================================
