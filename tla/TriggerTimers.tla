--------------------------- MODULE TriggerTimers ---------------------------
(***************************************************************************)
(* core/triggers/engine.py with TriggerTimerSink (composition.py) and       *)
(* core/timers.py: the countdowns of triggers, kept twice by the driver, as *)
(* the engine's active timers and as bars of the timer window.              *)
(*                                                                          *)
(* Times are what is left of them.  A bar is armed a moment after its       *)
(* timer, with the duration rounded up to whole seconds: it ends with the   *)
(* timer or one unit later.  Every trigger has a timer name of its own, so  *)
(* what the two lists hold of a trigger is kept by trigger, in their order; *)
(* announcements, counters and overlay texts are left out.                  *)
(***************************************************************************)
EXTENDS Naturals, Sequences, FiniteSets

CONSTANTS
  Trigger,     \* triggers with a timer
  Duration,    \* how long it runs
  MaxTimers,   \* bound: active timers of a trigger
  MaxBars      \* bound: bars of a trigger when a line matches

ASSUME TriggerAssumption == {Duration, MaxTimers, MaxBars} \subseteq Nat \ {0}

VARIABLES
  settings,    \* of each trigger: restart_behavior and timer_type
  active,      \* _active_timers of each trigger
  bars         \* the rows of the trigger group with its name

triggerVars == <<settings, active, bars>>

Restart  == {"StartNewTimer", "RestartTimer", "DoNothing"}
Settings == [restart : Restart, repeats : BOOLEAN]
Late     == {0, 1}

TriggersTypeOK ==
  /\ settings \in [Trigger -> Settings]
  /\ active \in [Trigger -> Seq(0..Duration)]
  /\ bars \in [Trigger -> Seq(0..(Duration + 1))]

TriggersInit ==
  /\ settings \in [Trigger -> Settings]
  /\ active = [t \in Trigger |-> <<>>] /\ bars = [t \in Trigger |-> <<>>]

-----------------------------------------------------------------------------
(* TriggerTimerSink, on the bars of one name                                *)

\* Wrong variant: a restarted timer leaves its bar as it is.
ShowBarOnce(list, restart, late) ==
  IF list = <<>> \/ restart = "StartNewTimer" THEN Append(list, Duration + late) ELSE list

\* add_timer: a new bar, the first bar of that name again, or nothing.
ShowBar(list, restart, late) ==
  IF list = <<>> \/ restart = "StartNewTimer" THEN Append(list, Duration + late)
  ELSE IF restart = "RestartTimer" THEN [list EXCEPT ![1] = Duration + late] ELSE list

\* ... n times.
Shown(list, restart, late, n) ==
  LET shown[k \in 0..n] == IF k = 0 THEN list ELSE ShowBar(shown[k - 1], restart, late)
  IN shown[n]

\* cancel, n times: the first bar of that name goes, while there is one.
HideBars(list, n) == SubSeq(list, n + 1, Len(list))

-----------------------------------------------------------------------------
(* TriggerEngine                                                            *)

\* A line matches: _handle_timer_match.
Match(t, late) ==
  /\ \/ /\ active[t] # <<>> /\ settings[t].restart = "RestartTimer"
        /\ active' = [active EXCEPT ![t][1] = Duration]
     \/ /\ active[t] = <<>> \/ settings[t].restart = "StartNewTimer"
        /\ Len(active[t]) < MaxTimers /\ Len(bars[t]) < MaxBars
        /\ active' = [active EXCEPT ![t] = Append(@, Duration)]
  /\ bars' = [bars EXCEPT ![t] = ShowBar(@, settings[t].restart, late)]
  /\ UNCHANGED settings

\* A line ends the timers of a trigger early: _check_end_early.
EndEarly(t) ==
  /\ active[t] # <<>>
  /\ active' = [active EXCEPT ![t] = <<>>]
  /\ bars' = [bars EXCEPT ![t] = HideBars(@, Len(active[t]))]
  /\ UNCHANGED settings

\* Those that are over, and the list without them.
Due(list) == {i \in 1..Len(list) : list[i] = 0}

Running(list) ==
  LET first[n \in 0..Len(list)] ==
        IF n = 0 THEN <<>> ELSE IF list[n] = 0 THEN first[n - 1] ELSE Append(first[n - 1], list[n])
  IN first[Len(list)]

\* A repeating timer that is over is armed again, in its place.
Rearmed(list) == [i \in 1..Len(list) |-> IF list[i] = 0 THEN Duration ELSE list[i]]

\* One driver iteration: TimersService.tick drops the bars that are over, then
\* TriggerEngine.tick ends its timers, or arms them again with a bar each.
Ticks(late) ==
  /\ active' = [t \in Trigger |-> IF settings[t].repeats THEN Rearmed(active[t]) ELSE Running(active[t])]
  /\ bars' = [t \in Trigger |->
       IF settings[t].repeats
       THEN Shown(Running(bars[t]), settings[t].restart, late, Cardinality(Due(active[t])))
       ELSE Running(bars[t])]
  /\ UNCHANGED settings

\* Time does not wait for a tick.
Passed(list) == [i \in 1..Len(list) |-> IF list[i] = 0 THEN 0 ELSE list[i] - 1]

Passes ==
  /\ active' = [t \in Trigger |-> Passed(active[t])]
  /\ bars' = [t \in Trigger |-> Passed(bars[t])]
  /\ UNCHANGED settings

TriggersNext ==
  \/ \E t \in Trigger : EndEarly(t) \/ \E late \in Late : Match(t, late)
  \/ \E late \in Late : Ticks(late)
  \/ Passes

TriggersSpec == TriggersInit /\ [][TriggersNext]_triggerVars

-----------------------------------------------------------------------------
(* Properties                                                               *)

\* A countdown that runs is on screen: through restarts, re-arms, early ends and
\* late ticks every active timer has a bar of its own, except for triggers set to
\* do nothing while the timer runs, where a bar of the last round may be taken
\* for the one of this round.
TimersAreShown ==
  \A t \in Trigger : settings[t].restart # "DoNothing" => Len(active[t]) <= Len(bars[t])
=============================================================================
