------------------------------- MODULE Fights -------------------------------
(***************************************************************************)
(* core/dps.py: FightTracker over the fights against one target, on the     *)
(* driver thread.  Damage is what _attribute let through; levels, names and *)
(* the session footer are left out.                                         *)
(*                                                                          *)
(* Best damage in a window is carried from hit to hit (best, left, sum) as  *)
(* the code does; BestOf is what it must be equal to.                       *)
(***************************************************************************)
EXTENDS Integers, Sequences, FiniteSetsExt, SequencesExt

CONSTANTS
  Attacker,    \* who deals damage
  Damage,      \* damage of one hit
  Window,      \* settings of the averaging window, in seconds
  Retention,   \* fight_retention_s
  MaxTime,     \* bound: the log clock
  MaxHits,     \* bound: hits of one attacker in one fight
  MaxFights    \* bound: fights on screen

ASSUME FightsAssumption ==
  /\ Damage \subseteq Nat /\ Window \subseteq Nat /\ Window # {}
  /\ {Retention, MaxTime, MaxFights} \subseteq Nat /\ MaxHits \in Nat \ {0}

VARIABLES
  time,      \* the log's clock
  window,    \* trailing_window_s
  fights     \* _fights: when each ended and its entities

fightVars == <<time, window, fights>>

Alive == MaxTime + 1    \* death_time is None

\* FightEntity, with the fields the best window is carried in.
NewEntity(w) == [hits |-> <<>>, window |-> w, trailing |-> 0,
                 best |-> 0, span |-> 0, upto |-> 0, left |-> 1, sum |-> 0]

Entity == [hits : Seq([at : 0..MaxTime, dmg : Damage]), window : Window, trailing : Nat,
           best : Nat, span : Window \cup {0}, upto : 0..MaxHits, left : 1..(MaxHits + 1), sum : Nat]

\* An attacker without an entity yet has one without hits.
FightsTypeOK ==
  /\ time \in 0..MaxTime /\ window \in Window
  /\ fights \in Seq([start : 0..MaxTime, death : 0..Alive, of : [Attacker -> Entity]])

FightsInit == time = 0 /\ window \in Window /\ fights = <<>>

-----------------------------------------------------------------------------
(* The best window of a list of hits                                        *)

\* The damage of the first n hits, for every n.
Dealt(hits) ==
  LET dealt[n \in 0..Len(hits)] == IF n = 0 THEN 0 ELSE dealt[n - 1] + hits[n].dmg
  IN dealt

SumOf(hits, from, to) == Dealt(hits)[to] - Dealt(hits)[from - 1]

\* Where the window that ends at hit r begins: the pointer never passes r.
LeftOf(hits, r, w) == Min({l \in 1..r : l = r \/ hits[r].at - hits[l].at < w})

\* Update12SecondDmg, by definition: the most damage in a window ending at a hit.
BestOf(hits, w) == Max({0} \cup {SumOf(hits, LeftOf(hits, r, w), r) : r \in 1..Len(hits)})

\* _rescan_best_window
Rescan(e) ==
  LET n == Len(e.hits)
      l == LeftOf(e.hits, n, e.window)
  IN [e EXCEPT !.best = Max({BestOf(e.hits, e.window), IF e.span = e.window THEN e.best ELSE 0}),
               !.span = e.window, !.upto = n,
               !.left = l, !.sum = SumOf(e.hits, l, n)]

\* Wrong variant: the carried sum keeps what fell out of the window.
ResumeKeeping(e) ==
  LET n == Len(e.hits)
      s == e.sum + e.hits[n].dmg
  IN [e EXCEPT !.upto = n, !.sum = s, !.best = Max({e.best, s})]

\* The pointer resumes where the last hit left it.
Resume(e) ==
  LET n == Len(e.hits)
      l == Min({i \in e.left..n : i = n \/ e.hits[n].at - e.hits[i].at < e.window})
      s == e.sum + e.hits[n].dmg - SumOf(e.hits, e.left, l - 1)
  IN [e EXCEPT !.upto = n, !.left = l, !.sum = s, !.best = Max({e.best, s})]

\* _update_best_window
UpdateBest(e) ==
  LET n == Len(e.hits)
  IN IF n = e.upto /\ e.window = e.span THEN e
     ELSE IF e.window # e.span \/ n # e.upto + 1 THEN Rescan(e) ELSE Resume(e)

\* update_trailing of a live entity: all after the last hit before the window,
\* whose edge is in it.
UpdateTrailing(e, now) ==
  LET n == Len(e.hits)
      older == {i \in 1..n : e.hits[i].at < now - e.window}
  IN IF n = 0 THEN e
     ELSE UpdateBest([e EXCEPT !.trailing = SumOf(e.hits, Max({0} \cup older) + 1, n)])

-----------------------------------------------------------------------------
(* The tracker                                                              *)

Live(f) == f.death = Alive

LastHit(f) ==
  Max({f.start} \cup UNION {{h.at : h \in ToSet(f.of[a].hits)} : a \in Attacker})

\* is_stale
Stale(f) == Retention > 0 /\ time - LastHit(f) > Retention

\* FightEntity.add_damage
AddHit(e, d) == UpdateTrailing([e EXCEPT !.hits = Append(@, [at |-> time, dmg |-> d])], time)

\* Fight.add_damage: a live row follows the configured window.
Hit(f, a, d) ==
  [f EXCEPT !.of[a] = AddHit([@ EXCEPT !.window = window], d)]

Fresh0 == [start |-> time, death |-> Alive, of |-> [a \in Attacker |-> NewEntity(window)]]

\* FightTracker.add_damage: into the live fight, or into a new one.
AddDamage(a, d) ==
  \/ \E i \in DOMAIN fights :
       /\ Live(fights[i]) /\ Len(fights[i].of[a].hits) < MaxHits
       /\ fights' = [fights EXCEPT ![i] = Hit(@, a, d)]
       /\ UNCHANGED <<time, window>>
  \/ /\ \A i \in DOMAIN fights : ~Live(fights[i])
     /\ Len(fights) < MaxFights
     /\ fights' = Append(fights, Hit(Fresh0, a, d))
     /\ UNCHANGED <<time, window>>

\* end_fight: the rows freeze, their window with them.
EndFight ==
  /\ \E i \in DOMAIN fights : Live(fights[i])
  /\ fights' = [i \in DOMAIN fights |->
                  IF Live(fights[i]) THEN [fights[i] EXCEPT !.death = time] ELSE fights[i]]
  /\ UNCHANGED <<time, window>>

\* clear: zoned, camped or died.
Clear == fights # <<>> /\ fights' = <<>> /\ UNCHANGED <<time, window>>

Refreshed(f) ==
  IF Live(f)
  THEN [f EXCEPT !.of = [a \in Attacker |-> UpdateTrailing([f.of[a] EXCEPT !.window = window], time)]]
  ELSE f

\* The fights that are not stale, in their order.
Retained(fs) ==
  LET first[n \in 0..Len(fs)] ==
        IF n = 0 THEN <<>> ELSE IF Stale(fs[n]) THEN first[n - 1] ELSE Append(first[n - 1], fs[n])
  IN first[Len(fs)]

\* tick: every live row is refreshed, then whole groups are retired.
Tick ==
  /\ fights' = Retained([i \in DOMAIN fights |-> Refreshed(fights[i])])
  /\ UNCHANGED <<time, window>>

\* configure: reaches the rows at their next hit or tick.
Configure(w) == w # window /\ window' = w /\ UNCHANGED <<time, fights>>

Second == time < MaxTime /\ time' = time + 1 /\ UNCHANGED <<window, fights>>

FightsNext ==
  \/ \E a \in Attacker, d \in Damage : AddDamage(a, d)
  \/ EndFight \/ Clear \/ Tick \/ Second
  \/ \E w \in Window : Configure(w)

FightsSpec == FightsInit /\ [][FightsNext]_fightVars

-----------------------------------------------------------------------------
(* Properties                                                               *)

\* Whatever hits, ticks and settings came in between, the number carried from
\* hit to hit is the best window of all the hits, under the row's own window; a
\* change of the window in mid-fight loses none of the hits before it.
BestWindowExact ==
  \A i \in DOMAIN fights : \A a \in Attacker :
    LET e == fights[i].of[a] IN e.span = e.window => e.best = BestOf(e.hits, e.window)
=============================================================================
