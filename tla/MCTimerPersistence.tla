------------------------- MODULE MCTimerPersistence -------------------------
(* Two characters; a buff that outlasts a camp, a cooldown that does not.    *)
EXTENDS TimerPersistence, TLC
CONSTANTS Ann, Bob
MCDuration == [buff |-> 2, cooldown |-> 1, respawn |-> 2]
Swap == Permutations({Ann, Bob})
=============================================================================
