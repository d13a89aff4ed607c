------------------------------ MODULE CHChain ------------------------------
(***************************************************************************)
(* core/ch_chain.py behind core/handlers/complete_heal.py: who is next in a *)
(* Complete Heal chain.  One chain per heal target; it is forgotten when    *)
(* the target was not called for 20 s.                                      *)
(*                                                                          *)
(* A position is a number: the digits 000 to 999 are themselves, AAA to ZZZ *)
(* come after them and aaa to zzz after those, as they do in string order.   *)
(* RAMP1 counts as its first letter.  Which chat lines are calls is the      *)
(* input.                                                                   *)
(***************************************************************************)
EXTENDS Integers

CONSTANTS
  Target,    \* who is healed
  Digits,    \* positions called as three digits
  Letters    \* positions called as a letter, 1 for AAA and 27 for aaa

ASSUME ChainAssumption == Digits \subseteq 0..999 /\ Letters \subseteq 1..52

VARIABLES
  chains,    \* _entries
  silent,    \* the targets whose last call is more than 20 s old
  heard,     \* ghost: the positions called since the chain began
  warned     \* the last call made the warning

chainVars == <<chains, silent, heard, warned>>

Letter(l)  == 999 + l
\* .lower(): the position, whatever its case
Fold(p)    == IF p > Letter(26) THEN p - 26 ELSE p
IsDigits(p) == p <= 999
Position   == Digits \cup {Letter(l) : l \in Letters}
NoPosition == 0 - 1    \* the empty string, before everything

\* A target without an entry has an empty chain.
NewChain == [highest |-> NoPosition, mine |-> NoPosition]
Chain    == [highest : Position \cup {NoPosition}, mine : Position \cup {NoPosition}]

ChainTypeOK ==
  /\ chains \in [Target -> Chain] /\ heard \in [Target -> SUBSET Position]
  /\ silent \subseteq Target /\ warned \in BOOLEAN

ChainInit ==
  /\ chains = [t \in Target |-> NewChain] /\ heard = [t \in Target |-> {}]
  /\ silent = {} /\ warned = FALSE

-----------------------------------------------------------------------------
First(p) == IF IsDigits(p) THEN 1 ELSE Letter(1)

\* The call is of the highest position, and it is the caller's turn to be first.
Wraps(c, p) ==
  LET last == IF IsDigits(p) THEN Fold(c.highest) ELSE Letter(26)
  IN Fold(p) = last /\ Fold(c.highest) = last /\ Fold(c.mine) = First(p)

\* Wrong variant: a position never heard before closes the ring too.
NextUpEarly(c, p, new) ==
  /\ c.mine # NoPosition /\ IsDigits(c.mine) = IsDigits(p) /\ IsDigits(c.highest) = IsDigits(p)
  /\ Wraps(c, p) \/ Fold(c.mine) = Fold(p) + 1

\* The answer of should_warn_of_chain for the call p of somebody else.
NextUp(c, p, new) ==
  /\ c.mine # NoPosition /\ IsDigits(c.mine) = IsDigits(p) /\ IsDigits(c.highest) = IsDigits(p)
  /\ Fold(c.mine) # First(p) \/ ~new \/ Fold(c.mine) # Fold(p) + 1
  /\ (Wraps(c, p) /\ ~new) \/ Fold(c.mine) = Fold(p) + 1

\* Its bookkeeping: the caller's own position, and the highest one as strings go, where
\* bbb is above ZZZ.
Noted(c, p, byYou) ==
  [highest |-> IF p > c.highest THEN p ELSE c.highest,
   mine    |-> IF byYou THEN p ELSE c.mine]

\* CHChainService.observe drops every stale chain first.
Kept(t) == IF t \in silent THEN NewChain ELSE chains[t]

HeardOf(t) == IF t \in silent THEN {} ELSE heard[t]

Observe(t, p, byYou) ==
  LET c == Noted(Kept(t), p, byYou)
  IN /\ chains' = [u \in Target |-> IF u = t THEN c ELSE Kept(u)]
     /\ warned' = (~byYou /\ NextUp(c, p, p > Kept(t).highest))
     /\ heard' = [u \in Target |-> IF u = t THEN HeardOf(t) \cup {p} ELSE HeardOf(u)]
     /\ silent' = {}

\* CHAIN_IDLE_EXPIRY passes without a call for the target.
FallsSilent(t) ==
  /\ heard[t] # {} /\ silent' = silent \cup {t}
  /\ UNCHANGED <<chains, heard, warned>>

ChainNext ==
  \E t \in Target :
    \/ \E p \in Position, byYou \in BOOLEAN : Observe(t, p, byYou)
    \/ FallsSilent(t)

ChainSpec == ChainInit /\ [][ChainNext]_chainVars

-----------------------------------------------------------------------------
(* Properties                                                               *)

\* The positions heard end with p: the highest of them, as strings go, is p in one case
\* or the other, and a letter among them is a z.
Closes(p, before) ==
  /\ IsDigits(p) \/ Fold(p) = Letter(26)
  /\ \E z \in before : Fold(z) = Fold(p) /\ p <= z /\ \A r \in before : r <= z

\* What follows p in the ring of the positions already heard, whatever their case:
\* after the highest number comes 001, after a z that has been heard comes a.
Follows(q, p, before) ==
  Fold(q) = Fold(p) + 1 \/ (Fold(q) = First(p) /\ Closes(p, before))

Mine(t) == Kept(t).mine

\* You are warned when somebody calls the position right before yours in the
\* ring, and at no other call, however positions grew, moved or restarted.  But a
\* chain where a letter (or a RAMP) was called gives no warning for numbers; one where a
\* small letter was called, and ZZZ but not zzz, has no end to its ring, so that a is
\* not warned after z; and 20 s of silence make the chain forget.
WarnsWhenNext ==
  [][\A t \in Target, p \in Position, byYou \in BOOLEAN :
       Observe(t, p, byYou) =>
         (warned' <=> /\ ~byYou /\ Mine(t) \in HeardOf(t)
                      /\ IsDigits(Mine(t)) = IsDigits(p) /\ Follows(Mine(t), p, HeardOf(t))
                      /\ IsDigits(p) => \A r \in HeardOf(t) : IsDigits(r))]_chainVars
=============================================================================
