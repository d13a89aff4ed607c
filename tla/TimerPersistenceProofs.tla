----------------------- MODULE TimerPersistenceProofs -----------------------
(***************************************************************************)
(* Proofs about TimerPersistence for all characters, durations and bounds:  *)
(* the inductive invariant RowsInv (types, one row of a kind, whose rows    *)
(* are where), and the action properties of camping, hiding and logging in. *)
(***************************************************************************)
EXTENDS TimerPersistence, TLAPS

Row   == [kind : Kind, of : Char, ends : Nat]
Entry == [kind : Kind, of : Char, rest : Nat \ {0}]

One(S) == \A r, s \in S : r.kind = s.kind => r = s

RowsInv ==
  /\ TypeOK
  /\ \A c \in Char : One(saved[c])
  /\ logAt <= now
  /\ player = NoChar => screen = {} /\ tailed = NoChar
  /\ ~slipped /\ tailed # NoChar => player = tailed
  /\ OwnRowsOnly

-----------------------------------------------------------------------------
(* Exporting and restoring                                                 *)

\* An export is well-typed, has one entry of a kind and only its rows' owners.
LEMMA SnapshotFacts ==
  ASSUME NEW rows \in SUBSET Row, One(rows), NEW anchor \in Nat
  PROVE  /\ Snapshot(rows, anchor) \in SUBSET Entry
         /\ One(Snapshot(rows, anchor))
         /\ \A e \in Snapshot(rows, anchor) : \E r \in rows :
              /\ r.kind = e.kind /\ r.of = e.of
              /\ r.kind = "buff" => e.rest = r.ends - anchor
         /\ \A r \in rows : r.ends > anchor => \E e \in Snapshot(rows, anchor) :
              /\ e.kind = r.kind /\ e.of = r.of
              /\ e.rest = IF r.kind = "buff" THEN r.ends - anchor ELSE r.ends
<1> DEFINE E(r) == [kind |-> r.kind, of |-> r.of,
                    rest |-> IF r.kind = "buff" THEN r.ends - anchor ELSE r.ends]
<1>1. ASSUME NEW r \in rows
      PROVE  /\ r.kind \in Kind /\ r.of \in Char /\ r.ends \in Nat
             /\ E(r).kind = r.kind /\ E(r).of = r.of
             /\ E(r).rest = IF r.kind = "buff" THEN r.ends - anchor ELSE r.ends
  BY DEF Row
<1>2. \A r \in rows : r.ends > anchor => E(r) \in Snapshot(rows, anchor)
  BY DEF Snapshot
<1>3. \A e \in Snapshot(rows, anchor) : \E r \in rows : r.ends > anchor /\ e = E(r)
  BY DEF Snapshot
<1> HIDE DEF E
<1>4. ASSUME NEW e \in Snapshot(rows, anchor) PROVE e \in Entry
  <2>1. PICK r \in rows : r.ends > anchor /\ e = E(r)
    BY <1>3
  <2>2. e = [kind |-> r.kind, of |-> r.of,
             rest |-> IF r.kind = "buff" THEN r.ends - anchor ELSE r.ends]
    BY <2>1 DEF E
  <2>3. (IF r.kind = "buff" THEN r.ends - anchor ELSE r.ends) \in Nat \ {0}
    BY <1>1, <2>1
  <2> QED BY <1>1, <2>2, <2>3 DEF Entry
<1>5. One(Snapshot(rows, anchor))
  BY <1>1, <1>3 DEF One
<1> QED BY <1>1, <1>2, <1>3, <1>4, <1>5

\* What is restored is well-typed, one of a kind, the entries' owners' and of
\* the kinds asked for.
LEMMA RestoredFacts ==
  ASSUME NEW entries \in SUBSET Entry, One(entries), NEW kinds, now \in Nat
  PROVE  /\ Restored(entries, kinds) \in SUBSET Row
         /\ One(Restored(entries, kinds))
         /\ \A r \in Restored(entries, kinds) :
              /\ r.kind \in kinds
              /\ \E e \in entries : /\ e.kind = r.kind /\ e.of = r.of
                                    /\ r.kind = "buff" => r.ends = now + e.rest
         /\ \A e \in entries : e.kind \in kinds /\ (e.kind = "buff" \/ e.rest > now)
              => \E r \in Restored(entries, kinds) :
                   /\ r.kind = e.kind /\ r.of = e.of
                   /\ r.ends = IF e.kind = "buff" THEN now + e.rest ELSE e.rest
<1> DEFINE R(e) == [kind |-> e.kind, of |-> e.of,
                    ends |-> IF e.kind = "buff" THEN now + e.rest ELSE e.rest]
<1>1. ASSUME NEW e \in entries
      PROVE  /\ e.kind \in Kind /\ e.of \in Char /\ e.rest \in Nat
             /\ R(e).kind = e.kind /\ R(e).of = e.of
             /\ R(e).ends = IF e.kind = "buff" THEN now + e.rest ELSE e.rest
  BY DEF Entry
<1>2. \A e \in entries : e.kind \in kinds /\ (e.kind = "buff" \/ e.rest > now)
        => R(e) \in Restored(entries, kinds)
  BY DEF Restored
<1>3. \A r \in Restored(entries, kinds) : \E e \in entries : e.kind \in kinds /\ r = R(e)
  BY DEF Restored
<1> HIDE DEF R
<1>4. ASSUME NEW r \in Restored(entries, kinds) PROVE r \in Row
  <2>1. PICK e \in entries : r = R(e)
    BY <1>3
  <2>2. r = [kind |-> e.kind, of |-> e.of,
             ends |-> IF e.kind = "buff" THEN now + e.rest ELSE e.rest]
    BY <2>1 DEF R
  <2>3. (IF e.kind = "buff" THEN now + e.rest ELSE e.rest) \in Nat
    BY <1>1
  <2> QED BY <1>1, <2>2, <2>3 DEF Row
<1>5. One(Restored(entries, kinds))
  BY <1>1, <1>3 DEF One
<1> QED BY <1>1, <1>2, <1>3, <1>4, <1>5

\* What RowsInv says of rows and entries, in the form the lemmas take.
LEMMA RowsInvFacts ==
  ASSUME RowsInv
  PROVE  /\ screen \in SUBSET Row /\ One(screen)
         /\ \A c \in Char : saved[c] \in SUBSET Entry /\ One(saved[c])
         /\ saved \in [Char -> SUBSET Entry]
         /\ now \in Nat /\ logAt \in Nat /\ now >= 1
         /\ Anchor(logAt) \in Nat /\ Anchor(logAt) <= now
BY TimeAssumption DEF RowsInv, TypeOK, One, Row, Entry, Time, Anchor, Never

\* An export leaves every store well-typed and one of a kind; with only the
\* player's rows on screen it leaves everybody's entries their own.
LEMMA ExportedFacts ==
  ASSUME RowsInv, NEW rows \in SUBSET Row, One(rows), NEW t \in Nat
  PROVE  /\ Exported(rows, t) \in [Char -> SUBSET Entry]
         /\ \A c \in Char : One(Exported(rows, t)[c])
         /\ ~slipped /\ (\A r \in rows : r.of = player) =>
              \A c \in Char : \A e \in Exported(rows, t)[c] : e.of = c
<1>1. Anchor(t) \in Nat
  BY RowsInvFacts DEF Anchor
<1>2. CASE camped \/ player = NoChar
  BY <1>2, RowsInvFacts DEF Exported, RowsInv, OwnRowsOnly
<1>3. CASE ~(camped \/ player = NoChar)
  <2>1. Exported(rows, t) = [saved EXCEPT ![player] = Snapshot(rows, Anchor(t))]
    BY <1>3 DEF Exported
  <2>2. player \in Char
    BY <1>3 DEF RowsInv, TypeOK
  <2>3. /\ Snapshot(rows, Anchor(t)) \in SUBSET Entry
        /\ One(Snapshot(rows, Anchor(t)))
        /\ \A e \in Snapshot(rows, Anchor(t)) : \E r \in rows : r.of = e.of
    BY <1>1, SnapshotFacts
  <2> QED BY <2>1, <2>2, <2>3, RowsInvFacts DEF RowsInv, OwnRowsOnly
<1> QED BY <1>2, <1>3

-----------------------------------------------------------------------------
(* The invariant                                                           *)

\* Rows kept, filtered or joined with rows of other kinds stay one of a kind.
LEMMA OneFacts ==
  /\ \A S, T : One(S) /\ T \subseteq S => One(T)
  /\ \A S, T : One(S) /\ One(T) /\ (\A r \in S, s \in T : r.kind # s.kind) => One(S \cup T)
  /\ \A r : One({r})
BY DEF One

\* The stores after a step, from the rows and the log clock it exports with.
LEMMA StoreStep ==
  ASSUME RowsInv, NEW rows \in SUBSET Row, One(rows), NEW t \in Time \cup {Never},
         ExportNow(rows, t) \/ OnTimersChanged(rows, t)
  PROVE  /\ saved' \in [Char -> SUBSET Entry]
         /\ \A c \in Char : One(saved'[c])
         /\ ~slipped /\ (\A r \in rows : r.of = player) =>
              \A c \in Char : \A e \in saved'[c] : e.of = c
         /\ lastExport' \in Time \cup {Never}
<1>1. t \in Nat
  BY TimeAssumption DEF Time, Never
<1>2. saved' = saved \/ saved' = Exported(rows, t)
  BY DEF ExportNow, OnTimersChanged, store
<1>3. lastExport' = lastExport \/ lastExport' = t
  BY DEF ExportNow, OnTimersChanged, store
<1>4. lastExport \in Time \cup {Never}
  BY DEF RowsInv, TypeOK
<1>5. CASE saved' = saved
  BY <1>3, <1>4, <1>5, RowsInvFacts DEF RowsInv, OwnRowsOnly
<1>6. CASE saved' = Exported(rows, t)
  BY <1>1, <1>3, <1>4, <1>6, ExportedFacts
<1> QED BY <1>2, <1>5, <1>6

LEMMA RowsInit == Init => RowsInv
<1> SUFFICES ASSUME Init PROVE RowsInv
  OBVIOUS
<1>1. TypeOK
  <2>1. up \in BOOLEAN /\ slipped \in BOOLEAN /\ camped \in BOOLEAN
    BY DEF Init
  <2>2. now \in Time /\ due \in Nat
    BY TimeAssumption DEF Init, Time, Never
  <2>3. screen \subseteq [kind : Kind, of : Char, ends : Nat]
        /\ \A r, s \in screen : r.kind = s.kind => r = s
    BY DEF Init
  <2>4. saved \in [Char -> SUBSET [kind : Kind, of : Char, rest : Nat \ {0}]]
    BY DEF Init
  <2>5. /\ player \in Char \cup {NoChar} /\ tailed \in Char \cup {NoChar}
        /\ logAt \in Time \cup {Never} /\ lastExport \in Time \cup {Never}
    BY DEF Init
  <2>6. away \subseteq Char
    BY DEF Init
  <2> QED BY <2>1, <2>2, <2>3, <2>4, <2>5, <2>6 DEF TypeOK
<1>2. \A c \in Char : One(saved[c])
  BY DEF Init, One
<1> QED BY <1>1, <1>2 DEF Init, RowsInv, OwnRowsOnly, Never

\* RowsInv after a step, part by part.
LEMMA RowsInvNext ==
  ASSUME now' \in Time, up' \in BOOLEAN, slipped' \in BOOLEAN, camped' \in BOOLEAN, due' \in Nat,
         player' \in Char \cup {NoChar}, tailed' \in Char \cup {NoChar},
         logAt' \in Time \cup {Never}, lastExport' \in Time \cup {Never}, logAt' <= now',
         screen' \in SUBSET Row, One(screen'),
         saved' \in [Char -> SUBSET Entry], \A c \in Char : One(saved'[c]),
         away' \subseteq Char,
         player' = NoChar => screen' = {} /\ tailed' = NoChar,
         ~slipped' /\ tailed' # NoChar => player' = tailed',
         ~slipped' => \A r \in screen' : r.of = player',
         ~slipped' => \A c \in Char : \A e \in saved'[c] : e.of = c
  PROVE  RowsInv'
<1>1. TypeOK'
  BY DEF TypeOK, Row, Entry, One
<1> QED BY <1>1 DEF RowsInv, OwnRowsOnly

LEMMA RowsStep == RowsInv /\ [Next]_vars => RowsInv'
<1> SUFFICES ASSUME RowsInv, [Next]_vars PROVE RowsInv'
  OBVIOUS
<1>1. /\ now \in Time /\ up \in BOOLEAN /\ slipped \in BOOLEAN /\ camped \in BOOLEAN
      /\ player \in Char \cup {NoChar} /\ tailed \in Char \cup {NoChar} /\ due \in Nat
      /\ logAt \in Time \cup {Never} /\ lastExport \in Time \cup {Never} /\ logAt <= now
      /\ away \subseteq Char
      /\ player = NoChar => screen = {} /\ tailed = NoChar
      /\ ~slipped /\ tailed # NoChar => player = tailed
      /\ ~slipped => \A r \in screen : r.of = player
      /\ ~slipped => \A c \in Char : \A e \in saved[c] : e.of = c
  BY DEF RowsInv, TypeOK, OwnRowsOnly
<1>2. /\ screen \in SUBSET Row /\ One(screen)
      /\ saved \in [Char -> SUBSET Entry] /\ \A c \in Char : One(saved[c])
      /\ now \in Nat /\ logAt \in Nat /\ Anchor(logAt) \in Nat
  BY RowsInvFacts
<1>3. /\ Running \in SUBSET Row /\ One(Running) /\ Running \subseteq screen
      /\ \A kinds : Without(Running, kinds) \subseteq Running
  BY <1>2, OneFacts DEF Running, Without
<1>4. CASE OtherLine \/ CampStart \/ CampAbandon
  BY <1>1, <1>2, <1>4, TimeAssumption, RowsInvNext
  DEF OtherLine, CampStart, CampAbandon, LineArrives, clock, who, store, Never
<1>5. ASSUME NEW k \in Kind, RowStarts(k) PROVE RowsInv'
  <2> DEFINE new == [kind |-> k, of |-> tailed, ends |-> now + Duration[k]]
  <2>1. tailed \in Char /\ player # NoChar
    BY <1>1, <1>5, CharAssumption DEF RowStarts, LineArrives
  <2>2. new \in Row /\ new.of = tailed /\ new.kind = k
    BY <1>2, <2>1, TimeAssumption DEF Row
  <2>3. screen' = Without(screen, {k}) \cup {new}
    BY <1>5 DEF RowStarts
  <2> HIDE DEF new
  <2>4. screen' \in SUBSET Row /\ One(screen')
    BY <1>2, <2>2, <2>3, OneFacts DEF Without
  <2>5. ~slipped => \A r \in screen' : r.of = player
    BY <1>1, <2>1, <2>2, <2>3, CharAssumption DEF Without
  <2>6. /\ saved' \in [Char -> SUBSET Entry] /\ \A c \in Char : One(saved'[c])
        /\ ~slipped => \A c \in Char : \A e \in saved'[c] : e.of = c
        /\ lastExport' \in Time \cup {Never}
    BY <1>1, <1>5, <2>4, <2>5, StoreStep DEF RowStarts
  <2>7. UNCHANGED <<now, up, player, tailed, slipped, camped, due, away>>
        /\ logAt' = now
    BY <1>5 DEF RowStarts, LineArrives, clock, who
  <2> QED BY <1>1, <1>2, <2>1, <2>4, <2>5, <2>6, <2>7, RowsInvNext
<1>6. CASE Welcome
  <2> DEFINE back == Restored(saved[player], SelfKind)
  <2>1. player \in Char
    BY <1>1, <1>6 DEF Welcome, LineArrives
  <2>2. /\ back \in SUBSET Row /\ One(back)
        /\ \A r \in back : r.kind \in SelfKind /\ \E e \in saved[player] : e.of = r.of
    BY <1>2, <2>1, RestoredFacts
  <2>3. screen' = Without(screen, SelfKind) \cup back
    BY <1>6 DEF Welcome
  <2> HIDE DEF back
  <2>4. screen' \in SUBSET Row /\ One(screen')
    <3>1. \A r \in Without(screen, SelfKind) : r.kind \notin SelfKind
      BY DEF Without
    <3>2. Without(screen, SelfKind) \subseteq screen
      BY DEF Without
    <3> QED BY <1>2, <2>2, <2>3, <3>1, <3>2, OneFacts
  <2>5. ~slipped => \A r \in screen' : r.of = player
    BY <1>1, <2>1, <2>2, <2>3 DEF Without
  <2>6. /\ Snapshot(screen', now) \in SUBSET Entry /\ One(Snapshot(screen', now))
        /\ \A e \in Snapshot(screen', now) : \E r \in screen' : r.of = e.of
    BY <1>2, <2>4, SnapshotFacts
  <2>7. saved' = [saved EXCEPT ![player] = Snapshot(screen', now)]
    BY <1>6 DEF Welcome
  <2>8. /\ saved' \in [Char -> SUBSET Entry] /\ \A c \in Char : One(saved'[c])
        /\ ~slipped => \A c \in Char : \A e \in saved'[c] : e.of = c
    BY <1>1, <1>2, <2>1, <2>5, <2>6, <2>7
  <2>9. /\ UNCHANGED <<now, up, player, tailed, slipped, due>>
        /\ logAt' = now /\ lastExport' = now /\ camped' \in BOOLEAN /\ away' \subseteq Char
    BY <1>1, <1>6 DEF Welcome, LineArrives, clock, who
  <2> QED
    BY <1>1, <1>2, <2>1, <2>4, <2>5, <2>8, <2>9, CharAssumption, RowsInvNext
<1>7. CASE CampTick
  <2>1. screen' \in SUBSET Row /\ One(screen') /\ screen' \subseteq screen
    BY <1>2, <1>3, <1>7, OneFacts DEF CampTick
  <2>2. /\ saved' \in [Char -> SUBSET Entry] /\ \A c \in Char : One(saved'[c])
        /\ ~slipped => \A c \in Char : \A e \in saved'[c] : e.of = c
        /\ lastExport' \in Time \cup {Never}
    BY <1>1, <1>2, <1>7, StoreStep DEF CampTick
  <2>3. away' \subseteq Char
    BY <1>1, <1>7 DEF CampTick
  <2> QED
    BY <1>1, <1>7, <2>1, <2>2, <2>3, RowsInvNext DEF CampTick, clock, who, Never
<1>8. CASE TimersTick
  <2>1. screen' \in SUBSET Row /\ One(screen') /\ screen' \subseteq screen
    BY <1>3, <1>8 DEF TimersTick
  <2>2. /\ saved' \in [Char -> SUBSET Entry] /\ \A c \in Char : One(saved'[c])
        /\ ~slipped => \A c \in Char : \A e \in saved'[c] : e.of = c
        /\ lastExport' \in Time \cup {Never}
    BY <1>1, <1>8, <2>1, StoreStep DEF TimersTick
  <2> QED
    BY <1>1, <1>8, <2>1, <2>2, RowsInvNext DEF TimersTick, clock, who
<1>9. ASSUME NEW c \in Char, Switch(c) PROVE RowsInv'
  <2> DEFINE before == Exported(screen, logAt)
             back   == Restored(before[c], Kind)
  <2>1. /\ before \in [Char -> SUBSET Entry] /\ \A d \in Char : One(before[d])
        /\ ~slipped => \A d \in Char : \A e \in before[d] : e.of = d
    BY <1>1, <1>2, ExportedFacts
  <2>2. /\ screen' = Without(screen, Kind) \cup back
        /\ saved' = [before EXCEPT ![c] = Snapshot(screen', Anchor(logAt))]
    BY <1>9 DEF Switch
  <2> HIDE DEF before
  <2>3. /\ back \in SUBSET Row /\ One(back)
        /\ \A r \in back : \E e \in before[c] : e.of = r.of
    BY <1>2, <2>1, RestoredFacts
  <2>4. screen' = back
    BY <1>2, <2>2 DEF Without, Row
  <2> HIDE DEF back
  <2>5. ~slipped => \A r \in screen' : r.of = c
    BY <2>1, <2>3, <2>4
  <2>6. /\ Snapshot(screen', Anchor(logAt)) \in SUBSET Entry
        /\ One(Snapshot(screen', Anchor(logAt)))
        /\ \A e \in Snapshot(screen', Anchor(logAt)) : \E r \in screen' : r.of = e.of
    BY <1>2, <2>3, <2>4, SnapshotFacts
  <2>7. /\ saved' \in [Char -> SUBSET Entry] /\ \A d \in Char : One(saved'[d])
        /\ ~slipped => \A d \in Char : \A e \in saved'[d] : e.of = d
    BY <2>1, <2>2, <2>5, <2>6
  <2> QED
    BY <1>1, <1>9, <2>3, <2>4, <2>5, <2>7, CharAssumption, RowsInvNext
    DEF Switch, clock
<1>10. ASSUME NEW c \in Char, SwitchFails(c) PROVE RowsInv'
  <2>1. /\ saved' \in [Char -> SUBSET Entry] /\ \A d \in Char : One(saved'[d])
        /\ lastExport' \in Time \cup {Never}
    BY <1>1, <1>2, <1>10, StoreStep DEF SwitchFails
  <2> QED
    BY <1>1, <1>2, <1>10, <2>1, CharAssumption, RowsInvNext
    DEF SwitchFails, clock
<1>11. CASE SetLogDir
  BY <1>1, <1>2, <1>11, RowsInvNext DEF SetLogDir, clock, store
<1>12. CASE Quit
  <2>1. /\ saved' \in [Char -> SUBSET Entry] /\ \A c \in Char : One(saved'[c])
        /\ ~slipped => \A c \in Char : \A e \in saved'[c] : e.of = c
    BY <1>1, <1>2, <1>12, ExportedFacts DEF Quit
  <2>2. One({})
    BY DEF One
  <2>3. /\ UNCHANGED <<now, slipped, away>> /\ up' \in BOOLEAN /\ camped' \in BOOLEAN
        /\ player' = NoChar /\ tailed' = NoChar /\ screen' = {}
        /\ logAt' = 0 /\ lastExport' = 0 /\ due' = 0
    BY <1>12 DEF Quit, Never
  <2> QED BY <1>1, <1>2, <2>1, <2>2, <2>3, RowsInvNext DEF Never
<1>13. CASE Restart
  BY <1>1, <1>2, <1>13, RowsInvNext DEF Restart, who, store
<1>14. CASE TimePasses
  <2>1. now' \in Time /\ logAt <= now'
    BY <1>1, <1>2, <1>14, TimeAssumption DEF TimePasses, Time
  <2> QED BY <1>1, <1>2, <1>14, <2>1, RowsInvNext DEF TimePasses, who, store
<1>15. CASE UNCHANGED vars
  BY <1>1, <1>2, <1>15, RowsInvNext DEF vars
<1> QED
  BY <1>4, <1>5, <1>6, <1>7, <1>8, <1>9, <1>10, <1>11, <1>12, <1>13, <1>14, <1>15 DEF Next

\* Rows, stores and clocks keep their types, and a window one row of a kind.
THEOREM TimerTypes == Spec => []TypeOK
<1>1. RowsInv => TypeOK
  BY DEF RowsInv
<1> QED BY <1>1, RowsInit, RowsStep, PTL DEF Spec

\* No character's rows reach another's profile or window, for any number of
\* characters, switches and restarts, unless a switch failed half-way.
THEOREM RowsStayHome == Spec => []OwnRowsOnly
<1>1. RowsInv => OwnRowsOnly
  BY DEF RowsInv
<1> QED BY <1>1, RowsInit, RowsStep, PTL DEF Spec

-----------------------------------------------------------------------------
(* What a step may never do                                                *)

\* A character away and followed is camped, so that nothing is exported for it.
AwayInv == ~slipped => \A c \in away : player = c => camped

LEMMA AwayStep == RowsInv /\ AwayInv /\ [Next]_vars => AwayInv'
<1> SUFFICES ASSUME RowsInv, AwayInv, [Next]_vars PROVE AwayInv'
  OBVIOUS
<1>1. away \subseteq Char /\ slipped \in BOOLEAN
  BY DEF RowsInv, TypeOK
<1>2. CASE \/ OtherLine \/ CampStart \/ CampAbandon \/ TimersTick \/ SetLogDir \/ Restart
           \/ TimePasses \/ UNCHANGED vars \/ \E k \in Kind : RowStarts(k)
  <2>1. UNCHANGED <<player, slipped, camped, away>>
    BY <1>2 DEF OtherLine, CampStart, CampAbandon, TimersTick, SetLogDir, Restart, TimePasses,
                RowStarts, LineArrives, who, vars
  <2> QED BY <2>1 DEF AwayInv
<1>3. CASE Welcome
  BY <1>3 DEF Welcome, LineArrives, who, AwayInv
<1>4. CASE CampTick
  BY <1>4 DEF CampTick, who, AwayInv
<1>5. CASE \E c \in Char : Switch(c)
  BY <1>5 DEF Switch, AwayInv
<1>6. CASE \E c \in Char : SwitchFails(c)
  BY <1>6 DEF SwitchFails, AwayInv
<1>7. CASE Quit
  BY <1>1, <1>7, CharAssumption DEF Quit, AwayInv
<1> QED BY <1>2, <1>3, <1>4, <1>5, <1>6, <1>7 DEF Next

\* From the camp of a character until its log is attached again or it logs in no
\* step changes its stores: not a quit, a restart, or other characters' play, switches
\* and camps (_camped, and stores of their own), unless a switch failed half-way.
THEOREM CampIsKept == Spec => CampKeepsSnapshot
<1>1. ASSUME RowsInv, AwayInv, [Next]_vars, ~slipped, NEW c \in away, c \in away'
      PROVE  saved'[c] = saved[c]
  <2>1. c \in Char /\ saved \in [Char -> SUBSET Entry] /\ (player = c => camped)
    BY <1>1, RowsInvFacts DEF RowsInv, TypeOK, AwayInv
  <2>2. \A rows, t : Exported(rows, t)[c] = saved[c]
    BY <2>1 DEF Exported
  <2>3. \A rows, t : ExportNow(rows, t) \/ OnTimersChanged(rows, t) => saved'[c] = saved[c]
    BY <2>2 DEF ExportNow, OnTimersChanged, store
  <2>4. CASE OtherLine \/ CampStart \/ CampAbandon \/ SetLogDir \/ Restart \/ TimePasses
    BY <2>4 DEF OtherLine, CampStart, CampAbandon, SetLogDir, Restart, TimePasses, store
  <2>5. ASSUME NEW k \in Kind, RowStarts(k) PROVE saved'[c] = saved[c]
    BY <2>3, <2>5 DEF RowStarts
  <2>6. CASE CampTick \/ TimersTick
    BY <2>3, <2>6 DEF CampTick, TimersTick
  <2>7. ASSUME NEW d \in Char, Switch(d) PROVE saved'[c] = saved[c]
    <3> DEFINE before == Exported(screen, logAt)
    <3>1. c # d
      BY <1>1, <2>7 DEF Switch
    <3>2. before \in [Char -> SUBSET Entry] /\ before[c] = saved[c]
      BY <1>1, <2>2, RowsInvFacts, ExportedFacts
    <3>3. saved' = [before EXCEPT ![d] = Snapshot(screen', Anchor(logAt))]
      BY <2>7 DEF Switch
    <3> HIDE DEF before
    <3> QED BY <2>1, <3>1, <3>2, <3>3
  <2>8. ASSUME NEW d \in Char, SwitchFails(d) PROVE saved'[c] = saved[c]
    BY <2>3, <2>8 DEF SwitchFails
  <2>9. CASE Quit
    BY <2>2, <2>9 DEF Quit
  <2>10. CASE Welcome
    <3>1. c # player
      BY <1>1, <2>10 DEF Welcome
    <3> QED BY <2>1, <2>10, <3>1 DEF Welcome
  <2>11. CASE UNCHANGED vars
    BY <2>11 DEF vars
  <2> QED
    BY <1>1, <2>4, <2>5, <2>6, <2>7, <2>8, <2>9, <2>10, <2>11 DEF Next
<1>2. RowsInv /\ AwayInv /\ [Next]_vars =>
        [~slipped => \A c \in away \cap away' : saved'[c] = saved[c]]_vars
  BY <1>1
<1>3. Init => AwayInv
  BY DEF Init, AwayInv
<1> QED BY <1>2, <1>3, RowsInit, RowsStep, AwayStep, PTL DEF Spec, CampKeepsSnapshot

\* While the character is not camped a running row leaves the window, login apart,
\* only when the profile holds it or one of its name replaces it (camp, switch,
\* quit, tick).
THEOREM HiddenIsSaved == Spec => NothingHiddenUnsaved
<1>1. ASSUME RowsInv, [Next]_vars, ~camped, ~Welcome,
             NEW r \in screen, r.ends > now, \A s \in screen' : s.kind # r.kind
      PROVE  \E e \in saved'[player] : e.kind = r.kind
  <2>1. player \in Char /\ r \in Row /\ r.kind \in Kind /\ r.ends \in Nat /\ now \in Nat
    BY <1>1, RowsInvFacts DEF RowsInv, TypeOK, Row
  <2>2. ASSUME NEW rows \in SUBSET Row, One(rows), r \in rows
        PROVE  \E e \in Exported(rows, logAt)[player] :
                 /\ e.kind = r.kind
                 /\ e.rest = IF r.kind = "buff" THEN r.ends - Anchor(logAt) ELSE r.ends
    <3>1. Exported(rows, logAt) = [saved EXCEPT ![player] = Snapshot(rows, Anchor(logAt))]
      BY <1>1, <2>1 DEF Exported, RowsInv, TypeOK
    <3>2. Exported(rows, logAt)[player] = Snapshot(rows, Anchor(logAt))
      BY <2>1, <3>1, RowsInvFacts, <1>1
    <3>3. r.ends > Anchor(logAt)
      BY <1>1, <2>1, RowsInvFacts
    <3> QED BY <1>1, <2>2, <3>2, <3>3, RowsInvFacts, SnapshotFacts
  \* Steps that leave the window, or the row in it, are not in question.
  <2>3. r \notin screen'
    BY <1>1
  <2>4. CASE OtherLine \/ CampStart \/ CampAbandon \/ SetLogDir \/ Restart \/ TimePasses
    BY <2>3, <2>4, <1>1
    DEF OtherLine, CampStart, CampAbandon, SetLogDir, Restart, TimePasses
  <2>5. ASSUME NEW k \in Kind, RowStarts(k) PROVE FALSE
    <3>1. CASE r.kind = k
      <4>1. [kind |-> k, of |-> tailed, ends |-> now + Duration[k]] \in screen'
        BY <2>5 DEF RowStarts
      <4> QED BY <1>1, <3>1, <4>1
    <3>2. CASE r.kind # k
      BY <1>1, <2>3, <2>5, <3>2 DEF RowStarts, Without
    <3> QED BY <3>1, <3>2
  <2>6. CASE CampTick
    <3>1. saved' = Exported(screen, logAt)
      BY <2>6 DEF CampTick, ExportNow
    <3> QED BY <1>1, <2>2, <3>1, RowsInvFacts
  <2>7. CASE TimersTick
    BY <1>1, <2>3, <2>7 DEF TimersTick, Running
  <2>8. ASSUME NEW c \in Char, Switch(c)
        PROVE  \E e \in saved'[player] : e.kind = r.kind
    <3> DEFINE before == Exported(screen, logAt)
    <3>1. before \in [Char -> SUBSET Entry] /\ One(before[c])
      BY <1>1, RowsInvFacts, ExportedFacts
    <3>2. /\ screen' = Without(screen, Kind) \cup Restored(before[c], Kind)
          /\ saved' = [before EXCEPT ![c] = Snapshot(screen', Anchor(logAt))]
      BY <2>8 DEF Switch
    <3>3. PICK e \in before[player] :
            /\ e.kind = r.kind
            /\ e.rest = IF r.kind = "buff" THEN r.ends - Anchor(logAt) ELSE r.ends
      BY <1>1, <2>2, RowsInvFacts
    <3> HIDE DEF before
    <3>4. CASE c = player
      <4>1. e.kind \in Kind /\ (e.kind = "buff" \/ e.rest > now)
        BY <1>1, <2>1, <3>3
      <4>2. before[c] \in SUBSET Entry /\ now \in Nat
        BY <2>1, <3>1
      <4>3. \E s \in Restored(before[c], Kind) : s.kind = e.kind
        BY <3>1, <3>3, <3>4, <4>1, <4>2, RestoredFacts
      <4> QED BY <1>1, <3>2, <3>3, <4>3
    <3>5. CASE c # player
      BY <2>1, <3>1, <3>2, <3>3, <3>5
    <3> QED BY <3>4, <3>5
  <2>9. ASSUME NEW c \in Char, SwitchFails(c) PROVE FALSE
    BY <2>3, <2>9, <1>1 DEF SwitchFails
  <2>10. CASE Quit
    BY <1>1, <2>2, <2>10, RowsInvFacts DEF Quit
  <2>11. CASE UNCHANGED vars
    BY <1>1, <2>3, <2>11 DEF vars
  <2> QED
    BY <1>1, <2>4, <2>5, <2>6, <2>7, <2>8, <2>9, <2>10, <2>11 DEF Next
<1>2. RowsInv /\ [Next]_vars =>
        [~camped /\ ~Welcome => \A r \in screen :
           (r.ends > now /\ \A s \in screen' : s.kind # r.kind)
           => \E e \in saved'[player] : e.kind = r.kind]_vars
  BY <1>1
<1> QED BY <1>2, RowsInit, RowsStep, PTL DEF Spec, NothingHiddenUnsaved

\* A login brings back every buff of the profile with the time it had left, and
\* saves the same again (_on_welcome).
THEOREM BuffsSurviveRelog == Spec => RelogRestoresBuffs
<1>1. ASSUME RowsInv, Welcome
      PROVE  {e \in saved'[player] : e.kind = "buff"} = {e \in saved[player] : e.kind = "buff"}
  <2> DEFINE back == Restored(saved[player], SelfKind)
             kept == Snapshot(screen', now)
  <2>1. player \in Char
    BY <1>1, CharAssumption DEF Welcome, LineArrives, RowsInv, TypeOK
  <2>2. /\ now \in Nat /\ saved[player] \in SUBSET Entry /\ One(saved[player])
        /\ saved'[player] = kept
    BY <1>1, <2>1, RowsInvFacts DEF Welcome
  <2>3. screen' = Without(screen, SelfKind) \cup back /\ "buff" \in SelfKind
    BY <1>1 DEF Welcome, SelfKind
  <2>4. /\ back \in SUBSET Row /\ One(back)
        /\ \A r \in back : r.kind \in SelfKind /\ \E e \in saved[player] :
             e.kind = r.kind /\ e.of = r.of /\ (r.kind = "buff" => r.ends = now + e.rest)
        /\ \A e \in saved[player] : e.kind = "buff" => \E r \in back :
             r.kind = "buff" /\ r.of = e.of /\ r.ends = now + e.rest
    BY <2>2, <2>3, RestoredFacts
  <2> HIDE DEF back
  <2>5. screen' \in SUBSET Row /\ One(screen')
    BY <1>1, RowsInvFacts, <2>3, <2>4, OneFacts DEF Without
  <2>6. /\ kept \in SUBSET Entry
        /\ \A e \in kept : \E r \in screen' :
             r.kind = e.kind /\ r.of = e.of /\ (r.kind = "buff" => e.rest = r.ends - now)
        /\ \A r \in screen' : r.kind = "buff" /\ r.ends > now => \E e \in kept :
             e.kind = "buff" /\ e.of = r.of /\ e.rest = r.ends - now
    BY <2>2, <2>5, SnapshotFacts
  <2> HIDE DEF kept
  <2>7. \A d, e \in Entry : d.kind = e.kind /\ d.of = e.of /\ d.rest = e.rest => d = e
    BY DEF Entry
  <2>8. \A e \in Entry : e.rest \in Nat /\ e.rest > 0
    BY DEF Entry
  <2>9. ASSUME NEW e \in kept, e.kind = "buff" PROVE e \in saved[player]
    <3>1. PICK r \in screen' : r.kind = "buff" /\ r.of = e.of /\ e.rest = r.ends - now
      BY <2>6, <2>9
    <3>2. r \in back
      BY <2>3, <3>1 DEF Without
    <3>3. PICK d \in saved[player] :
            d.kind = "buff" /\ d.of = e.of /\ r.ends = now + d.rest
      BY <2>4, <3>1, <3>2
    <3>4. d.rest = e.rest /\ d \in Entry /\ e \in Entry
      BY <2>2, <2>6, <2>8, <2>9, <3>1, <3>3
    <3> QED BY <2>7, <2>9, <3>3, <3>4
  <2>10. ASSUME NEW d \in saved[player], d.kind = "buff" PROVE d \in kept
    <3>1. PICK r \in back : r.kind = "buff" /\ r.of = d.of /\ r.ends = now + d.rest
      BY <2>4, <2>10
    <3>2. d \in Entry /\ d.rest \in Nat /\ d.rest > 0
      BY <2>2, <2>8
    <3>3. r \in screen' /\ r.ends > now /\ r.ends - now = d.rest
      BY <2>2, <2>3, <3>1, <3>2
    <3>4. PICK e \in kept : e.kind = "buff" /\ e.of = r.of /\ e.rest = r.ends - now
      BY <2>6, <3>1, <3>3
    <3>5. e \in Entry
      BY <2>6
    <3>6. e = d
      BY <2>7, <2>10, <3>1, <3>2, <3>3, <3>4, <3>5
    <3> QED BY <3>6
  <2> QED BY <2>2, <2>9, <2>10
<1>2. RowsInv /\ [Next]_vars =>
        [Welcome => {e \in saved'[player] : e.kind = "buff"}
                    = {e \in saved[player] : e.kind = "buff"}]_vars
  BY <1>1
<1> QED BY <1>2, RowsInit, RowsStep, PTL DEF Spec, RelogRestoresBuffs
=============================================================================
