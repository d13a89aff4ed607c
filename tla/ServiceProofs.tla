--------------------------- MODULE ServiceProofs ----------------------------
(***************************************************************************)
(* The services around the driver, for any values of the constants.  Those  *)
(* that read the log's lines: a Complete Heal chain warns exactly the       *)
(* caller who is next (CHChain), an interruption lets at most one more text *)
(* begin (Speech), the library catches up with a dump file (DumpWatch), at  *)
(* most one upload goes to a site the user left, the player is handed one   *)
(* link (DumpUploads), the best damage window carried from hit to hit is    *)
(* the exact one (Fights), and a trigger's running timer has a bar of its   *)
(* own (TriggerTimers).  Last, the services together (MCServices).          *)
(***************************************************************************)
EXTENDS MCServices, SharingProofs, PluginProofs, SequenceFacts

-----------------------------------------------------------------------------
(* Complete Heal chains                                                     *)

\* What a chain knows of the positions called: the highest of them, and one of
\* them as the caller's own.
Reflects(c, called) ==
  /\ c \in Chain /\ called \subseteq Position
  /\ called = {} => c.highest = NoPosition
  /\ called # {} => c.highest \in called
  /\ \A r \in called : r <= c.highest
  /\ c.mine # NoPosition => c.mine \in called

ChainInv == ChainTypeOK /\ \A t \in Target : Reflects(chains[t], heard[t])

\* Positions are integers, numbers below all letters.
LEMMA PositionsAreIntegers == Position \subseteq 0..1051
<1> SUFFICES ASSUME NEW p \in Position PROVE p \in 0..1051
  OBVIOUS
<1>1. CASE p \in Digits
  <2>1. p \in 0..999
    BY <1>1, ChainAssumption
  <2> QED BY <2>1
<1>2. CASE p \in {Letter(l) : l \in Letters}
  <2>1. PICK l \in Letters : p = Letter(l)
    BY <1>2
  <2>2. l \in 1..52
    BY ChainAssumption
  <2> QED BY <2>1, <2>2 DEF Letter
<1> QED BY <1>1, <1>2 DEF Position

\* ... and so is what a chain remembers.
LEMMA ChainsAreIntegers ==
  ASSUME NEW c, NEW called, Reflects(c, called)
  PROVE  /\ c.highest \in Int /\ c.mine \in Int
         /\ \A r \in called : r \in 0..1051
<1>1. NoPosition \in Int
  BY DEF NoPosition
<1>2. Position \subseteq Int
  BY PositionsAreIntegers
<1>3. c.highest \in Position \cup {NoPosition} /\ c.mine \in Position \cup {NoPosition}
  BY DEF Reflects, Chain
<1>4. called \subseteq Position
  BY DEF Reflects
<1>5. c.highest \in Int /\ c.mine \in Int
  BY <1>1, <1>2, <1>3
<1>6. \A r \in called : r \in 0..1051
  BY <1>4, PositionsAreIntegers
<1> QED BY <1>5, <1>6

\* should_warn_of_chain looks at two positions only, once the call is noted;
\* they are enough.
LEMMA NextUpIsFollows ==
  ASSUME NEW c, NEW called, Reflects(c, called), NEW p \in Position
  PROVE  NextUp(Noted(c, p, FALSE), p, p > c.highest)
           <=> /\ c.mine \in called /\ IsDigits(c.mine) = IsDigits(p)
               /\ Follows(c.mine, p, called)
               /\ IsDigits(p) => \A r \in called : IsDigits(r)
<1> DEFINE n == Noted(c, p, FALSE)
<1>1. /\ c.highest \in Int /\ c.mine \in Int /\ p \in 0..1051
      /\ \A r \in called : r \in 0..1051
  BY PositionsAreIntegers, ChainsAreIntegers
<1>2. c.mine # NoPosition <=> c.mine \in called
  BY PositionsAreIntegers DEF Reflects, NoPosition
<1>3. n.mine = c.mine /\ n.highest = (IF p > c.highest THEN p ELSE c.highest)
  BY DEF Noted
<1> HIDE DEF n
<1>4. CASE c.mine \notin called
  BY <1>2, <1>3, <1>4 DEF NextUp, n
<1>5. CASE c.mine \in called
  <2>1. c.highest \in called /\ c.mine <= c.highest /\ \A r \in called : r <= c.highest
    BY <1>5 DEF Reflects
  <2>2. Closes(p, called) <=> /\ IsDigits(p) \/ Fold(p) = Letter(26)
                              /\ Fold(c.highest) = Fold(p) /\ p <= c.highest
    <3>1. ASSUME NEW z \in called, \A r \in called : r <= z PROVE z = c.highest
      <4>1. c.highest <= z /\ z <= c.highest
        BY <2>1, <3>1, Zenon
      <4>2. c.highest \in Int /\ z \in Int
        BY <1>1
      <4> QED BY <4>1, <4>2
    <3> QED BY <2>1, <3>1, Zenon DEF Closes
  <2>3. ~(p > c.highest) <=> p <= c.highest
    BY <1>1
  <2>4. CASE IsDigits(p)
    <3>1. (\A r \in called : IsDigits(r)) <=> IsDigits(c.highest)
      <4>1. ASSUME IsDigits(c.highest), NEW r \in called PROVE IsDigits(r)
        <5>1. r <= c.highest /\ r \in Int /\ c.highest \in Int
          BY <1>1, <2>1
        <5> QED BY <4>1, <5>1 DEF IsDigits
      <4> QED BY <2>1, <4>1
    <3>2. IsDigits(c.highest) => IsDigits(c.mine)
      BY <1>1, <2>1 DEF IsDigits
    <3>3. NextUp(n, p, p > c.highest)
            <=> /\ IsDigits(c.highest)
                /\ \/ Fold(c.mine) = Fold(p) + 1
                   \/ Fold(c.mine) = First(p) /\ Fold(c.highest) = Fold(p) /\ p <= c.highest
      BY <1>1, <1>2, <1>3, <1>5, <2>1, <2>4, <3>2 DEF NextUp, Wraps, First, Fold, Letter, IsDigits
    <3> QED BY <1>5, <2>2, <2>4, <3>1, <3>2, <3>3 DEF n, Follows
  <2>5. CASE ~IsDigits(p)
    <3>1. ~IsDigits(n.highest)
      BY <1>1, <1>3, <2>5 DEF IsDigits
    <3>2. NextUp(n, p, p > c.highest)
            <=> /\ ~IsDigits(c.mine)
                /\ \/ Fold(c.mine) = Fold(p) + 1
                   \/ /\ Fold(c.mine) = First(p) /\ Fold(p) = Letter(26)
                      /\ Fold(c.highest) = Fold(p) /\ p <= c.highest
      BY <1>1, <1>2, <1>3, <1>5, <2>1, <2>5, <3>1 DEF NextUp, Wraps, First, Fold, Letter, IsDigits
    <3>3. IsDigits(c.mine) = IsDigits(p) <=> ~IsDigits(c.mine)
      BY <1>1, <2>5 DEF IsDigits
    <3> QED BY <1>5, <2>2, <2>5, <3>2, <3>3 DEF n, Follows
  <2> QED BY <2>4, <2>5
<1> QED BY <1>4, <1>5

\* A call keeps it so.
LEMMA NotedReflects ==
  ASSUME NEW c, NEW called, Reflects(c, called), NEW p \in Position, NEW byYou \in BOOLEAN
  PROVE  Reflects(Noted(c, p, byYou), called \cup {p})
<1> DEFINE n == Noted(c, p, byYou)
<1>1. c.highest \in Int /\ p \in 0..1051 /\ \A r \in called : r \in 0..1051
  BY PositionsAreIntegers, ChainsAreIntegers
<1>2. /\ n.highest = (IF p > c.highest THEN p ELSE c.highest)
      /\ n.mine = (IF byYou THEN p ELSE c.mine)
  BY DEF Noted
<1>3. n \in Chain
  BY DEF Noted, Reflects, Chain
<1>4. n.highest \in called \cup {p}
  <2>1. CASE called = {}
    BY <1>1, <1>2, <2>1 DEF Reflects, NoPosition
  <2>2. CASE called # {}
    BY <1>2, <2>2 DEF Reflects
  <2> QED BY <2>1, <2>2
<1>5. \A r \in called \cup {p} : r <= n.highest
  BY <1>1, <1>2 DEF Reflects
<1>6. n.mine # NoPosition => n.mine \in called \cup {p}
  BY <1>2 DEF Reflects
<1>7. called \cup {p} \subseteq Position
  BY DEF Reflects
<1> HIDE DEF n
<1>8. Reflects(n, called \cup {p})
  BY <1>3, <1>4, <1>5, <1>6, <1>7 DEF Reflects
<1> QED BY <1>8 DEF n

\* A chain that was forgotten reflects no calls.
LEMMA KeptReflects ==
  ASSUME ChainInv, NEW t \in Target
  PROVE  Reflects(Kept(t), HeardOf(t))
<1>1. Reflects(NewChain, {})
  BY DEF Reflects, NewChain, Chain, NoPosition
<1> QED BY <1>1 DEF ChainInv, Kept, HeardOf

LEMMA ChainInvHolds == ChainSpec => []ChainInv
<1>1. ChainInit => ChainInv
  <2> SUFFICES ASSUME ChainInit PROVE ChainInv
    OBVIOUS
  <2>1. Reflects(NewChain, {}) /\ NewChain \in Chain
    BY DEF Reflects, NewChain, Chain, NoPosition
  <2> QED BY <2>1 DEF ChainInit, ChainInv, ChainTypeOK
<1>2. ChainInv /\ [ChainNext]_chainVars => ChainInv'
  <2> SUFFICES ASSUME ChainInv, [ChainNext]_chainVars PROVE ChainInv'
    OBVIOUS
  <2>1. ASSUME NEW t \in Target, NEW p \in Position, NEW byYou \in BOOLEAN, Observe(t, p, byYou)
        PROVE  ChainInv'
    <3>1. \A u \in Target : Reflects(chains'[u], heard'[u])
      <4> SUFFICES ASSUME NEW u \in Target PROVE Reflects(chains'[u], heard'[u])
        OBVIOUS
      <4>1. CASE u = t
        <5>1. /\ chains'[u] = Noted(Kept(t), p, byYou)
              /\ heard'[u] = HeardOf(t) \cup {p}
          BY <2>1, <4>1 DEF Observe
        <5> QED BY <5>1, KeptReflects, NotedReflects
      <4>2. CASE u # t
        <5>1. chains'[u] = Kept(u) /\ heard'[u] = HeardOf(u)
          BY <2>1, <4>2 DEF Observe
        <5> QED BY <5>1, KeptReflects
      <4> QED BY <4>1, <4>2
    <3>2. /\ chains' = [u \in Target |-> chains'[u]]
          /\ heard' = [u \in Target |-> heard'[u]]
      BY <2>1 DEF Observe
    <3>3. \A u \in Target : chains'[u] \in Chain /\ heard'[u] \in SUBSET Position
      BY <3>1 DEF Reflects
    <3>4. chains' \in [Target -> Chain] /\ heard' \in [Target -> SUBSET Position]
      BY <3>2, <3>3
    <3>5. silent' \subseteq Target
      BY <2>1 DEF Observe
    <3>6. warned' \in BOOLEAN
      BY <2>1 DEF Observe
    <3> QED BY <3>1, <3>4, <3>5, <3>6 DEF ChainInv, ChainTypeOK, Reflects
  <2>2. ASSUME NEW t \in Target, FallsSilent(t)
        PROVE  ChainInv'
    BY <2>2 DEF ChainInv, ChainTypeOK, FallsSilent, Reflects
  <2>3. CASE UNCHANGED chainVars
    BY <2>3 DEF ChainInv, ChainTypeOK, chainVars, Reflects
  <2> QED BY <2>1, <2>2, <2>3 DEF ChainNext
<1> QED BY <1>1, <1>2, PTL DEF ChainSpec

\* Type correctness of the chains.
THEOREM ChainTypes == ChainSpec => []ChainTypeOK
<1>1. ChainInv => ChainTypeOK
  BY DEF ChainInv
<1> QED BY <1>1, ChainInvHolds, PTL

\* CHChainService.observe warns exactly when the call is of the position before
\* the player's own in the ring of the positions heard, in whatever case.
THEOREM ChainWarnsWhenNext == ChainSpec => WarnsWhenNext
<1> DEFINE Warns(t, p, byYou) ==
      Observe(t, p, byYou) =>
         (warned' <=> /\ ~byYou /\ Mine(t) \in HeardOf(t)
                      /\ IsDigits(Mine(t)) = IsDigits(p) /\ Follows(Mine(t), p, HeardOf(t))
                      /\ IsDigits(p) => \A r \in HeardOf(t) : IsDigits(r))
<1>1. ASSUME ChainInv, NEW t \in Target, NEW p \in Position, NEW byYou \in BOOLEAN
      PROVE  Warns(t, p, byYou)
  <2>1. ASSUME Observe(t, p, byYou)
        PROVE  warned' <=> ~byYou /\ NextUp(Noted(Kept(t), p, byYou), p, p > Kept(t).highest)
    BY <2>1 DEF Observe
  <2>2. NextUp(Noted(Kept(t), p, FALSE), p, p > Kept(t).highest)
          <=> /\ Mine(t) \in HeardOf(t) /\ IsDigits(Mine(t)) = IsDigits(p)
              /\ Follows(Mine(t), p, HeardOf(t))
              /\ IsDigits(p) => \A r \in HeardOf(t) : IsDigits(r)
    BY <1>1, KeptReflects, NextUpIsFollows DEF Mine
  <2> QED BY <2>1, <2>2
<1>2. ChainInv => \A t \in Target, p \in Position, byYou \in BOOLEAN : Warns(t, p, byYou)
  BY <1>1
<1> QED BY <1>2, ChainInvHolds, PTL DEF WarnsWhenNext

-----------------------------------------------------------------------------
(* The speaker                                                              *)

\* Only texts asked for are outdated, and what was taken from the queue is one.
SpeechInv ==
  /\ SpeechTypeOK /\ AtMostOneMore
  /\ old \subseteq 1..asked
  /\ voice = "popped" => text \in Text

\* The queue keeps its limit, and what is in it comes from the queue or is new.
LEMMA PushedFacts ==
  ASSUME NEW q \in Seq(Text), Len(q) <= MaxPending, NEW t \in Text
  PROVE  /\ Pushed(q, t) \in Seq(Text) /\ Len(Pushed(q, t)) <= MaxPending
         /\ \A i \in DOMAIN Pushed(q, t) :
              Pushed(q, t)[i] = t \/ \E j \in DOMAIN q : Pushed(q, t)[i] = q[j]
<1>1. CASE Len(q) < MaxPending
  BY <1>1, SpeechAssumption DEF Pushed
<1>2. CASE ~(Len(q) < MaxPending)
  <2>1. q # <<>>
    BY <1>2, SpeechAssumption
  <2>2. Tail(q) \in Seq(Text) /\ Len(Tail(q)) = Len(q) - 1
    BY <2>1
  <2>3. \A i \in 1..Len(Tail(q)) : Tail(q)[i] = q[i + 1] /\ i + 1 \in DOMAIN q
    BY <2>1, <2>2
  <2>4. Pushed(q, t) = Append(Tail(q), t)
    BY <1>2 DEF Pushed
  <2>5. Len(Append(Tail(q), t)) = Len(q) /\ Append(Tail(q), t) \in Seq(Text)
    BY <2>2
  <2>6. /\ \A i \in 1..Len(Tail(q)) : Append(Tail(q), t)[i] = q[i + 1]
        /\ Append(Tail(q), t)[Len(q)] = t
    BY <2>2, <2>3, AppendProperties
  <2>7. ASSUME NEW i \in DOMAIN Pushed(q, t)
        PROVE  Pushed(q, t)[i] = t \/ \E j \in DOMAIN q : Pushed(q, t)[i] = q[j]
    <3>1. i \in 1..Len(q)
      BY <2>4, <2>5
    <3>2. i = Len(q) \/ i \in 1..Len(Tail(q))
      BY <2>2, <3>1
    <3> QED BY <2>3, <2>4, <2>6, <3>2
  <2> QED BY <2>4, <2>5, <2>7
<1> QED BY <1>1, <1>2

LEMMA SpeechInvHolds == SpeechSpec => []SpeechInv
<1>1. SpeechInit => SpeechInv
  <2>1. <<>> \in Seq(Text) /\ Len(<<>>) = 0 /\ DOMAIN <<>> = {}
    OBVIOUS
  <2>2. ASSUME SpeechInit PROVE SpeechTypeOK
    <3>1. asked \in 0..MaxTexts /\ oldBegun \in 0..MaxTexts
      BY <2>2, SpeechAssumption DEF SpeechInit
    <3>2. pending \in Seq(Text) /\ Len(pending) <= MaxPending
      BY <2>1, <2>2, SpeechAssumption DEF SpeechInit
    <3>3. {text, child, current, captured} \subseteq Text \cup {0} /\ old \subseteq Text
      BY <2>2 DEF SpeechInit
    <3>4. muted \in BOOLEAN /\ voice \in {"waiting", "popped", "started", "speaking", "done"}
      BY <2>2 DEF SpeechInit
    <3> QED BY <3>1, <3>2, <3>3, <3>4 DEF SpeechTypeOK
  <2>3. SpeechInit => AtMostOneMore /\ old \subseteq 1..asked
    BY <2>1 DEF SpeechInit, AtMostOneMore
  <2> QED BY <2>2, <2>3 DEF SpeechInv, SpeechInit
<1>2. SpeechInv /\ [SpeechNext]_speechVars => SpeechInv'
  <2> SUFFICES ASSUME SpeechInv, [SpeechNext]_speechVars PROVE SpeechInv'
    OBVIOUS
  <2> USE SpeechAssumption
  <2>1. CASE Speak
    <3>1. asked + 1 \in Text /\ asked + 1 \notin old /\ asked' = asked + 1
      BY <2>1 DEF Speak, SpeechInv, SpeechTypeOK, Text
    <3>2. /\ pending' \in Seq(Text) /\ Len(pending') <= MaxPending
          /\ \A i \in DOMAIN pending' : pending'[i] \notin old
      <4>1. CASE muted
        BY <2>1, <4>1 DEF Speak, SpeechInv, SpeechTypeOK, AtMostOneMore
      <4>2. CASE ~muted
        <5>1. pending' = Pushed(pending, asked + 1)
          BY <2>1, <4>2 DEF Speak
        <5>2. pending \in Seq(Text) /\ Len(pending) <= MaxPending
              /\ \A i \in DOMAIN pending : pending[i] \notin old
          BY DEF SpeechInv, SpeechTypeOK, AtMostOneMore
        <5>3. /\ Pushed(pending, asked + 1) \in Seq(Text) /\ Len(Pushed(pending, asked + 1)) <= MaxPending
              /\ \A i \in DOMAIN Pushed(pending, asked + 1) :
                   \/ Pushed(pending, asked + 1)[i] = asked + 1
                   \/ \E j \in DOMAIN pending : Pushed(pending, asked + 1)[i] = pending[j]
          BY <3>1, <5>2, PushedFacts
        <5> QED BY <3>1, <5>1, <5>2, <5>3
      <4> QED BY <4>1, <4>2
    <3> QED BY <2>1, <3>1, <3>2 DEF Speak, speechWorker, SpeechInv, SpeechTypeOK, AtMostOneMore, Text
  <2>2. CASE Interrupt
    BY <2>2 DEF Interrupt, Outdates, speechWorker, SpeechInv, SpeechTypeOK, AtMostOneMore, Text
  <2>3. CASE Terminate
    BY <2>3 DEF Terminate, SpeechInv, SpeechTypeOK, AtMostOneMore
  <2>4. CASE CloseSpeaker
    BY <2>4 DEF CloseSpeaker, Outdates, speechWorker, SpeechInv, SpeechTypeOK, AtMostOneMore, Text
  <2>5. CASE PopText
    <3>1. /\ pending \in Seq(Text) /\ Len(pending) <= MaxPending /\ pending # <<>>
          /\ \A i \in DOMAIN pending : pending[i] \notin old
      BY <2>5 DEF PopText, SpeechInv, SpeechTypeOK, AtMostOneMore
    <3>2. Head(pending) \in Text /\ Head(pending) \notin old
      BY <3>1
    <3>3. /\ Tail(pending) \in Seq(Text) /\ Len(Tail(pending)) <= MaxPending
          /\ \A i \in DOMAIN Tail(pending) : Tail(pending)[i] \notin old
      BY <3>1
    <3> QED BY <2>5, <3>2, <3>3 DEF PopText, SpeechInv, SpeechTypeOK, AtMostOneMore
  <2>6. CASE StartChild
    BY <2>6 DEF StartChild, SpeechInv, SpeechTypeOK, AtMostOneMore, Text
  <2>7. CASE WorkerExits \/ StartRaises \/ PublishChild \/ ChildEnds \/ Uttered
    BY <2>7 DEF WorkerExits, StartRaises, PublishChild, ChildEnds, Uttered,
                SpeechInv, SpeechTypeOK, AtMostOneMore
  <2>8. CASE UNCHANGED speechVars
    BY <2>8 DEF speechVars, SpeechInv, SpeechTypeOK, AtMostOneMore
  <2> QED BY <2>1, <2>2, <2>3, <2>4, <2>5, <2>6, <2>7, <2>8 DEF SpeechNext
<1> QED BY <1>1, <1>2, PTL DEF SpeechSpec

\* Type correctness of the speaker; its queue keeps MAX_PENDING.
THEOREM SpeechTypes == SpeechSpec => []SpeechTypeOK
<1>1. SpeechInv => SpeechTypeOK
  BY DEF SpeechInv
<1> QED BY <1>1, SpeechInvHolds, PTL

\* SubprocessSpeaker.interrupt and close let at most the text already taken begin.
THEOREM SpeechAtMostOneMore == SpeechSpec => []AtMostOneMore
<1>1. SpeechInv => AtMostOneMore
  BY DEF SpeechInv
<1> QED BY <1>1, SpeechInvHolds, PTL

-----------------------------------------------------------------------------
(* The watcher                                                              *)

\* Until the first tick the watcher knows no toggle, but a scan the user asked for
\* already counts.
WatchInv ==
  /\ WatchTypeOK
  /\ cached /\ were \in {"on", "unknown"} /\ ~excused => newest.says = file.says \/ newest.at >= file.at

LEMMA StoredIsLatest ==
  ASSUME NEW d \in Dump, newest \in Dump
  PROVE  /\ Stored(d) \in {d, newest}
         /\ newest # None /\ Stored(d) = newest => newest.says = d.says \/ newest.at >= d.at
<1>1. d.at \in Nat /\ newest.at \in Nat
  BY DEF Dump
<1>2. Stored(d) \in {d, newest}
  BY DEF Stored
<1>3. CASE newest = d
  BY <1>2, <1>3
<1>4. ASSUME newest # d, newest # None, Stored(d) = newest
      PROVE  newest.at >= d.at
  BY <1>1, <1>4 DEF Stored
<1> QED BY <1>1, <1>2, <1>3, <1>4

\* A scan that updates leaves the library caught up.
LEMMA ScanCatchesUp ==
  ASSUME WatchTypeOK, NEW known \in BOOLEAN, NEW updating \in BOOLEAN,
         Scan(known, updating), file' = file,
         known => newest.says = file.says \/ newest.at >= file.at \/ excused \/ ~updating
  PROVE  /\ newest' \in Dump /\ cached' \in BOOLEAN /\ excused' \in BOOLEAN /\ uploads' \in 0..MaxWrites
         /\ cached' /\ updating /\ ~excused' => newest'.says = file'.says \/ newest'.at >= file'.at
<1> USE WatchAssumption
<1>1. CASE cached' = known /\ UNCHANGED <<newest, excused, uploads>>
  BY <1>1 DEF WatchTypeOK
<1>2. CASE excused' = TRUE /\ cached' = TRUE /\ UNCHANGED <<newest, uploads>>
  BY <1>2 DEF WatchTypeOK
<1>3. CASE Ingest(file, updating) /\ file # None /\ cached' = TRUE
  <2>2. CASE newest # None /\ file.says = newest.says
    BY <1>3, <2>2 DEF Ingest, WatchTypeOK
  <2>3. CASE ~(newest # None /\ file.says = newest.says)
    <3>1. uploads' \in 0..MaxWrites
      BY <1>3, <2>3 DEF Ingest, WatchTypeOK, Dump
    <3>2. CASE newest # None /\ ~updating
      BY <1>3, <2>3, <3>1, <3>2 DEF Ingest, WatchTypeOK
    <3>3. CASE newest' = Stored(file) /\ excused' = FALSE
      <4>1. Stored(file) \in {file, newest}
            /\ (newest # None /\ Stored(file) = newest => newest.says = file.says \/ newest.at >= file.at)
        BY StoredIsLatest DEF WatchTypeOK
      <4>2. newest = None => Stored(file) = file
        BY DEF Stored
      <4>3. file.at \in Nat /\ file \in Dump /\ newest \in Dump
        BY DEF WatchTypeOK, Dump
      <4> QED BY <1>3, <3>1, <3>3, <4>1, <4>2, <4>3 DEF WatchTypeOK
    <3>4. CASE excused' = TRUE /\ UNCHANGED newest
      BY <1>3, <3>1, <3>4 DEF WatchTypeOK
    <3> QED BY <1>3, <2>3, <3>2, <3>3, <3>4 DEF Ingest
  <2> QED BY <2>2, <2>3
<1> QED BY <1>1, <1>2, <1>3 DEF Scan, Reads

LEMMA WatchInvHolds == WatchSpec => []WatchInv
<1> USE WatchAssumption
<1>1. WatchInit => WatchInv
  <2> SUFFICES ASSUME WatchInit PROVE WatchInv
    OBVIOUS
  <2>1. None \in Dump /\ [says : Content, at : {0}] \subseteq Dump
    BY DEF None, Dump
  <2>2. file \in Dump /\ newest \in Dump /\ toggles \in [imports : BOOLEAN, updates : BOOLEAN]
    BY <2>1 DEF WatchInit
  <2>3. /\ cached = FALSE /\ rescan = FALSE /\ excused = FALSE
        /\ were = "unknown" /\ uploads \in 0..MaxWrites
    BY DEF WatchInit
  <2> QED BY <2>2, <2>3 DEF WatchInv, WatchTypeOK
<1>2. WatchInv /\ [WatchNext]_watchVars => WatchInv'
  <2> SUFFICES ASSUME WatchInv, [WatchNext]_watchVars PROVE WatchInv'
    OBVIOUS
  <2>0. WatchTypeOK
    BY DEF WatchInv
  <2>1. ASSUME NEW c \in Content, Writes(c) PROVE WatchInv'
    <3>1. file' \in Dump
      BY <2>0, <2>1 DEF Writes, WatchTypeOK, Dump
    <3> QED BY <2>0, <2>1, <3>1 DEF Writes, WatchInv, WatchTypeOK
  <2>2. ASSUME NEW c \in Content, NEW at \in 0..MaxWrites, ImportFile(c, at) PROVE WatchInv'
    <3>1. CASE UNCHANGED newest
      <4>1. excused' = excused
        BY <2>0, <2>2, <3>1 DEF ImportFile, WatchTypeOK
      <4> QED BY <2>2, <3>1, <4>1 DEF ImportFile, WatchInv, WatchTypeOK
    <3>2. CASE newest' # newest /\ newest' = Stored([says |-> c, at |-> at])
      <4>1. Stored([says |-> c, at |-> at]) \in Dump
        BY <2>0 DEF Stored, WatchTypeOK, Dump
      <4>2. excused' = TRUE
        BY <2>2, <3>2 DEF ImportFile
      <4> QED BY <2>2, <3>2, <4>1, <4>2 DEF ImportFile, WatchInv, WatchTypeOK
    <3> QED BY <2>2, <3>1, <3>2 DEF ImportFile
  <2>3. ASSUME NEW t \in [imports : BOOLEAN, updates : BOOLEAN], SetToggles(t) PROVE WatchInv'
    BY <2>3 DEF SetToggles, WatchInv, WatchTypeOK
  <2>4. CASE ImportNow
    BY <2>4 DEF ImportNow, WatchInv, WatchTypeOK
  <2>5. CASE TickRescans
    <3>1. Scan(FALSE, TRUE) /\ file' = file /\ toggles' = toggles /\ were' = were /\ rescan' = FALSE
      BY <2>5 DEF TickRescans
    <3>2. /\ newest' \in Dump /\ cached' \in BOOLEAN /\ excused' \in BOOLEAN /\ uploads' \in 0..MaxWrites
          /\ cached' /\ ~excused' => newest'.says = file'.says \/ newest'.at >= file'.at
      BY <2>0, <3>1, ScanCatchesUp
    <3> QED BY <2>0, <3>1, <3>2 DEF WatchInv, WatchTypeOK
  <2>6. CASE TickScans
    <3> DEFINE updates == toggles.updates
    <3>1. /\ file' = file /\ toggles' = toggles /\ rescan' = rescan /\ updates \in BOOLEAN
          /\ were' = IF updates THEN "on" ELSE "off"
          /\ Scan(Known, updates)
      BY <2>0, <2>6 DEF TickScans, WatchTypeOK
    <3>2. Known \in BOOLEAN
      BY <2>0 DEF Known, WatchTypeOK
    <3>3. Known /\ updates /\ ~excused => newest.says = file.says \/ newest.at >= file.at
      BY DEF Known, WatchInv, WatchTypeOK
    <3> HIDE DEF updates
    <3>4. /\ newest' \in Dump /\ cached' \in BOOLEAN /\ excused' \in BOOLEAN /\ uploads' \in 0..MaxWrites
          /\ cached' /\ updates /\ ~excused' => newest'.says = file'.says \/ newest'.at >= file'.at
      BY <2>0, <3>1, <3>2, <3>3, ScanCatchesUp
    <3> QED BY <2>0, <3>1, <3>4 DEF WatchInv, WatchTypeOK
  <2>7. CASE UNCHANGED watchVars
    BY <2>7 DEF watchVars, WatchInv, WatchTypeOK
  <2> QED BY <2>1, <2>2, <2>3, <2>4, <2>5, <2>6, <2>7 DEF WatchNext
<1> QED BY <1>1, <1>2, PTL DEF WatchSpec

\* Type correctness of the watcher.
THEOREM WatchTypes == WatchSpec => []WatchTypeOK
<1>1. WatchInv => WatchTypeOK
  BY DEF WatchInv
<1> QED BY <1>1, WatchInvHolds, PTL

\* DumpWatcher: what auto_update held back is read once it is on, whatever the
\* order the toggles, the scans and the game's writes come in.
THEOREM WatchLibraryCatchesUp == WatchSpec => []LibraryCatchesUp
<1>1. WatchInv => LibraryCatchesUp
  BY DEF WatchInv, LibraryCatchesUp
<1> QED BY <1>1, WatchInvHolds, PTL

-----------------------------------------------------------------------------
(* The uploads                                                              *)

\* A job in hand for a site the user left is the first one since he left it.
StraysInv ==
  /\ strays \in 0..1
  /\ hand.do = "pigparse" /\ dest # "pigparse" => strays = 0
  /\ hand.do \in {"stage", "add"} /\ dest # "p99planner" => strays = 0

\* The worker hands back the link it added to, unless it was cancelled meanwhile.
LinkInv ==
  /\ hand.do = "add" => claim \in {0, hand.of}
  /\ OneLink

UploadsInv == UploadsTypeOK /\ StraysInv /\ LinkInv

\* A job that is appended, or the head that is taken.
LEMMA AppendedJob ==
  ASSUME jobs \in Seq(Job), NEW j \in Job, jobs' = Append(jobs, j), hand' = hand
  PROVE  /\ jobs' \in Seq(Job)
         /\ Releasing \subseteq Releasing'
         /\ j.do = "release" => j.of \in Releasing'
<1>1. /\ jobs' \in Seq(Job) /\ DOMAIN jobs = 1..Len(jobs) /\ DOMAIN jobs' = 1..(Len(jobs) + 1)
      /\ Len(jobs) \in Nat
      /\ \A i \in DOMAIN jobs : jobs'[i] = jobs[i]
      /\ jobs'[Len(jobs) + 1] = j
  BY AppendProperties
<1>2. Releasing \subseteq Releasing'
  BY <1>1 DEF Releasing
<1>3. j.do = "release" => j.of \in Releasing'
  BY <1>1 DEF Releasing
<1> QED BY <1>1, <1>2, <1>3

LEMMA TakenJob ==
  ASSUME jobs \in Seq(Job), jobs # <<>>, jobs' = Tail(jobs), hand = AtRest,
         Head(jobs).do = "release" => hand' = Head(jobs)
  PROVE  Head(jobs) \in Job /\ jobs' \in Seq(Job) /\ Releasing \subseteq Releasing'
<1>1. /\ jobs' \in Seq(Job) /\ DOMAIN jobs = 1..Len(jobs) /\ DOMAIN jobs' = 1..(Len(jobs) - 1)
      /\ Len(jobs) \in Nat \ {0} /\ Head(jobs) \in Job /\ Head(jobs) = jobs[1]
      /\ \A i \in 1..(Len(jobs) - 1) : jobs'[i] = jobs[i + 1]
  BY HeadTailProperties
<1>2. ASSUME NEW c \in Releasing PROVE c \in Releasing'
  <2>1. hand.do # "release"
    BY DEF AtRest
  <2>2. PICK i \in DOMAIN jobs : jobs[i].do = "release" /\ jobs[i].of = c
    BY <2>1 DEF Releasing
  <2>3. CASE i = 1
    BY <1>1, <2>2, <2>3 DEF Releasing
  <2>4. CASE i # 1
    <3>1. i - 1 \in DOMAIN jobs' /\ jobs'[i - 1] = jobs[i]
      BY <1>1, <2>4
    <3> QED BY <2>2, <3>1 DEF Releasing
  <2> QED BY <2>3, <2>4
<1> QED BY <1>1, <1>2

LEMMA HandKinds ==
  /\ AtRest \in Hand /\ [do |-> "stage"] \in Hand /\ [do |-> "pigparse"] \in Hand
  /\ AtRest.do = "rest"
  /\ \A h \in Hand : /\ h.do \in {"rest", "stage", "pigparse", "add", "release"}
                     /\ h.do \in {"add", "release"} => h.of \in Claim
  /\ \A c \in Claim : [do |-> "add", of |-> c] \in Hand
  /\ \A j \in Job : /\ j.do \in {"pigparse", "p99planner", "release"}
                    /\ j.do \in {"release", "pigparse"} => j \in Hand
  /\ \A c \in Claim : c # 0 /\ c # NoCancel
BY DEF AtRest, Hand, Job, Claim, NoCancel

LEMMA UploadsInvHolds == UploadsSpec => []UploadsInv
<1> USE UploadsAssumption
<1>1. UploadsInit => UploadsInv
  <2> SUFFICES ASSUME UploadsInit PROVE UploadsInv
    OBVIOUS
  <2>1. hand = AtRest /\ strays = 0 /\ minted \in 0..MaxClaims /\ jobs = <<>> /\ <<>> \in Seq(Job)
        /\ dest \in Site \cup {"off"} /\ open = {} /\ orphans = {} /\ claim = 0 /\ lapsed = FALSE
        /\ cancel = NoCancel
    BY DEF UploadsInit, AtRest
  <2>2. UploadsTypeOK
    BY <2>1, HandKinds DEF UploadsTypeOK
  <2>3. StraysInv /\ LinkInv
    BY <2>1, HandKinds DEF StraysInv, LinkInv, OneLink
  <2> QED BY <2>2, <2>3 DEF UploadsInv
<1>2. UploadsInv /\ [UploadsNext]_uploadVars => UploadsInv'
  <2> SUFFICES ASSUME UploadsInv, [UploadsNext]_uploadVars PROVE UploadsInv'
    OBVIOUS
  <2>0. /\ UploadsTypeOK /\ StraysInv /\ LinkInv
        /\ strays \in {0, 1} /\ jobs \in Seq(Job) /\ hand \in Hand
        /\ \A c \in open : c \in {claim, cancel} \cup Releasing \cup orphans
    BY DEF UploadsInv, UploadsTypeOK, StraysInv, LinkInv, OneLink
  <2>1. ASSUME NEW d \in Site \cup {"off"}, SetDestination(d) PROVE UploadsInv'
    <3>1. Releasing' = Releasing
      BY <2>1 DEF SetDestination, Releasing
    <3> QED BY <2>0, <2>1, <3>1 DEF SetDestination, siteVars, linkVars, UploadsInv, UploadsTypeOK,
                                    StraysInv, LinkInv, OneLink
  <2>2. CASE UploadNow
    <3>1. [do |-> dest] \in Job
      BY <2>0, <2>2 DEF UploadNow, UploadsTypeOK, Site, Job
    <3>2. jobs' \in Seq(Job) /\ Releasing \subseteq Releasing'
      BY <2>0, <2>2, <3>1, AppendedJob DEF UploadNow
    <3> QED BY <2>0, <2>2, <3>2 DEF UploadNow, siteVars, linkVars, UploadsInv, UploadsTypeOK,
                                    StraysInv, LinkInv, OneLink
  <2>3. CASE ForgetReads
    <3>1. Releasing' = Releasing
      BY <2>3 DEF ForgetReads, Releasing
    <3>2. cancel = NoCancel /\ cancel' \in {0, claim} /\ \A c \in open : c # NoCancel
      BY <2>0, <2>3, HandKinds DEF ForgetReads, CurrentClaim, UploadsTypeOK
    <3> QED BY <2>0, <2>3, <3>1, <3>2 DEF ForgetReads, siteVars, linkVars, UploadsInv, UploadsTypeOK,
                                          StraysInv, LinkInv, OneLink
  <2>4. CASE ForgetDrops
    <3>0. /\ cancel' = NoCancel /\ claim' = 0 /\ lapsed' = FALSE
          /\ orphans' = orphans \cup (({claim} \ {cancel}) \cap open)
          /\ UNCHANGED <<dest, hand, minted, open, strays>>
      BY <2>4 DEF ForgetDrops, StoreClaim, LetGo
    <3>1. jobs' \in Seq(Job) /\ Releasing \subseteq Releasing' /\ (cancel # 0 => cancel \in Releasing')
      <4>1. CASE cancel = 0 /\ UNCHANGED jobs
        BY <2>0, <3>0, <4>1 DEF Releasing
      <4>2. CASE cancel # 0 /\ jobs' = Append(jobs, [do |-> "release", of |-> cancel])
        <5>1. [do |-> "release", of |-> cancel] \in Job
          BY <2>0, <2>4, <4>2 DEF ForgetDrops, UploadsTypeOK, Job
        <5> QED BY <2>0, <3>0, <4>2, <5>1, AppendedJob
      <4> QED BY <2>4, <4>1, <4>2 DEF ForgetDrops
    <3>2. \A c \in open : c # 0
      BY <2>0, HandKinds DEF UploadsTypeOK
    <3>3. OneLink'
      BY <2>0, <3>0, <3>1, <3>2 DEF OneLink
    <3>4. orphans' \subseteq Claim
      BY <2>0, <3>0 DEF UploadsTypeOK
    <3> QED BY <2>0, <3>0, <3>1, <3>3, <3>4 DEF UploadsInv, UploadsTypeOK, StraysInv, LinkInv
  <2>14. CASE ClockMoves
    <3>1. Releasing' = Releasing
      BY <2>14 DEF ClockMoves, Releasing
    <3> QED BY <2>0, <2>14, <3>1 DEF ClockMoves, siteVars, UploadsInv, UploadsTypeOK, StraysInv, LinkInv,
                                     OneLink
  <2>5. ASSUME NEW c \in Claim, ClaimCloses(c) PROVE UploadsInv'
    <3>1. Releasing' = Releasing
      BY <2>5 DEF ClaimCloses, Releasing
    <3> QED BY <2>0, <2>5, <3>1
            DEF ClaimCloses, linkVars, UploadsInv, UploadsTypeOK, StraysInv, LinkInv, OneLink
  <2>6. CASE TakeJob
    <3> DEFINE j == Head(jobs)
    <3>0. /\ hand = AtRest /\ jobs # <<>> /\ jobs' = Tail(jobs)
          /\ UNCHANGED <<cancel, dest, linkVars, siteVars, strays>>
          /\ hand' = CASE j.do = "release" -> j
                       [] j.do # "release" /\ j.do # dest -> AtRest
                       [] j.do = "pigparse" /\ dest = "pigparse" -> j
                       [] OTHER -> Adding
      BY <2>6 DEF TakeJob
    <3>1. j.do = "release" => hand' = j
      BY <3>0
    <3>2. j \in Job /\ jobs' \in Seq(Job) /\ Releasing \subseteq Releasing'
      BY <2>0, <3>0, <3>1, TakenJob
    <3>3. claim \in Claim \cup {0}
      BY <2>0 DEF UploadsTypeOK
    <3> HIDE DEF j
    <3>4. \/ hand' = j /\ j.do = "release"
          \/ hand' = AtRest
          \/ hand' = j /\ j.do = "pigparse" /\ dest = "pigparse"
          \/ hand' = Adding /\ dest = "p99planner"
      BY <3>0, <3>2, HandKinds
    <3>5. \/ Adding = [do |-> "stage"]
          \/ Adding = [do |-> "add", of |-> claim] /\ claim \in Claim
      BY <3>3 DEF Adding, CurrentClaim
    <3>6. hand' \in Hand
      BY <3>2, <3>4, <3>5, HandKinds
    <3>7. StraysInv'
      BY <2>0, <3>0, <3>4, <3>5, HandKinds DEF StraysInv
    <3>8. LinkInv'
      BY <2>0, <3>0, <3>2, <3>4, <3>5, HandKinds DEF LinkInv, OneLink, siteVars, linkVars
    <3> QED BY <2>0, <3>0, <3>2, <3>6, <3>7, <3>8 DEF UploadsInv, UploadsTypeOK, siteVars, linkVars
  <2>7. ASSUME NEW site, Over(site), site = "pigparse" => hand.do = "pigparse",
               site # "pigparse" => site = "p99planner" /\ hand.do \in {"stage", "add"},
               UNCHANGED dest
        PROVE  StraysInv' /\ hand' = AtRest /\ strays' \in Nat
    BY <2>0, <2>7, HandKinds DEF Over, StraysInv
  <2>8. ASSUME hand.do # "release", jobs' = jobs PROVE Releasing \subseteq Releasing'
    BY <2>8 DEF Releasing
  <2>9. CASE SendPigparse
    <3>1. hand' = AtRest /\ StraysInv' /\ strays' \in Nat
      BY <2>7, <2>9 DEF SendPigparse
    <3>2. Releasing \subseteq Releasing'
      BY <2>8, <2>9 DEF SendPigparse
    <3> QED BY <2>0, <2>9, <3>1, <3>2, HandKinds
            DEF SendPigparse, siteVars, linkVars, UploadsInv, UploadsTypeOK, LinkInv, OneLink
  <2>10. CASE Add
    <3>0. hand.do = "add" /\ hand.of \in Claim /\ UNCHANGED <<cancel, dest, jobs, siteVars>>
          /\ claim \in {0, hand.of}
      BY <2>0, <2>10, HandKinds DEF Add, LinkInv
    <3>1. Releasing \subseteq Releasing'
      BY <2>8, <3>0
    <3>2. \A c \in open : c # 0
      BY <2>0, HandKinds DEF UploadsTypeOK
    <3>3. CASE hand.of \in open /\ StoreClaim(hand.of) /\ Over("p99planner")
      <4>1. hand' = AtRest /\ StraysInv' /\ strays' \in Nat
        BY <2>7, <3>0, <3>3
      <4> QED BY <2>0, <3>0, <3>1, <3>2, <3>3, <4>1, HandKinds
              DEF StoreClaim, siteVars, UploadsInv, UploadsTypeOK, LinkInv, OneLink
    <3>4. CASE hand.of \notin open /\ StoreClaim(0) /\ hand' = [do |-> "stage"] /\ UNCHANGED strays
      <4>1. StraysInv'
        BY <2>0, <3>0, <3>4 DEF StraysInv
      <4> QED BY <2>0, <3>0, <3>1, <3>2, <3>4, <4>1, HandKinds
              DEF StoreClaim, siteVars, UploadsInv, UploadsTypeOK, LinkInv, OneLink
    <3>5. CASE Over("p99planner") /\ UNCHANGED linkVars
      <4>1. hand' = AtRest /\ StraysInv' /\ strays' \in Nat
        BY <2>7, <3>0, <3>5
      <4> QED BY <2>0, <3>0, <3>1, <3>5, <4>1, HandKinds
              DEF siteVars, linkVars, UploadsInv, UploadsTypeOK, LinkInv, OneLink
    <3> QED BY <2>10, <3>3, <3>4, <3>5 DEF Add
  <2>11. CASE StageFiles
    <3>0. hand.do = "stage" /\ UNCHANGED <<cancel, dest, jobs>>
      BY <2>11 DEF StageFiles
    <3>1. hand' = AtRest /\ StraysInv' /\ strays' \in Nat
      BY <2>7, <2>11, <3>0 DEF StageFiles
    <3>2. Releasing \subseteq Releasing'
      BY <2>8, <3>0
    <3>3. CASE /\ minted < MaxClaims /\ minted' = minted + 1 /\ open' = open \cup {minted'}
               /\ StoreClaim(minted') /\ orphans' = orphans \cup LetGo
      <4>1. minted' \in Claim /\ minted' \in 0..MaxClaims
        BY <2>0, <3>3 DEF UploadsTypeOK, Claim
      <4>2. OneLink'
        BY <2>0, <3>0, <3>2, <3>3 DEF OneLink, StoreClaim, LetGo
      <4>3. orphans' \subseteq Claim
        BY <2>0, <3>3 DEF LetGo, UploadsTypeOK
      <4> QED BY <2>0, <3>0, <3>1, <3>3, <4>1, <4>2, <4>3, HandKinds
              DEF StoreClaim, UploadsInv, UploadsTypeOK, LinkInv
    <3>4. CASE /\ minted < MaxClaims /\ minted' = minted + 1 /\ open' = open \cup {minted'}
               /\ orphans' = orphans \cup {minted'} /\ UNCHANGED linkVars
      <4>1. minted' \in Claim /\ minted' \in 0..MaxClaims
        BY <2>0, <3>4 DEF UploadsTypeOK, Claim
      <4>2. OneLink'
        BY <2>0, <3>0, <3>2, <3>4 DEF OneLink, linkVars
      <4> QED BY <2>0, <3>0, <3>1, <3>4, <4>1, <4>2, HandKinds
              DEF linkVars, UploadsInv, UploadsTypeOK, LinkInv
    <3>5. CASE UNCHANGED <<linkVars, siteVars>>
      BY <2>0, <3>0, <3>1, <3>2, <3>5, HandKinds
      DEF siteVars, linkVars, UploadsInv, UploadsTypeOK, LinkInv, OneLink
    <3> QED BY <2>11, <3>3, <3>4, <3>5 DEF StageFiles
  <2>12. CASE Release
    <3>0. hand.do = "release" /\ hand' = AtRest
          /\ UNCHANGED <<cancel, dest, jobs, claim, lapsed, minted, strays>>
          /\ hand.of \in Claim
      BY <2>0, <2>12, HandKinds DEF Release, linkVars
    <3>1. Releasing \subseteq Releasing' \cup {hand.of}
      BY <3>0 DEF Releasing
    <3>2. OneLink'
      BY <2>0, <2>12, <3>0, <3>1 DEF Release, OneLink
    <3> QED BY <2>0, <2>12, <3>0, <3>2, HandKinds
            DEF Release, UploadsInv, UploadsTypeOK, StraysInv, LinkInv
  <2>13. CASE UNCHANGED uploadVars
    <3>1. Releasing' = Releasing
      BY <2>13 DEF uploadVars, Releasing
    <3> QED BY <2>0, <2>13, <3>1 DEF uploadVars, UploadsInv, UploadsTypeOK, StraysInv, LinkInv, OneLink
  <2> QED BY <2>1, <2>2, <2>3, <2>4, <2>5, <2>6, <2>9, <2>10, <2>11, <2>12, <2>13, <2>14 DEF UploadsNext
<1> QED BY <1>1, <1>2, PTL DEF UploadsSpec

\* Type correctness of the uploads.
THEOREM UploadsTypes == UploadsSpec => []UploadsTypeOK
<1>1. UploadsInv => UploadsTypeOK
  BY DEF UploadsInv
<1> QED BY <1>1, UploadsInvHolds, PTL

\* _still_targeting: after the user left a site at most one job still goes there.
THEOREM UploadsOneJobStrays == UploadsSpec => []OneJobStrays
<1>1. UploadsInv => OneJobStrays
  BY DEF UploadsInv, StraysInv, OneJobStrays
<1> QED BY <1>1, UploadsInvHolds, PTL

\* _current_claim and forget_claim: the player is handed one link, but for the four
\* ways OneLink names.
THEOREM UploadsOneLink == UploadsSpec => []OneLink
<1>1. UploadsInv => OneLink
  BY DEF UploadsInv, LinkInv
<1> QED BY <1>1, UploadsInvHolds, PTL

-----------------------------------------------------------------------------
(* The damage meter's best window                                           *)

HitRecord == [at : 0..MaxTime, dmg : Damage]

\* The recursive prefix sums exist, and grow hit by hit.
LEMMA DealtFacts ==
  ASSUME NEW hits \in Seq(HitRecord)
  PROVE  /\ Dealt(hits)[0] = 0
         /\ \A k \in 1..Len(hits) : Dealt(hits)[k] = Dealt(hits)[k - 1] + hits[k].dmg
         /\ \A k \in 0..Len(hits) : Dealt(hits)[k] \in Nat
         /\ \A i, j \in 0..Len(hits) : i <= j => Dealt(hits)[i] <= Dealt(hits)[j]
<1> DEFINE n == Len(hits)
           D == Dealt(hits)
           g == [k \in 1..n |-> [x \in Nat |-> x + hits[k].dmg]]
<1>1. n \in Nat /\ \A k \in 1..n : hits[k].dmg \in Nat
  <2>1. Damage \subseteq Nat
    BY FightsAssumption
  <2>2. ASSUME NEW k \in 1..n PROVE hits[k].dmg \in Damage
    <3>1. hits[k] \in HitRecord
      OBVIOUS
    <3> QED BY <3>1 DEF HitRecord
  <2>3. n \in Nat
    OBVIOUS
  <2> HIDE DEF n
  <2> QED BY <2>1, <2>2, <2>3
<1>2. \E f : f = [k \in 0..n |-> IF k = 0 THEN 0 ELSE f[k - 1] + hits[k].dmg]
  <2>1. g \in [1..n -> [Nat -> Nat]] /\ \A k \in 1..n : \A x \in Nat : g[k][x] = x + hits[k].dmg
    BY <1>1
  <2> HIDE DEF g, n
  <2>2. PICK f \in [0..n -> Nat] : f[0] = 0 /\ \A k \in 1..n : f[k] = g[k][f[k - 1]]
    <3>1. 0 \in Nat /\ n \in Nat /\ g \in [1..n -> [Nat -> Nat]]
      BY <1>1, <2>1
    <3>2. \E f : CarriedBy(f, Nat, 0, n, g)
      BY <3>1, CarriedThrough, Zenon
    <3> QED BY <3>2 DEF CarriedBy
  <2>3. \A k \in 0..n : f[k] = IF k = 0 THEN 0 ELSE f[k - 1] + hits[k].dmg
    <3> SUFFICES ASSUME NEW k \in 0..n, k # 0 PROVE f[k] = f[k - 1] + hits[k].dmg
      BY <2>2
    <3>1. k \in 1..n /\ k - 1 \in 0..n
      BY <1>1
    <3>2. f[k - 1] \in Nat
      BY <2>2, <3>1
    <3> QED BY <2>1, <2>2, <3>1, <3>2
  <2>4. f = [k \in 0..n |-> IF k = 0 THEN 0 ELSE f[k - 1] + hits[k].dmg]
    <3>1. f = [k \in 0..n |-> f[k]]
      BY <2>2
    <3> QED BY <2>3, <3>1
  <2> QED BY <2>4
<1>3. D = [k \in 0..n |-> IF k = 0 THEN 0 ELSE D[k - 1] + hits[k].dmg]
  BY <1>2, Zenon DEF Dealt
<1> HIDE DEF D, n
<1>4. D[0] = 0 /\ \A k \in 1..n : D[k] = D[k - 1] + hits[k].dmg
  <2>1. 0 \in 0..n /\ \A k \in 1..n : k \in 0..n /\ k # 0
    BY <1>1
  <2> QED BY <1>3, <2>1
<1>5. \A k \in 0..n : D[k] \in Nat
  <2> DEFINE T == {k \in 0..n : D[k] \in Nat}
  <2>1. 0 \in T
    BY <1>1, <1>4
  <2>2. ASSUME NEW k \in 1..n, k - 1 \in T PROVE k \in T
    <3>1. D[k - 1] \in Nat /\ D[k] = D[k - 1] + hits[k].dmg /\ hits[k].dmg \in Nat /\ k \in 0..n
      BY <1>1, <1>4, <2>2
    <3> QED BY <3>1
  <2> HIDE DEF T
  <2>3. \A k \in 0..n : k \in T
    BY <1>1, <2>1, <2>2, StepByStep
  <2> QED BY <2>3 DEF T
<1>6. ASSUME NEW i \in 0..n, NEW j \in 0..n, i <= j PROVE D[i] <= D[j]
  <2> DEFINE T == {k \in 0..n : i <= k => D[i] <= D[k]}
  <2>1. 0 \in T
    BY <1>1, <1>5
  <2>2. ASSUME NEW k \in 1..n, k - 1 \in T PROVE k \in T
    <3>1. k \in 0..n /\ k - 1 \in 0..n /\ D[k] = D[k - 1] + hits[k].dmg /\ hits[k].dmg \in Nat
      BY <1>1, <1>4
    <3>2. D[i] \in Nat /\ D[k] \in Nat /\ D[k - 1] \in Nat
      BY <1>5, <3>1
    <3>3. i <= k => i = k \/ i <= k - 1
      BY <1>1
    <3> QED BY <2>2, <3>1, <3>2, <3>3
  <2> HIDE DEF T
  <2>3. \A k \in 0..n : k \in T
    BY <1>1, <2>1, <2>2, StepByStep
  <2> QED BY <1>6, <2>3 DEF T
<1> QED BY <1>4, <1>5, <1>6 DEF D, n

\* A sum of consecutive hits is a natural number, at most the sum of all.
LEMMA SumFacts ==
  ASSUME NEW hits \in Seq(HitRecord), NEW from \in 1..(Len(hits) + 1), NEW to \in 0..Len(hits), from - 1 <= to
  PROVE  SumOf(hits, from, to) \in 0..Dealt(hits)[Len(hits)]
<1>1. from - 1 \in 0..Len(hits) /\ Len(hits) \in 0..Len(hits)
  OBVIOUS
<1>2. /\ Dealt(hits)[from - 1] \in Nat /\ Dealt(hits)[to] \in Nat /\ Dealt(hits)[Len(hits)] \in Nat
      /\ Dealt(hits)[from - 1] <= Dealt(hits)[to] /\ Dealt(hits)[to] <= Dealt(hits)[Len(hits)]
  BY <1>1, DealtFacts
<1> QED BY <1>2 DEF SumOf

\* A new hit changes no earlier sum.
LEMMA DealtBefore ==
  ASSUME NEW hits \in Seq(HitRecord), NEW h \in HitRecord
  PROVE  /\ \A k \in 0..Len(hits) : Dealt(Append(hits, h))[k] = Dealt(hits)[k]
         /\ Dealt(Append(hits, h))[Len(hits) + 1] = Dealt(hits)[Len(hits)] + h.dmg
<1> DEFINE n == Len(hits)
           more == Append(hits, h)
           T == {k \in 0..n : Dealt(more)[k] = Dealt(hits)[k]}
<1>1. /\ n \in Nat /\ more \in Seq(HitRecord) /\ Len(more) = n + 1 /\ more[n + 1] = h
      /\ \A i \in 1..n : more[i] = hits[i]
  BY AppendFacts
<1> HIDE DEF more
<1>2. /\ Dealt(hits)[0] = 0
      /\ \A k \in 1..n : Dealt(hits)[k] = Dealt(hits)[k - 1] + hits[k].dmg
  BY DealtFacts
<1>3. /\ Dealt(more)[0] = 0
      /\ \A k \in 1..(n + 1) : Dealt(more)[k] = Dealt(more)[k - 1] + more[k].dmg
  BY <1>1, DealtFacts
<1> HIDE DEF n
<1>4. 0 \in T
  BY <1>1, <1>2, <1>3
<1>5. ASSUME NEW k \in 1..n, k - 1 \in T PROVE k \in T
  <2>1. k \in 1..(n + 1) /\ k \in 0..n /\ more[k] = hits[k]
    BY <1>1
  <2> QED BY <1>2, <1>3, <1>5, <2>1
<1> HIDE DEF T
<1>6. \A k \in 0..n : k \in T
  BY <1>1, <1>4, <1>5, StepByStep
<1>7. \A k \in 0..n : Dealt(more)[k] = Dealt(hits)[k]
  BY <1>6 DEF T
<1>8. Dealt(more)[n + 1] = Dealt(hits)[n] + h.dmg
  <2>1. n + 1 \in 1..(n + 1) /\ n \in 0..n /\ n + 1 - 1 = n
    BY <1>1
  <2> QED BY <1>1, <1>3, <1>7, <2>1
<1> QED BY <1>7, <1>8 DEF more, n

\* The left end of a window is the first hit in it.
LEMMA LeftFacts ==
  ASSUME NEW hits \in Seq(HitRecord), NEW r \in 1..Len(hits), NEW w
  PROVE  /\ LeftOf(hits, r, w) \in 1..r
         /\ LeftOf(hits, r, w) = r \/ hits[r].at - hits[LeftOf(hits, r, w)].at < w
         /\ \A l \in 1..r : l = r \/ hits[r].at - hits[l].at < w => LeftOf(hits, r, w) <= l
<1> DEFINE L == {l \in 1..r : l = r \/ hits[r].at - hits[l].at < w}
<1>1. r \in L /\ L \subseteq Nat
  OBVIOUS
<1> HIDE DEF L
<1>2. Min(L) \in L /\ \A l \in L : Min(L) <= l
  BY <1>1, SmallestIndex
<1>3. LeftOf(hits, r, w) = Min(L)
  BY DEF LeftOf, L
<1> QED BY <1>2, <1>3 DEF L

\* In the order of time the left end never moves back.
InOrderOfTime(hits) == \A i, j \in 1..Len(hits) : i <= j => hits[i].at <= hits[j].at

LEMMA LeftAdvances ==
  ASSUME NEW hits \in Seq(HitRecord), InOrderOfTime(hits), NEW w \in Nat,
         NEW q \in 1..Len(hits), NEW r \in 1..Len(hits), q <= r
  PROVE  LeftOf(hits, q, w) <= LeftOf(hits, r, w)
<1> DEFINE l == LeftOf(hits, r, w)
<1>1. l \in 1..r /\ (l = r \/ hits[r].at - hits[l].at < w)
  BY LeftFacts
<1>2. LeftOf(hits, q, w) \in 1..q /\ \A x \in 1..q : x = q \/ hits[q].at - hits[x].at < w => LeftOf(hits, q, w) <= x
  BY LeftFacts
<1>3. \A i \in 1..Len(hits) : hits[i].at \in Nat
  <2> SUFFICES ASSUME NEW i \in 1..Len(hits) PROVE hits[i].at \in Nat
    OBVIOUS
  <2>1. hits[i] \in HitRecord
    OBVIOUS
  <2> QED BY <2>1 DEF HitRecord
<1> HIDE DEF l
<1>4. CASE l < q
  <2>1. hits[r].at - hits[l].at < w /\ l \in 1..q /\ l \in 1..Len(hits)
    BY <1>1, <1>4
  <2>2. hits[q].at <= hits[r].at
    BY DEF InOrderOfTime
  <2>3. hits[q].at - hits[l].at < w
    <3>1. hits[q].at \in Nat /\ hits[r].at \in Nat /\ hits[l].at \in Nat
      BY <1>3, <2>1
    <3> QED BY <2>1, <2>2, <3>1
  <2> QED BY <1>2, <2>1, <2>3 DEF l
<1>5. CASE ~(l < q)
  BY <1>1, <1>2, <1>5 DEF l
<1> QED BY <1>4, <1>5

\* And the windows that end before a new hit stay the same.
LEMMA LeftKept ==
  ASSUME NEW hits \in Seq(HitRecord), NEW h \in HitRecord, NEW r \in 1..Len(hits), NEW w
  PROVE  LeftOf(Append(hits, h), r, w) = LeftOf(hits, r, w)
<1>1. \A l \in 1..r : Append(hits, h)[l] = hits[l]
  BY AppendFacts
<1>2. {l \in 1..r : l = r \/ Append(hits, h)[r].at - Append(hits, h)[l].at < w}
        = {l \in 1..r : l = r \/ hits[r].at - hits[l].at < w}
  BY <1>1
<1> QED BY <1>2 DEF LeftOf

\* The sums among which the best is.
Sums(hits, w) == {0} \cup {SumOf(hits, LeftOf(hits, r, w), r) : r \in 1..Len(hits)}

\* The best of a list of hits is one of those sums, and none is larger.
LEMMA BestFacts ==
  ASSUME NEW hits \in Seq(HitRecord), NEW w
  PROVE  /\ Sums(hits, w) \subseteq Nat
         /\ BestOf(hits, w) \in Sums(hits, w) /\ \A s \in Sums(hits, w) : s <= BestOf(hits, w)
<1> DEFINE N == Dealt(hits)[Len(hits)]
<1>1. N \in Nat
  <2>1. Len(hits) \in 0..Len(hits)
    OBVIOUS
  <2> QED BY <2>1, DealtFacts
<1> HIDE DEF N
<1>2. ASSUME NEW r \in 1..Len(hits) PROVE SumOf(hits, LeftOf(hits, r, w), r) \in 0..N
  <2>1. LeftOf(hits, r, w) \in 1..r
    BY LeftFacts
  <2>2. LeftOf(hits, r, w) \in 1..(Len(hits) + 1) /\ r \in 0..Len(hits) /\ LeftOf(hits, r, w) - 1 <= r
    BY <2>1
  <2> QED BY <2>2, SumFacts DEF N
<1>3. Sums(hits, w) \in SUBSET (0..N) /\ Sums(hits, w) # {}
  BY <1>1, <1>2 DEF Sums
<1>4. Max(Sums(hits, w)) \in Sums(hits, w) /\ \A s \in Sums(hits, w) : s <= Max(Sums(hits, w))
  BY <1>1, <1>3, LargestIndex
<1>5. BestOf(hits, w) = Max(Sums(hits, w))
  BY DEF BestOf, Sums
<1> QED BY <1>1, <1>3, <1>4, <1>5

\* Without hits the best is 0.
LEMMA BestOfNone ==
  ASSUME NEW w
  PROVE  BestOf(<<>>, w) = 0
<1>1. <<>> \in Seq(HitRecord) /\ 1..Len(<<>>) = {}
  OBVIOUS
<1>2. Sums(<<>>, w) = {0}
  BY <1>1 DEF Sums
<1> QED BY <1>1, <1>2, BestFacts

\* The larger of two numbers.
LEMMA LargerOfTwo ==
  ASSUME NEW a \in Nat, NEW b \in Nat
  PROVE  Max({a, b}) = IF a <= b THEN b ELSE a
<1>1. a + b \in Nat /\ {a, b} \in SUBSET (0..(a + b)) /\ {a, b} # {}
  OBVIOUS
<1>2. Max({a, b}) \in {a, b} /\ \A i \in {a, b} : i <= Max({a, b})
  BY <1>1, LargestIndex
<1> QED BY <1>2

\* A new hit adds one window, the one that ends at it.
LastSum(hits, w) == SumOf(hits, LeftOf(hits, Len(hits), w), Len(hits))

\* ... so the best of all is the larger of the best so far and that one.
LEMMA BestAfterHit ==
  ASSUME NEW hits \in Seq(HitRecord), NEW h \in HitRecord, NEW w
  PROVE  BestOf(Append(hits, h), w) = Max({BestOf(hits, w), LastSum(Append(hits, h), w)})
<1> DEFINE n == Len(hits)
           more == Append(hits, h)
           s == LastSum(more, w)
<1>1. n \in Nat /\ more \in Seq(HitRecord) /\ Len(more) = n + 1
  BY AppendFacts
<1>2. ASSUME NEW r \in 1..n
      PROVE  SumOf(more, LeftOf(more, r, w), r) = SumOf(hits, LeftOf(hits, r, w), r)
  <2>1. LeftOf(more, r, w) = LeftOf(hits, r, w)
    BY LeftKept
  <2>2. LeftOf(hits, r, w) \in 1..r
    BY LeftFacts
  <2>3. r \in 0..n /\ LeftOf(hits, r, w) - 1 \in 0..n
    BY <1>1, <2>2
  <2> QED BY <2>1, <2>3, DealtBefore DEF SumOf
<1> HIDE DEF n, more
<1>3. Sums(more, w) = Sums(hits, w) \cup {s}
  <2>1. \A r \in 1..(n + 1) : r \in 1..n \/ r = n + 1
    BY <1>1
  <2>2. n + 1 \in 1..(n + 1) /\ \A r \in 1..n : r \in 1..(n + 1)
    BY <1>1
  <2>3. Sums(more, w) = {0} \cup {SumOf(more, LeftOf(more, r, w), r) : r \in 1..(n + 1)}
    BY <1>1 DEF Sums
  <2>4. Sums(hits, w) = {0} \cup {SumOf(hits, LeftOf(hits, r, w), r) : r \in 1..n}
    BY DEF Sums, n
  <2>5. s = SumOf(more, LeftOf(more, n + 1, w), n + 1)
    BY <1>1 DEF LastSum
  <2> HIDE DEF s
  <2> QED BY <1>2, <2>1, <2>2, <2>3, <2>4, <2>5
<1>4. /\ Sums(more, w) \subseteq Nat /\ BestOf(more, w) \in Sums(more, w)
      /\ \A x \in Sums(more, w) : x <= BestOf(more, w)
  BY <1>1, BestFacts
<1>5. /\ Sums(hits, w) \subseteq Nat /\ BestOf(hits, w) \in Sums(hits, w)
      /\ \A x \in Sums(hits, w) : x <= BestOf(hits, w)
  BY BestFacts
<1>6. s \in Nat /\ BestOf(hits, w) \in Nat /\ BestOf(more, w) \in Nat
  BY <1>3, <1>4, <1>5
<1>7. s <= BestOf(more, w) /\ BestOf(hits, w) <= BestOf(more, w)
  BY <1>3, <1>4, <1>5
<1>8. BestOf(more, w) <= BestOf(hits, w) \/ BestOf(more, w) = s
  BY <1>3, <1>4, <1>5
<1> HIDE DEF s
<1> QED BY <1>6, <1>7, <1>8, LargerOfTwo DEF more, s

-----------------------------------------------------------------------------
(* One attacker in a fight                                                  *)

\* What an entity carries at time t: the left end and the sum of the window that
\* ends at its last hit, and the best so far, under its own window.
EntityInv(e, t) ==
  /\ e \in Entity /\ e.upto = Len(e.hits) /\ Len(e.hits) <= MaxHits
  /\ InOrderOfTime(e.hits) /\ \A i \in 1..Len(e.hits) : e.hits[i].at <= t
  /\ e.left <= Len(e.hits) + 1 /\ e.sum = SumOf(e.hits, e.left, Len(e.hits))
  /\ e.hits = <<>> => e.span = 0 /\ e.best = 0 /\ e.left = 1
  /\ e.hits # <<>> => /\ e.span = e.window /\ e.best = BestOf(e.hits, e.window)
                      /\ e.left = LeftOf(e.hits, Len(e.hits), e.window)

\* A new attacker has no hits, and carries nothing.
LEMMA FreshEntity ==
  ASSUME NEW w \in Window, NEW t
  PROVE  EntityInv(NewEntity(w), t)
<1> DEFINE e == NewEntity(w)
<1>1. /\ MaxHits \in Nat \ {0}
  BY FightsAssumption
<1>2. /\ e.hits = <<>> /\ e.upto = 0 /\ e.left = 1 /\ e.sum = 0 /\ e.span = 0 /\ e.best = 0
  BY DEF NewEntity
<1>3. e \in Entity
  <2>1. <<>> \in Seq([at : 0..MaxTime, dmg : Damage]) /\ 0 \in 0..MaxHits /\ 1 \in 1..(MaxHits + 1)
    BY <1>1
  <2> QED BY <2>1 DEF NewEntity, Entity
<1>4. SumOf(<<>>, 1, 0) = 0
  <2>1. <<>> \in Seq(HitRecord) /\ Len(<<>>) = 0
    OBVIOUS
  <2>2. Dealt(<<>>)[0] = 0
    BY <2>1, DealtFacts
  <2> QED BY <2>2 DEF SumOf
<1> HIDE DEF e
<1>5. Len(e.hits) = 0 /\ 1..Len(e.hits) = {} /\ 0 <= MaxHits
  BY <1>1, <1>2
<1> QED BY <1>2, <1>3, <1>4, <1>5 DEF EntityInv, InOrderOfTime, e

\* What is asked of the hits themselves.
HitsInv(hits, t) ==
  /\ hits \in Seq(HitRecord) /\ Len(hits) <= MaxHits
  /\ InOrderOfTime(hits) /\ \A i \in 1..Len(hits) : hits[i].at <= t

\* What an entity carries when it has just been measured.
Measured(e, best, left, sum) ==
  [e EXCEPT !.best = best, !.span = e.window, !.upto = Len(e.hits), !.left = left, !.sum = sum]

\* Measured by definition, an entity carries what it should.
LEMMA MeasuredRight ==
  ASSUME NEW e \in Entity, NEW t, HitsInv(e.hits, t), e.hits # <<>>, NEW l, NEW s, NEW b,
         l = LeftOf(e.hits, Len(e.hits), e.window), s = SumOf(e.hits, l, Len(e.hits)),
         b = BestOf(e.hits, e.window)
  PROVE  EntityInv(Measured(e, b, l, s), t)
<1> DEFINE n == Len(e.hits)
           m == Measured(e, b, l, s)
<1>1. e.hits \in Seq(HitRecord) /\ n \in Nat \ {0} /\ n <= MaxHits /\ MaxHits \in Nat
  BY FightsAssumption DEF HitsInv
<1>2. n \in 1..n /\ n \in 0..n
  BY <1>1
<1>3. l \in 1..n
  BY <1>1, <1>2, LeftFacts
<1>4. s \in 0..Dealt(e.hits)[n] /\ Dealt(e.hits)[n] \in Nat
  <2>1. l \in 1..(n + 1) /\ l - 1 <= n
    BY <1>1, <1>3
  <2> QED BY <1>1, <1>2, <2>1, SumFacts, DealtFacts
<1>5. b \in Nat
  BY <1>1, BestFacts
<1>6. /\ m.hits = e.hits /\ m.window = e.window /\ m.best = b /\ m.span = e.window /\ m.upto = n
      /\ m.left = l /\ m.sum = s
  BY DEF Measured, Entity
<1>7. m \in Entity
  <2>1. b \in Nat /\ e.window \in Window \cup {0} /\ n \in 0..MaxHits /\ l \in 1..(MaxHits + 1) /\ s \in Nat
    <3>1. e.window \in Window
      BY DEF Entity
    <3> QED BY <1>1, <1>3, <1>4, <1>5, <3>1
  <2> HIDE DEF n
  <2> QED BY <2>1 DEF Measured, Entity, n
<1> HIDE DEF m
<1>8. l <= n + 1
  BY <1>1, <1>3
<1> QED BY <1>6, <1>7, <1>8 DEF EntityInv, HitsInv, m

\* A rescan finds the best window whatever was carried before.
LEMMA Rescanned ==
  ASSUME NEW e \in Entity, NEW t, HitsInv(e.hits, t), e.hits # <<>>, e.span # e.window
  PROVE  EntityInv(Rescan(e), t)
<1> DEFINE n == Len(e.hits)
           l == LeftOf(e.hits, n, e.window)
           b == BestOf(e.hits, e.window)
<1>1. b \in Nat
  BY BestFacts DEF HitsInv
<1>2. Max({b, 0}) = b
  BY <1>1, LargerOfTwo
<1>3. Rescan(e) = Measured(e, b, l, SumOf(e.hits, l, n))
  BY <1>2 DEF Rescan, Measured
<1> QED BY <1>3, MeasuredRight

\* And so does the pointer that resumes where the last hit left it.
LEMMA Resumed ==
  ASSUME NEW e \in Entity, NEW t, HitsInv(e.hits, t), NEW hits \in Seq(HitRecord), NEW h \in HitRecord,
         e.hits = Append(hits, h), e.span = e.window, e.left <= LeftOf(e.hits, Len(e.hits), e.window),
         e.left <= Len(hits) + 1, e.sum = SumOf(hits, e.left, Len(hits)), e.best = BestOf(hits, e.window)
  PROVE  EntityInv(Resume(e), t)
<1> DEFINE m == Len(hits)
           n == Len(e.hits)
           w == e.window
           l == LeftOf(e.hits, n, w)
           D(k) == Dealt(e.hits)[k]
           s == e.sum + e.hits[n].dmg - SumOf(e.hits, e.left, l - 1)
<1>1. /\ m \in Nat /\ n = m + 1 /\ e.hits \in Seq(HitRecord) /\ e.hits[n] = h
      /\ e.left \in Nat /\ e.left >= 1 /\ e.hits # <<>>
  <2>1. n = m + 1 /\ e.hits \in Seq(HitRecord) /\ e.hits[n] = h
    BY AppendFacts
  <2>2. e.left \in 1..(MaxHits + 1) /\ MaxHits \in Nat
    BY FightsAssumption DEF Entity
  <2>3. m \in Nat
    OBVIOUS
  <2>4. Len(e.hits) # 0
    BY <2>1, <2>3
  <2> QED BY <2>1, <2>2, <2>3, <2>4
<1>2. l \in 1..n /\ (l = n \/ e.hits[n].at - e.hits[l].at < w)
      /\ \A x \in 1..n : x = n \/ e.hits[n].at - e.hits[x].at < w => l <= x
  <2>1. n \in 1..n
    BY <1>1
  <2> QED BY <1>1, <2>1, LeftFacts
<1>3. Min({i \in e.left..n : i = n \/ e.hits[n].at - e.hits[i].at < e.window}) = l
  <2> DEFINE L == {i \in e.left..n : i = n \/ e.hits[n].at - e.hits[i].at < e.window}
  <2>1. l \in L /\ L \subseteq 1..n
    BY <1>1, <1>2
  <2>2. \A i \in L : l <= i
    BY <1>2, <2>1
  <2>a. L \subseteq Nat /\ L # {} /\ l \in Nat
    BY <1>1, <2>1
  <2> HIDE DEF L, l
  <2>3. Min(L) \in L /\ \A i \in L : Min(L) <= i
    BY <2>a, SmallestIndex
  <2>4. Min(L) \in Nat
    BY <2>a, <2>3
  <2>5. Min(L) <= l /\ l <= Min(L)
    BY <2>1, <2>2, <2>3
  <2>6. Min(L) = l
    BY <2>a, <2>4, <2>5
  <2> QED BY <2>6 DEF L
<1>4. Resume(e) = Measured(e, Max({e.best, s}), l, s)
  BY <1>3 DEF Resume, Measured
<1>5. s = SumOf(e.hits, l, n)
  <2>1. e.left - 1 \in 0..m /\ m \in 0..m /\ l - 1 \in 0..m
    BY <1>1, <1>2
  <2>2. /\ D(e.left - 1) = Dealt(hits)[e.left - 1] /\ D(m) = Dealt(hits)[m] /\ D(n) = Dealt(hits)[m] + h.dmg
    BY <1>1, <2>1, DealtBefore
  <2>3. D(e.left - 1) \in Nat /\ D(m) \in Nat /\ D(n) \in Nat /\ D(l - 1) \in Nat /\ h.dmg \in Nat
    <3>1. e.left - 1 \in 0..n /\ m \in 0..n /\ n \in 0..n /\ l - 1 \in 0..n
      BY <1>1, <2>1
    <3>2. h.dmg \in Nat
      BY FightsAssumption DEF HitRecord
    <3> HIDE DEF m, n, l
    <3> QED BY <1>1, <3>1, <3>2, DealtFacts DEF n
  <2>4. e.sum = D(m) - D(e.left - 1) /\ SumOf(e.hits, e.left, l - 1) = D(l - 1) - D(e.left - 1)
        /\ SumOf(e.hits, l, n) = D(n) - D(l - 1) /\ e.hits[n].dmg = h.dmg
    BY <1>1, <2>2 DEF SumOf
  <2> HIDE DEF D, l
  <2> QED BY <2>2, <2>3, <2>4
<1>6. BestOf(e.hits, w) = Max({BestOf(hits, w), s})
  <2>1. s = LastSum(Append(hits, h), w)
    BY <1>5 DEF LastSum
  <2> HIDE DEF s, w
  <2> QED BY <2>1, BestAfterHit
<1> HIDE DEF s, l
<1> QED BY <1>1, <1>4, <1>5, <1>6, MeasuredRight DEF l

\* update_trailing sets the trailing sum, then the best window.
LEMMA TrailingFacts ==
  ASSUME NEW e \in Entity, NEW t \in Nat, HitsInv(e.hits, t), e.hits # <<>>
  PROVE  \E x \in Nat : UpdateTrailing(e, t) = UpdateBest([e EXCEPT !.trailing = x])
<1> DEFINE n == Len(e.hits)
           older == {i \in 1..n : e.hits[i].at < t - e.window}
           k == Max({0} \cup older)
           x == SumOf(e.hits, k + 1, n)
<1>1. n \in Nat /\ n # 0 /\ e.hits \in Seq(HitRecord)
  BY DEF HitsInv
<1>2. k \in 0..n
  <2>1. {0} \cup older \in SUBSET (0..n) /\ {0} \cup older # {}
    BY <1>1
  <2> HIDE DEF older, n
  <2> QED BY <1>1, <2>1, LargestIndex
<1>3. x \in Nat
  <2>1. k + 1 \in 1..(n + 1) /\ n \in 0..n /\ k + 1 - 1 <= n
    BY <1>1, <1>2
  <2>2. x \in 0..Dealt(e.hits)[n] /\ Dealt(e.hits)[n] \in Nat
    <3> HIDE DEF k
    <3> QED BY <1>1, <2>1, SumFacts, DealtFacts
  <2> QED BY <2>2
<1>4. UpdateTrailing(e, t) = UpdateBest([e EXCEPT !.trailing = x])
  BY <1>1 DEF UpdateTrailing
<1> QED BY <1>3, <1>4

\* A tick, or a hit, gives a live row the configured window.
LEMMA RefreshedEntity ==
  ASSUME NEW e, NEW t \in 0..MaxTime, EntityInv(e, t), NEW w \in Window
  PROVE  EntityInv(UpdateTrailing([e EXCEPT !.window = w], t), t)
<1> DEFINE d == [e EXCEPT !.window = w]
<1>1. /\ e \in Entity /\ HitsInv(e.hits, t) /\ e.upto = Len(e.hits)
  BY DEF EntityInv, Entity, HitsInv, HitRecord
<1>2. /\ d \in Entity /\ d.hits = e.hits /\ d.window = w /\ d.upto = e.upto /\ d.left = e.left
      /\ d.sum = e.sum /\ d.best = e.best /\ d.span = e.span
  BY <1>1 DEF Entity
<1>3. t \in Nat
  BY FightsAssumption
<1> HIDE DEF d
<1>4. CASE e.hits = <<>>
  <2>1. UpdateTrailing(d, t) = d
    BY <1>2, <1>4 DEF UpdateTrailing
  <2>2. EntityInv(d, t)
    BY <1>2, <1>4 DEF EntityInv
  <2> QED BY <2>1, <2>2 DEF d
<1>5. CASE e.hits # <<>>
  <2>1. PICK x \in Nat : UpdateTrailing(d, t) = UpdateBest([d EXCEPT !.trailing = x])
    BY <1>1, <1>2, <1>3, <1>5, TrailingFacts
  <2> DEFINE f == [d EXCEPT !.trailing = x]
  <2>2. /\ f \in Entity /\ f.hits = e.hits /\ f.window = w /\ f.upto = e.upto /\ f.left = e.left
        /\ f.sum = e.sum /\ f.best = e.best /\ f.span = e.span
    BY <1>2 DEF Entity
  <2> HIDE DEF f
  <2>3. CASE f.span = f.window
    <3>1. UpdateBest(f) = f
      BY <1>1, <2>2, <2>3 DEF UpdateBest
    <3>2. e.span = e.window /\ w = e.window
      BY <1>5, <2>2, <2>3 DEF EntityInv
    <3>3. EntityInv(f, t)
      BY <1>5, <2>2, <3>2 DEF EntityInv
    <3> QED BY <2>1, <3>1, <3>3 DEF f, d
  <2>4. CASE f.span # f.window
    <3>1. UpdateBest(f) = Rescan(f)
      BY <2>4 DEF UpdateBest
    <3>2. EntityInv(Rescan(f), t)
      BY <1>1, <1>5, <2>2, <2>4, Rescanned
    <3> QED BY <2>1, <3>1, <3>2 DEF f, d
  <2> QED BY <2>3, <2>4
<1> QED BY <1>4, <1>5

\* A hit keeps what is carried right, whether it resumes or rescans.
LEMMA HitEntity ==
  ASSUME time \in 0..MaxTime, NEW e, EntityInv(e, time), NEW w \in Window, NEW d \in Damage, Len(e.hits) < MaxHits
  PROVE  EntityInv(AddHit([e EXCEPT !.window = w], d), time)
<1> DEFINE h == [at |-> time, dmg |-> d]
           hits == e.hits
           more == Append(hits, h)
           g == [[e EXCEPT !.window = w] EXCEPT !.hits = Append(@, h)]
<1>1. /\ e \in Entity /\ HitsInv(hits, time) /\ e.upto = Len(hits) /\ time \in Nat /\ h \in HitRecord
      /\ hits \in Seq(HitRecord) /\ Len(hits) \in Nat
  <2>1. e \in Entity /\ HitsInv(hits, time) /\ e.upto = Len(hits)
    BY DEF EntityInv, Entity, HitsInv, HitRecord
  <2>2. h \in HitRecord /\ time \in Nat
    BY FightsAssumption DEF HitRecord
  <2> QED BY <2>1, <2>2 DEF HitsInv
<1>2. /\ more \in Seq(HitRecord) /\ Len(more) = Len(hits) + 1 /\ more[Len(hits) + 1] = h /\ h.at = time
      /\ \A i \in 1..Len(hits) : more[i] = hits[i]
  BY <1>1, AppendFacts
<1>3. /\ g \in Entity /\ g.hits = more /\ g.window = w /\ g.upto = e.upto /\ g.left = e.left
      /\ g.sum = e.sum /\ g.best = e.best /\ g.span = e.span
  BY <1>1, <1>2 DEF Entity, HitRecord
<1>4. AddHit([e EXCEPT !.window = w], d) = UpdateTrailing(g, time)
  BY DEF AddHit
<1> HIDE DEF g, h, more
<1>5. HitsInv(more, time)
  <2>1. Len(more) <= MaxHits
    BY <1>1, <1>2, FightsAssumption
  <2>2. \A i \in 1..Len(more) : i \in 1..Len(hits) \/ i = Len(hits) + 1
    BY <1>1, <1>2
  <2>3. \A i \in 1..Len(more) : more[i].at <= time
    BY <1>1, <1>2, <2>2 DEF HitsInv
  <2>4. ASSUME NEW i \in 1..Len(more), NEW j \in 1..Len(more), i <= j PROVE more[i].at <= more[j].at
    <3>1. CASE j = Len(hits) + 1
      BY <1>2, <2>3, <3>1
    <3>2. CASE j \in 1..Len(hits)
      <4>1. i \in 1..Len(hits)
        BY <1>1, <2>4, <3>2
      <4> QED BY <1>1, <1>2, <2>4, <3>2, <4>1 DEF HitsInv, InOrderOfTime
    <3> QED BY <2>2, <3>1, <3>2
  <2> QED BY <1>2, <2>1, <2>3, <2>4 DEF HitsInv, InOrderOfTime
<1>6. g.hits # <<>>
  <2>1. Len(more) # 0
    BY <1>1, <1>2
  <2> QED BY <1>3, <2>1
<1>7. PICK x \in Nat : UpdateTrailing(g, time) = UpdateBest([g EXCEPT !.trailing = x])
  BY <1>1, <1>3, <1>5, <1>6, TrailingFacts
<1> DEFINE f == [g EXCEPT !.trailing = x]
<1>8. /\ f \in Entity /\ f.hits = more /\ f.window = w /\ f.upto = Len(hits) /\ f.left = e.left
      /\ f.sum = e.sum /\ f.best = e.best /\ f.span = e.span
  BY <1>1, <1>3 DEF Entity
<1> HIDE DEF f
<1>9. EntityInv(UpdateBest(f), time)
  <2>1. CASE f.span # f.window
    <3>1. UpdateBest(f) = Rescan(f)
      BY <2>1 DEF UpdateBest
    <3> QED BY <1>3, <1>5, <1>6, <1>8, <2>1, <3>1, Rescanned
  <2>2. CASE f.span = f.window
    <3>1. UpdateBest(f) = Resume(f)
      BY <1>1, <1>2, <1>8, <2>2 DEF UpdateBest
    <3>2. f.best = BestOf(hits, f.window)
      BY <1>8, <2>2, BestOfNone DEF EntityInv
    <3>3. f.left <= Len(hits) + 1 /\ f.sum = SumOf(hits, f.left, Len(hits))
      BY <1>8 DEF EntityInv
    <3>4. LeftOf(more, Len(more), w) \in 1..Len(more)
      <4>1. Len(more) \in 1..Len(more)
        BY <1>1, <1>2
      <4> QED BY <1>2, <4>1, LeftFacts
    <3>5. f.left <= LeftOf(more, Len(more), w)
      <4>1. CASE hits = <<>>
        <5>1. f.left = 1
          BY <1>8, <4>1 DEF EntityInv
        <5> QED BY <3>4, <5>1
      <4>2. CASE hits # <<>>
        <5>1. f.left = LeftOf(hits, Len(hits), w)
          BY <1>8, <2>2, <4>2 DEF EntityInv
        <5>2. Len(hits) \in 1..Len(hits) /\ Len(hits) \in 1..Len(more) /\ Len(more) \in 1..Len(more)
              /\ Len(hits) <= Len(more)
          BY <1>1, <1>2, <4>2
        <5>3. LeftOf(more, Len(hits), w) = LeftOf(hits, Len(hits), w)
          BY <1>1, <5>2, LeftKept DEF more
        <5>4. LeftOf(more, Len(hits), w) <= LeftOf(more, Len(more), w)
          <6>1. w \in Nat
            BY FightsAssumption
          <6> QED BY <1>2, <1>5, <5>2, <6>1, LeftAdvances DEF HitsInv
        <5> QED BY <5>1, <5>3, <5>4
      <4> QED BY <4>1, <4>2
    <3>6. f.hits = Append(hits, h) /\ HitsInv(f.hits, time)
      BY <1>5, <1>8 DEF more
    <3> HIDE DEF hits
    <3> QED BY <1>1, <1>8, <2>2, <3>1, <3>2, <3>3, <3>5, <3>6, Resumed
  <2> QED BY <2>1, <2>2
<1> QED BY <1>4, <1>7, <1>9 DEF f

-----------------------------------------------------------------------------
(* The tracker                                                              *)

\* Retiring stale fights leaves a sequence of the others.
LEMMA RetainedType ==
  ASSUME NEW S, NEW fs \in Seq(S)
  PROVE  Retained(fs) \in Seq(S)
<1> DEFINE n == Len(fs)
           first[k \in 0..n] == IF k = 0 THEN <<>> ELSE IF Stale(fs[k]) THEN first[k - 1] ELSE Append(first[k - 1], fs[k])
           onward(k, q) == IF Stale(fs[k]) THEN q ELSE Append(q, fs[k])
           g == [k \in 1..n |-> [q \in Seq(S) |-> onward(k, q)]]
           T == {k \in 0..n : first[k] \in Seq(S)}
<1>1. n \in Nat /\ \A k \in 1..n : \A q \in Seq(S) : onward(k, q) \in Seq(S)
  OBVIOUS
<1>4. Retained(fs) = first[n]
  BY Zenon DEF Retained
<1> HIDE DEF onward, n, first, T
<1>2. \E f : f = [k \in 0..n |-> IF k = 0 THEN <<>> ELSE onward(k, f[k - 1])]
  <2>1. g \in [1..n -> [Seq(S) -> Seq(S)]] /\ \A k \in 1..n : \A q \in Seq(S) : g[k][q] = onward(k, q)
    BY <1>1
  <2> HIDE DEF g
  <2>2. PICK f \in [0..n -> Seq(S)] : f[0] = <<>> /\ \A k \in 1..n : f[k] = g[k][f[k - 1]]
    <3>1. <<>> \in Seq(S)
      OBVIOUS
    <3>2. \E f : CarriedBy(f, Seq(S), <<>>, n, g)
      BY <1>1, <2>1, <3>1, CarriedThrough, Zenon
    <3> QED BY <3>2 DEF CarriedBy
  <2>3. \A k \in 0..n : f[k] = IF k = 0 THEN <<>> ELSE onward(k, f[k - 1])
    <3> SUFFICES ASSUME NEW k \in 0..n, k # 0 PROVE f[k] = onward(k, f[k - 1])
      BY <2>2
    <3>1. k \in 1..n /\ k - 1 \in 0..n
      BY <1>1
    <3>2. f[k - 1] \in Seq(S)
      BY <2>2, <3>1
    <3> QED BY <2>1, <2>2, <3>1, <3>2
  <2>4. f = [k \in 0..n |-> IF k = 0 THEN <<>> ELSE onward(k, f[k - 1])]
    <3>1. f = [k \in 0..n |-> f[k]]
      BY <2>2
    <3> QED BY <2>3, <3>1
  <2> QED BY <2>4
<1>3. first = [k \in 0..n |-> IF k = 0 THEN <<>> ELSE onward(k, first[k - 1])]
  BY <1>2, Zenon DEF first, onward
<1>5. 0 \in T
  <2>1. 0 \in 0..n /\ <<>> \in Seq(S)
    BY <1>1
  <2> QED BY <1>3, <2>1 DEF T
<1>6. ASSUME NEW k \in 1..n, k - 1 \in T PROVE k \in T
  <2>1. k \in 0..n /\ k # 0
    BY <1>1
  <2>2. first[k] = onward(k, first[k - 1]) /\ first[k - 1] \in Seq(S)
    BY <1>3, <1>6, <2>1 DEF T
  <2> QED BY <1>1, <2>1, <2>2 DEF T
<1>7. \A k \in 0..n : k \in T
  BY <1>1, <1>5, <1>6, StepByStep
<1>8. n \in T
  BY <1>1, <1>7
<1> QED BY <1>4, <1>8 DEF T

\* A fight whose every attacker carries the right numbers.
FightSet == [start : 0..MaxTime, death : 0..Alive, of : [Attacker -> Entity]]

GoodFight == {f \in FightSet : \A a \in Attacker : EntityInv(f.of[a], time)}

FightsInv == time \in 0..MaxTime /\ window \in Window /\ fights \in Seq(GoodFight)

\* The clock goes on: what was right stays right.
LEMMA LaterEntity ==
  ASSUME NEW e, NEW t \in Nat, NEW u \in Nat, t <= u, EntityInv(e, t)
  PROVE  EntityInv(e, u)
<1>1. \A i \in 1..Len(e.hits) : e.hits[i].at <= u
  <2> SUFFICES ASSUME NEW i \in 1..Len(e.hits) PROVE e.hits[i].at <= u
    OBVIOUS
  <2>1. e.hits[i].at \in Nat
    <3>1. e.hits \in Seq(HitRecord)
      BY DEF EntityInv, Entity, HitRecord
    <3>2. e.hits[i] \in HitRecord
      BY <3>1
    <3> QED BY <3>2 DEF HitRecord
  <2> QED BY <2>1 DEF EntityInv
<1> QED BY <1>1 DEF EntityInv

\* A hit on a good fight gives a good fight.
LEMMA HitFight ==
  ASSUME FightsInv, NEW f \in GoodFight, NEW a \in Attacker, NEW d \in Damage, Len(f.of[a].hits) < MaxHits
  PROVE  Hit(f, a, d) \in GoodFight
<1>1. f \in FightSet /\ \A b \in Attacker : EntityInv(f.of[b], time)
  BY DEF GoodFight
<1> DEFINE e == AddHit([f.of[a] EXCEPT !.window = window], d)
<1>2. EntityInv(e, time)
  BY <1>1, HitEntity DEF FightsInv
<1>3. Hit(f, a, d) = [f EXCEPT !.of[a] = e]
  BY DEF Hit
<1> HIDE DEF e
<1>4. e \in Entity
  BY <1>2 DEF EntityInv
<1>5. [f EXCEPT !.of[a] = e] \in FightSet
  BY <1>1, <1>4 DEF FightSet
<1>6. ASSUME NEW b \in Attacker PROVE EntityInv([f EXCEPT !.of[a] = e].of[b], time)
  <2>1. [f EXCEPT !.of[a] = e].of[b] = IF b = a THEN e ELSE f.of[b]
    BY <1>1 DEF FightSet
  <2>2. CASE b = a
    BY <1>2, <2>1, <2>2
  <2>3. CASE b # a
    <3>1. [f EXCEPT !.of[a] = e].of[b] = f.of[b]
      BY <2>1, <2>3
    <3> QED BY <1>1, <3>1
  <2> QED BY <2>2, <2>3
<1> QED BY <1>3, <1>5, <1>6 DEF GoodFight

\* And so does a tick.
LEMMA RefreshedFight ==
  ASSUME FightsInv, NEW f \in GoodFight
  PROVE  Refreshed(f) \in GoodFight
<1>1. f \in FightSet /\ \A b \in Attacker : EntityInv(f.of[b], time)
  BY DEF GoodFight
<1> DEFINE e(b) == UpdateTrailing([f.of[b] EXCEPT !.window = window], time)
           g == [f EXCEPT !.of = [b \in Attacker |-> e(b)]]
<1>2. \A b \in Attacker : EntityInv(e(b), time)
  BY <1>1, RefreshedEntity DEF FightsInv
<1>3. Refreshed(f) = IF Live(f) THEN g ELSE f
  BY DEF Refreshed
<1> HIDE DEF e
<1>4. \A b \in Attacker : e(b) \in Entity
  BY <1>2 DEF EntityInv
<1>5. g \in FightSet /\ \A b \in Attacker : g.of[b] = e(b)
  BY <1>1, <1>4 DEF FightSet
<1> HIDE DEF g
<1>6. g \in GoodFight
  <2>1. \A b \in Attacker : EntityInv(g.of[b], time)
    BY <1>2, <1>5
  <2> QED BY <1>5, <2>1 DEF GoodFight
<1> QED BY <1>3, <1>6

\* A fight that begins has room for its first hit.
LEMMA FreshFight ==
  ASSUME FightsInv
  PROVE  Fresh0 \in GoodFight /\ \A a \in Attacker : Len(Fresh0.of[a].hits) < MaxHits
<1> DEFINE e == NewEntity(window)
<1>1. EntityInv(e, time) /\ e.hits = <<>>
  <2>1. window \in Window
    BY DEF FightsInv
  <2>2. EntityInv(e, time)
    BY <2>1, FreshEntity
  <2> QED BY <2>2 DEF NewEntity
<1>2. e \in Entity
  BY <1>1 DEF EntityInv
<1>3. Fresh0 = [start |-> time, death |-> Alive, of |-> [a \in Attacker |-> e]]
  BY DEF Fresh0
<1> HIDE DEF e
<1>4. Alive \in 0..Alive /\ time \in 0..MaxTime /\ 0 < MaxHits
  BY FightsAssumption DEF Alive, FightsInv
<1>5. Fresh0 \in FightSet /\ \A a \in Attacker : Fresh0.of[a] = e
  BY <1>2, <1>3, <1>4 DEF FightSet
<1>6. \A a \in Attacker : EntityInv(Fresh0.of[a], time)
  BY <1>1, <1>5
<1> QED BY <1>1, <1>4, <1>5, <1>6 DEF GoodFight

\* The invariant of the tracker.
LEMMA FightsStep == FightsInv /\ [FightsNext]_fightVars => FightsInv'
<1> SUFFICES ASSUME FightsInv, [FightsNext]_fightVars PROVE FightsInv'
  OBVIOUS
<1>1. time \in 0..MaxTime /\ window \in Window /\ fights \in Seq(GoodFight)
  BY DEF FightsInv
<1>2. ASSUME time' = time PROVE GoodFight' = GoodFight
  BY <1>2 DEF GoodFight
<1>3. ASSUME NEW a \in Attacker, NEW d \in Damage, AddDamage(a, d) PROVE FightsInv'
  <2>1. time' = time /\ window' = window
    BY <1>3 DEF AddDamage
  <2>2. fights' \in Seq(GoodFight)
    <3>1. CASE \E i \in DOMAIN fights :
                 /\ Live(fights[i]) /\ Len(fights[i].of[a].hits) < MaxHits
                 /\ fights' = [fights EXCEPT ![i] = Hit(@, a, d)]
      <4>1. PICK i \in DOMAIN fights : /\ Len(fights[i].of[a].hits) < MaxHits
                                       /\ fights' = [fights EXCEPT ![i] = Hit(fights[i], a, d)]
        BY <3>1
      <4>2. fights[i] \in GoodFight /\ i \in 1..Len(fights)
        BY <1>1, <4>1
      <4>3. Hit(fights[i], a, d) \in GoodFight
        BY <4>1, <4>2, HitFight
      <4> QED BY <1>1, <4>1, <4>2, <4>3
    <3>2. CASE fights' = Append(fights, Hit(Fresh0, a, d))
      <4>1. Hit(Fresh0, a, d) \in GoodFight
        BY FreshFight, HitFight
      <4> QED BY <1>1, <3>2, <4>1
    <3> QED BY <1>3, <3>1, <3>2 DEF AddDamage
  <2> QED BY <1>1, <1>2, <2>1, <2>2 DEF FightsInv
<1>4. ASSUME EndFight PROVE FightsInv'
  <2>1. /\ time' = time /\ window' = window
        /\ fights' = [i \in DOMAIN fights |-> IF Live(fights[i]) THEN [fights[i] EXCEPT !.death = time] ELSE fights[i]]
    BY <1>4 DEF EndFight
  <2>2. ASSUME NEW f \in GoodFight PROVE [f EXCEPT !.death = time] \in GoodFight
    <3>1. time \in 0..Alive
      BY <1>1, FightsAssumption DEF Alive
    <3>2. [f EXCEPT !.death = time] \in FightSet /\ [f EXCEPT !.death = time].of = f.of
      BY <3>1 DEF GoodFight, FightSet
    <3> QED BY <3>2 DEF GoodFight
  <2>3. fights' \in Seq(GoodFight)
    <3>1. \A i \in 1..Len(fights) : fights[i] \in GoodFight
      BY <1>1
    <3>2. \A i \in 1..Len(fights) : (IF Live(fights[i]) THEN [fights[i] EXCEPT !.death = time] ELSE fights[i]) \in GoodFight
      BY <2>2, <3>1
    <3>3. DOMAIN fights = 1..Len(fights) /\ Len(fights) \in Nat
      BY <1>1
    <3> QED BY <2>1, <3>2, <3>3
  <2> QED BY <1>1, <1>2, <2>1, <2>3 DEF FightsInv
<1>5. ASSUME Clear PROVE FightsInv'
  BY <1>1, <1>5 DEF Clear, FightsInv
<1>6. ASSUME Tick PROVE FightsInv'
  <2>1. time' = time /\ window' = window /\ fights' = Retained([i \in DOMAIN fights |-> Refreshed(fights[i])])
    BY <1>6 DEF Tick
  <2>2. [i \in DOMAIN fights |-> Refreshed(fights[i])] \in Seq(GoodFight)
    <3>1. \A i \in 1..Len(fights) : fights[i] \in GoodFight
      BY <1>1
    <3>2. \A i \in 1..Len(fights) : Refreshed(fights[i]) \in GoodFight
      BY <3>1, RefreshedFight
    <3>3. DOMAIN fights = 1..Len(fights) /\ Len(fights) \in Nat
      BY <1>1
    <3> QED BY <3>2, <3>3
  <2>3. fights' \in Seq(GoodFight)
    BY <2>1, <2>2, RetainedType
  <2> QED BY <1>1, <1>2, <2>1, <2>3 DEF FightsInv
<1>7. ASSUME Second PROVE FightsInv'
  <2>1. time' \in 0..MaxTime /\ window' = window /\ fights' = fights /\ time \in Nat /\ time' \in Nat /\ time <= time'
    BY <1>1, <1>7, FightsAssumption DEF Second
  <2>2. ASSUME NEW f \in GoodFight PROVE f \in GoodFight'
    <3>1. f \in FightSet /\ \A a \in Attacker : EntityInv(f.of[a], time)
      BY DEF GoodFight
    <3>2. \A a \in Attacker : EntityInv(f.of[a], time')
      BY <2>1, <3>1, LaterEntity
    <3>3. f \in GoodFight' <=> f \in FightSet /\ \A a \in Attacker : EntityInv(f.of[a], time')
      BY DEF GoodFight, FightSet, Alive, Entity, EntityInv
    <3> QED BY <3>1, <3>2, <3>3
  <2>3. fights' \in Seq(GoodFight')
    <3>1. \A i \in 1..Len(fights) : fights[i] \in GoodFight'
      BY <1>1, <2>2
    <3> QED BY <1>1, <2>1, <3>1
  <2> QED BY <1>1, <2>1, <2>3 DEF FightsInv
<1>8. ASSUME NEW w \in Window, Configure(w) PROVE FightsInv'
  BY <1>1, <1>2, <1>8 DEF Configure, FightsInv
<1>9. ASSUME UNCHANGED fightVars PROVE FightsInv'
  BY <1>1, <1>2, <1>9 DEF fightVars, FightsInv
<1> QED BY <1>3, <1>4, <1>5, <1>6, <1>7, <1>8, <1>9 DEF FightsNext

\* Every row of the damage meter keeps its type.
THEOREM FightsTypes == FightsSpec => []FightsTypeOK
<1>1. FightsInit => FightsInv
  BY FightsAssumption DEF FightsInit, FightsInv
<1>2. FightsInv => FightsTypeOK
  <2> SUFFICES ASSUME FightsInv PROVE FightsTypeOK
    OBVIOUS
  <2>1. GoodFight \subseteq FightSet
    BY DEF GoodFight
  <2>2. fights \in Seq(FightSet)
    BY <2>1 DEF FightsInv
  <2> QED BY <2>2 DEF FightsInv, FightsTypeOK, FightSet
<1> QED BY <1>1, <1>2, FightsStep, PTL DEF FightsSpec

\* The best window carried incrementally (_update_best_window) is the best by
\* definition, for any damage, windows, clock and retention: hits, ticks, a fight's
\* end and a window changed in mid-fight included.
THEOREM CarriedBestIsExact == FightsSpec => []BestWindowExact
<1>1. FightsInit => FightsInv
  BY FightsAssumption DEF FightsInit, FightsInv
<1>2. FightsInv => BestWindowExact
  <2> SUFFICES ASSUME FightsInv, NEW i \in DOMAIN fights, NEW a \in Attacker
               PROVE  LET e == fights[i].of[a] IN e.span = e.window => e.best = BestOf(e.hits, e.window)
    BY DEF BestWindowExact
  <2> DEFINE e == fights[i].of[a]
  <2>1. EntityInv(e, time)
    <3>1. fights[i] \in GoodFight
      BY DEF FightsInv
    <3> QED BY <3>1 DEF GoodFight
  <2> HIDE DEF e
  <2>2. e.best = BestOf(e.hits, e.window)
    BY <2>1, BestOfNone DEF EntityInv
  <2> QED BY <2>2 DEF e
<1> QED BY <1>1, <1>2, FightsStep, PTL DEF FightsSpec

-----------------------------------------------------------------------------
(* The bars of the triggers' timers                                         *)

\* The numbers from 1 to n are n.
LEMMA NumbersTo ==
  ASSUME NEW n \in Nat
  PROVE  IsFiniteSet(1..n) /\ Cardinality(1..n) = n
<1>1. n \in Int /\ 1 \in Int
  OBVIOUS
<1>2. IsFiniteSet(1..n) /\ Cardinality(1..n) = IF 1 > n THEN 0 ELSE n - 1 + 1
  BY <1>1, FS_Interval, Zenon
<1>3. (IF 1 > n THEN 0 ELSE n - 1 + 1) = n
  OBVIOUS
<1> QED BY <1>2, <1>3

\* One that is not in the set yet.
LEMMA AddedElement ==
  ASSUME NEW A, NEW x, IsFiniteSet(A), x \notin A
  PROVE  IsFiniteSet(A \cup {x}) /\ Cardinality(A \cup {x}) = Cardinality(A) + 1
BY FS_AddElement

\* Two finite sets that share nothing.
LEMMA DisjointUnion ==
  ASSUME NEW A, NEW B, IsFiniteSet(A), IsFiniteSet(B), A \cap B = {}
  PROVE  Cardinality(A \cup B) = Cardinality(A) + Cardinality(B)
<1>1. Cardinality(A \cup B) = Cardinality(A) + Cardinality(B) - Cardinality({})
  <2>1. Cardinality(A \cup B) = Cardinality(A) + Cardinality(B) - Cardinality(A \cap B)
    BY FS_Union, Zenon
  <2> QED BY <2>1
<1>2. Cardinality({}) = 0 /\ Cardinality(A) \in Nat /\ Cardinality(B) \in Nat
  BY FS_EmptySet, FS_CardinalityType
<1> QED BY <1>1, <1>2

\* The positions of a list that hold at least v, and how many they are.
AtLeast(list, v) == {i \in 1..Len(list) : list[i] >= v}
HowMany(list, v) == Cardinality(AtLeast(list, v))

\* They are at most as many as the list is long, all of it when v is 0.
LEMMA CountFacts ==
  ASSUME NEW list \in Seq(Nat), NEW v \in Nat
  PROVE  /\ IsFiniteSet(AtLeast(list, v)) /\ HowMany(list, v) \in Nat
         /\ HowMany(list, v + 1) <= HowMany(list, v)
         /\ HowMany(list, 0) = Len(list) /\ HowMany(list, v) <= Len(list)
<1>1. IsFiniteSet(1..Len(list)) /\ Cardinality(1..Len(list)) = Len(list)
  <2>1. Len(list) \in Nat
    OBVIOUS
  <2> QED BY <2>1, NumbersTo
<1>2. \A i \in 1..Len(list) : list[i] \in Nat
  OBVIOUS
<1>3. AtLeast(list, v) \subseteq 1..Len(list) /\ AtLeast(list, v + 1) \subseteq AtLeast(list, v)
  BY <1>2 DEF AtLeast
<1>4. IsFiniteSet(AtLeast(list, v))
  BY <1>1, <1>3, FS_Subset
<1>5. HowMany(list, v) \in Nat
  BY <1>4, FS_CardinalityType DEF HowMany
<1>6. HowMany(list, v + 1) <= HowMany(list, v)
  BY <1>3, <1>4, FS_Subset DEF HowMany
<1>7. AtLeast(list, 0) = 1..Len(list)
  BY <1>2 DEF AtLeast
<1>8. HowMany(list, v) <= Len(list)
  BY <1>1, <1>3, FS_Subset DEF HowMany
<1> QED BY <1>1, <1>4, <1>5, <1>6, <1>7, <1>8 DEF HowMany

\* One more at the end counts once, if it is enough.
LEMMA CountAppended ==
  ASSUME NEW list \in Seq(Nat), NEW x \in Nat, NEW v \in Nat
  PROVE  HowMany(Append(list, x), v) = HowMany(list, v) + IF x >= v THEN 1 ELSE 0
<1> DEFINE n == Len(list)
           more == Append(list, x)
<1>1. n \in Nat /\ Len(more) = n + 1 /\ more[n + 1] = x /\ \A i \in 1..n : more[i] = list[i]
  BY AppendFacts
<1>2. IsFiniteSet(AtLeast(list, v)) /\ HowMany(list, v) \in Nat
  BY CountFacts
<1> HIDE DEF more
<1>3. n + 1 \notin AtLeast(list, v)
  BY <1>1 DEF AtLeast
<1>4. AtLeast(more, v) = AtLeast(list, v) \cup IF x >= v THEN {n + 1} ELSE {}
  <2>1. \A i : i \in 1..(n + 1) <=> i \in 1..n \/ i = n + 1
    BY <1>1
  <2> QED BY <1>1, <2>1 DEF AtLeast
<1> HIDE DEF n
<1>5. CASE x >= v
  BY <1>2, <1>3, <1>4, <1>5, FS_AddElement DEF HowMany, more
<1>6. CASE ~(x >= v)
  BY <1>2, <1>4, <1>6 DEF HowMany, more
<1> QED BY <1>5, <1>6

\* Time passes: what is at least v was at least v + 1, and nothing goes.
LEMMA CountPassed ==
  ASSUME NEW list \in Seq(Nat), NEW v \in Nat \ {0}
  PROVE  /\ HowMany(Passed(list), v) = HowMany(list, v + 1)
         /\ Len(Passed(list)) = Len(list) /\ Passed(list) \in Seq(Nat)
<1>1. Len(list) \in Nat /\ \A i \in 1..Len(list) : list[i] \in Nat
  OBVIOUS
<1>2. Passed(list) \in Seq(Nat) /\ Len(Passed(list)) = Len(list)
  BY <1>1 DEF Passed
<1>3. \A i \in 1..Len(list) : Passed(list)[i] = IF list[i] = 0 THEN 0 ELSE list[i] - 1
  BY DEF Passed
<1>4. \A i \in 1..Len(list) : Passed(list)[i] >= v <=> list[i] >= v + 1
  BY <1>1, <1>3
<1>5. AtLeast(Passed(list), v) = AtLeast(list, v + 1)
  BY <1>2, <1>4 DEF AtLeast
<1> QED BY <1>2, <1>5 DEF HowMany

\* Armed again, what was over has the whole duration left.
LEMMA CountRearmed ==
  ASSUME NEW list \in Seq(0..Duration), NEW v \in Nat \ {0}
  PROVE  /\ HowMany(Rearmed(list), v)
              = HowMany(list, v) + IF Duration >= v THEN Cardinality(Due(list)) ELSE 0
         /\ Len(Rearmed(list)) = Len(list) /\ Rearmed(list) \in Seq(1..Duration)
         /\ Cardinality(Due(list)) \in 0..Len(list)
<1>1. Len(list) \in Nat /\ (\A i \in 1..Len(list) : list[i] \in 0..Duration) /\ Duration \in Nat \ {0}
  BY TriggerAssumption
<1>2. list \in Seq(Nat)
  BY <1>1
<1>3. Rearmed(list) \in Seq(1..Duration) /\ Len(Rearmed(list)) = Len(list)
  <2>1. \A i \in 1..Len(list) : (IF list[i] = 0 THEN Duration ELSE list[i]) \in 1..Duration
    BY <1>1
  <2> QED BY <1>1, <2>1 DEF Rearmed
<1>4. \A i \in 1..Len(list) : Rearmed(list)[i] = IF list[i] = 0 THEN Duration ELSE list[i]
  BY DEF Rearmed
<1>5. IsFiniteSet(AtLeast(list, v)) /\ HowMany(list, v) \in Nat
  BY <1>2, CountFacts
<1>6. IsFiniteSet(Due(list)) /\ Cardinality(Due(list)) \in Nat /\ Cardinality(Due(list)) <= Len(list)
  <2>1. IsFiniteSet(1..Len(list)) /\ Cardinality(1..Len(list)) = Len(list)
    BY <1>1, NumbersTo
  <2>2. Due(list) \subseteq 1..Len(list)
    BY DEF Due
  <2> QED BY <2>1, <2>2, FS_Subset, FS_CardinalityType
<1>7. AtLeast(list, v) \cap Due(list) = {}
  BY DEF AtLeast, Due
<1>8. AtLeast(Rearmed(list), v) = AtLeast(list, v) \cup IF Duration >= v THEN Due(list) ELSE {}
  <2>1. ASSUME NEW i \in 1..Len(list)
        PROVE  Rearmed(list)[i] >= v <=> list[i] >= v \/ (Duration >= v /\ list[i] = 0)
    BY <1>1, <1>4
  <2> QED BY <1>3, <2>1 DEF AtLeast, Due
<1>9. CASE Duration >= v
  <2>1. Cardinality(AtLeast(list, v) \cup Due(list)) = Cardinality(AtLeast(list, v)) + Cardinality(Due(list))
    BY <1>5, <1>6, <1>7, DisjointUnion
  <2> QED BY <1>3, <1>6, <1>8, <1>9, <2>1 DEF HowMany
<1>10. CASE ~(Duration >= v)
  BY <1>3, <1>5, <1>6, <1>8, <1>10 DEF HowMany
<1> QED BY <1>9, <1>10

\* Without those that are over, the others are as many as before.
LEMMA CountRunning ==
  ASSUME NEW m \in Nat, NEW list \in Seq(0..m)
  PROVE  /\ Running(list) \in Seq(1..m)
         /\ \A v \in Nat \ {0} : HowMany(Running(list), v) = HowMany(list, v)
<1> DEFINE n == Len(list)
           S == Seq(1..m)
           first[k \in 0..n] == IF k = 0 THEN <<>> ELSE IF list[k] = 0 THEN first[k - 1] ELSE Append(first[k - 1], list[k])
           onward(k, q) == IF list[k] = 0 THEN q ELSE Append(q, list[k])
           g == [k \in 1..n |-> [q \in S |-> onward(k, q)]]
           Upto(k, v) == {i \in 1..k : list[i] >= v}
           Right(k) == /\ first[k] \in S
                       /\ \A v \in Nat \ {0} : /\ IsFiniteSet(Upto(k, v))
                                               /\ HowMany(first[k], v) = Cardinality(Upto(k, v))
           T == {k \in 0..n : Right(k)}
<1>1. n \in Nat /\ \A k \in 1..n : list[k] \in 0..m
  OBVIOUS
<1>2. ASSUME NEW k \in 1..n, NEW q \in S PROVE onward(k, q) \in S
  <2>1. list[k] # 0 => list[k] \in 1..m
    BY <1>1
  <2> HIDE DEF n
  <2>2. CASE list[k] = 0
    BY <2>2
  <2>3. CASE list[k] # 0
    <3>1. Append(q, list[k]) \in S
      BY <2>1, <2>3, AppendFacts
    <3> QED BY <2>3, <3>1
  <2> QED BY <2>2, <2>3
<1>3. Running(list) = first[n]
  BY Zenon DEF Running
<1> HIDE DEF onward, n, first, T, S
<1>4. \E f : f = [k \in 0..n |-> IF k = 0 THEN <<>> ELSE onward(k, f[k - 1])]
  <2>1. g \in [1..n -> [S -> S]] /\ \A k \in 1..n : \A q \in S : g[k][q] = onward(k, q)
    BY <1>2
  <2> HIDE DEF g
  <2>2. PICK f \in [0..n -> S] : f[0] = <<>> /\ \A k \in 1..n : f[k] = g[k][f[k - 1]]
    <3>1. <<>> \in S
      BY DEF S
    <3>2. \E f : CarriedBy(f, S, <<>>, n, g)
      BY <1>1, <2>1, <3>1, CarriedThrough, Zenon
    <3> QED BY <3>2 DEF CarriedBy
  <2>3. \A k \in 0..n : f[k] = IF k = 0 THEN <<>> ELSE onward(k, f[k - 1])
    <3> SUFFICES ASSUME NEW k \in 0..n, k # 0 PROVE f[k] = onward(k, f[k - 1])
      BY <2>2
    <3>1. k \in 1..n /\ k - 1 \in 0..n
      BY <1>1
    <3>2. f[k - 1] \in S
      BY <2>2, <3>1
    <3> QED BY <2>1, <2>2, <3>1, <3>2
  <2>4. f = [k \in 0..n |-> IF k = 0 THEN <<>> ELSE onward(k, f[k - 1])]
    <3>1. f = [k \in 0..n |-> f[k]]
      BY <2>2
    <3> QED BY <2>3, <3>1
  <2> QED BY <2>4
<1>5. first = [k \in 0..n |-> IF k = 0 THEN <<>> ELSE onward(k, first[k - 1])]
  BY <1>4, Zenon DEF first, onward
<1> HIDE DEF Right
<1>6. 0 \in T
  <2>1. 0 \in 0..n /\ <<>> \in S /\ <<>> \in Seq(Nat) /\ Len(<<>>) = 0
    BY <1>1 DEF S
  <2>2. first[0] = <<>>
    BY <1>5, <2>1
  <2>3. ASSUME NEW v \in Nat \ {0} PROVE IsFiniteSet(Upto(0, v)) /\ HowMany(<<>>, v) = Cardinality(Upto(0, v))
    <3>1. Upto(0, v) = {} /\ AtLeast(<<>>, v) = {}
      BY DEF AtLeast
    <3> QED BY <3>1, FS_EmptySet DEF HowMany
  <2> QED BY <2>1, <2>2, <2>3 DEF T, Right
<1>7. ASSUME NEW k \in 1..n, k - 1 \in T PROVE k \in T
  <2>1. k \in 0..n /\ k # 0 /\ Right(k - 1) /\ k \in Nat
    BY <1>1, <1>7 DEF T
  <2>2. first[k] = onward(k, first[k - 1]) /\ first[k - 1] \in S
    BY <1>5, <2>1 DEF Right
  <2>3. first[k] \in S
    BY <1>2, <2>2
  <2>4. ASSUME NEW v \in Nat \ {0}
        PROVE  IsFiniteSet(Upto(k, v)) /\ HowMany(first[k], v) = Cardinality(Upto(k, v))
    <3>1. IsFiniteSet(Upto(k - 1, v)) /\ HowMany(first[k - 1], v) = Cardinality(Upto(k - 1, v))
      BY <2>1, <2>4 DEF Right
    <3>2. first[k - 1] \in Seq(Nat)
      BY <2>2 DEF S
    <3>3. k \notin Upto(k - 1, v) /\ Upto(k, v) = Upto(k - 1, v) \cup IF list[k] >= v THEN {k} ELSE {}
      <4>1. \A i : i \in 1..k <=> i \in 1..(k - 1) \/ i = k
        BY <2>1
      <4>2. k \notin 1..(k - 1)
        BY <2>1
      <4> QED BY <4>1, <4>2
    <3> HIDE DEF Upto
    <3>4. CASE list[k] >= v
      <4>1. list[k] \in Nat /\ list[k] # 0
        BY <1>1, <3>4
      <4>2. first[k] = Append(first[k - 1], list[k])
        BY <2>2, <4>1 DEF onward
      <4>3. Upto(k, v) = Upto(k - 1, v) \cup {k}
        BY <3>3, <3>4
      <4>4. v \in Nat
        BY <2>4
      <4>5. /\ IsFiniteSet(Upto(k - 1, v) \cup {k})
            /\ HowMany(Append(first[k - 1], list[k]), v) = Cardinality(Upto(k - 1, v) \cup {k})
        <5>1. first[k - 1] \in Seq(Nat) /\ list[k] \in Nat /\ v \in Nat
          BY <3>2, <4>1, <4>4
        <5>2. IsFiniteSet(Upto(k - 1, v)) /\ k \notin Upto(k - 1, v)
          BY <3>1, <3>3
        <5>3. HowMany(Append(first[k - 1], list[k]), v)
                = HowMany(first[k - 1], v) + IF list[k] >= v THEN 1 ELSE 0
          BY <5>1, CountAppended, Zenon
        <5>4. /\ IsFiniteSet(Upto(k - 1, v) \cup {k})
              /\ Cardinality(Upto(k - 1, v) \cup {k}) = Cardinality(Upto(k - 1, v)) + 1
          BY <5>2, AddedElement, Zenon
        <5> QED BY <3>1, <3>4, <5>3, <5>4
      <4> QED BY <4>2, <4>3, <4>5
    <3>5. CASE ~(list[k] >= v)
      <4>1. Upto(k, v) = Upto(k - 1, v)
        BY <3>3, <3>5
      <4>2. HowMany(first[k], v) = HowMany(first[k - 1], v)
        <5>1. CASE list[k] = 0
          BY <2>2, <5>1 DEF onward
        <5>2. CASE list[k] # 0
          <6>1. first[k] = Append(first[k - 1], list[k]) /\ list[k] \in Nat
            BY <1>1, <2>2, <5>2 DEF onward
          <6>2. HowMany(first[k - 1], v) \in Nat
            BY <3>2, CountFacts
          <6> QED BY <3>2, <3>5, <6>1, <6>2, CountAppended
        <5> QED BY <5>1, <5>2
      <4> QED BY <3>1, <4>1, <4>2
    <3> QED BY <3>4, <3>5
  <2> QED BY <2>1, <2>3, <2>4 DEF T, Right
<1>8. Right(n)
  <2>1. \A k \in 0..n : k \in T
    BY <1>1, <1>6, <1>7, StepByStep
  <2> QED BY <1>1, <2>1 DEF T
<1>9. \A v : Upto(n, v) = AtLeast(list, v)
  BY DEF AtLeast, n
<1> HIDE DEF Upto
<1> QED BY <1>3, <1>8, <1>9 DEF Right, HowMany, S

\* A bar of the sink is a bar.
Bars == Seq(0..(Duration + 1))

\* Restarted or new, it has the duration left, or one unit more.
LEMMA ShowBarType ==
  ASSUME NEW list \in Bars, NEW restart, NEW extra \in Late
  PROVE  ShowBar(list, restart, extra) \in Bars /\ Duration + extra \in 0..(Duration + 1)
<1>1. Duration + extra \in 0..(Duration + 1)
  BY TriggerAssumption DEF Late
<1> DEFINE x == Duration + extra
<1>2. x \in 0..(Duration + 1) /\ list \in Seq(0..(Duration + 1))
  BY <1>1 DEF Bars
<1> HIDE DEF x
<1>3. Append(list, x) \in Bars
  BY <1>2, AppendFacts DEF Bars
<1>4. list # <<>> => [list EXCEPT ![1] = x] \in Bars
  <2> SUFFICES ASSUME list # <<>> PROVE [list EXCEPT ![1] = x] \in Bars
    OBVIOUS
  <2>1. 1 \in 1..Len(list)
    BY <1>2
  <2> QED BY <1>2, <2>1, ExceptSeq DEF Bars
<1>5. \/ ShowBar(list, restart, extra) \in {Append(list, x), list}
      \/ list # <<>> /\ ShowBar(list, restart, extra) = [list EXCEPT ![1] = x]
  BY DEF ShowBar, x
<1> QED BY <1>1, <1>3, <1>4, <1>5

\* n timers that start get n bars; a timer that restarts, its first bar again.
LEMMA CountShown ==
  ASSUME NEW list \in Bars, NEW restart, NEW extra \in Late, NEW n \in Nat
  PROVE  /\ Shown(list, restart, extra, n) \in Bars
         /\ n = 0 => Shown(list, restart, extra, n) = list
         /\ n = 1 => Shown(list, restart, extra, n) = ShowBar(list, restart, extra)
         /\ restart = "StartNewTimer" =>
              \A v \in Nat : HowMany(Shown(list, restart, extra, n), v)
                               = HowMany(list, v) + IF Duration + extra >= v THEN n ELSE 0
<1> DEFINE onward(q) == ShowBar(q, restart, extra)
           shown[k \in 0..n] == IF k = 0 THEN list ELSE ShowBar(shown[k - 1], restart, extra)
           g == [k \in 1..n |-> [q \in Bars |-> onward(q)]]
           T == {k \in 0..n : shown[k] \in Bars}
           U(v) == {k \in 0..n : HowMany(shown[k], v) = HowMany(list, v) + IF Duration + extra >= v THEN k ELSE 0}
<1>1. \A q \in Bars : onward(q) \in Bars
  BY ShowBarType
<1>2. Shown(list, restart, extra, n) = shown[n]
  BY Zenon DEF Shown
<1> HIDE DEF onward, shown, T, U
<1>3. \E f : f = [k \in 0..n |-> IF k = 0 THEN list ELSE onward(f[k - 1])]
  <2>1. g \in [1..n -> [Bars -> Bars]] /\ \A k \in 1..n : \A q \in Bars : g[k][q] = onward(q)
    BY <1>1
  <2> HIDE DEF g
  <2>2. PICK f \in [0..n -> Bars] : f[0] = list /\ \A k \in 1..n : f[k] = g[k][f[k - 1]]
    <3>1. \E f : CarriedBy(f, Bars, list, n, g)
      BY <2>1, CarriedThrough, Zenon
    <3> QED BY <3>1 DEF CarriedBy
  <2>3. \A k \in 0..n : f[k] = IF k = 0 THEN list ELSE onward(f[k - 1])
    <3> SUFFICES ASSUME NEW k \in 0..n, k # 0 PROVE f[k] = onward(f[k - 1])
      BY <2>2
    <3>1. k \in 1..n /\ k - 1 \in 0..n
      OBVIOUS
    <3>2. f[k - 1] \in Bars
      BY <2>2, <3>1
    <3> QED BY <2>1, <2>2, <3>1, <3>2
  <2>4. f = [k \in 0..n |-> IF k = 0 THEN list ELSE onward(f[k - 1])]
    <3>1. f = [k \in 0..n |-> f[k]]
      BY <2>2
    <3> QED BY <2>3, <3>1
  <2> QED BY <2>4
<1>4. shown = [k \in 0..n |-> IF k = 0 THEN list ELSE onward(shown[k - 1])]
  BY <1>3, Zenon DEF shown, onward
<1>5. shown[0] = list /\ 0 \in 0..n /\ \A k \in 1..n : shown[k] = onward(shown[k - 1]) /\ k \in 0..n /\ k - 1 \in 0..n
  <2>1. 0 \in 0..n /\ \A k \in 1..n : k \in 0..n /\ k # 0 /\ k - 1 \in 0..n
    OBVIOUS
  <2> QED BY <1>4, <2>1
<1>6. \A k \in 0..n : shown[k] \in Bars
  <2>1. 0 \in T
    BY <1>5 DEF T
  <2>2. ASSUME NEW k \in 1..n, k - 1 \in T PROVE k \in T
    BY <1>1, <1>5, <2>2 DEF T
  <2>3. \A k \in 0..n : k \in T
    BY <2>1, <2>2, StepByStep
  <2> QED BY <2>3 DEF T
<1>7. ASSUME restart = "StartNewTimer", NEW v \in Nat
      PROVE  HowMany(shown[n], v) = HowMany(list, v) + IF Duration + extra >= v THEN n ELSE 0
  <2>1. /\ Duration + extra \in Nat
        /\ \A k \in 0..n : shown[k] \in Seq(Nat) /\ HowMany(shown[k], v) \in Nat
    <3>1. Duration + extra \in Nat
      BY TriggerAssumption DEF Late
    <3>2. ASSUME NEW k \in 0..n PROVE shown[k] \in Seq(Nat)
      <4>1. shown[k] \in Bars
        BY <1>6
      <4>2. Duration \in Nat
        BY TriggerAssumption
      <4> HIDE DEF shown
      <4> QED BY <4>1, <4>2 DEF Bars
    <3> QED BY <3>1, <3>2, CountFacts
  <2>2. 0 \in U(v)
    BY <1>5, <2>1 DEF U
  <2>3. ASSUME NEW k \in 1..n, k - 1 \in U(v) PROVE k \in U(v)
    <3>1. shown[k] = Append(shown[k - 1], Duration + extra)
      BY <1>5, <1>7 DEF onward, ShowBar
    <3>2. HowMany(shown[k], v) = HowMany(shown[k - 1], v) + IF Duration + extra >= v THEN 1 ELSE 0
      <4>1. shown[k - 1] \in Seq(Nat) /\ Duration + extra \in Nat /\ v \in Nat
        BY <1>5, <2>1
      <4> QED BY <3>1, <4>1, CountAppended
    <3>3. HowMany(shown[k - 1], v) = HowMany(list, v) + IF Duration + extra >= v THEN k - 1 ELSE 0
      BY <2>3 DEF U
    <3>4. HowMany(list, v) \in Nat
      BY <1>5, <2>1
    <3>5. HowMany(shown[k], v) = HowMany(list, v) + IF Duration + extra >= v THEN k ELSE 0
      BY <3>2, <3>3, <3>4
    <3> QED BY <1>5, <3>5 DEF U
  <2>4. \A k \in 0..n : k \in U(v)
    BY <2>2, <2>3, StepByStep
  <2>5. n \in U(v)
    BY <2>4
  <2> QED BY <2>5 DEF U
<1>8. n = 1 => shown[n] = ShowBar(list, restart, extra)
  <2>1. ASSUME n = 1 PROVE shown[1] = onward(shown[1 - 1]) /\ 1 - 1 = 0
    <3>1. 1 \in 1..n
      BY <2>1
    <3> QED BY <1>5, <3>1
  <2> QED BY <1>5, <2>1 DEF onward
<1> QED BY <1>2, <1>5, <1>6, <1>7, <1>8

-----------------------------------------------------------------------------
(* Every timer has its bar                                                  *)

\* For every time v, as many bars as timers have at least v left.
Covered(timers, shown) == \A v \in Nat : HowMany(timers, v) <= HowMany(shown, v)

\* A timer that restarts is covered by the bar that restarts with it.
LEMMA OneCovered ==
  ASSUME NEW list \in Bars, NEW extra \in Late, NEW timers \in Seq(0..Duration), Len(timers) <= 1
  PROVE  Covered(timers, ShowBar(list, "RestartTimer", extra))
<1> DEFINE b == ShowBar(list, "RestartTimer", extra)
           x == Duration + extra
<1>1. b \in Bars /\ x \in Nat /\ Duration <= x /\ Duration \in Nat
  BY ShowBarType, TriggerAssumption DEF Late
<1>2. b \in Seq(Nat) /\ timers \in Seq(Nat) /\ list \in Seq(Nat)
  <2> HIDE DEF b
  <2> QED BY <1>1 DEF Bars
<1> HIDE DEF x
<1>3. \E i \in 1..Len(b) : b[i] = x
  <2>1. CASE list = <<>>
    <3>1. b = Append(list, x)
      BY <2>1 DEF ShowBar, x
    <3>2. Len(b) = Len(list) + 1 /\ b[Len(list) + 1] = x /\ Len(list) \in Nat
      BY <1>1, <1>2, <3>1, AppendFacts
    <3>3. Len(list) + 1 \in 1..Len(b)
      BY <3>2
    <3> QED BY <3>2, <3>3
  <2>2. CASE list # <<>>
    <3>1. b = [list EXCEPT ![1] = x]
      BY <2>2 DEF ShowBar, x
    <3>2. 1 \in 1..Len(list)
      BY <1>2, <2>2
    <3>3. Len(b) = Len(list) /\ b[1] = x
      BY <1>2, <3>1, <3>2
    <3> QED BY <3>2, <3>3
  <2> QED BY <2>1, <2>2
<1> HIDE DEF b
<1> SUFFICES ASSUME NEW v \in Nat PROVE HowMany(timers, v) <= HowMany(b, v)
  BY DEF Covered, b
<1>4. HowMany(timers, v) \in Nat /\ HowMany(timers, v) <= 1 /\ HowMany(b, v) \in Nat
  <2>1. HowMany(timers, v) \in Nat /\ HowMany(timers, v) <= Len(timers) /\ HowMany(b, v) \in Nat
    BY <1>2, CountFacts
  <2>2. Len(timers) \in Nat
    BY <1>2
  <2> QED BY <2>1, <2>2
<1>5. CASE v <= x
  <2>1. AtLeast(b, v) # {}
    BY <1>1, <1>3, <1>5 DEF AtLeast
  <2>2. HowMany(b, v) # 0
    <3>1. IsFiniteSet(AtLeast(b, v))
      BY <1>2, CountFacts
    <3> QED BY <2>1, <3>1, FS_EmptySet DEF HowMany
  <2> QED BY <1>4, <2>2
<1>6. CASE ~(v <= x)
  <2>1. AtLeast(timers, v) = {}
    <3>1. \A i \in 1..Len(timers) : timers[i] \in 0..Duration
      BY ElementOfSeq
    <3> QED BY <1>1, <1>6, <3>1 DEF AtLeast
  <2>2. HowMany(timers, v) = 0
    BY <2>1, FS_EmptySet DEF HowMany
  <2> QED BY <1>4, <2>2
<1> QED BY <1>5, <1>6

\* A timer that starts is covered by the bar that starts with it.
LEMMA AppendCovered ==
  ASSUME NEW list \in Bars, NEW extra \in Late, NEW timers \in Seq(0..Duration), Covered(timers, list)
  PROVE  Covered(Append(timers, Duration), ShowBar(list, "StartNewTimer", extra))
<1> DEFINE x == Duration + extra
<1>1. x \in Nat /\ Duration <= x /\ Duration \in Nat
  BY TriggerAssumption DEF Late
<1>2. ShowBar(list, "StartNewTimer", extra) = Append(list, x)
  BY DEF ShowBar
<1>3. timers \in Seq(Nat) /\ list \in Seq(Nat)
  BY <1>1 DEF Bars
<1> HIDE DEF x
<1> SUFFICES ASSUME NEW v \in Nat PROVE HowMany(Append(timers, Duration), v) <= HowMany(Append(list, x), v)
  BY <1>2 DEF Covered
<1>4. /\ HowMany(Append(timers, Duration), v) = HowMany(timers, v) + IF Duration >= v THEN 1 ELSE 0
      /\ HowMany(Append(list, x), v) = HowMany(list, v) + IF x >= v THEN 1 ELSE 0
  BY <1>1, <1>3, CountAppended
<1>5. HowMany(timers, v) \in Nat /\ HowMany(list, v) \in Nat /\ HowMany(timers, v) <= HowMany(list, v)
  BY <1>3, CountFacts DEF Covered
<1> QED BY <1>1, <1>4, <1>5

\* Time passes for both.
LEMMA PassedCovered ==
  ASSUME NEW list \in Seq(Nat), NEW timers \in Seq(Nat), Covered(timers, list)
  PROVE  Covered(Passed(timers), Passed(list))
<1> SUFFICES ASSUME NEW v \in Nat PROVE HowMany(Passed(timers), v) <= HowMany(Passed(list), v)
  BY DEF Covered
<1>1. CASE v = 0
  <2>1. 1 \in Nat \ {0} /\ 0 \in Nat
    OBVIOUS
  <2>2. /\ Passed(timers) \in Seq(Nat) /\ Len(Passed(timers)) = Len(timers)
        /\ Passed(list) \in Seq(Nat) /\ Len(Passed(list)) = Len(list)
    BY <2>1, CountPassed
  <2>3. HowMany(timers, 0) = Len(timers) /\ HowMany(list, 0) = Len(list)
        /\ HowMany(Passed(timers), 0) = Len(timers) /\ HowMany(Passed(list), 0) = Len(list)
    BY <2>1, <2>2, CountFacts
  <2> QED BY <1>1, <2>1, <2>3 DEF Covered
<1>2. CASE v # 0
  <2>1. HowMany(Passed(timers), v) = HowMany(timers, v + 1) /\ HowMany(Passed(list), v) = HowMany(list, v + 1)
    BY <1>2, CountPassed
  <2>2. v + 1 \in Nat
    OBVIOUS
  <2> QED BY <2>1, <2>2 DEF Covered
<1> QED BY <1>1, <1>2

\* After a tick nothing is at 0: what holds above 0 holds at 0.
LEMMA CoveredAboveZero ==
  ASSUME NEW list \in Seq(Nat), NEW m \in Nat, NEW timers \in Seq(1..m),
         \A v \in Nat \ {0} : HowMany(timers, v) <= HowMany(list, v)
  PROVE  Covered(timers, list)
<1>1. timers \in Seq(Nat) /\ \A i \in 1..Len(timers) : timers[i] >= 1 /\ timers[i] >= 0
  BY AppendFacts
<1>2. AtLeast(timers, 0) = AtLeast(timers, 1)
  BY <1>1 DEF AtLeast
<1>3. HowMany(timers, 0) = HowMany(timers, 1)
  BY <1>2 DEF HowMany
<1>4. HowMany(timers, 1) <= HowMany(list, 1) /\ HowMany(list, 0 + 1) <= HowMany(list, 0)
  BY CountFacts
<1>5. HowMany(timers, 1) \in Nat /\ HowMany(list, 1) \in Nat /\ HowMany(list, 0) \in Nat
  BY <1>1, CountFacts
<1>6. HowMany(timers, 0) <= HowMany(list, 0)
  BY <1>3, <1>4, <1>5
<1> QED BY <1>6 DEF Covered

\* Dropping what is over makes no list longer.
LEMMA RunningNoLonger ==
  ASSUME NEW m \in Nat, NEW list \in Seq(0..m)
  PROVE  Len(Running(list)) <= Len(list)
<1> DEFINE r == Running(list)
<1>1. r \in Seq(1..m) /\ HowMany(r, 1) = HowMany(list, 1)
  BY CountRunning
<1>2. list \in Seq(Nat)
  OBVIOUS
<1> HIDE DEF r
<1>3. r \in Seq(Nat) /\ \A i \in 1..Len(r) : r[i] >= 1 /\ r[i] >= 0
  BY <1>1, ElementOfSeq
<1>4. AtLeast(r, 0) = AtLeast(r, 1)
  BY <1>3 DEF AtLeast
<1>5. HowMany(r, 0) = HowMany(r, 1) /\ HowMany(r, 0) = Len(r) /\ HowMany(list, 1) <= Len(list)
  BY <1>2, <1>3, <1>4, CountFacts DEF HowMany
<1> QED BY <1>1, <1>5 DEF r

\* One driver iteration, for one trigger.
LEMMA TickCovered ==
  ASSUME NEW list \in Bars, NEW extra \in Late, NEW timers \in Seq(0..Duration), Covered(timers, list),
         NEW restart \in {"StartNewTimer", "RestartTimer"}, restart = "RestartTimer" => Len(timers) <= 1
  PROVE  /\ Covered(Running(timers), Running(list))
         /\ Covered(Rearmed(timers), Shown(Running(list), restart, extra, Cardinality(Due(timers))))
<1> DEFINE n == Cardinality(Due(timers))
           r == Running(list)
           s == Shown(r, restart, extra, n)
<1>1. Duration \in Nat /\ Duration + 1 \in Nat /\ Duration + extra \in Nat /\ Duration <= Duration + extra
  BY TriggerAssumption DEF Late
<1>2. /\ r \in Seq(1..(Duration + 1)) /\ \A v \in Nat \ {0} : HowMany(r, v) = HowMany(list, v)
      /\ Running(timers) \in Seq(1..Duration)
      /\ \A v \in Nat \ {0} : HowMany(Running(timers), v) = HowMany(timers, v)
  BY <1>1, CountRunning DEF Bars
<1>3. /\ Rearmed(timers) \in Seq(1..Duration) /\ Len(Rearmed(timers)) = Len(timers) /\ n \in 0..Len(timers)
      /\ \A v \in Nat \ {0} : HowMany(Rearmed(timers), v) = HowMany(timers, v) + IF Duration >= v THEN n ELSE 0
  <2>1. 1 \in Nat \ {0}
    OBVIOUS
  <2> QED BY <2>1, CountRearmed
<1> HIDE DEF n, r
<1>4. r \in Bars /\ r \in Seq(Nat) /\ n \in Nat /\ list \in Seq(Nat) /\ timers \in Seq(Nat) /\ Len(timers) \in Nat
  <2>1. r \in Bars /\ r \in Seq(Nat)
    BY <1>1, <1>2 DEF Bars
  <2>2. list \in Seq(Nat) /\ timers \in Seq(Nat)
    BY <1>1 DEF Bars
  <2> QED BY <1>3, <2>1, <2>2
<1>5. \A v \in Nat \ {0} : HowMany(timers, v) <= HowMany(r, v)
  BY <1>2 DEF Covered
<1>6. Covered(Running(timers), r)
  <2>1. \A v \in Nat \ {0} : HowMany(Running(timers), v) <= HowMany(r, v)
    BY <1>2, <1>5
  <2> QED BY <1>1, <1>2, <1>4, <2>1, CoveredAboveZero
<1>7. /\ s \in Bars
      /\ n = 0 => s = r
      /\ n = 1 => s = ShowBar(r, restart, extra)
      /\ restart = "StartNewTimer" =>
           \A v \in Nat : HowMany(s, v) = HowMany(r, v) + IF Duration + extra >= v THEN n ELSE 0
  BY <1>4, CountShown
<1>8. Covered(Rearmed(timers), s)
  <2>1. CASE restart = "StartNewTimer"
    <3>1. s \in Seq(Nat)
      <4> HIDE DEF s
      <4> QED BY <1>1, <1>7 DEF Bars
    <3>2. ASSUME NEW v \in Nat \ {0} PROVE HowMany(Rearmed(timers), v) <= HowMany(s, v)
      <4>1. HowMany(timers, v) \in Nat /\ HowMany(r, v) \in Nat
        BY <1>4, CountFacts
      <4>2. HowMany(s, v) = HowMany(r, v) + IF Duration + extra >= v THEN n ELSE 0
        BY <1>7, <2>1
      <4> HIDE DEF s
      <4> QED BY <1>1, <1>3, <1>4, <1>5, <4>1, <4>2
    <3> QED BY <1>1, <1>3, <3>1, <3>2, CoveredAboveZero
  <2>2. CASE restart = "RestartTimer"
    <3>1. n = 0 \/ n = 1
      BY <1>3, <1>4, <2>2
    <3>2. CASE n = 0
      <4>1. \A v \in Nat \ {0} : HowMany(Rearmed(timers), v) <= HowMany(r, v)
        <5>1. \A v \in Nat \ {0} : HowMany(timers, v) \in Nat
          BY <1>4, CountFacts
        <5> QED BY <1>3, <1>5, <3>2, <5>1
      <4>2. Covered(Rearmed(timers), r)
        BY <1>1, <1>3, <1>4, <4>1, CoveredAboveZero
      <4> QED BY <1>7, <3>2, <4>2
    <3>3. CASE n = 1
      <4>1. Rearmed(timers) \in Seq(0..Duration) /\ Len(Rearmed(timers)) <= 1
        <5>1. Rearmed(timers) \in Seq(0..Duration)
          BY <1>1, <1>3
        <5> QED BY <1>3, <2>2, <5>1
      <4> QED BY <1>4, <1>7, <2>2, <3>3, <4>1, OneCovered
    <3> QED BY <3>1, <3>2, <3>3
  <2> QED BY <2>1, <2>2
<1> QED BY <1>6, <1>8 DEF r, n

\* What the invariant asks of one trigger's timers and bars.
TriggerInv(set, timers, shown) ==
  /\ timers \in Seq(0..Duration) /\ shown \in Bars
  /\ set.restart # "DoNothing" => Covered(timers, shown)
  /\ set.restart = "RestartTimer" => Len(timers) <= 1

\* A line matches.
LEMMA MatchedTrigger ==
  ASSUME NEW set \in Settings, NEW timers, NEW shown, TriggerInv(set, timers, shown), NEW extra \in Late
  PROVE  /\ timers # <<>> /\ set.restart = "RestartTimer" =>
              TriggerInv(set, [timers EXCEPT ![1] = Duration], ShowBar(shown, set.restart, extra))
         /\ timers = <<>> \/ set.restart = "StartNewTimer" =>
              TriggerInv(set, Append(timers, Duration), ShowBar(shown, set.restart, extra))
<1>1. timers \in Seq(0..Duration) /\ shown \in Bars /\ Duration \in 0..Duration
  BY TriggerAssumption DEF TriggerInv
<1>2. ShowBar(shown, set.restart, extra) \in Bars
  BY <1>1, ShowBarType
<1>3. ASSUME timers # <<>>, set.restart = "RestartTimer"
      PROVE  TriggerInv(set, [timers EXCEPT ![1] = Duration], ShowBar(shown, set.restart, extra))
  <2>1. 1 \in 1..Len(timers)
    BY <1>1, <1>3
  <2>2. /\ [timers EXCEPT ![1] = Duration] \in Seq(0..Duration)
        /\ Len([timers EXCEPT ![1] = Duration]) = Len(timers)
    BY <1>1, <2>1, ExceptSeq
  <2>3. Len(timers) <= 1
    BY <1>3 DEF TriggerInv
  <2>4. Covered([timers EXCEPT ![1] = Duration], ShowBar(shown, set.restart, extra))
    BY <1>1, <1>3, <2>2, <2>3, OneCovered
  <2> QED BY <1>2, <1>3, <2>2, <2>3, <2>4 DEF TriggerInv
<1>4. Append(timers, Duration) \in Seq(0..Duration) /\ Len(Append(timers, Duration)) = Len(timers) + 1
  BY <1>1, AppendFacts
<1>5. ASSUME set.restart = "StartNewTimer"
      PROVE  TriggerInv(set, Append(timers, Duration), ShowBar(shown, set.restart, extra))
  <2>1. Covered(timers, shown)
    BY <1>5 DEF TriggerInv
  <2>2. Covered(Append(timers, Duration), ShowBar(shown, set.restart, extra))
    BY <1>1, <1>5, <2>1, AppendCovered
  <2> QED BY <1>2, <1>4, <1>5, <2>2 DEF TriggerInv
<1>6. ASSUME timers = <<>>, set.restart # "StartNewTimer"
      PROVE  TriggerInv(set, Append(timers, Duration), ShowBar(shown, set.restart, extra))
  <2>1. Len(Append(timers, Duration)) <= 1
    BY <1>4, <1>6
  <2>2. set.restart = "RestartTimer" \/ set.restart = "DoNothing"
    BY <1>6 DEF Settings, Restart
  <2>3. set.restart = "RestartTimer" => Covered(Append(timers, Duration), ShowBar(shown, set.restart, extra))
    BY <1>1, <1>4, <2>1, OneCovered
  <2> QED BY <1>2, <1>4, <2>1, <2>2, <2>3 DEF TriggerInv
<1> QED BY <1>3, <1>5, <1>6

\* A line ends the timers early.
LEMMA EndedTrigger ==
  ASSUME NEW set, NEW timers, NEW shown, TriggerInv(set, timers, shown)
  PROVE  TriggerInv(set, <<>>, HideBars(shown, Len(timers)))
<1>1. timers \in Seq(0..Duration) /\ shown \in Bars /\ Len(timers) \in Nat
  BY DEF TriggerInv
<1>2. HideBars(shown, Len(timers)) \in Bars
  <2>1. Len(shown) \in 0..Len(shown) /\ shown \in Seq(0..(Duration + 1))
    BY <1>1 DEF Bars
  <2> QED BY <1>1, <2>1, PartFacts DEF HideBars, Bars
<1>3. HideBars(shown, Len(timers)) \in Seq(Nat)
  <2>1. Duration + 1 \in Nat
    BY TriggerAssumption
  <2> QED BY <1>2, <2>1 DEF Bars
<1>4. ASSUME NEW v \in Nat PROVE HowMany(<<>>, v) <= HowMany(HideBars(shown, Len(timers)), v)
  <2>1. AtLeast(<<>>, v) = {}
    BY DEF AtLeast
  <2>2. HowMany(<<>>, v) = 0
    BY <2>1, FS_EmptySet DEF HowMany
  <2>3. HowMany(HideBars(shown, Len(timers)), v) \in Nat
    BY <1>3, CountFacts
  <2> QED BY <2>2, <2>3
<1>5. <<>> \in Seq(0..Duration) /\ Len(<<>>) <= 1
  OBVIOUS
<1> QED BY <1>2, <1>4, <1>5 DEF TriggerInv, Covered

\* A driver iteration.
LEMMA TickedTrigger ==
  ASSUME NEW set \in Settings, NEW timers, NEW shown, TriggerInv(set, timers, shown), NEW extra \in Late
  PROVE  /\ TriggerInv(set, Running(timers), Running(shown))
         /\ TriggerInv(set, Rearmed(timers), Shown(Running(shown), set.restart, extra, Cardinality(Due(timers))))
<1> DEFINE n == Cardinality(Due(timers))
<1>1. timers \in Seq(0..Duration) /\ shown \in Bars /\ Duration \in Nat /\ Duration + 1 \in Nat /\ 1 \in Nat \ {0}
  BY TriggerAssumption DEF TriggerInv
<1>2. Rearmed(timers) \in Seq(1..Duration) /\ Len(Rearmed(timers)) = Len(timers) /\ n \in Nat
  <2>1. Len(timers) \in Nat
    BY <1>1
  <2> QED BY <1>1, <2>1, CountRearmed
<1>3. Running(timers) \in Seq(1..Duration) /\ Len(Running(timers)) <= Len(timers)
  BY <1>1, CountRunning, RunningNoLonger
<1>4. Running(shown) \in Bars
  <2>1. Running(shown) \in Seq(1..(Duration + 1))
    BY <1>1, CountRunning DEF Bars
  <2> QED BY <1>1, <2>1 DEF Bars
<1> HIDE DEF n
<1>5. Shown(Running(shown), set.restart, extra, n) \in Bars
  BY <1>2, <1>4, CountShown
<1>6. Rearmed(timers) \in Seq(0..Duration) /\ Running(timers) \in Seq(0..Duration)
  BY <1>1, <1>2, <1>3
<1>7. ASSUME set.restart # "DoNothing"
      PROVE  /\ Covered(Running(timers), Running(shown))
             /\ Covered(Rearmed(timers), Shown(Running(shown), set.restart, extra, n))
  <2>1. set.restart \in {"StartNewTimer", "RestartTimer"}
    BY <1>7 DEF Settings, Restart
  <2>2. Covered(timers, shown) /\ (set.restart = "RestartTimer" => Len(timers) <= 1)
    BY <1>7 DEF TriggerInv
  <2> QED BY <1>1, <2>1, <2>2, TickCovered DEF n
<1>8. ASSUME set.restart = "RestartTimer" PROVE Len(Running(timers)) <= 1 /\ Len(Rearmed(timers)) <= 1
  <2>1. Len(timers) <= 1 /\ Len(timers) \in Nat /\ Len(Running(timers)) \in Nat
    BY <1>1, <1>3, <1>8 DEF TriggerInv
  <2> QED BY <1>2, <1>3, <2>1
<1> QED BY <1>4, <1>5, <1>6, <1>7, <1>8 DEF TriggerInv, n

\* Time passes.
LEMMA PassedTrigger ==
  ASSUME NEW set, NEW timers, NEW shown, TriggerInv(set, timers, shown)
  PROVE  TriggerInv(set, Passed(timers), Passed(shown))
<1>1. timers \in Seq(0..Duration) /\ shown \in Seq(0..(Duration + 1)) /\ Duration \in Nat /\ Duration + 1 \in Nat
  BY TriggerAssumption DEF TriggerInv, Bars
<1>2. ASSUME NEW m \in Nat, NEW list \in Seq(0..m) PROVE Passed(list) \in Seq(0..m) /\ Len(Passed(list)) = Len(list)
  <2>1. \A i \in 1..Len(list) : (IF list[i] = 0 THEN 0 ELSE list[i] - 1) \in 0..m
    <3>1. \A i \in 1..Len(list) : list[i] \in 0..m
      BY ElementOfSeq
    <3> QED BY <3>1
  <2>2. Len(list) \in Nat
    OBVIOUS
  <2> QED BY <2>1, <2>2 DEF Passed
<1>3. Passed(timers) \in Seq(0..Duration) /\ Len(Passed(timers)) = Len(timers) /\ Passed(shown) \in Bars
  BY <1>1, <1>2 DEF Bars
<1>4. timers \in Seq(Nat) /\ shown \in Seq(Nat)
  BY <1>1
<1> QED BY <1>3, <1>4, PassedCovered DEF TriggerInv

\* The invariant of the triggers: it says of each what TriggerInv does.
AllTriggers ==
  /\ settings \in [Trigger -> Settings]
  /\ active \in [Trigger -> Seq(0..Duration)] /\ bars \in [Trigger -> Bars]
  /\ \A t \in Trigger : TriggerInv(settings[t], active[t], bars[t])

LEMMA TriggersStep == AllTriggers /\ [TriggersNext]_triggerVars => AllTriggers'
<1> SUFFICES ASSUME AllTriggers, [TriggersNext]_triggerVars PROVE AllTriggers'
  OBVIOUS
<1>1. /\ settings \in [Trigger -> Settings] /\ active \in [Trigger -> Seq(0..Duration)]
      /\ bars \in [Trigger -> Bars] /\ \A t \in Trigger : TriggerInv(settings[t], active[t], bars[t])
  BY DEF AllTriggers
\* One trigger changes.
<1>2. ASSUME NEW t \in Trigger, NEW a, NEW b, TriggerInv(settings[t], a, b), UNCHANGED settings,
             active' = [active EXCEPT ![t] = a], bars' = [bars EXCEPT ![t] = b]
      PROVE  AllTriggers'
  <2>1. a \in Seq(0..Duration) /\ b \in Bars
    BY <1>2 DEF TriggerInv
  <2>2. active' \in [Trigger -> Seq(0..Duration)] /\ bars' \in [Trigger -> Bars]
    BY <1>1, <1>2, <2>1
  <2>3. ASSUME NEW u \in Trigger PROVE TriggerInv(settings'[u], active'[u], bars'[u])
    <3>1. CASE u = t
      BY <1>1, <1>2, <3>1
    <3>2. CASE u # t
      <4>1. settings'[u] = settings[u] /\ active'[u] = active[u] /\ bars'[u] = bars[u]
        BY <1>1, <1>2, <3>2
      <4> QED BY <1>1, <4>1
    <3> QED BY <3>1, <3>2
  <2> QED BY <1>1, <1>2, <2>2, <2>3 DEF AllTriggers, Bars
\* All of them do.
<1>3. ASSUME UNCHANGED settings, DOMAIN active' = Trigger, DOMAIN bars' = Trigger,
             active' = [t \in Trigger |-> active'[t]], bars' = [t \in Trigger |-> bars'[t]],
             \A t \in Trigger : TriggerInv(settings[t], active'[t], bars'[t])
      PROVE  AllTriggers'
  <2>1. \A t \in Trigger : active'[t] \in Seq(0..Duration) /\ bars'[t] \in Bars
    BY <1>3 DEF TriggerInv
  <2>2. active' \in [Trigger -> Seq(0..Duration)] /\ bars' \in [Trigger -> Bars]
    BY <1>3, <2>1
  <2> QED BY <1>1, <1>3, <2>2 DEF AllTriggers, Bars
<1>4. ASSUME NEW t \in Trigger, NEW extra \in Late, Match(t, extra) PROVE AllTriggers'
  <2> DEFINE b == ShowBar(bars[t], settings[t].restart, extra)
  <2>1. UNCHANGED settings /\ bars' = [bars EXCEPT ![t] = b]
    BY <1>4 DEF Match
  <2>2. settings[t] \in Settings /\ TriggerInv(settings[t], active[t], bars[t])
    BY <1>1
  <2>3. CASE /\ active[t] # <<>> /\ settings[t].restart = "RestartTimer"
             /\ active' = [active EXCEPT ![t][1] = Duration]
    <3>1. TriggerInv(settings[t], [active[t] EXCEPT ![1] = Duration], b)
      BY <2>2, <2>3, MatchedTrigger
    <3>2. active' = [active EXCEPT ![t] = [active[t] EXCEPT ![1] = Duration]]
      BY <2>3
    <3> HIDE DEF b
    <3> QED BY <1>2, <2>1, <3>1, <3>2
  <2>4. CASE /\ active[t] = <<>> \/ settings[t].restart = "StartNewTimer"
             /\ active' = [active EXCEPT ![t] = Append(@, Duration)]
    <3>1. TriggerInv(settings[t], Append(active[t], Duration), b)
      BY <2>2, <2>4, MatchedTrigger
    <3>2. active' = [active EXCEPT ![t] = Append(active[t], Duration)]
      BY <2>4
    <3> HIDE DEF b
    <3> QED BY <1>2, <2>1, <3>1, <3>2
  <2> QED BY <1>4, <2>3, <2>4 DEF Match
<1>5. ASSUME NEW t \in Trigger, EndEarly(t) PROVE AllTriggers'
  <2>1. TriggerInv(settings[t], <<>>, HideBars(bars[t], Len(active[t])))
    BY <1>1, EndedTrigger
  <2>2. /\ UNCHANGED settings /\ active' = [active EXCEPT ![t] = <<>>]
        /\ bars' = [bars EXCEPT ![t] = HideBars(bars[t], Len(active[t]))]
    BY <1>5 DEF EndEarly
  <2> QED BY <1>2, <2>1, <2>2
<1>6. ASSUME NEW extra \in Late, Ticks(extra) PROVE AllTriggers'
  <2> DEFINE s(t) == Shown(Running(bars[t]), settings[t].restart, extra, Cardinality(Due(active[t])))
  <2>1. ASSUME NEW t \in Trigger
        PROVE  /\ TriggerInv(settings[t], Running(active[t]), Running(bars[t]))
               /\ TriggerInv(settings[t], Rearmed(active[t]), s(t))
    <3>1. settings[t] \in Settings /\ TriggerInv(settings[t], active[t], bars[t])
      BY <1>1
    <3> QED BY <3>1, TickedTrigger
  <2>2. /\ UNCHANGED settings
        /\ active' = [t \in Trigger |-> IF settings[t].repeats THEN Rearmed(active[t]) ELSE Running(active[t])]
        /\ bars' = [t \in Trigger |-> IF settings[t].repeats THEN s(t) ELSE Running(bars[t])]
    BY <1>6 DEF Ticks
  <2> HIDE DEF s
  <2>3. \A t \in Trigger : TriggerInv(settings[t], active'[t], bars'[t])
    BY <2>1, <2>2
  <2> QED BY <1>3, <2>2, <2>3
<1>7. ASSUME Passes PROVE AllTriggers'
  <2>1. \A t \in Trigger : TriggerInv(settings[t], Passed(active[t]), Passed(bars[t]))
    BY <1>1, PassedTrigger
  <2>2. /\ UNCHANGED settings
        /\ active' = [t \in Trigger |-> Passed(active[t])] /\ bars' = [t \in Trigger |-> Passed(bars[t])]
    BY <1>7 DEF Passes
  <2>3. \A t \in Trigger : TriggerInv(settings[t], active'[t], bars'[t])
    BY <2>1, <2>2
  <2> QED BY <1>3, <2>2, <2>3
<1>8. ASSUME UNCHANGED triggerVars PROVE AllTriggers'
  BY <1>1, <1>8 DEF triggerVars, AllTriggers, Bars
<1> QED BY <1>4, <1>5, <1>6, <1>7, <1>8 DEF TriggersNext

\* Without timers nothing needs a bar.
LEMMA TriggersStart == TriggersInit => AllTriggers
<1> SUFFICES ASSUME TriggersInit PROVE AllTriggers
  OBVIOUS
<1>1. <<>> \in Seq(0..Duration) /\ <<>> \in Bars /\ Len(<<>>) <= 1
  BY DEF Bars
<1>2. Covered(<<>>, <<>>)
  <2>1. <<>> \in Seq(Nat)
    OBVIOUS
  <2> SUFFICES ASSUME NEW v \in Nat PROVE HowMany(<<>>, v) <= HowMany(<<>>, v)
    BY DEF Covered
  <2>2. HowMany(<<>>, v) \in Nat
    BY <2>1, CountFacts
  <2> QED BY <2>2
<1> QED BY <1>1, <1>2 DEF TriggersInit, AllTriggers, TriggerInv

\* The engine and the timer window keep their types.
THEOREM TriggersTypes == TriggersSpec => []TriggersTypeOK
<1>1. AllTriggers => TriggersTypeOK
  BY DEF AllTriggers, TriggersTypeOK, Bars
<1> QED BY <1>1, TriggersStart, TriggersStep, PTL DEF TriggersSpec

\* Every running timer of a trigger that restarts or starts anew has a bar, for any
\* triggers and durations: add_timer, cancel and the two ticks never leave one without.
THEOREM TriggersAreShown == TriggersSpec => []TimersAreShown
<1>1. AllTriggers => TimersAreShown
  <2> SUFFICES ASSUME AllTriggers, NEW t \in Trigger, settings[t].restart # "DoNothing"
               PROVE  Len(active[t]) <= Len(bars[t])
    BY DEF TimersAreShown
  <2>1. active[t] \in Seq(0..Duration) /\ bars[t] \in Seq(0..(Duration + 1)) /\ Covered(active[t], bars[t])
    BY DEF AllTriggers, TriggerInv, Bars
  <2>2. Duration \in Nat /\ Duration + 1 \in Nat
    BY TriggerAssumption
  <2>3. active[t] \in Seq(Nat) /\ bars[t] \in Seq(Nat)
    BY <2>1, <2>2
  <2>4. HowMany(active[t], 0) = Len(active[t]) /\ HowMany(bars[t], 0) = Len(bars[t])
    <3>1. 0 \in Nat
      OBVIOUS
    <3> QED BY <2>3, <3>1, CountFacts
  <2> QED BY <2>1, <2>4 DEF Covered
<1> QED BY <1>1, TriggersStart, TriggersStep, PTL DEF TriggersSpec

-----------------------------------------------------------------------------
(* The services together                                                    *)

\* Every component keeps its own specification while another one runs.
LEMMA PartsAsBefore ==
  ServicesSpec => /\ HubInit /\ [][HubNext]_hubVars
                  /\ GateInit /\ [][GateNext]_gateVars
                  /\ HostSpec /\ FightsSpec /\ ChainSpec /\ WatchSpec /\ UploadsSpec /\ SpeechSpec
                  /\ InstallSpec /\ TriggersSpec /\ LocationSpec
<1>1. ServicesInit => /\ HubInit /\ GateInit /\ HostInit /\ FightsInit /\ ChainInit /\ WatchInit
                      /\ UploadsInit /\ SpeechInit /\ InstallInit /\ TriggersInit /\ LocationInit
  BY DEF ServicesInit
<1>2. [ServicesNext]_servicesVars =>
        /\ [HubNext]_hubVars /\ [GateNext]_gateVars /\ [HostNext]_hostVars /\ [FightsNext]_fightVars
        /\ [ChainNext]_chainVars /\ [WatchNext]_watchVars /\ [UploadsNext]_uploadVars
        /\ [SpeechNext]_speechVars /\ [InstallNext]_installVars /\ [TriggersNext]_triggerVars
        /\ [LocationNext]_locationVars
  BY Zenon DEF ServicesNext, servicesVars, NoHub, NoGate, NoHost, NoFights, NoDumps, NoChain, NoOthers
<1> QED BY <1>1, <1>2, PTL
     DEF ServicesSpec, HostSpec, FightsSpec, ChainSpec, WatchSpec, UploadsSpec, SpeechSpec,
         InstallSpec, TriggersSpec, LocationSpec

\* Type correctness of the services together, whichever of them runs.
THEOREM ServicesTypes == ServicesSpec => []ServicesTypeOK
<1>1. EscapeInv => GateTypeOK
  BY DEF EscapeInv
<1>2. SessionInv => HubTypeOK
  BY DEF SessionInv
<1>3. /\ HubTypeOK /\ GateTypeOK /\ HostTypeOK /\ FightsTypeOK /\ ChainTypeOK /\ WatchTypeOK
      /\ UploadsTypeOK /\ SpeechTypeOK /\ InstallTypeOK /\ LocationTypeOK /\ TriggersTypeOK
      => ServicesTypeOK
  BY Zenon DEF ServicesTypeOK
<1> QED BY <1>1, <1>2, <1>3, PartsAsBefore, SessionInit, SessionStep, EscapeInit, EscapeStep, HostTypes,
           FightsTypes, ChainTypes, WatchTypes, UploadsTypes, SpeechTypes, InstallTypes, LocationTypes,
           TriggersTypes, PTL

\* The safety of every component is that of the services together: what the run
\* checks of one at a time holds of them all, for any values of the constants.
THEOREM ServicesAreSafe ==
  ServicesSpec => /\ [](StaleGroupIsClosing /\ OneEscapes /\ HooksFollowStatus /\ RowsFollowStatus /\ StrangersAsk)
                  /\ [](BestWindowExact /\ LibraryCatchesUp /\ OneJobStrays /\ OneLink /\ AtMostOneMore)
                  /\ [](OldCopySurvives /\ TimersAreShown /\ ZonesHaveSenders)
                  /\ WarnsWhenNext
<1>1. EscapeInv => OneEscapes
  BY DEF EscapeInv, OneEscapes, GateTypeOK, InHand, Admitted
<1>2. SessionInv => StaleGroupIsClosing
  BY DEF SessionInv
<1> QED BY <1>1, <1>2, PartsAsBefore, SessionInit, SessionStep, EscapeInit, EscapeStep, HostHooksFollowStatus,
           HostRowsFollowStatus, HostStrangersAsk, CarriedBestIsExact, WatchLibraryCatchesUp,
           UploadsOneJobStrays, UploadsOneLink, SpeechAtMostOneMore, InstallOldCopySurvives,
           TriggersAreShown, LocationZonesHaveSenders, ChainWarnsWhenNext, PTL
=============================================================================
