--------------------------- MODULE LogTailProofs ----------------------------
(***************************************************************************)
(* The tail and the archiver, for any texts, any bounds and any number of   *)
(* swaps and hand-made emptyings: types, no line parsed or archived twice   *)
(* or out of order, and, as long as the signature tells the file apart from *)
(* the one the tail left off in, nothing left behind by a poll and nothing  *)
(* but lines finished after it lost to a swap.                              *)
(***************************************************************************)
EXTENDS LogTail, SequenceFacts

\* The place of a piece in all the client writes.
Index(piece) == IF piece[2] = "text" THEN 2 * piece[1] - 1 ELSE 2 * piece[1]

\* How much of that is no longer in the file.
Base == written - Len(log)

\* The file holds the last pieces written, in order.
LogInv ==
  /\ Len(log) <= written
  /\ \A k \in 1..Len(log) : Index(log[k]) = Base + k

-----------------------------------------------------------------------------
(* Pieces and parts of the file                                             *)

LEMMA PieceFacts ==
  /\ \A p \in Piece : /\ p[1] \in Line /\ p[1] \in Nat /\ p[2] \in {"text", "end"}
                      /\ p = <<p[1], p[2]>> /\ Index(p) \in Nat
                      /\ p[2] = "end" => Index(p) = 2 * p[1]
                      /\ p[2] = "text" => Index(p) = 2 * p[1] - 1
  /\ \A p, q \in Piece : Index(p) = Index(q) => p = q
  /\ \A p, q \in Piece : Index(p) < Index(q) =>
       p[1] < q[1] \/ (p = <<q[1], "text">> /\ q[2] = "end")
<1> USE BoundAssumption
<1>1. ASSUME NEW p \in Piece
      PROVE  /\ p[1] \in Line /\ p[1] \in Nat /\ p[2] \in {"text", "end"}
             /\ p = <<p[1], p[2]>> /\ Index(p) \in Nat
             /\ p[2] = "end" => Index(p) = 2 * p[1]
             /\ p[2] = "text" => Index(p) = 2 * p[1] - 1
  <2>1. p[1] \in Line /\ p[2] \in {"text", "end"} /\ p = <<p[1], p[2]>>
    BY DEF Piece
  <2>2. p[1] \in Nat /\ p[1] >= 1
    BY <2>1 DEF Line
  <2> QED BY <2>1, <2>2 DEF Index
<1>2. ASSUME NEW p \in Piece, NEW q \in Piece
      PROVE  /\ Index(p) = Index(q) => p = q
             /\ Index(p) < Index(q) => p[1] < q[1] \/ (p = <<q[1], "text">> /\ q[2] = "end")
  <2>1. p[1] \in Nat /\ q[1] \in Nat
    BY <1>1
  <2>2. p[2] \in {"text", "end"} /\ q[2] \in {"text", "end"} /\ p = <<p[1], p[2]>> /\ q = <<q[1], q[2]>>
    BY <1>1
  <2>3. Index(p) = Index(q) => p[1] = q[1] /\ p[2] = q[2]
    BY <2>1, <2>2 DEF Index
  <2>4. Index(p) < Index(q) => p[1] < q[1] \/ (p[1] = q[1] /\ p[2] = "text" /\ q[2] = "end")
    BY <2>1, <2>2 DEF Index
  <2> QED BY <2>2, <2>3, <2>4
<1> QED BY <1>1, <1>2

LEMMA LastNFacts ==
  ASSUME NEW S, NEW s \in Seq(S), NEW n \in Nat
  PROVE  /\ LastN(s, n) \in Seq(S)
         /\ Len(LastN(s, n)) = IF n <= Len(s) THEN n ELSE Len(s)
         /\ \A j \in 1..Len(LastN(s, n)) :
              LastN(s, n)[j] = s[Len(s) - Len(LastN(s, n)) + j]
<1> DEFINE c == IF n <= Len(s) THEN n ELSE Len(s)
           a == Len(s) - c
<1>1. c \in Nat /\ a \in Nat /\ Len(s) \in 0..Len(s) /\ a <= Len(s) /\ Len(s) - a = c
  OBVIOUS
<1>2. Min({n, Len(s)}) = c
  BY SmallerOfTwo
<1>3. LastN(s, n) = SubSeq(s, a + 1, Len(s))
  BY <1>2 DEF LastN
<1> HIDE DEF c, a
<1>4. /\ SubSeq(s, a + 1, Len(s)) \in Seq(S) /\ Len(SubSeq(s, a + 1, Len(s))) = c
      /\ \A i \in 1..c : SubSeq(s, a + 1, Len(s))[i] = s[a + i]
  BY <1>1, PartFacts
<1>5. a = Len(s) - c
  BY <1>1
<1> QED BY <1>3, <1>4, <1>5 DEF c

\* The file, by its places.
LEMMA FileFacts ==
  ASSUME log \in Seq(Piece), written \in Nat, LogInv
  PROVE  /\ Base \in Nat /\ Len(log) \in Nat
         /\ \A k \in 1..Len(log) : log[k] \in Piece
         /\ \A k \in Ends(log) : k \in 1..Len(log) /\ 2 * log[k][1] = Base + k
         /\ \A k : k \in Whole(log) <=> k \in Ends(log) /\ k > 1
         /\ \A k \in Whole(log) : k - 1 \in 1..Len(log) /\ log[k - 1] = <<log[k][1], "text">>
<1>1. Base \in Nat /\ Len(log) \in Nat
  BY DEF LogInv, Base
<1>2. \A k \in 1..Len(log) : log[k] \in Piece /\ Index(log[k]) = Base + k
  BY DEF LogInv
<1>3. \A k \in Ends(log) : k \in 1..Len(log) /\ 2 * log[k][1] = Base + k
  BY <1>2, PieceFacts DEF Ends
<1>4. ASSUME NEW k \in Ends(log), k > 1
      PROVE  k - 1 \in 1..Len(log) /\ log[k - 1] = <<log[k][1], "text">>
  <2>1. k \in 1..Len(log) /\ k - 1 \in 1..Len(log)
    BY <1>1, <1>4 DEF Ends
  <2>2. /\ log[k] \in Piece /\ log[k - 1] \in Piece
        /\ Index(log[k]) = Base + k /\ Index(log[k - 1]) = Base + k - 1 /\ log[k][2] = "end"
    BY <1>1, <1>2, <2>1 DEF Ends
  <2>3. Index(log[k - 1]) < Index(log[k])
    BY <1>1, <2>1, <2>2
  <2>4. log[k - 1][1] < log[k][1] \/ log[k - 1] = <<log[k][1], "text">>
    BY <2>2, <2>3, PieceFacts
  <2>5. ~(log[k - 1][1] < log[k][1])
    <3>1. log[k - 1][1] \in Nat /\ log[k][1] \in Nat
      BY <2>2, PieceFacts
    <3>2. 2 * log[k][1] = Base + k
      BY <1>3
    <3>3. Index(log[k - 1]) = 2 * log[k - 1][1] \/ Index(log[k - 1]) = 2 * log[k - 1][1] - 1
      BY <2>2, PieceFacts
    <3>4. 2 * log[k - 1][1] >= Base + k - 1
      BY <1>1, <2>1, <2>2, <3>1, <3>3
    <3> QED BY <1>1, <2>1, <3>1, <3>2, <3>4
  <2> QED BY <2>1, <2>4, <2>5
<1>5. \A k : k \in Whole(log) <=> k \in Ends(log) /\ k > 1
  BY <1>4 DEF Whole
<1>6. \A k \in 1..Len(log) : log[k] \in Piece
  BY <1>2
<1> QED BY <1>1, <1>3, <1>4, <1>5, <1>6

-----------------------------------------------------------------------------
(* What a poll makes of what it reads                                       *)

\* The whole lines of some pieces, one by one.
LinesAt(ends, read, pieces) ==
  /\ ends \in [1..Len(read) -> Whole(pieces)]
  /\ \A i \in 1..Len(read) : read[i] = pieces[ends[i]][1]
  /\ \A i, j \in 1..Len(read) : i < j => ends[i] < ends[j]
  /\ \A k \in Whole(pieces) : \E i \in 1..Len(read) : ends[i] = k

LEMMA CompleteFacts ==
  ASSUME NEW pieces \in Seq(Piece), NEW read, read = Complete(pieces)
  PROVE  read \in Seq(Line) /\ \E ends : LinesAt(ends, read, pieces)
<1> DEFINE W == Whole(pieces)
           c == Cardinality(W)
           ends == InOrder(W)
<1>1. Len(pieces) \in Nat /\ W \in SUBSET (1..Len(pieces))
  BY DEF Whole, Ends
<1> HIDE DEF W
<1>2. /\ c \in Nat
      /\ \E q \in [1..c -> W] : \A i, j \in 1..c : i < j => q[i] < q[j]
  BY <1>1, OrderedEnumeration
<1>3. ends \in [1..c -> W] /\ \A i, j \in 1..c : i < j => ends[i] < ends[j]
  BY <1>2 DEF InOrder
<1>4. \A k \in W : \E i \in 1..c : ends[i] = k
  BY <1>1, <1>3, OrderedIsOnto
<1> HIDE DEF ends, c
<1>5. read = [i \in 1..c |-> pieces[ends[i]][1]]
  BY <1>3 DEF Complete, ends, c, W
<1>6. \A i \in 1..c : pieces[ends[i]][1] \in Line
  <2>1. \A i \in 1..c : ends[i] \in 1..Len(pieces)
    BY <1>1, <1>3
  <2> QED BY <2>1, PieceFacts
<1>7. read \in Seq(Line) /\ Len(read) = c
  <2>1. read \in [1..c -> Line]
    BY <1>5, <1>6
  <2> QED BY <1>2, <2>1
<1>8. \A i \in 1..c : read[i] = pieces[ends[i]][1]
  BY <1>5
<1>9. LinesAt(ends, read, pieces)
  <2>1. W = Whole(pieces) /\ Len(read) = c
    BY <1>7 DEF W
  <2> QED BY <1>3, <1>4, <1>8, <2>1, Zenon DEF LinesAt
<1> QED BY <1>7, <1>9, Zenon

\* What is kept for the next poll has no end of a line, and is not lost.
LEMMA UnterminatedFacts ==
  ASSUME NEW pieces \in Seq(Piece)
  PROVE  /\ Unterminated(pieces) \in Seq(Piece)
         /\ Ends(Unterminated(pieces)) = {}
         /\ pieces # <<>> /\ pieces[Len(pieces)][2] = "text" =>
              /\ Unterminated(pieces) # <<>>
              /\ Unterminated(pieces)[Len(Unterminated(pieces))] = pieces[Len(pieces)]
<1> DEFINE n == Len(pieces)
           E == Ends(pieces)
<1>1. n \in Nat /\ E \in SUBSET (1..n) /\ (pieces # <<>> => n >= 1)
  BY DEF Ends
<1>2. CASE E = {}
  BY <1>2 DEF Unterminated
<1>3. CASE E # {}
  <2> DEFINE m == Max(E)
             rest == SubSeq(pieces, m + 1, n)
  <2>1. m \in E /\ \A k \in E : k <= m
    <3>1. E \in SUBSET (0..n)
      BY <1>1
    <3> HIDE DEF E
    <3> QED BY <1>1, <1>3, <3>1, LargestIndex
  <2> HIDE DEF m
  <2>2. m \in Nat /\ m <= n
    BY <1>1, <2>1
  <2>3. rest \in Seq(Piece) /\ Len(rest) = n - m /\ \A i \in 1..(n - m) : rest[i] = pieces[m + i]
    BY <1>1, <2>2, PartFacts
  <2>4. Unterminated(pieces) = rest
    BY <1>3 DEF Unterminated, m
  <2>5. ASSUME NEW i \in 1..(n - m) PROVE rest[i][2] # "end"
    <3>1. m + i \in 1..n /\ m + i > m
      BY <1>1, <2>2
    <3>2. m + i \notin E
      BY <2>1, <2>2, <3>1
    <3> QED BY <2>3, <3>1, <3>2 DEF Ends
  <2>6. Ends(rest) = {}
    BY <2>3, <2>5 DEF Ends
  <2>7. ASSUME pieces # <<>>, pieces[n][2] = "text"
        PROVE  rest # <<>> /\ rest[Len(rest)] = pieces[n]
    <3>1. m # n
      BY <2>1, <2>7 DEF Ends
    <3>2. n - m \in 1..(n - m) /\ m + (n - m) = n
      BY <1>1, <2>2, <3>1
    <3>3. rest[n - m] = pieces[n]
      BY <2>3, <3>2
    <3>4. Len(rest) = n - m /\ n - m # 0
      BY <2>3, <3>2
    <3> HIDE DEF rest
    <3> QED BY <3>3, <3>4
  <2> QED BY <2>3, <2>4, <2>6, <2>7
<1> QED BY <1>2, <1>3

\* The text a poll looks at: what it kept, then the file from where it starts.
TextOf(kept, start) == kept \o SubSeq(log, start + 1, Len(log))

LEMMA TextFacts ==
  ASSUME log \in Seq(Piece), NEW kept \in Seq(Piece), NEW start \in 0..Len(log)
  PROVE  /\ TextOf(kept, start) \in Seq(Piece)
         /\ Len(TextOf(kept, start)) = Len(kept) + Len(log) - start
         /\ \A i \in 1..Len(kept) : TextOf(kept, start)[i] = kept[i]
         /\ \A h \in (start + 1)..Len(log) : TextOf(kept, start)[Len(kept) + h - start] = log[h]
<1> DEFINE data == SubSeq(log, start + 1, Len(log))
<1>1. start \in Nat /\ Len(log) \in 0..Len(log) /\ start <= Len(log)
  OBVIOUS
<1>2. /\ data \in Seq(Piece) /\ Len(data) = Len(log) - start
      /\ \A i \in 1..(Len(log) - start) : data[i] = log[start + i]
  BY <1>1, PartFacts
<1> HIDE DEF data
<1>3. /\ kept \o data \in Seq(Piece) /\ Len(kept \o data) = Len(kept) + Len(data)
      /\ \A i \in 1..(Len(kept) + Len(data)) :
           (kept \o data)[i] = IF i <= Len(kept) THEN kept[i] ELSE data[i - Len(kept)]
  BY <1>2, ConcatProperties
<1>4. Len(kept) \in Nat /\ Len(log) \in Nat
  OBVIOUS
<1>5. ASSUME NEW h \in (start + 1)..Len(log)
      PROVE  (kept \o data)[Len(kept) + h - start] = log[h]
  <2>1. /\ Len(kept) + h - start \in 1..(Len(kept) + Len(data))
        /\ ~(Len(kept) + h - start <= Len(kept))
        /\ Len(kept) + h - start - Len(kept) = h - start
        /\ h - start \in 1..(Len(log) - start) /\ start + (h - start) = h
    BY <1>1, <1>2, <1>4
  <2>2. (kept \o data)[Len(kept) + h - start] = data[h - start]
    BY <1>3, <2>1
  <2> QED BY <1>2, <2>1, <2>2
<1>6. \A i \in 1..Len(kept) : (kept \o data)[i] = kept[i]
  BY <1>1, <1>2, <1>3, <1>4
<1>7. TextOf(kept, start) = kept \o data
  BY DEF TextOf, data
<1> QED BY <1>1, <1>2, <1>3, <1>4, <1>5, <1>6, <1>7

\* Its whole lines are lines of the file that end after the start.
LEMMA WholeOfText ==
  ASSUME log \in Seq(Piece), NEW kept \in Seq(Piece), Ends(kept) = {}, NEW start \in 0..Len(log),
         NEW k \in Whole(TextOf(kept, start))
  PROVE  /\ start + k - Len(kept) \in Ends(log) /\ start + k - Len(kept) > start
         /\ TextOf(kept, start)[k] = log[start + k - Len(kept)]
<1> DEFINE text == TextOf(kept, start)
           h == start + k - Len(kept)
<1>1. /\ Len(text) = Len(kept) + Len(log) - start
      /\ \A i \in 1..Len(kept) : text[i] = kept[i]
      /\ \A i \in (start + 1)..Len(log) : text[Len(kept) + i - start] = log[i]
  BY TextFacts
<1>2. k \in 1..Len(text) /\ text[k][2] = "end"
  BY DEF Whole, Ends
<1> HIDE DEF text
<1>3. Len(kept) \in Nat /\ Len(log) \in Nat /\ start \in Nat
  OBVIOUS
<1>4. ~(k <= Len(kept))
  <2> SUFFICES ASSUME k <= Len(kept) PROVE FALSE
    OBVIOUS
  <2>1. k \in 1..Len(kept) /\ kept[k][2] = "end"
    BY <1>1, <1>2, <1>3
  <2> QED BY <2>1 DEF Ends
<1>5. h \in (start + 1)..Len(log) /\ Len(kept) + h - start = k
  BY <1>1, <1>2, <1>3, <1>4
<1> HIDE DEF h
<1>6. text[k] = log[h]
  BY <1>1, <1>5
<1>7. h \in Ends(log) /\ h > start
  BY <1>2, <1>3, <1>5, <1>6 DEF Ends
<1> QED BY <1>6, <1>7 DEF text, h

\* And every line of the file that begins after the start, or whose beginning was kept.
LEMMA TextOfWhole ==
  ASSUME log \in Seq(Piece), NEW kept \in Seq(Piece), NEW start \in 0..Len(log),
         NEW h \in Whole(log),
         h - 1 > start \/ (h - 1 = start /\ kept # <<>> /\ kept[Len(kept)] = log[start])
  PROVE  /\ Len(kept) + h - start \in Whole(TextOf(kept, start))
         /\ TextOf(kept, start)[Len(kept) + h - start] = log[h]
<1> DEFINE text == TextOf(kept, start)
           k == Len(kept) + h - start
<1>1. /\ Len(text) = Len(kept) + Len(log) - start
      /\ \A i \in 1..Len(kept) : text[i] = kept[i]
      /\ \A i \in (start + 1)..Len(log) : text[Len(kept) + i - start] = log[i]
  BY TextFacts
<1> HIDE DEF text
<1>2. /\ h \in 1..Len(log) /\ h > 1 /\ log[h][2] = "end" /\ log[h - 1] = <<log[h][1], "text">>
  BY DEF Whole, Ends
<1>3. Len(kept) \in Nat /\ Len(log) \in Nat /\ start \in Nat /\ (kept # <<>> => Len(kept) >= 1)
  OBVIOUS
<1>4. h > start /\ h \in (start + 1)..Len(log) /\ k \in 1..Len(text) /\ k \in Nat
  <2>1. h \in Nat /\ h <= Len(log) /\ (h > start \/ (h = start + 1))
    BY <1>2, <1>3
  <2>2. h > start
    BY <1>3, <2>1
  <2>3. Len(text) = Len(kept) + Len(log) - start
    BY <1>1
  <2> QED BY <1>3, <2>1, <2>2, <2>3
<1>5. text[k] = log[h]
  BY <1>1, <1>4
<1>6. k > 1 /\ text[k - 1] = log[h - 1]
  <2>1. CASE h - 1 > start
    <3>1. h - 1 \in (start + 1)..Len(log) /\ Len(kept) + (h - 1) - start = k - 1 /\ k > 1
      BY <1>2, <1>3, <1>4, <2>1
    <3> QED BY <1>1, <3>1
  <2>2. CASE h - 1 = start /\ kept # <<>> /\ kept[Len(kept)] = log[start]
    <3>1. k - 1 = Len(kept) /\ Len(kept) \in 1..Len(kept) /\ k > 1
      BY <1>2, <1>3, <1>4, <2>2
    <3> QED BY <1>1, <2>2, <3>1
  <2> QED BY <2>1, <2>2
<1> HIDE DEF k
<1>7. k \in Whole(text)
  BY <1>2, <1>4, <1>5, <1>6 DEF Whole, Ends
<1> QED BY <1>5, <1>7 DEF text, k

\* The lines a poll adds are in order and end between its start and the end of the file.
LEMMA ReadOnce ==
  ASSUME log \in Seq(Piece), written \in Nat, LogInv,
         NEW kept \in Seq(Piece), Ends(kept) = {}, NEW start \in 0..Len(log),
         NEW read, read = Complete(TextOf(kept, start))
  PROVE  /\ read \in Seq(Line) /\ Increasing(read)
         /\ \A i \in 1..Len(read) : 2 * read[i] > Base + start /\ 2 * read[i] <= Base + Len(log)
<1> DEFINE text == TextOf(kept, start)
<1>1. /\ Base \in Nat /\ Len(log) \in Nat /\ start \in Nat /\ Len(kept) \in Nat
      /\ Line \subseteq Nat
  BY FileFacts, BoundAssumption DEF Line
<1>2. text \in Seq(Piece)
  BY TextFacts
<1>3. read = Complete(text)
  BY DEF text
<1> HIDE DEF text
<1>4. read \in Seq(Line) /\ \E ends : LinesAt(ends, read, text)
  BY <1>2, <1>3, CompleteFacts
<1>l. PICK ends : LinesAt(ends, read, text)
  BY <1>4
<1>5. ASSUME NEW i \in 1..Len(read)
      PROVE  /\ ends[i] \in Nat /\ read[i] \in Nat
             /\ start + ends[i] - Len(kept) \in 1..Len(log) /\ start + ends[i] - Len(kept) > start
             /\ 2 * read[i] = Base + (start + ends[i] - Len(kept))
  <2>1. ends[i] \in Whole(text) /\ ends[i] \in Nat
    <3>1. ends[i] \in Whole(text)
      BY <1>l DEF LinesAt
    <3> QED BY <3>1 DEF Whole, Ends
  <2>2. /\ start + ends[i] - Len(kept) \in Ends(log) /\ start + ends[i] - Len(kept) > start
        /\ text[ends[i]] = log[start + ends[i] - Len(kept)]
    BY <2>1, WholeOfText DEF text
  <2>3. read[i] \in Nat
    <3>1. read[i] \in Line
      BY <1>4
    <3> QED BY <1>1, <3>1
  <2> QED BY <1>l, <2>1, <2>2, <2>3, FileFacts DEF LinesAt
<1>6. ASSUME NEW i \in 1..Len(read), NEW j \in 1..Len(read), i < j
      PROVE  read[i] < read[j]
  <2> DEFINE x == start + ends[i] - Len(kept)
             y == start + ends[j] - Len(kept)
  <2>1. ends[i] < ends[j] /\ ends[i] \in Nat /\ ends[j] \in Nat
    BY <1>l, <1>5, <1>6 DEF LinesAt
  <2>2. x < y
    BY <1>1, <2>1
  <2>3. x \in 1..Len(log) /\ y \in 1..Len(log)
    BY <1>5
  <2>4. read[i] \in Nat /\ read[j] \in Nat /\ 2 * read[i] = Base + x /\ 2 * read[j] = Base + y
    BY <1>5
  <2> HIDE DEF x, y
  <2>5. x \in Int /\ y \in Int /\ Base \in Int
    BY <1>1, <2>3
  <2> QED BY <2>2, <2>4, <2>5
<1>7. ASSUME NEW i \in 1..Len(read)
      PROVE  2 * read[i] > Base + start /\ 2 * read[i] <= Base + Len(log)
  <2> DEFINE h == start + ends[i] - Len(kept)
  <2>1. h \in 1..Len(log) /\ h > start /\ 2 * read[i] = Base + h
    BY <1>5
  <2> HIDE DEF h
  <2> QED BY <1>1, <2>1
<1> QED BY <1>4, <1>6, <1>7 DEF Increasing

\* And nothing that begins after the start is left out.
LEMMA ReadAll ==
  ASSUME log \in Seq(Piece), NEW kept \in Seq(Piece), NEW start \in 0..Len(log),
         NEW read, read = Complete(TextOf(kept, start)),
         NEW h \in Whole(log),
         h - 1 > start \/ (h - 1 = start /\ kept # <<>> /\ kept[Len(kept)] = log[start])
  PROVE  log[h][1] \in Range(read)
<1> DEFINE text == TextOf(kept, start)
           k == Len(kept) + h - start
<1>1. text \in Seq(Piece)
  BY TextFacts
<1>2. k \in Whole(text) /\ text[k] = log[h]
  BY TextOfWhole
<1>3. read = Complete(text)
  OBVIOUS
<1> HIDE DEF text, k
<1>4. read \in Seq(Line) /\ \E ends : LinesAt(ends, read, text)
  BY <1>1, <1>3, CompleteFacts
<1>5. \E i \in 1..Len(read) : read[i] = log[h][1]
  BY <1>2, <1>4 DEF LinesAt
<1> QED BY <1>4, <1>5, RangeEquality

-----------------------------------------------------------------------------
(* The signature                                                            *)

\* attach goes no further back than it looks, and past what it saw if there is any.
LEMMA AttachFacts ==
  ASSUME NEW pieces \in Seq(Piece), NEW start,
         start = Len(pieces) - Min({Backtrack, Len(pieces)})
  PROVE  /\ start \in Nat /\ start <= Len(pieces) /\ AttachAt(pieces) \in start..Len(pieces)
         /\ Len(pieces) > 0 => AttachAt(pieces) > start
<1> DEFINE markers == {k \in (start + 1)..Len(pieces) : Shown(pieces[k]) = <<Welcome, "text">>}
           eols    == {k \in Ends(pieces) : k > Max(markers)}
<1>1. /\ start \in Nat /\ start <= Len(pieces) /\ Len(pieces) \in Nat
      /\ Len(pieces) > 0 => Len(pieces) > start
  <2>1. Backtrack \in Nat /\ Backtrack # 0 /\ Len(pieces) \in Nat
    BY BoundAssumption
  <2>2. Min({Backtrack, Len(pieces)}) = IF Backtrack <= Len(pieces) THEN Backtrack ELSE Len(pieces)
    BY <2>1, SmallerOfTwo
  <2> QED BY <2>1, <2>2
<1>2. CASE markers = {} \/ eols = {}
  <2>1. AttachAt(pieces) = Len(pieces)
    BY <1>2 DEF AttachAt
  <2> QED BY <1>1, <2>1
<1>3. CASE markers # {} /\ eols # {}
  <2>1. AttachAt(pieces) = Min(eols)
    BY <1>3 DEF AttachAt
  <2>2. Max(markers) \in (start + 1)..Len(pieces)
    <3>1. markers \in SUBSET (0..Len(pieces)) /\ markers \subseteq (start + 1)..Len(pieces)
      BY <1>1
    <3> HIDE DEF markers
    <3> QED BY <1>1, <1>3, <3>1, LargestIndex
  <2> HIDE DEF markers
  <2>3. Min(eols) \in eols
    <3>1. eols \subseteq Nat
      BY DEF Ends
    <3> HIDE DEF eols
    <3> QED BY <1>3, <3>1, SmallestIndex
  <2>4. Min(eols) \in 1..Len(pieces) /\ Min(eols) > Max(markers)
    BY <2>3 DEF Ends
  <2> HIDE DEF eols
  <2> QED BY <1>1, <2>1, <2>2, <2>4
<1> QED BY <1>2, <1>3

\* The signature holds the last pieces before the offset.
LEMMA AttachedSignature ==
  ASSUME log \in Seq(Piece), Attached(AttachAt(log))
  PROVE  /\ position' = AttachAt(log) /\ position' \in 0..Len(log) /\ from' = position' /\ partial' = <<>>
         /\ signature' \in Seq(Piece) /\ Len(signature') <= SigLen /\ Len(signature') <= position'
         /\ position' > 0 => signature' # <<>>
         /\ \A j \in 1..Len(signature') : signature'[j] = log[position' - Len(signature') + j]
<1> DEFINE start == Len(log) - Min({Backtrack, Len(log)})
           offset == AttachAt(log)
           seen == SubSeq(log, start + 1, offset)
<1>1. /\ start \in Nat /\ start <= Len(log) /\ offset \in start..Len(log)
      /\ Len(log) > 0 => offset > start
  BY AttachFacts
<1>2. signature' = LastN(seen, SigLen) /\ position' = offset /\ from' = offset /\ partial' = <<>>
  BY DEF Attached
<1> HIDE DEF start, offset
<1>3. offset \in 0..Len(log) /\ start <= offset /\ offset \in Nat /\ Len(log) \in Nat
  BY <1>1
<1>4. seen \in Seq(Piece) /\ Len(seen) = offset - start /\ \A i \in 1..(offset - start) : seen[i] = log[start + i]
  BY <1>1, <1>3, PartFacts
<1>5. SigLen \in Nat \ {0}
  BY BoundAssumption
<1> HIDE DEF seen
<1>6. /\ signature' \in Seq(Piece)
      /\ Len(signature') = IF SigLen <= Len(seen) THEN SigLen ELSE Len(seen)
      /\ \A j \in 1..Len(signature') : signature'[j] = seen[Len(seen) - Len(signature') + j]
  BY <1>2, <1>4, <1>5, LastNFacts
<1> DEFINE c == Len(signature')
<1>7. c \in Nat /\ c <= SigLen /\ c <= Len(seen) /\ c <= offset /\ (offset > 0 => c # 0)
  BY <1>1, <1>3, <1>4, <1>5, <1>6
<1> HIDE DEF c
<1>8. ASSUME NEW j \in 1..c PROVE signature'[j] = log[offset - c + j]
  <2>1. /\ Len(seen) - c + j \in 1..(offset - start)
        /\ start + (Len(seen) - c + j) = offset - c + j
    BY <1>1, <1>3, <1>4, <1>7
  <2>2. signature'[j] = seen[Len(seen) - c + j]
    BY <1>6 DEF c
  <2> QED BY <1>4, <2>1, <2>2
<1>9. position' > 0 => signature' # <<>>
  <2>1. c # 0 => signature' # <<>>
    BY DEF c
  <2> QED BY <1>2, <1>7, <2>1
<1> QED BY <1>2, <1>3, <1>6, <1>7, <1>8, <1>9 DEF c, offset

\* After a poll it holds the last pieces of the file, or of the one before it.
SignedFrom(next, sig, start) ==
  /\ next \in Seq(Piece) /\ Len(next) <= SigLen /\ Len(next) <= Len(log)
  /\ Len(log) > 0 /\ (start = 0 \/ sig # <<>>) => next # <<>>
  /\ \A j \in 1..Len(next) :
       \/ /\ Len(log) - Len(next) + j \in (start + 1)..Len(log)
          /\ next[j] = log[Len(log) - Len(next) + j]
       \/ \E i \in 1..Len(sig) : /\ start - Len(sig) + i = Len(log) - Len(next) + j
                                 /\ next[j] = sig[i]

LEMMA PolledSignature ==
  ASSUME log \in Seq(Piece), NEW sig \in Seq(Piece), NEW start \in 0..Len(log), Len(sig) <= start
  PROVE  SignedFrom(LastN(TextOf(sig, start), SigLen), sig, start)
<1> DEFINE text == TextOf(sig, start)
           next == LastN(text, SigLen)
           c == Len(next)
<1>1. /\ text \in Seq(Piece) /\ Len(text) = Len(sig) + Len(log) - start
      /\ \A i \in 1..Len(sig) : text[i] = sig[i]
      /\ \A h \in (start + 1)..Len(log) : text[Len(sig) + h - start] = log[h]
  BY TextFacts
<1>2. SigLen \in Nat \ {0} /\ next = LastN(text, SigLen)
  BY BoundAssumption DEF next
<1> HIDE DEF text, next
<1>3. /\ next \in Seq(Piece) /\ c = IF SigLen <= Len(text) THEN SigLen ELSE Len(text)
      /\ \A j \in 1..c : next[j] = text[Len(text) - c + j]
  <2>1. SigLen \in Nat
    BY <1>2
  <2>2. /\ LastN(text, SigLen) \in Seq(Piece)
        /\ Len(LastN(text, SigLen)) = IF SigLen <= Len(text) THEN SigLen ELSE Len(text)
        /\ \A j \in 1..Len(LastN(text, SigLen)) :
             LastN(text, SigLen)[j] = text[Len(text) - Len(LastN(text, SigLen)) + j]
    BY <1>1, <2>1, LastNFacts
  <2> QED BY <1>2, <2>2
<1>4. Len(sig) \in Nat /\ Len(log) \in Nat /\ start \in Nat /\ start <= Len(log) /\ (sig # <<>> => Len(sig) # 0)
  OBVIOUS
<1>5. c \in Nat /\ c <= SigLen /\ c <= Len(text) /\ c <= Len(log)
      /\ (Len(log) > 0 /\ (start = 0 \/ sig # <<>>) => c # 0)
  BY <1>1, <1>2, <1>3, <1>4
<1>6. c # 0 => next # <<>>
  OBVIOUS
<1> HIDE DEF c
<1>7. ASSUME NEW j \in 1..c
      PROVE  \/ Len(log) - c + j \in (start + 1)..Len(log) /\ next[j] = log[Len(log) - c + j]
             \/ \E i \in 1..Len(sig) : start - Len(sig) + i = Len(log) - c + j /\ next[j] = sig[i]
  <2> DEFINE h == Len(log) - c + j
             i == Len(text) - c + j
  <2>1. /\ h \in 1..Len(log) /\ i \in 1..Len(text) /\ i = Len(sig) + h - start
        /\ start - Len(sig) + i = h
    <3>1. /\ Len(text) \in Nat /\ Len(text) = Len(sig) + Len(log) - start
          /\ c \in Nat /\ c <= Len(log) /\ c <= Len(text) /\ j \in Nat /\ 1 <= j /\ j <= c
      BY <1>1, <1>4, <1>5
    <3> QED BY <1>4, <3>1
  <2>2. next[j] = text[i]
    BY <1>3
  <2> HIDE DEF h, i
  <2>3. CASE h > start
    <3>1. h \in (start + 1)..Len(log)
      BY <1>4, <2>1, <2>3
    <3> QED BY <1>1, <2>1, <2>2, <3>1 DEF h
  <2>4. CASE ~(h > start)
    <3>1. i \in 1..Len(sig)
      BY <1>4, <2>1, <2>4
    <3> QED BY <1>1, <2>1, <2>2, <3>1 DEF h
  <2> QED BY <2>3, <2>4
<1>8. SignedFrom(next, sig, start)
  BY <1>3, <1>5, <1>6, <1>7 DEF c, SignedFrom
<1> QED BY <1>8 DEF next, text

-----------------------------------------------------------------------------
(* Types, and what the file holds                                           *)

TypeInv == TypeOK /\ LogInv

\* What the client writes next.
LEMMA NextPiece ==
  ASSUME TypeInv, ClientWrites
  PROVE  \E p \in Piece : /\ log' = Append(log, p) /\ Index(p) = written + 1
                          /\ fresh' = IF p[2] = "end" THEN fresh \cup {p[1]} ELSE fresh
<1> DEFINE line == (written \div 2) + 1
           half == IF written % 2 = 0 THEN "text" ELSE "end"
<1>1. written \in Nat /\ written < 2 * MaxLine /\ MaxLine \in Nat
  BY BoundAssumption DEF TypeInv, TypeOK, ClientWrites
<1>2. line \in Line /\ half \in {"text", "end"}
  BY <1>1 DEF Line
<1>3. /\ half = "text" => 2 * line - 1 = written + 1
      /\ half # "text" => half = "end" /\ 2 * line = written + 1
  BY <1>1
<1>4. <<line, half>> \in Piece
  BY <1>2 DEF Piece
<1>5. log' = Append(log, <<line, half>>) /\ fresh' = IF half = "end" THEN fresh \cup {line} ELSE fresh
  BY DEF ClientWrites
<1> HIDE DEF line, half
<1>6. <<line, half>>[1] = line /\ <<line, half>>[2] = half
  OBVIOUS
<1>7. Index(<<line, half>>) = written + 1
  BY <1>3, <1>6 DEF Index
<1> QED BY <1>4, <1>5, <1>6, <1>7

\* The file stays, grows by one piece, or is emptied.
LogStep ==
  \/ log' = log /\ written' = written
  \/ /\ \E p \in Piece : log' = Append(log, p) /\ Index(p) = written + 1
     /\ written' = written + 1
  \/ log' = <<>> /\ written' = written

LEMMA LogSteps ==
  ASSUME TypeInv, [Next]_vars
  PROVE  LogStep
<1>1. CASE ClientWrites
  <2>1. written' = written + 1
    BY <1>1 DEF ClientWrites
  <2> QED BY <1>1, <2>1, NextPiece DEF LogStep
<1>2. CASE SomebodyEmpties \/ Truncate
  BY <1>2 DEF SomebodyEmpties, Truncate, LogStep
<1>3. CASE Poll \/ NothingStaged \/ CatchUp \/ SwapFails \/ Attach \/ Stage \/ SweepEnds \/ UNCHANGED vars
  BY <1>3 DEF Poll, NothingStaged, CatchUp, SwapFails, Attach, Stage, SweepEnds, vars, LogStep
<1> QED BY <1>1, <1>2, <1>3 DEF Next, DriverStep

LEMMA LogInvStep ==
  ASSUME TypeInv, LogStep
  PROVE  /\ log' \in Seq(Piece) /\ LogInv'
         /\ Base \in Nat /\ Base' \in Nat /\ Base <= Base' /\ written \in Nat /\ written' \in Nat
         /\ written <= written' /\ Base' + Len(log') = written' /\ Base + Len(log) = written
         /\ \/ /\ Base' = Base /\ Len(log) <= Len(log')
               /\ \A k \in 1..Len(log) : log'[k] = log[k]
            \/ log' = <<>> /\ Len(log') = 0 /\ Base' = written'
<1>1. log \in Seq(Piece) /\ written \in Nat /\ LogInv /\ Len(log) \in Nat /\ Len(log) <= written
  BY BoundAssumption DEF TypeInv, TypeOK, LogInv
<1>2. CASE log' = log /\ written' = written
  BY <1>1, <1>2 DEF LogInv, Base
<1>3. CASE log' = <<>> /\ written' = written
  BY <1>1, <1>3 DEF LogInv, Base
<1>4. ASSUME NEW p \in Piece, log' = Append(log, p), Index(p) = written + 1, written' = written + 1
      PROVE  /\ log' \in Seq(Piece) /\ LogInv' /\ Base' = Base /\ Len(log') = Len(log) + 1
             /\ \A k \in 1..Len(log) : log'[k] = log[k]
  <2>1. /\ log' \in Seq(Piece) /\ Len(log') = Len(log) + 1
        /\ \A k \in 1..Len(log) : log'[k] = log[k]
        /\ log'[Len(log) + 1] = p
    BY <1>1, <1>4, AppendFacts
  <2>2. Base' = Base /\ Base \in Nat /\ Base + Len(log) = written
    BY <1>1, <1>4, <2>1 DEF Base
  <2>3. ASSUME NEW k \in 1..Len(log') PROVE Index(log'[k]) = Base' + k
    <3>1. CASE k \in 1..Len(log)
      BY <1>1, <2>1, <2>2, <3>1 DEF LogInv
    <3>2. CASE k = Len(log) + 1
      BY <1>1, <1>4, <2>1, <2>2, <3>2
    <3> QED BY <1>1, <2>1, <3>1, <3>2
  <2>4. Len(log') <= written'
    BY <1>1, <1>4, <2>1
  <2> QED BY <2>1, <2>2, <2>3, <2>4 DEF LogInv
<1>5. CASE LogStep /\ written' = written + 1 /\ \E p \in Piece : log' = Append(log, p) /\ Index(p) = written + 1
  <2>1. /\ log' \in Seq(Piece) /\ LogInv' /\ Base' = Base /\ Len(log') = Len(log) + 1
        /\ \A k \in 1..Len(log) : log'[k] = log[k]
    BY <1>4, <1>5
  <2>2. Base \in Nat /\ Base + Len(log) = written
    BY <1>1 DEF Base
  <2> QED BY <1>1, <1>5, <2>1, <2>2
<1> QED BY <1>2, <1>3, <1>5 DEF LogStep

LEMMA TypeInit == Init => TypeInv
<1> SUFFICES ASSUME Init PROVE TypeInv
  OBVIOUS
<1> USE BoundAssumption
<1>1. log = <<>> /\ written = 0 /\ Len(log) = 0 /\ <<>> \in Seq(Piece) /\ <<>> \in Seq(Line)
  BY DEF Init
<1>2. LogInv
  BY <1>1 DEF LogInv
<1>3. staged \in [copied : Nat, bytes : Seq(Piece), ready : BOOLEAN]
  BY <1>1 DEF Init, None
<1>4. 0 \in 0..(2 * MaxLine) /\ 0 \in 0..MaxEmptied /\ 0 <= SigLen
  OBVIOUS
<1> QED BY <1>1, <1>2, <1>3, <1>4 DEF Init, TypeInv, TypeOK

\* Where a poll starts, and what it goes on from.
Start   == IF Rotated THEN 0 ELSE position
TextHad == IF Rotated THEN <<>> ELSE partial
SigHad  == IF Rotated THEN <<>> ELSE signature

LEMMA PollFacts ==
  ASSUME TypeInv, Poll
  PROVE  /\ Start \in 0..Len(log) /\ TextHad \in Seq(Piece) /\ SigHad \in Seq(Piece)
         /\ position' = Len(log) /\ from' = IF Rotated THEN 0 ELSE from
         /\ signature' = LastN(TextOf(SigHad, Start), SigLen)
         /\ partial' = Unterminated(TextOf(TextHad, Start))
         /\ parsed' = parsed \o Complete(TextOf(TextHad, Start))
         /\ at = "poll" /\ at' = "tick" /\ fresh' = {}
         /\ UNCHANGED <<log, written, staged, archive, missed, emptied>>
<1>1. log \in Seq(Piece) /\ partial \in Seq(Piece) /\ signature \in Seq(Piece) /\ position \in Nat
  BY DEF TypeInv, TypeOK
<1>2. Start \in 0..Len(log)
  BY <1>1 DEF Start, Rotated
<1>3. TextHad \in Seq(Piece) /\ SigHad \in Seq(Piece)
  BY <1>1 DEF TextHad, SigHad
<1> QED BY <1>2, <1>3 DEF Poll, Start, TextHad, SigHad, TextOf

LEMMA TypeStep == TypeInv /\ [Next]_vars => TypeInv'
<1> SUFFICES ASSUME TypeInv, [Next]_vars PROVE TypeInv'
  OBVIOUS
<1>0. TypeOK
  BY DEF TypeInv
<1>b. MaxLine \in Nat /\ MaxEmptied \in Nat /\ SigLen \in Nat /\ Catchup \in Nat
  BY BoundAssumption
<1>v. /\ log \in Seq(Piece) /\ Len(log) \in Nat /\ written \in 0..(2 * MaxLine)
      /\ from \in 0..(2 * MaxLine) /\ emptied \in 0..MaxEmptied /\ fresh \subseteq Line
  BY <1>0 DEF TypeOK
<1>1. log' \in Seq(Piece) /\ LogInv' /\ Len(log') <= written' /\ Len(log) <= written
  BY LogSteps, LogInvStep DEF LogInv
<1>2. \A k \in 0..Len(log) : k \in 0..(2 * MaxLine)
  BY <1>b, <1>v, <1>1
<1>3. CASE Attach
  <2>1. /\ position' \in 0..Len(log) /\ from' = position' /\ partial' = <<>>
        /\ signature' \in Seq(Piece) /\ Len(signature') <= SigLen
    BY <1>0, <1>3, AttachedSignature DEF Attach, TypeOK
  <2>2. <<>> \in Seq(Piece) /\ <<>> \in Seq(Line)
    OBVIOUS
  <2> QED BY <1>0, <1>1, <1>2, <1>3, <2>1, <2>2 DEF Attach, TypeInv, TypeOK
<1>4. CASE Poll
  <2>1. /\ Start \in 0..Len(log) /\ TextHad \in Seq(Piece) /\ SigHad \in Seq(Piece)
        /\ position' = Len(log) /\ from' = IF Rotated THEN 0 ELSE from
        /\ signature' = LastN(TextOf(SigHad, Start), SigLen)
        /\ partial' = Unterminated(TextOf(TextHad, Start))
        /\ parsed' = parsed \o Complete(TextOf(TextHad, Start))
        /\ at' = "tick" /\ fresh' = {}
        /\ UNCHANGED <<log, written, staged, archive, missed, emptied>>
    BY <1>4, PollFacts
  <2>2. TextOf(TextHad, Start) \in Seq(Piece) /\ TextOf(SigHad, Start) \in Seq(Piece)
    BY <1>0, <2>1, TextFacts DEF TypeOK
  <2>3. signature' \in Seq(Piece) /\ Len(signature') <= SigLen
    <3>1. SigLen \in Nat
      BY <1>b
    <3>2. Len(TextOf(SigHad, Start)) \in Nat
      BY <2>2
    <3>3. /\ LastN(TextOf(SigHad, Start), SigLen) \in Seq(Piece)
          /\ Len(LastN(TextOf(SigHad, Start), SigLen)) = IF SigLen <= Len(TextOf(SigHad, Start))
                                                          THEN SigLen ELSE Len(TextOf(SigHad, Start))
      BY <2>2, <3>1, LastNFacts
    <3> QED BY <2>1, <3>1, <3>2, <3>3
  <2>4. partial' \in Seq(Piece)
    BY <2>1, <2>2, UnterminatedFacts
  <2>5. parsed' \in Seq(Line)
    <3>1. Complete(TextOf(TextHad, Start)) \in Seq(Line)
      BY <2>2, CompleteFacts
    <3> QED BY <1>0, <2>1, <3>1, JoinFacts DEF TypeOK
  <2>6. position' \in 0..(2 * MaxLine) /\ from' \in 0..(2 * MaxLine)
    <3>1. Len(log) \in 0..Len(log) /\ 0 \in 0..Len(log)
      BY <1>v
    <3> QED BY <1>v, <1>2, <2>1, <3>1
  <2> QED BY <1>0, <1>1, <2>1, <2>3, <2>4, <2>5, <2>6 DEF TypeInv, TypeOK
<1>5. CASE ClientWrites
  <2>1. fresh' \subseteq Line
    <3>1. \A p \in Piece : p[1] \in Line
      BY PieceFacts
    <3>2. PICK p \in Piece : fresh' = IF p[2] = "end" THEN fresh \cup {p[1]} ELSE fresh
      BY <1>5, NextPiece
    <3>3. p[1] \in Line
      BY <3>1
    <3> QED BY <1>v, <3>2, <3>3
  <2>2. written' \in 0..(2 * MaxLine)
    <3>1. written < 2 * MaxLine /\ written' = written + 1
      BY <1>5 DEF ClientWrites
    <3> QED BY <1>b, <1>v, <3>1
  <2>3. UNCHANGED <<position, partial, signature, from, at, staged, archive, parsed, missed, emptied>>
    BY <1>5 DEF ClientWrites, tail
  <2> QED BY <1>0, <1>1, <2>1, <2>2, <2>3 DEF TypeInv, TypeOK
<1>6. CASE SomebodyEmpties
  <2>1. UNCHANGED <<written, position, partial, signature, from, at, staged, archive, parsed, fresh, missed>>
    BY <1>6 DEF SomebodyEmpties, tail
  <2>2. emptied' \in 0..MaxEmptied
    <3>1. emptied < MaxEmptied /\ emptied' = emptied + 1
      BY <1>6 DEF SomebodyEmpties
    <3> QED BY <1>b, <1>v, <3>1
  <2> QED BY <1>0, <1>1, <2>1, <2>2 DEF TypeInv, TypeOK
<1>7. CASE Stage
  <2>1. staged' \in [copied : Nat, bytes : Seq(Piece), ready : BOOLEAN]
    BY <1>0, <1>7 DEF Stage, TypeOK
  <2> QED BY <1>0, <1>1, <1>7, <2>1 DEF Stage, tail, TypeInv, TypeOK
<1>8. CASE SweepEnds
  <2>1. staged' \in [copied : Nat, bytes : Seq(Piece), ready : BOOLEAN]
    BY <1>0, <1>8 DEF SweepEnds, TypeOK
  <2> QED BY <1>0, <1>1, <1>8, <2>1 DEF SweepEnds, tail, TypeInv, TypeOK
<1>9. CASE NothingStaged
  BY <1>0, <1>1, <1>9 DEF NothingStaged, tail, TypeInv, TypeOK
<1>10. CASE CatchUp
  <2> DEFINE upto == Min({Len(log), staged.copied + Catchup})
             more == SubSeq(log, staged.copied + 1, upto)
  <2>1. /\ staged.copied \in Nat /\ Catchup \in Nat /\ Len(log) \in Nat /\ log \in Seq(Piece)
        /\ staged.bytes \in Seq(Piece) /\ staged \in [copied : Nat, bytes : Seq(Piece), ready : BOOLEAN]
    BY <1>0, <1>b, <1>v DEF TypeOK
  <2>2. upto \in 0..Len(log)
    <3>1. staged.copied + Catchup \in Nat
      BY <2>1
    <3>2. upto = IF Len(log) <= staged.copied + Catchup THEN Len(log) ELSE staged.copied + Catchup
      BY <2>1, <3>1, SmallerOfTwo
    <3> QED BY <2>1, <3>1, <3>2
  <2> HIDE DEF upto
  <2>3. more \in Seq(Piece)
    BY <2>1, <2>2, PartFacts
  <2>4. staged' = [staged EXCEPT !.bytes = @ \o more]
    BY <1>10 DEF CatchUp, upto
  <2> HIDE DEF more
  <2>5. staged.bytes \o more \in Seq(Piece)
    BY <2>1, <2>3, JoinFacts
  <2>6. staged' \in [copied : Nat, bytes : Seq(Piece), ready : BOOLEAN]
    BY <2>1, <2>4, <2>5
  <2> QED BY <1>0, <1>1, <1>10, <2>6 DEF CatchUp, tail, TypeInv, TypeOK
<1>11. ASSUME staged' = None PROVE staged' \in [copied : Nat, bytes : Seq(Piece), ready : BOOLEAN]
  BY <1>11 DEF None
<1>12. CASE SwapFails
  BY <1>0, <1>1, <1>11, <1>12 DEF SwapFails, tail, TypeInv, TypeOK
<1>13. CASE Truncate
  <2>1. archive' \in Seq(Piece)
    BY <1>0, <1>13, JoinFacts DEF Truncate, TypeOK
  <2>2. WholeLines(log) \subseteq Line
    <3>1. \A k \in Whole(log) : log[k] \in Piece
      BY <1>v DEF Whole, Ends
    <3> QED BY <3>1, PieceFacts DEF WholeLines
  <2>3. /\ position' \in 0..(2 * MaxLine) /\ from' \in 0..(2 * MaxLine)
        /\ partial' \in Seq(Piece) /\ signature' \in Seq(Piece) /\ Len(signature') <= SigLen
    BY <1>b, <1>13 DEF Truncate, Restarted
  <2>4. missed' \subseteq Line
    BY <1>0, <1>13, <2>2 DEF Truncate, TypeOK
  <2>5. at' = "poll" /\ staged' = None /\ UNCHANGED <<written, parsed, fresh, emptied>>
    BY <1>13 DEF Truncate
  <2> QED BY <1>0, <1>1, <1>11, <2>1, <2>3, <2>4, <2>5 DEF TypeInv, TypeOK
<1>14. CASE UNCHANGED vars
  BY <1>0, <1>1, <1>14 DEF vars, TypeInv, TypeOK
<1> QED BY <1>3, <1>4, <1>5, <1>6, <1>7, <1>8, <1>9, <1>10, <1>12, <1>13, <1>14 DEF Next, DriverStep

LEMMA TypeInvHolds == Spec => []TypeInv
BY TypeInit, TypeStep, PTL DEF Spec

\* Type correctness of the tail and the archiver.
THEOREM TailTypes == Spec => []TypeOK
<1>1. TypeInv => TypeOK
  BY DEF TypeInv
<1> QED BY <1>1, TypeInvHolds, PTL

-----------------------------------------------------------------------------
(* The archives                                                             *)

Ordered(s) == \A i, j \in 1..Len(s) : i < j => Index(s[i]) < Index(s[j])

\* The archives hold nothing that is still in the file, and the copy nothing that
\* is in an archive; until the swap, the copy ends where it says it does.
ArchiveInv ==
  /\ at = "swap" => staged.ready
  /\ Ordered(archive) /\ Ordered(staged.bytes)
  /\ \A i \in 1..Len(archive) : Index(archive[i]) <= Base
  /\ \A i \in 1..Len(archive), j \in 1..Len(staged.bytes) : Index(archive[i]) < Index(staged.bytes[j])
  /\ \A j \in 1..Len(staged.bytes) : Index(staged.bytes[j]) <= written
  /\ at # "swap" => \A j \in 1..Len(staged.bytes) : Index(staged.bytes[j]) <= Base + staged.copied

LEMMA JoinedPieces ==
  ASSUME NEW s \in Seq(Piece), NEW r \in Seq(Piece), Ordered(s), Ordered(r),
         \A i \in 1..Len(s), j \in 1..Len(r) : Index(s[i]) < Index(r[j])
  PROVE  Ordered(s \o r)
<1> DEFINE f == [p \in Piece |-> Index(p)]
           t == s \o r
<1>1. \A p \in Piece : f[p] = Index(p)
  OBVIOUS
<1>2. f \in [Piece -> Nat]
  BY PieceFacts
<1> HIDE DEF f
<1>3. (\A i \in 1..Len(s) : s[i] \in Piece) /\ (\A i \in 1..Len(r) : r[i] \in Piece)
  OBVIOUS
<1>4. t \in Seq(Piece)
  BY JoinFacts
<1> HIDE DEF t
<1>5. \A i \in 1..Len(t) : t[i] \in Piece
  BY <1>4
<1>6. /\ \A i, j \in 1..Len(s) : i < j => f[s[i]] < f[s[j]]
      /\ \A i, j \in 1..Len(r) : i < j => f[r[i]] < f[r[j]]
      /\ \A i \in 1..Len(s), j \in 1..Len(r) : f[s[i]] < f[r[j]]
  BY <1>1, <1>3 DEF Ordered
<1>7. \A i, j \in 1..Len(t) : i < j => f[t[i]] < f[t[j]]
  BY <1>2, <1>6, JoinedInOrder DEF t
<1> QED BY <1>1, <1>5, <1>7 DEF Ordered, t

LEMMA ArchiveStep == TypeInv /\ ArchiveInv /\ [Next]_vars => ArchiveInv'
<1> SUFFICES ASSUME TypeInv, ArchiveInv, [Next]_vars PROVE ArchiveInv'
  OBVIOUS
<1>0. /\ log \in Seq(Piece) /\ written \in Nat /\ LogInv /\ archive \in Seq(Piece)
      /\ staged \in [copied : Nat, bytes : Seq(Piece), ready : BOOLEAN]
      /\ staged.bytes \in Seq(Piece) /\ staged.copied \in Nat
  BY DEF TypeInv, TypeOK
<1>1. /\ Base \in Nat /\ Base' \in Nat /\ Base <= Base' /\ written' \in Nat /\ written <= written'
      /\ Base + Len(log) = written /\ Base' + Len(log') = written' /\ Len(log) \in Nat
  <2>1. Len(log) \in Nat
    BY <1>0
  <2> QED BY <2>1, LogSteps, LogInvStep
<1>2. /\ \A i \in 1..Len(archive) : Index(archive[i]) \in Nat
      /\ \A j \in 1..Len(staged.bytes) : Index(staged.bytes[j]) \in Nat
  <2>1. /\ \A i \in 1..Len(archive) : archive[i] \in Piece
        /\ \A j \in 1..Len(staged.bytes) : staged.bytes[j] \in Piece
    BY <1>0
  <2> QED BY <2>1, PieceFacts
<1>b. Base \in Nat /\ Base' \in Nat /\ Base <= Base'
  BY <1>1
<1>c. staged.copied \in Nat
  BY <1>0
<1>3. ASSUME archive' = archive, staged'.bytes = staged.bytes, staged'.copied = staged.copied,
             at' = "swap" => at = "swap" /\ staged'.ready, at = "swap" => at' = "swap"
      PROVE  ArchiveInv'
  <2>1. \A i \in 1..Len(archive') : Index(archive'[i]) <= Base'
    BY <1>1, <1>2, <1>3 DEF ArchiveInv
  <2>2. \A j \in 1..Len(staged'.bytes) : Index(staged'.bytes[j]) <= written'
    BY <1>0, <1>1, <1>2, <1>3 DEF ArchiveInv
  <2>3. at' # "swap" => \A j \in 1..Len(staged'.bytes) : Index(staged'.bytes[j]) <= Base' + staged'.copied
    <3>1. ASSUME at' # "swap", NEW j \in 1..Len(staged.bytes)
          PROVE  Index(staged.bytes[j]) <= Base' + staged.copied
      <4>1. Index(staged.bytes[j]) <= Base + staged.copied
        BY <1>3, <3>1 DEF ArchiveInv
      <4>2. Index(staged.bytes[j]) \in Nat
        BY <1>2
      <4> QED BY <1>b, <1>c, <4>1, <4>2
    <3> QED BY <1>3, <3>1
  <2>4. Ordered(archive)' /\ Ordered(staged.bytes)'
    BY <1>3 DEF ArchiveInv, Ordered
  <2> QED BY <1>3, <2>1, <2>2, <2>3, <2>4 DEF ArchiveInv
<1>4. CASE Poll \/ NothingStaged \/ Attach \/ ClientWrites \/ SomebodyEmpties \/ UNCHANGED vars
  <2>1. archive' = archive /\ staged' = staged
    BY <1>4 DEF Poll, NothingStaged, Attach, ClientWrites, SomebodyEmpties, vars
  <2>2. (at' = "swap" => at = "swap" /\ staged'.ready) /\ (at = "swap" => at' = "swap")
    BY <1>4, <2>1 DEF Poll, NothingStaged, Attach, ClientWrites, SomebodyEmpties, vars, ArchiveInv
  <2> QED BY <1>3, <2>1, <2>2
<1>5. CASE SweepEnds
  <2>1. archive' = archive /\ at' = at /\ staged' = [staged EXCEPT !.ready = TRUE]
    BY <1>5 DEF SweepEnds
  <2>2. staged'.bytes = staged.bytes /\ staged'.copied = staged.copied /\ staged'.ready
    BY <1>0, <2>1
  <2> QED BY <1>3, <2>1, <2>2
<1>6. ASSUME staged' = None PROVE staged'.bytes = <<>> /\ Len(staged'.bytes) = 0
  BY <1>6 DEF None
<1>7. CASE SwapFails
  <2>1. archive' = archive /\ staged' = None /\ at' = "poll"
    BY <1>7 DEF SwapFails
  <2>2. \A i \in 1..Len(archive') : Index(archive'[i]) <= Base'
    BY <1>1, <1>2, <2>1 DEF ArchiveInv
  <2>3. Ordered(archive)'
    BY <2>1 DEF ArchiveInv, Ordered
  <2> QED BY <1>6, <2>1, <2>2, <2>3 DEF ArchiveInv, Ordered
<1>8. CASE Truncate
  <2>1. archive' = archive \o staged.bytes /\ staged' = None /\ at' = "poll" /\ log' = <<>> /\ written' = written
    BY <1>8 DEF Truncate
  <2>2. Base' = written
    BY <1>0, <2>1 DEF Base
  <2>3. Ordered(archive \o staged.bytes)
    BY <1>0, JoinedPieces DEF ArchiveInv
  <2>4. ASSUME NEW i \in 1..Len(archive') PROVE Index(archive'[i]) <= Base'
    <3>1. CASE i \in 1..Len(archive) /\ archive'[i] = archive[i]
      BY <1>1, <1>2, <2>2, <3>1 DEF ArchiveInv
    <3>2. CASE i - Len(archive) \in 1..Len(staged.bytes) /\ archive'[i] = staged.bytes[i - Len(archive)]
      BY <2>2, <3>2 DEF ArchiveInv
    <3> QED BY <1>0, <2>1, <3>1, <3>2, JoinFacts
  <2>5. Ordered(archive)'
    BY <2>1, <2>3
  <2> QED BY <1>6, <2>1, <2>4, <2>5 DEF ArchiveInv, Ordered
<1>9. CASE Stage
  <2>1. /\ archive' = archive /\ at' = at /\ staged = None /\ log' = log /\ written' = written
        /\ staged' = [copied |-> Len(log), bytes |-> log, ready |-> FALSE]
    BY <1>9 DEF Stage
  <2>2. staged'.bytes = log /\ staged'.copied = Len(log) /\ Base' = Base
    BY <2>1 DEF Base
  <2>3. at # "swap"
    BY <2>1 DEF ArchiveInv, None
  <2>4. \A k \in 1..Len(log) : Index(log[k]) = Base + k
    BY <1>0 DEF LogInv
  <2>5. Ordered(log)
    BY <1>1, <2>4 DEF Ordered
  <2>6. \A j \in 1..Len(log) : Index(log[j]) <= written /\ Index(log[j]) <= Base + Len(log)
    BY <1>1, <2>4
  <2>7. ASSUME NEW i \in 1..Len(archive), NEW j \in 1..Len(log) PROVE Index(archive[i]) < Index(log[j])
    <3>1. Index(archive[i]) <= Base /\ Index(archive[i]) \in Nat
      BY <1>2 DEF ArchiveInv
    <3>2. Index(log[j]) = Base + j /\ j \in Nat /\ j >= 1
      BY <1>1, <2>4
    <3> QED BY <1>1, <3>1, <3>2
  <2>8. Ordered(archive)' /\ Ordered(staged.bytes)'
    BY <2>1, <2>2, <2>5 DEF ArchiveInv, Ordered
  <2> QED BY <2>1, <2>2, <2>3, <2>6, <2>7, <2>8 DEF ArchiveInv
<1>10. CASE CatchUp
  <2> DEFINE upto == Min({Len(log), staged.copied + Catchup})
             more == SubSeq(log, staged.copied + 1, upto)
  <2>1. upto \in 0..Len(log)
    <3>1. Catchup \in Nat
      BY BoundAssumption
    <3>2. staged.copied + Catchup \in Nat
      BY <1>0, <3>1
    <3>3. upto = IF Len(log) <= staged.copied + Catchup THEN Len(log) ELSE staged.copied + Catchup
      BY <1>1, <3>2, SmallerOfTwo
    <3> QED BY <1>1, <3>2, <3>3
  <2> HIDE DEF upto
  <2>2. /\ more \in Seq(Piece) /\ Len(more) = IF staged.copied <= upto THEN upto - staged.copied ELSE 0
        /\ \A i \in 1..(upto - staged.copied) : more[i] = log[staged.copied + i]
    BY <1>0, <2>1, PartFacts
  <2>3. /\ staged' = [staged EXCEPT !.bytes = @ \o more] /\ archive' = archive /\ at' = "swap" /\ at = "tick"
        /\ staged.ready /\ log' = log /\ written' = written
    BY <1>10 DEF CatchUp, upto
  <2> HIDE DEF more
  <2>4. staged'.bytes = staged.bytes \o more /\ staged'.ready /\ Base' = Base
    BY <1>0, <2>3 DEF Base
  <2>5. ASSUME NEW i \in 1..Len(more)
        PROVE  /\ Index(more[i]) = Base + staged.copied + i /\ Index(more[i]) <= written
               /\ i \in Nat /\ i >= 1
    <3>1. /\ staged.copied + i \in 1..Len(log) /\ i \in 1..(upto - staged.copied)
          /\ i \in Nat /\ i >= 1
      <4>1. upto \in Nat /\ upto <= Len(log)
        BY <1>1, <2>1
      <4>2. i \in Nat /\ i >= 1 /\ staged.copied <= upto /\ i <= upto - staged.copied
        BY <1>c, <2>2, <4>1
      <4>3. Len(log) \in Nat /\ staged.copied + i \in Nat /\ staged.copied + i >= 1
        BY <1>1, <1>c, <4>2
      <4>4. staged.copied + i <= Len(log)
        BY <1>c, <4>1, <4>2, <4>3
      <4>5. upto - staged.copied \in Nat
        BY <1>c, <4>1, <4>2
      <4> QED BY <4>2, <4>3, <4>4, <4>5
    <3>2. Index(more[i]) = Base + (staged.copied + i)
      BY <1>0, <2>2, <3>1 DEF LogInv
    <3>3. /\ Base \in Nat /\ Len(log) \in Nat /\ Base + Len(log) = written
          /\ staged.copied + i <= Len(log) /\ i \in Nat /\ i >= 1
      BY <1>1, <3>1
    <3> QED BY <1>c, <3>2, <3>3
  <2>6. Ordered(more)
    <3> SUFFICES ASSUME NEW i \in 1..Len(more), NEW j \in 1..Len(more), i < j
                 PROVE  Index(more[i]) < Index(more[j])
      BY DEF Ordered
    <3>1. /\ Index(more[i]) = Base + staged.copied + i /\ i \in Nat
          /\ Index(more[j]) = Base + staged.copied + j /\ j \in Nat
      BY <2>5
    <3> QED BY <1>1, <1>c, <3>1
  <2>7. \A i \in 1..Len(staged.bytes), j \in 1..Len(more) : Index(staged.bytes[i]) < Index(more[j])
    <3>1. \A i \in 1..Len(staged.bytes) : Index(staged.bytes[i]) <= Base + staged.copied
      BY <2>3 DEF ArchiveInv
    <3>2. ASSUME NEW i \in 1..Len(staged.bytes), NEW j \in 1..Len(more)
          PROVE  Index(staged.bytes[i]) < Index(more[j])
      <4>1. Index(staged.bytes[i]) <= Base + staged.copied /\ Index(staged.bytes[i]) \in Nat
        BY <1>2, <3>1
      <4>2. Index(more[j]) = Base + staged.copied + j /\ j \in Nat /\ j >= 1
        BY <2>5
      <4> QED BY <1>b, <1>c, <4>1, <4>2
    <3> QED BY <3>2
  <2>8. Ordered(staged.bytes \o more)
    BY <1>0, <2>2, <2>6, <2>7, JoinedPieces DEF ArchiveInv
  <2>9. \A j \in 1..Len(staged'.bytes) :
          \/ j \in 1..Len(staged.bytes) /\ staged'.bytes[j] = staged.bytes[j]
          \/ j - Len(staged.bytes) \in 1..Len(more) /\ staged'.bytes[j] = more[j - Len(staged.bytes)]
    BY <1>0, <2>2, <2>4, JoinFacts
  <2>10. \A j \in 1..Len(staged'.bytes) : Index(staged'.bytes[j]) <= written'
    BY <2>3, <2>5, <2>9 DEF ArchiveInv
  <2>11. \A i \in 1..Len(archive) : Index(archive[i]) <= Base
    BY DEF ArchiveInv
  <2>12. ASSUME NEW i \in 1..Len(archive), NEW j \in 1..Len(staged'.bytes)
         PROVE  Index(archive[i]) < Index(staged'.bytes[j])
    <3>1. CASE j \in 1..Len(staged.bytes) /\ staged'.bytes[j] = staged.bytes[j]
      BY <3>1 DEF ArchiveInv
    <3>2. CASE j - Len(staged.bytes) \in 1..Len(more) /\ staged'.bytes[j] = more[j - Len(staged.bytes)]
      <4>1. /\ Index(staged'.bytes[j]) = Base + staged.copied + (j - Len(staged.bytes))
            /\ j - Len(staged.bytes) \in Nat /\ j - Len(staged.bytes) >= 1
        BY <2>5, <3>2
      <4>2. Index(archive[i]) <= Base /\ Index(archive[i]) \in Nat
        BY <1>2, <2>11
      <4> DEFINE d == j - Len(staged.bytes)
      <4>3. Index(staged'.bytes[j]) = Base + staged.copied + d /\ d \in Nat /\ d >= 1
        BY <4>1
      <4> HIDE DEF d
      <4> QED BY <1>b, <1>c, <4>2, <4>3
    <3> QED BY <2>9, <3>1, <3>2
  <2>13. Ordered(archive)' /\ Ordered(staged.bytes)'
    BY <2>3, <2>4, <2>8 DEF ArchiveInv, Ordered
  <2> QED BY <2>3, <2>4, <2>10, <2>11, <2>12, <2>13 DEF ArchiveInv
<1> QED BY <1>4, <1>5, <1>7, <1>8, <1>9, <1>10 DEF Next, DriverStep

-----------------------------------------------------------------------------
(* What has been parsed                                                     *)

\* The lines read so far end before the k-th piece ever written.
ReadBefore(k) == \A i \in 1..Len(parsed) : 2 * parsed[i] <= k

\* The file looks like the one the tail left off in: poll goes on reading.
SameFile ==
  /\ position <= Len(log)
  /\ \A j \in 1..Len(signature) : Shown(signature[j]) = Shown(log[position - Len(signature) + j])

\* What was read is in order and lies before the position, and all of it before
\* the file when a poll would start over.
ParseInv ==
  /\ Increasing(parsed)
  /\ Len(signature) <= position
  /\ Ends(partial) = {}
  /\ ReadBefore(Base + position)
  /\ SameFile \/ ReadBefore(Base)

\* poll goes on exactly when the file looks the same.
LEMMA RotatedIsNotSame ==
  ASSUME TypeOK, Len(signature) <= position
  PROVE  Rotated <=> ~SameFile
<1> DEFINE c == Len(signature)
<1>1. /\ log \in Seq(Piece) /\ signature \in Seq(Piece) /\ position \in Nat /\ c \in Nat /\ c <= position
      /\ Len(log) \in Nat
  <2>1. log \in Seq(Piece) /\ signature \in Seq(Piece) /\ position \in Nat
    BY BoundAssumption DEF TypeOK
  <2> QED BY <2>1
<1>2. Min({c, position}) = c
  BY <1>1, SmallerOfTwo
<1>3. CASE Len(log) < position
  <2>1. ~(position <= Len(log))
    BY <1>1, <1>3
  <2> QED BY <1>3, <2>1 DEF Rotated, SameFile
<1>4. CASE ~(Len(log) < position)
  <2> DEFINE a == position - c
             old == SubSeq(log, a + 1, position)
             new == LastN(signature, c)
  <2>1. a \in Nat /\ position \in 0..Len(log) /\ position - c + 1 = a + 1 /\ a <= position /\ position - a = c
    BY <1>1, <1>4
  <2> HIDE DEF a
  <2>2. old \in Seq(Piece) /\ Len(old) = c /\ \A i \in 1..c : old[i] = log[a + i]
    BY <1>1, <2>1, PartFacts
  <2>3. new \in Seq(Piece) /\ Len(new) = c /\ \A i \in 1..c : new[i] = signature[i]
    BY <1>1, LastNFacts
  <2>4. Different <=> c > 0 /\ ShownAll(old) # ShownAll(new)
    BY <1>2, <2>1 DEF Different
  <2> HIDE DEF old, new, c
  <2>5. ShownAll(old) = [k \in 1..c |-> Shown(log[a + k])]
    BY <2>2 DEF ShownAll
  <2>6. ShownAll(new) = [k \in 1..c |-> Shown(signature[k])]
    BY <2>3 DEF ShownAll
  <2>7. (ShownAll(old) = ShownAll(new)) <=> \A k \in 1..c : Shown(signature[k]) = Shown(log[a + k])
    <3>1. ASSUME ShownAll(old) = ShownAll(new), NEW k \in 1..c PROVE Shown(signature[k]) = Shown(log[a + k])
      <4>1. ShownAll(old)[k] = Shown(log[a + k]) /\ ShownAll(new)[k] = Shown(signature[k])
        BY <2>5, <2>6
      <4> QED BY <3>1, <4>1
    <3>2. ASSUME \A k \in 1..c : Shown(signature[k]) = Shown(log[a + k]) PROVE ShownAll(old) = ShownAll(new)
      BY <2>5, <2>6, <3>2
    <3> QED BY <3>1, <3>2
  <2>8. SameFile <=> \A k \in 1..c : Shown(signature[k]) = Shown(log[a + k])
    BY <1>1, <1>4 DEF SameFile, c, a
  <2>9. ~(c > 0) => 1..c = {}
    BY <1>1 DEF c
  <2>10. Rotated <=> Different
    BY <1>4 DEF Rotated
  <2> QED BY <2>4, <2>7, <2>8, <2>9, <2>10
<1> QED BY <1>3, <1>4

LEMMA ParseStep == TypeInv /\ ParseInv /\ [Next]_vars => ParseInv'
<1> SUFFICES ASSUME TypeInv, ParseInv, [Next]_vars PROVE ParseInv'
  OBVIOUS
<1>0. /\ log \in Seq(Piece) /\ LogInv /\ partial \in Seq(Piece) /\ signature \in Seq(Piece)
      /\ parsed \in Seq(Line) /\ position \in Nat /\ TypeOK
  <2>1. TypeOK /\ LogInv
    BY DEF TypeInv
  <2>2. log \in Seq(Piece) /\ partial \in Seq(Piece) /\ signature \in Seq(Piece)
    BY <2>1 DEF TypeOK
  <2>3. parsed \in Seq(Line)
    BY <2>1 DEF TypeOK
  <2>4. position \in Nat
    BY <2>1, BoundAssumption DEF TypeOK
  <2> QED BY <2>1, <2>2, <2>3, <2>4
<1>1. /\ Base \in Nat /\ Base' \in Nat /\ Base <= Base' /\ written \in Nat /\ written' \in Nat /\ written <= written'
      /\ Base + Len(log) = written /\ Base' + Len(log') = written' /\ Len(log) \in Nat /\ Len(log') \in Nat
      /\ \/ Base' = Base /\ Len(log) <= Len(log') /\ \A k \in 1..Len(log) : log'[k] = log[k]
         \/ log' = <<>> /\ Len(log') = 0 /\ Base' = written'
  <2>1. LogStep
    BY LogSteps
  <2>2. log' \in Seq(Piece)
    BY <2>1, LogInvStep
  <2> QED BY <1>0, <2>1, <2>2, LogInvStep
<1>2. \A i \in 1..Len(parsed) : parsed[i] \in Nat
  <2>1. Line \subseteq Nat
    BY BoundAssumption DEF Line
  <2>2. ASSUME NEW i \in 1..Len(parsed) PROVE parsed[i] \in Line
    BY <1>0
  <2> QED BY <2>1, <2>2
<1>3. ReadBefore(written)
  <2>1. ASSUME NEW upto \in Nat, upto <= written, ReadBefore(upto) PROVE ReadBefore(written)
    <3> SUFFICES ASSUME NEW i \in 1..Len(parsed) PROVE 2 * parsed[i] <= written
      BY DEF ReadBefore
    <3>1. 2 * parsed[i] <= upto /\ parsed[i] \in Nat
      BY <1>2, <2>1 DEF ReadBefore
    <3>2. written \in Nat /\ upto \in Nat /\ upto <= written
      BY <1>1, <2>1
    <3> QED BY <3>1, <3>2
  <2>2. CASE SameFile
    <3>1. position \in Nat /\ position <= Len(log) /\ ReadBefore(Base + position)
      BY <1>0, <2>2 DEF ParseInv, SameFile
    <3>2. Base + position \in Nat /\ Base + position <= written
      BY <1>1, <3>1
    <3> QED BY <2>1, <3>1, <3>2
  <2>3. CASE ReadBefore(Base)
    <3>1. Base <= written /\ Base \in Nat
      BY <1>1
    <3> QED BY <2>1, <2>3, <3>1
  <2> QED BY <2>2, <2>3 DEF ParseInv
<1>4. ASSUME UNCHANGED <<position, partial, signature, parsed>>
      PROVE  ParseInv'
  <2>1. Increasing(parsed)' /\ (Len(signature) <= position)' /\ (Ends(partial) = {})'
    BY <1>4 DEF ParseInv, Increasing, Ends
  <2>2. ReadBefore(Base + position)'
    <3>1. ASSUME NEW i \in 1..Len(parsed) PROVE 2 * parsed[i] <= Base' + position
      <4>1. 2 * parsed[i] <= Base + position
        BY DEF ParseInv, ReadBefore
      <4>2. parsed[i] \in Nat /\ position \in Nat /\ Base \in Nat /\ Base' \in Nat /\ Base <= Base'
        BY <1>0, <1>1, <1>2
      <4> QED BY <4>1, <4>2
    <3> QED BY <1>4, <3>1 DEF ReadBefore
  <2>3. SameFile' \/ ReadBefore(Base)'
    <3>1. CASE log' = <<>> /\ Len(log') = 0 /\ Base' = written'
      <4>1. ReadBefore(Base)'
        BY <1>1, <1>2, <1>3, <1>4, <3>1 DEF ReadBefore
      <4> QED BY <4>1
    <3>2. CASE Base' = Base /\ Len(log) <= Len(log') /\ \A k \in 1..Len(log) : log'[k] = log[k]
      <4>1. CASE ReadBefore(Base)
        BY <1>4, <3>2, <4>1 DEF ReadBefore
      <4>2. CASE SameFile
        <5>1. position' <= Len(log')
          BY <1>0, <1>1, <1>4, <3>2, <4>2 DEF SameFile
        <5>2. ASSUME NEW j \in 1..Len(signature)
              PROVE  Shown(signature[j])' = Shown(log[position - Len(signature) + j])'
          <6>1. position - Len(signature) + j \in 1..Len(log)
            <7>1. /\ position \in Nat /\ Len(signature) \in Nat /\ Len(signature) <= position
                  /\ position <= Len(log)
              BY <1>0, <4>2 DEF SameFile, ParseInv
            <7> QED BY <1>1, <7>1
          <6>2. log'[position - Len(signature) + j] = log[position - Len(signature) + j]
            BY <3>2, <6>1
          <6>3. Shown(signature[j]) = Shown(log[position - Len(signature) + j])
            BY <4>2 DEF SameFile
          <6> QED BY <1>4, <6>2, <6>3 DEF Shown
        <5> QED BY <1>4, <5>1, <5>2 DEF SameFile
      <4> QED BY <4>1, <4>2 DEF ParseInv
    <3> QED BY <1>1, <3>1, <3>2
  <2> QED BY <2>1, <2>2, <2>3 DEF ParseInv
<1>5. CASE \/ NothingStaged \/ CatchUp \/ SwapFails \/ ClientWrites \/ SomebodyEmpties \/ Stage \/ SweepEnds
           \/ UNCHANGED vars
  <2>1. UNCHANGED <<position, partial, signature, parsed>>
    BY <1>5 DEF NothingStaged, CatchUp, SwapFails, ClientWrites, SomebodyEmpties, Stage, SweepEnds, vars, tail
  <2> QED BY <1>4, <2>1
<1>6. CASE Truncate
  <2>1. position' = 0 /\ partial' = <<>> /\ signature' = <<>> /\ parsed' = parsed /\ log' = <<>> /\ written' = written
    BY <1>6 DEF Truncate, Restarted
  <2>2. Increasing(parsed)' /\ (Len(signature) <= position)' /\ (Ends(partial) = {})'
    BY <2>1 DEF ParseInv, Increasing, Ends
  <2>3. Base' = written
    BY <1>1, <2>1 DEF Base
  <2>4. ReadBefore(Base + position)' /\ ReadBefore(Base)'
    BY <1>1, <1>2, <1>3, <2>1, <2>3 DEF ReadBefore
  <2> QED BY <2>2, <2>4 DEF ParseInv
<1>7. CASE Attach
  <2>1. Attached(AttachAt(log)) /\ parsed' = <<>> /\ log' = log
    BY <1>7 DEF Attach
  <2>2. /\ position' \in 0..Len(log) /\ partial' = <<>> /\ signature' \in Seq(Piece) /\ Len(signature') <= position'
    BY <1>0, <2>1, AttachedSignature
  <2>3. Increasing(parsed)' /\ ReadBefore(Base + position)' /\ ReadBefore(Base)' /\ (Ends(partial) = {})'
    BY <2>1, <2>2 DEF Increasing, ReadBefore, Ends
  <2> QED BY <2>2, <2>3 DEF ParseInv
<1>8. CASE Poll
  <2> DEFINE read == Complete(TextOf(TextHad, Start))
  <2>1. /\ Start \in 0..Len(log) /\ TextHad \in Seq(Piece) /\ SigHad \in Seq(Piece)
        /\ position' = Len(log)
        /\ signature' = LastN(TextOf(SigHad, Start), SigLen)
        /\ partial' = Unterminated(TextOf(TextHad, Start))
        /\ parsed' = parsed \o read
        /\ log' = log /\ written' = written
    BY <1>8, PollFacts
  <2>2. Base' = Base
    BY <2>1 DEF Base
  <2>3. Ends(TextHad) = {}
    BY DEF TextHad, ParseInv, Ends
  <2>4. /\ read \in Seq(Line) /\ Increasing(read)
        /\ \A i \in 1..Len(read) : 2 * read[i] > Base + Start /\ 2 * read[i] <= Base + Len(log)
    BY <1>0, <1>1, <2>1, <2>3, ReadOnce
  <2>5. Len(SigHad) <= Start /\ (Rotated => Start = 0) /\ (~Rotated => Start = position /\ SigHad = signature)
    BY <1>0 DEF SigHad, Start, ParseInv
  <2> HIDE DEF read
  <2>6. ReadBefore(Base + Start)
    <3>1. CASE Rotated
      <4>1. ReadBefore(Base)
        BY <1>0, <3>1, RotatedIsNotSame DEF ParseInv
      <4> QED BY <1>1, <2>5, <3>1, <4>1
    <3>2. CASE ~Rotated
      BY <2>5, <3>2 DEF ParseInv
    <3> QED BY <3>1, <3>2
  <2>7. Increasing(parsed \o read)
    <3> DEFINE f == [n \in Line |-> n]
    <3>1. f \in [Line -> Nat] /\ \A n \in Line : f[n] = n
      BY BoundAssumption DEF Line
    <3> HIDE DEF f
    <3>2. /\ \A i \in 1..Len(parsed) : parsed[i] \in Line /\ f[parsed[i]] = parsed[i]
          /\ \A i \in 1..Len(read) : read[i] \in Line /\ f[read[i]] = read[i]
      BY <1>0, <2>4, <3>1
    <3>3. \A i \in 1..Len(parsed), j \in 1..Len(read) : parsed[i] < read[j]
      <4> SUFFICES ASSUME NEW i \in 1..Len(parsed), NEW j \in 1..Len(read) PROVE parsed[i] < read[j]
        OBVIOUS
      <4>1. 2 * parsed[i] <= Base + Start /\ 2 * read[j] > Base + Start
        BY <2>4, <2>6 DEF ReadBefore
      <4>2. parsed[i] \in Nat /\ read[j] \in Nat /\ Base \in Nat /\ Start \in Nat
        <5>1. Line \subseteq Nat
          BY BoundAssumption DEF Line
        <5>2. parsed[i] \in Line /\ read[j] \in Line
          BY <3>2
        <5>3. parsed[i] \in Nat /\ read[j] \in Nat
          BY <5>1, <5>2
        <5> QED BY <1>1, <2>1, <5>3
      <4> QED BY <4>1, <4>2
    <3>4. /\ \A i, j \in 1..Len(parsed) : i < j => f[parsed[i]] < f[parsed[j]]
          /\ \A i, j \in 1..Len(read) : i < j => f[read[i]] < f[read[j]]
          /\ \A i \in 1..Len(parsed), j \in 1..Len(read) : f[parsed[i]] < f[read[j]]
      BY <2>4, <3>2, <3>3 DEF ParseInv, Increasing
    <3> DEFINE t == parsed \o read
    <3>5. t \in Seq(Line)
      BY <1>0, <2>4, JoinFacts
    <3>6. \A i, j \in 1..Len(t) : i < j => f[t[i]] < f[t[j]]
      BY <1>0, <2>4, <3>1, <3>4, JoinedInOrder
    <3> HIDE DEF t
    <3>7. \A i \in 1..Len(t) : f[t[i]] = t[i]
      BY <3>1, <3>5
    <3> QED BY <3>6, <3>7 DEF Increasing, t
  <2>8. \A i \in 1..Len(parsed') : 2 * parsed'[i] <= Base + Len(log)
    <3>1. \A i \in 1..Len(parsed') :
            \/ i \in 1..Len(parsed) /\ parsed'[i] = parsed[i]
            \/ i - Len(parsed) \in 1..Len(read) /\ parsed'[i] = read[i - Len(parsed)]
      BY <1>0, <2>1, <2>4, JoinFacts
    <3>2. \A i \in 1..Len(parsed) : 2 * parsed[i] <= Base + Len(log)
      BY <1>1, <1>3 DEF ReadBefore
    <3> QED BY <2>4, <3>1, <3>2
  <2>9. ReadBefore(Base + position)'
    BY <2>1, <2>2, <2>8 DEF ReadBefore
  <2>10. (Ends(partial) = {})'
    <3>1. TextOf(TextHad, Start) \in Seq(Piece)
      BY <1>0, <2>1, TextFacts
    <3> QED BY <2>1, <3>1, UnterminatedFacts DEF Ends
  <2>11. /\ Len(signature') <= Len(log)
         /\ \A j \in 1..Len(signature') :
              \/ signature'[j] = log[Len(log) - Len(signature') + j]
              \/ \E i \in 1..Len(SigHad) : /\ Start - Len(SigHad) + i = Len(log) - Len(signature') + j
                                           /\ signature'[j] = SigHad[i]
    <3> DEFINE next == LastN(TextOf(SigHad, Start), SigLen)
    <3>1. SignedFrom(next, SigHad, Start)
      BY <1>0, <2>1, <2>5, PolledSignature
    <3>2. signature' = next
      BY <2>1
    <3> HIDE DEF next
    <3> QED BY <3>1, <3>2 DEF SignedFrom
  <2>12. SameFile'
    <3>1. ASSUME NEW j \in 1..Len(signature')
          PROVE  Shown(signature'[j]) = Shown(log[Len(log) - Len(signature') + j])
      <4>1. CASE signature'[j] = log[Len(log) - Len(signature') + j]
        BY <4>1
      <4>2. ASSUME NEW i \in 1..Len(SigHad), Start - Len(SigHad) + i = Len(log) - Len(signature') + j,
                   signature'[j] = SigHad[i]
            PROVE  Shown(signature'[j]) = Shown(log[Len(log) - Len(signature') + j])
        <5>1. ~Rotated
          BY <4>2 DEF SigHad
        <5>2. SameFile
          BY <1>0, <5>1, RotatedIsNotSame DEF ParseInv
        <5>3. Shown(signature[i]) = Shown(log[position - Len(signature) + i])
          BY <2>5, <4>2, <5>1, <5>2 DEF SameFile
        <5> QED BY <2>5, <4>2, <5>1, <5>3
      <4> QED BY <2>11, <4>1, <4>2
    <3>2. (position <= Len(log))'
      BY <1>1, <2>1
    <3>3. \A j \in 1..Len(signature') : Shown(signature[j])' = Shown(log[position - Len(signature) + j])'
      BY <2>1, <3>1 DEF Shown
    <3> QED BY <3>2, <3>3 DEF SameFile
  <2> QED BY <2>1, <2>7, <2>9, <2>10, <2>11, <2>12 DEF ParseInv
<1> QED BY <1>5, <1>6, <1>7, <1>8 DEF Next, DriverStep

LEMMA TailInvHolds == Spec => [](TypeInv /\ ArchiveInv /\ ParseInv)
<1>1. Init => TypeInv /\ ArchiveInv /\ ParseInv
  <2> SUFFICES ASSUME Init PROVE ArchiveInv /\ ParseInv
    BY TypeInit
  <2>1. archive = <<>> /\ staged.bytes = <<>> /\ parsed = <<>> /\ partial = <<>> /\ signature = <<>>
        /\ position = 0 /\ at = "poll" /\ log = <<>>
    BY DEF Init, None
  <2> QED BY <2>1 DEF ArchiveInv, ParseInv, Ordered, Increasing, ReadBefore, Ends, SameFile
<1> QED BY <1>1, TypeStep, ArchiveStep, ParseStep, PTL DEF Spec

\* LogTail.poll and finish_archive: however polls, copies, swaps and emptying by
\* somebody else interleave, a line reaches the parsers at most once per attachment
\* and the archives once in all, in the order it was written.
THEOREM LinesOnceInOrder == Spec => []OnceInOrder
<1>1. TypeInv /\ ArchiveInv /\ ParseInv => OnceInOrder
  <2> SUFFICES ASSUME TypeInv, ArchiveInv, ParseInv,
                      NEW i \in 1..Len(archive), NEW j \in 1..Len(archive), i < j
               PROVE  \/ archive[i][1] < archive[j][1]
                      \/ archive[i] = <<archive[j][1], "text">> /\ archive[j][2] = "end"
    BY DEF OnceInOrder, ParsedOnceInOrder, ArchivedOnceInOrder, ParseInv
  <2>1. archive[i] \in Piece /\ archive[j] \in Piece
    BY DEF TypeInv, TypeOK
  <2>2. Index(archive[i]) < Index(archive[j])
    BY DEF ArchiveInv, Ordered
  <2> QED BY <2>1, <2>2, PieceFacts
<1> QED BY <1>1, TailInvHolds, PTL
-----------------------------------------------------------------------------
(* What a poll and a swap leave behind                                      *)

\* The file still is the one the tail left off in, piece by piece.
Kept ==
  /\ position <= Len(log)
  /\ \A j \in 1..Len(signature) : signature[j] = log[position - Len(signature) + j]

\* Nothing the tail remembers is in the file any more.
Gone == \A j \in 1..Len(signature) : Index(signature[j]) <= Base

\* The signature tells another file apart: poll goes on only in the one it
\* left off in.
Unmistaken == Rotated \/ Kept

\* All that this reading went over is parsed, or waits in the partial line.
CaughtTo(k) ==
  /\ \A h \in Whole(log) : h <= k /\ h - 1 > from => log[h][1] \in Range(parsed)
  /\ k > from /\ log[k][2] = "text" => partial # <<>> /\ partial[Len(partial)] = log[k]

CatchInv ==
  /\ from <= position
  /\ position > 0 => signature # <<>>
  /\ Kept \/ Gone
  /\ Kept => CaughtTo(position)

\* A file cannot both be kept and gone, unless the tail is at its top.
LEMMA KeptOrGone ==
  ASSUME TypeInv, ParseInv, CatchInv, Kept, Gone
  PROVE  position = 0
<1>1. /\ signature \in Seq(Piece) /\ Len(signature) \in Nat /\ position \in Nat /\ Len(log) \in Nat
      /\ Len(signature) <= position /\ position <= Len(log) /\ written \in Nat /\ Len(log) <= written
  <2>1. signature \in Seq(Piece) /\ position \in Nat /\ log \in Seq(Piece) /\ written \in Nat
    BY BoundAssumption DEF TypeInv, TypeOK
  <2>2. Len(signature) <= position /\ position <= Len(log) /\ Len(log) <= written
    BY DEF TypeInv, ParseInv, Kept, LogInv
  <2> QED BY <2>1, <2>2
<1>2. Base \in Nat
  BY <1>1 DEF Base
<1>3. SUFFICES ASSUME position > 0 PROVE FALSE
  BY <1>1
<1>4. Len(signature) # 0
  BY <1>1, <1>3 DEF CatchInv
<1>5. 1 \in 1..Len(signature) /\ position - Len(signature) + 1 \in 1..Len(log)
  BY <1>1, <1>4
<1>6. Index(signature[1]) <= Base /\ signature[1] = log[position - Len(signature) + 1]
  BY <1>5 DEF Kept, Gone
<1>7. Index(log[position - Len(signature) + 1]) = Base + (position - Len(signature) + 1)
  BY <1>5 DEF TypeInv, LogInv
<1> QED BY <1>1, <1>2, <1>5, <1>6, <1>7

\* At the top of a file there is nothing to catch up with.
LEMMA CaughtAtTop ==
  ASSUME TypeInv, from = position
  PROVE  CaughtTo(position)
<1>1. position \in Nat /\ log \in Seq(Piece)
  BY BoundAssumption DEF TypeInv, TypeOK
<1>2. Whole(log) \subseteq Nat
  BY <1>1 DEF Whole, Ends
<1> QED BY <1>1, <1>2 DEF CaughtTo

\* What a poll keeps for the next one ends with the last piece of the file, when
\* that is not the end of a line.
LEMMA KeptForNext ==
  ASSUME log \in Seq(Piece), NEW kept \in Seq(Piece), NEW start \in 0..Len(log), Len(log) > 0,
         log[Len(log)][2] = "text",
         start < Len(log) \/ (kept # <<>> /\ kept[Len(kept)] = log[Len(log)])
  PROVE  /\ Unterminated(TextOf(kept, start)) # <<>>
         /\ Unterminated(TextOf(kept, start))[Len(Unterminated(TextOf(kept, start)))] = log[Len(log)]
<1> DEFINE text == TextOf(kept, start)
<1>1. /\ text \in Seq(Piece) /\ Len(text) = Len(kept) + Len(log) - start
      /\ \A i \in 1..Len(kept) : text[i] = kept[i]
      /\ \A h \in (start + 1)..Len(log) : text[Len(kept) + h - start] = log[h]
  BY TextFacts
<1> HIDE DEF text
<1>2. start \in Nat /\ Len(log) \in Nat /\ Len(kept) \in Nat /\ start <= Len(log) /\ Len(text) \in Nat
  BY <1>1
<1>3. Len(text) # 0 /\ text[Len(text)] = log[Len(log)]
  <2>1. CASE start < Len(log)
    <3>1. Len(log) \in (start + 1)..Len(log) /\ Len(text) = Len(kept) + Len(log) - start /\ Len(text) # 0
      BY <1>1, <1>2, <2>1
    <3> QED BY <1>1, <3>1
  <2>2. CASE start = Len(log) /\ kept # <<>> /\ kept[Len(kept)] = log[Len(log)]
    <3>1. Len(text) = Len(kept) /\ Len(kept) # 0 /\ Len(kept) \in 1..Len(kept)
      BY <1>1, <1>2, <2>2
    <3> QED BY <1>1, <2>2, <3>1
  <2> QED BY <1>2, <2>1, <2>2
<1>4. text # <<>> /\ text[Len(text)][2] = "text"
  BY <1>3
<1>5. Unterminated(text) # <<>> /\ Unterminated(text)[Len(Unterminated(text))] = text[Len(text)]
  BY <1>1, <1>4, UnterminatedFacts
<1> QED BY <1>3, <1>5 DEF text

LEMMA CatchPoll ==
  ASSUME TypeInv, ParseInv, CatchInv, Unmistaken, Poll
  PROVE  CatchInv' /\ CaughtUp'
<1> DEFINE read == Complete(TextOf(TextHad, Start))
<1>0. /\ log \in Seq(Piece) /\ partial \in Seq(Piece) /\ parsed \in Seq(Line) /\ signature \in Seq(Piece)
      /\ position \in Nat /\ from \in Nat /\ Len(log) \in Nat /\ Whole(log) \subseteq 1..Len(log)
  <2>1. /\ log \in Seq(Piece) /\ partial \in Seq(Piece) /\ parsed \in Seq(Line) /\ signature \in Seq(Piece)
        /\ position \in Nat /\ from \in Nat
    BY BoundAssumption DEF TypeInv, TypeOK
  <2> QED BY <2>1 DEF Whole, Ends
<1>1. /\ Start \in 0..Len(log) /\ TextHad \in Seq(Piece) /\ SigHad \in Seq(Piece)
      /\ position' = Len(log) /\ from' = IF Rotated THEN 0 ELSE from
      /\ signature' = LastN(TextOf(SigHad, Start), SigLen)
      /\ partial' = Unterminated(TextOf(TextHad, Start))
      /\ parsed' = parsed \o read
      /\ log' = log
  BY PollFacts
<1>2. read \in Seq(Line)
  <2>1. TextOf(TextHad, Start) \in Seq(Piece)
    BY <1>0, <1>1, TextFacts
  <2> QED BY <2>1, CompleteFacts
<1>3. /\ Rotated => Start = 0 /\ from' = 0 /\ SigHad = <<>>
      /\ ~Rotated => Start = position /\ from' = from /\ TextHad = partial /\ SigHad = signature /\ Kept
  BY <1>1 DEF Start, TextHad, SigHad, Unmistaken
<1>4. Range(parsed') = Range(parsed) \cup Range(read)
  BY <1>0, <1>1, <1>2, RangeConcatenation
<1>5. ASSUME NEW h \in Whole(log), h - 1 > Start \/ (h - 1 = Start /\ TextHad # <<>> /\ TextHad[Len(TextHad)] = log[Start])
      PROVE  log[h][1] \in Range(read)
  BY <1>0, <1>1, <1>5, ReadAll
<1> HIDE DEF read
<1>6. ASSUME NEW h \in Whole(log), h - 1 > from' PROVE log[h][1] \in Range(parsed')
  <2>0. h \in Nat /\ h \in 1..Len(log)
    BY <1>0
  <2>1. CASE Rotated
    <3>1. h - 1 > Start
      BY <1>3, <1>6, <2>1
    <3> QED BY <1>4, <1>5, <3>1
  <2>2. CASE ~Rotated /\ h <= position
    <3>1. log[h][1] \in Range(parsed)
      BY <1>3, <1>6, <2>2 DEF CatchInv, CaughtTo
    <3> QED BY <1>4, <3>1
  <2>3. CASE ~Rotated /\ ~(h <= position)
    <3>1. h - 1 >= Start /\ Start = position /\ from' = from /\ h - 1 > from
      BY <1>0, <1>3, <1>6, <2>0, <2>3
    <3>2. CASE h - 1 > Start
      BY <1>4, <1>5, <3>2
    <3>3. CASE h - 1 = Start
      <4>1. log[position][2] = "text" /\ position > from
        <5>1. log[h - 1] = <<log[h][1], "text">>
          BY DEF Whole
        <5> QED BY <3>1, <3>3, <5>1
      <4>2. partial # <<>> /\ partial[Len(partial)] = log[position]
        BY <1>3, <2>3, <4>1 DEF CatchInv, CaughtTo
      <4>3. TextHad # <<>> /\ TextHad[Len(TextHad)] = log[Start]
        BY <1>3, <2>3, <3>1, <4>2
      <4> QED BY <1>4, <1>5, <3>3, <4>3
    <3>4. Start \in Nat
      BY <1>0, <3>1
    <3> QED BY <2>0, <3>1, <3>2, <3>3, <3>4
  <2> QED BY <2>1, <2>2, <2>3
<1>7. from' <= position' /\ from' \in Nat
  <2>1. ~Rotated => from <= position /\ position <= Len(log)
    BY <1>3 DEF Kept, CatchInv
  <2> QED BY <1>0, <1>1, <1>3, <2>1
<1>8. ASSUME Len(log) > from', log[Len(log)][2] = "text"
      PROVE  partial' # <<>> /\ partial'[Len(partial')] = log[Len(log)]
  <2>1. Start < Len(log) \/ (TextHad # <<>> /\ TextHad[Len(TextHad)] = log[Len(log)])
    <3>1. CASE Rotated
      BY <1>0, <1>1, <1>3, <1>8, <3>1
    <3>2. CASE ~Rotated /\ Start = Len(log)
      <4>1. position = Len(log) /\ from' = from
        BY <1>3, <3>2
      <4>2. partial # <<>> /\ partial[Len(partial)] = log[position]
        BY <1>3, <1>8, <3>2, <4>1 DEF CatchInv, CaughtTo
      <4> QED BY <1>3, <3>2, <4>1, <4>2
    <3>3. Start \in Nat /\ Start <= Len(log)
      BY <1>1
    <3> QED BY <1>0, <3>1, <3>2, <3>3
  <2>2. Len(log) > 0
    BY <1>0, <1>7, <1>8
  <2>3. /\ Unterminated(TextOf(TextHad, Start)) # <<>>
        /\ Unterminated(TextOf(TextHad, Start))[Len(Unterminated(TextOf(TextHad, Start)))] = log[Len(log)]
    BY <1>0, <1>1, <1>8, <2>1, <2>2, KeptForNext
  <2> QED BY <1>1, <2>3
<1>9. SignedFrom(signature', SigHad, Start)
  <2>1. Len(SigHad) <= Start
    BY <1>0, <1>3 DEF ParseInv
  <2>2. SignedFrom(LastN(TextOf(SigHad, Start), SigLen), SigHad, Start)
    BY <1>0, <1>1, <2>1, PolledSignature
  <2> QED BY <1>1, <2>2
<1>10. position' > 0 => signature' # <<>>
  <2>1. Len(log) > 0 => Start = 0 \/ SigHad # <<>>
    <3>1. ~Rotated /\ position > 0 => signature # <<>>
      BY DEF CatchInv
    <3> QED BY <1>0, <1>3, <3>1
  <2> QED BY <1>1, <1>9, <2>1 DEF SignedFrom
<1>11. \A j \in 1..Len(signature') : signature'[j] = log[Len(log) - Len(signature') + j]
  <2> SUFFICES ASSUME NEW j \in 1..Len(signature') PROVE signature'[j] = log[Len(log) - Len(signature') + j]
    OBVIOUS
  <2>1. ASSUME NEW i \in 1..Len(SigHad), Start - Len(SigHad) + i = Len(log) - Len(signature') + j,
               signature'[j] = SigHad[i]
        PROVE  signature'[j] = log[Len(log) - Len(signature') + j]
    <3>1. ~Rotated
      BY <1>3, <2>1
    <3>2. signature[i] = log[position - Len(signature) + i]
      BY <1>3, <2>1, <3>1 DEF Kept
    <3> QED BY <1>3, <2>1, <3>1, <3>2
  <2> QED BY <1>9, <2>1 DEF SignedFrom
<1>12. Kept'
  BY <1>0, <1>1, <1>11 DEF Kept
<1>13. CaughtTo(position)'
  BY <1>1, <1>6, <1>8 DEF CaughtTo
<1>14. CaughtUp'
  BY <1>1, <1>6 DEF CaughtUp
<1> QED BY <1>7, <1>10, <1>12, <1>13, <1>14 DEF CatchInv

\* The client appends to the file the tail left off in, or to another one.
LEMMA CatchWrite ==
  ASSUME TypeInv, ParseInv, CatchInv, ClientWrites
  PROVE  CatchInv'
<1>1. PICK p \in Piece : log' = Append(log, p)
  BY NextPiece
<1>2. /\ UNCHANGED <<position, partial, signature, from, parsed>> /\ written' = written + 1
  BY DEF ClientWrites, tail
<1>3. /\ log \in Seq(Piece) /\ signature \in Seq(Piece) /\ Len(signature) \in Nat /\ Len(signature) <= position
      /\ position \in Nat /\ from \in Nat /\ written \in Nat
  BY BoundAssumption DEF TypeInv, TypeOK, ParseInv
<1>4. Len(log') = Len(log) + 1 /\ Len(log) \in Nat /\ \A k \in 1..Len(log) : log'[k] = log[k]
  BY <1>1, <1>3, AppendFacts
<1>5. Base' = Base
  BY <1>2, <1>3, <1>4 DEF Base
<1>6. Gone => Gone'
  BY <1>2, <1>5 DEF Gone
<1>7. Kept => Kept'
  <2> SUFFICES ASSUME Kept, NEW j \in 1..Len(signature) PROVE signature[j] = log'[position - Len(signature) + j]
    BY <1>2, <1>3, <1>4 DEF Kept
  <2>1. position - Len(signature) + j \in 1..Len(log)
    BY <1>3, <1>4 DEF Kept
  <2> QED BY <1>4, <2>1 DEF Kept
<1>8. Kept => CaughtTo(position)'
  <2> SUFFICES ASSUME Kept PROVE CaughtTo(position)'
    OBVIOUS
  <2>1. CaughtTo(position) /\ position <= Len(log)
    BY DEF CatchInv, Kept
  <2>2. ASSUME NEW h \in Whole(log'), h <= position, h - 1 > from PROVE log'[h][1] \in Range(parsed)
    <3>1. h \in 1..Len(log') /\ h > 1 /\ log'[h][2] = "end" /\ log'[h - 1] = <<log'[h][1], "text">>
      BY DEF Whole, Ends
    <3>2. h \in 1..Len(log) /\ h - 1 \in 1..Len(log)
      BY <1>3, <1>4, <2>1, <2>2, <3>1
    <3>3. h \in Whole(log)
      BY <1>4, <3>1, <3>2 DEF Whole, Ends
    <3> QED BY <1>4, <2>1, <2>2, <3>2, <3>3 DEF CaughtTo
  <2>3. position > from /\ log'[position][2] = "text" => partial # <<>> /\ partial[Len(partial)] = log'[position]
    <3> SUFFICES ASSUME position > from PROVE log'[position] = log[position]
      BY <2>1 DEF CaughtTo
    <3>1. position \in 1..Len(log)
      BY <1>3, <1>4, <2>1
    <3> QED BY <1>4, <3>1
  <2> QED BY <1>2, <2>2, <2>3 DEF CaughtTo
<1>9. Gone /\ Kept' => CaughtTo(position)'
  <2> SUFFICES ASSUME Gone, Kept' PROVE CaughtTo(position)'
    OBVIOUS
  <2>1. CASE position = 0
    <3>1. Whole(log') \subseteq Nat
      BY <1>3, <1>4 DEF Whole, Ends
    <3>2. \A h \in Whole(log') : ~(h <= 0 /\ h - 1 > from)
      BY <1>3, <3>1
    <3> QED BY <1>2, <1>3, <2>1, <3>2 DEF CaughtTo
  <2>2. CASE position > 0
    <3>1. Len(signature) # 0
      BY <1>3, <2>2 DEF CatchInv
    <3>2. LogStep
      BY <1>1, <1>2, NextPiece DEF LogStep
    <3>3. LogInv' /\ Base' \in Nat
      BY <3>2, LogInvStep
    <3>4. position <= Len(log')
      BY <1>2 DEF Kept
    <3>5. 1 \in 1..Len(signature) /\ position - Len(signature) + 1 \in 1..Len(log')
      BY <1>3, <1>4, <3>1, <3>4
    <3>6. Index(signature[1]) <= Base' /\ signature[1] = log'[position - Len(signature) + 1]
      BY <1>2, <1>6, <3>5 DEF Kept, Gone
    <3>7. Index(log'[position - Len(signature) + 1]) = Base' + (position - Len(signature) + 1)
      BY <3>3, <3>5 DEF LogInv
    <3> QED BY <1>3, <3>3, <3>5, <3>6, <3>7
  <2> QED BY <1>3, <2>1, <2>2
<1>10. (from <= position)' /\ (position > 0 => signature # <<>>)'
  BY <1>2 DEF CatchInv
<1>11. (Kept \/ Gone)' /\ (Kept => CaughtTo(position))'
  BY <1>6, <1>7, <1>8, <1>9 DEF CatchInv
<1> QED BY <1>10, <1>11 DEF CatchInv

LEMMA CatchStep == TypeInv /\ ParseInv /\ CatchInv /\ Unmistaken /\ [Next]_vars => CatchInv'
<1> SUFFICES ASSUME TypeInv, ParseInv, CatchInv, Unmistaken, [Next]_vars PROVE CatchInv'
  OBVIOUS
<1>0. /\ log \in Seq(Piece) /\ signature \in Seq(Piece) /\ Len(signature) \in Nat /\ Len(signature) <= position
      /\ position \in Nat /\ from \in Nat /\ written \in Nat /\ Len(log) \in Nat /\ Len(log) <= written /\ Base \in Nat
      /\ Base + Len(log) = written
  <2>1. /\ log \in Seq(Piece) /\ signature \in Seq(Piece) /\ Len(signature) <= position
        /\ position \in Nat /\ from \in Nat /\ written \in Nat /\ Len(log) <= written
    BY BoundAssumption DEF TypeInv, TypeOK, ParseInv, LogInv
  <2> QED BY <2>1 DEF Base
<1>1. CASE NothingStaged \/ CatchUp \/ SwapFails \/ Stage \/ SweepEnds \/ UNCHANGED vars
  <2>1. UNCHANGED <<log, written, position, partial, signature, from, parsed>>
    BY <1>1 DEF NothingStaged, CatchUp, SwapFails, Stage, SweepEnds, vars, tail
  <2>2. Kept' = Kept /\ Gone' = Gone /\ CaughtTo(position)' = CaughtTo(position)
    BY <2>1 DEF Kept, Gone, Base, CaughtTo
  <2> QED BY <2>1, <2>2 DEF CatchInv
<1>2. CASE SomebodyEmpties
  <2>1. UNCHANGED <<written, position, partial, signature, from, parsed>> /\ log' = <<>>
    BY <1>2 DEF SomebodyEmpties, tail
  <2>2. Len(log') = 0 /\ Base' = written
    BY <1>0, <2>1 DEF Base
  <2>3. Gone'
    <3> SUFFICES ASSUME NEW j \in 1..Len(signature) PROVE Index(signature[j]) <= written
      BY <2>1, <2>2 DEF Gone
    <3>1. Index(signature[j]) \in Nat
      BY <1>0, PieceFacts
    <3>2. CASE Gone
      BY <1>0, <3>1, <3>2 DEF Gone
    <3>3. CASE Kept
      <4>1. position - Len(signature) + j \in 1..Len(log) /\ signature[j] = log[position - Len(signature) + j]
        BY <1>0, <3>3 DEF Kept
      <4>2. Index(signature[j]) = Base + (position - Len(signature) + j)
        BY <4>1 DEF TypeInv, LogInv
      <4> QED BY <1>0, <4>1, <4>2
    <3> QED BY <3>2, <3>3 DEF CatchInv
  <2>4. CaughtTo(position)' \/ ~Kept'
    <3>1. Kept' => position = 0 /\ from = 0
      BY <1>0, <2>1, <2>2 DEF Kept, CatchInv
    <3>2. Whole(log') = {}
      BY <2>2 DEF Whole, Ends
    <3> QED BY <1>0, <2>1, <3>1, <3>2 DEF CaughtTo
  <2> QED BY <2>1, <2>3, <2>4 DEF CatchInv
<1>3. CASE Truncate
  <2>1. position' = 0 /\ from' = 0 /\ signature' = <<>> /\ log' = <<>>
    BY <1>3 DEF Truncate, Restarted
  <2>2. Whole(log') = {}
    BY <2>1 DEF Whole, Ends
  <2> QED BY <2>1, <2>2 DEF CatchInv, Gone, CaughtTo
<1>4. CASE Attach
  <2>1. Attached(AttachAt(log)) /\ log' = log
    BY <1>4 DEF Attach
  <2>2. /\ position' \in 0..Len(log) /\ from' = position' /\ (position' > 0 => signature' # <<>>)
        /\ \A j \in 1..Len(signature') : signature'[j] = log[position' - Len(signature') + j]
    BY <1>0, <2>1, AttachedSignature
  <2>3. CaughtTo(position)'
    <3>1. Whole(log) \subseteq Nat
      BY <1>0 DEF Whole, Ends
    <3> QED BY <1>0, <2>1, <2>2, <3>1 DEF CaughtTo
  <2>4. Kept'
    BY <1>0, <2>1, <2>2 DEF Kept
  <2> QED BY <1>0, <2>2, <2>3, <2>4 DEF CatchInv
<1>5. CASE Poll
  BY <1>5, CatchPoll
<1>6. CASE ClientWrites
  BY <1>6, CatchWrite
<1> QED BY <1>1, <1>2, <1>3, <1>4, <1>5, <1>6 DEF Next, DriverStep

LEMMA CatchInit == Init => CatchInv
<1> SUFFICES ASSUME Init PROVE CatchInv
  OBVIOUS
<1>1. log = <<>> /\ position = 0 /\ signature = <<>> /\ from = 0
  BY DEF Init
<1>2. Whole(log) = {}
  BY <1>1 DEF Whole, Ends
<1> QED BY <1>1, <1>2 DEF CatchInv, Gone, CaughtTo

LEMMA CatchHolds == Spec /\ []Unmistaken => [](TypeInv /\ ParseInv /\ CatchInv)
<1>1. TypeInv /\ ParseInv /\ CatchInv /\ Unmistaken /\ [Next]_vars => TypeInv' /\ ParseInv' /\ CatchInv'
  BY TypeStep, ParseStep, CatchStep
<1>2. Init /\ [][Next]_vars /\ []Unmistaken /\ []TypeInv /\ []ParseInv => []CatchInv
  BY <1>1, CatchInit, PTL
<1> QED BY <1>2, TailInvHolds, PTL DEF Spec

\* LogTail.poll: as long as the signature tells the file apart from another one, a
\* poll leaves no whole line between where it began reading and the end of the file,
\* wherever earlier polls, half-written lines, swaps and truncations fell.
THEOREM PollsCatchUp == Spec /\ []Unmistaken => PollCatchesUp
<1>1. TypeInv /\ ParseInv /\ CatchInv /\ Unmistaken /\ [Next]_vars
        => [at = "poll" /\ at' = "tick" => CaughtUp']_vars
  <2> SUFFICES ASSUME TypeInv, ParseInv, CatchInv, Unmistaken, Next, at = "poll", at' = "tick"
               PROVE  CaughtUp'
    OBVIOUS
  <2>1. Poll
    BY DEF Next, DriverStep, Poll, NothingStaged, CatchUp, SwapFails, Truncate, Attach, ClientWrites,
           SomebodyEmpties, Stage, SweepEnds
  <2> QED BY <2>1, CatchPoll
<1> QED BY <1>1, CatchHolds, PTL DEF Spec, PollCatchesUp

-----------------------------------------------------------------------------
(* What a swap costs                                                        *)

\* Between a poll and the swap of the same iteration, what is not parsed is fresh.
FreshInv ==
  at # "poll" => \A h \in Whole(log) : h - 1 > from => log[h][1] \in Range(parsed) \cup fresh

LEMMA FreshStep ==
  TypeInv /\ ParseInv /\ CatchInv /\ FreshInv /\ Unmistaken /\ [Next]_vars => FreshInv'
<1> SUFFICES ASSUME TypeInv, ParseInv, CatchInv, FreshInv, Unmistaken, [Next]_vars, at' # "poll",
                    NEW h \in Whole(log'), h - 1 > from'
             PROVE  log'[h][1] \in Range(parsed') \cup fresh'
  BY DEF FreshInv
<1>1. CASE CatchUp \/ Stage \/ SweepEnds \/ UNCHANGED vars
  <2>1. at # "poll" /\ UNCHANGED <<log, from, parsed, fresh>>
    BY <1>1 DEF CatchUp, Stage, SweepEnds, vars, tail
  <2> QED BY <2>1 DEF FreshInv
<1>2. CASE NothingStaged \/ SwapFails \/ Truncate \/ Attach
  BY <1>2 DEF NothingStaged, SwapFails, Truncate, Attach
<1>3. CASE Poll
  BY <1>3, CatchPoll DEF CaughtUp
<1>4. CASE SomebodyEmpties
  BY <1>4 DEF SomebodyEmpties, Whole, Ends
<1>5. CASE ClientWrites
  <2>1. PICK p \in Piece : /\ log' = Append(log, p)
                           /\ fresh' = IF p[2] = "end" THEN fresh \cup {p[1]} ELSE fresh
    BY <1>5, NextPiece
  <2>2. at # "poll" /\ UNCHANGED <<from, parsed>>
    BY <1>5 DEF ClientWrites, tail
  <2>3. log \in Seq(Piece)
    BY DEF TypeInv, TypeOK
  <2>4. /\ Len(log') = Len(log) + 1 /\ Len(log) \in Nat /\ log'[Len(log) + 1] = p
        /\ \A k \in 1..Len(log) : log'[k] = log[k]
    BY <2>1, <2>3, AppendFacts
  <2>5. h \in 1..Len(log') /\ h > 1 /\ log'[h][2] = "end" /\ log'[h - 1] = <<log'[h][1], "text">>
    BY DEF Whole, Ends
  <2>6. CASE h = Len(log) + 1
    BY <2>1, <2>4, <2>5, <2>6
  <2>7. CASE h \in 1..Len(log)
    <3>1. h - 1 \in 1..Len(log)
      BY <2>4, <2>5, <2>7
    <3>2. h \in Whole(log) /\ log'[h] = log[h]
      BY <2>4, <2>5, <2>7, <3>1 DEF Whole, Ends
    <3>3. log[h][1] \in Range(parsed) \cup fresh
      BY <2>2, <3>2 DEF FreshInv
    <3> QED BY <2>1, <2>2, <3>2, <3>3
  <2> QED BY <2>4, <2>5, <2>6, <2>7
<1> QED BY <1>1, <1>2, <1>3, <1>4, <1>5 DEF Next, DriverStep

\* What the swap erases is fresh, or began before the tail attached.
LEMMA SwapLosesFresh ==
  ASSUME TypeInv, FreshInv, Truncate
  PROVE  missed' \ missed \subseteq fresh
<1> SUFFICES ASSUME NEW n \in WholeLines(log), n \notin Range(parsed), n \notin BeforeAttach
             PROVE  n \in fresh
  BY DEF Truncate
<1>1. PICK h \in Whole(log) : n = log[h][1]
  BY DEF WholeLines
<1>2. /\ h \in 1..Len(log) /\ h > 1 /\ log[h - 1] = <<log[h][1], "text">>
      /\ Len(log) \in Nat /\ from \in Nat
  <2>1. log \in Seq(Piece) /\ from \in Nat
    BY BoundAssumption DEF TypeInv, TypeOK
  <2> QED BY <2>1 DEF Whole, Ends
<1>3. ASSUME h - 1 <= from PROVE FALSE
  <2>1. Min({from, Len(log)}) = IF from <= Len(log) THEN from ELSE Len(log)
    BY <1>2, SmallerOfTwo
  <2>2. h - 1 \in 1..Min({from, Len(log)})
    BY <1>2, <1>3, <2>1
  <2>3. log[h - 1][1] = n
    BY <1>1, <1>2
  <2> QED BY <2>2, <2>3 DEF BeforeAttach
<1>4. at # "poll" /\ h - 1 > from
  BY <1>2, <1>3 DEF Truncate
<1> QED BY <1>1, <1>4 DEF FreshInv

\* finish_archive: as long as the signature tells the file apart, emptying a log costs
\* no line but those finished after the poll of the same iteration of the driver.
THEOREM OnlyFreshLost == Spec /\ []Unmistaken => OnlyFreshLinesMissed
<1>1. TypeInv /\ FreshInv /\ [Next]_vars => [missed' \ missed \subseteq fresh]_vars
  <2> SUFFICES ASSUME TypeInv, FreshInv, Next PROVE missed' \ missed \subseteq fresh
    OBVIOUS
  <2>1. CASE Truncate
    BY <2>1, SwapLosesFresh
  <2>2. CASE ~Truncate
    <3>1. missed' = missed
      BY <2>2 DEF Next, DriverStep, Poll, NothingStaged, CatchUp, SwapFails, Attach, ClientWrites,
                  SomebodyEmpties, Stage, SweepEnds
    <3> QED BY <3>1
  <2> QED BY <2>1, <2>2
<1>2. Init => FreshInv
  BY DEF Init, FreshInv
<1>3. Init /\ [][Next]_vars /\ []Unmistaken /\ []TypeInv /\ []ParseInv /\ []CatchInv => []FreshInv
  BY <1>2, FreshStep, PTL
<1> QED BY <1>1, <1>3, CatchHolds, PTL DEF Spec, OnlyFreshLinesMissed

-----------------------------------------------------------------------------
(* When the signature cannot be mistaken                                    *)

\* No two lines look the same.
DistinctTexts == \A m, n \in Line : Text[m] = Text[n] => m = n

LEMMA ToldApart ==
  ASSUME DistinctTexts, TypeInv, ParseInv
  PROVE  Unmistaken
<1> SUFFICES ASSUME ~Rotated PROVE Kept
  BY DEF Unmistaken
<1>1. /\ log \in Seq(Piece) /\ signature \in Seq(Piece) /\ Len(signature) \in Nat
      /\ Len(signature) <= position /\ position \in Nat /\ Len(log) \in Nat
  <2>1. log \in Seq(Piece) /\ signature \in Seq(Piece) /\ position \in Nat
    BY BoundAssumption DEF TypeInv, TypeOK
  <2> QED BY <2>1 DEF ParseInv
<1>2. SameFile
  BY RotatedIsNotSame DEF TypeInv, ParseInv
<1>3. ASSUME NEW p \in Piece, NEW q \in Piece, Shown(p) = Shown(q) PROVE p = q
  <2>1. Text[p[1]] = Text[q[1]] /\ p[2] = q[2]
    BY <1>3 DEF Shown
  <2>2. p[1] \in Line /\ q[1] \in Line /\ p = <<p[1], p[2]>> /\ q = <<q[1], q[2]>>
    BY PieceFacts
  <2> QED BY <2>1, <2>2 DEF DistinctTexts
<1>4. ASSUME NEW j \in 1..Len(signature) PROVE signature[j] = log[position - Len(signature) + j]
  <2>1. position - Len(signature) + j \in 1..Len(log)
    BY <1>1, <1>2 DEF SameFile
  <2>2. signature[j] \in Piece /\ log[position - Len(signature) + j] \in Piece
    BY <1>1, <2>1
  <2>3. Shown(signature[j]) = Shown(log[position - Len(signature) + j])
    BY <1>2 DEF SameFile
  <2> QED BY <1>3, <2>2, <2>3
<1> QED BY <1>2, <1>4 DEF Kept, SameFile

\* In a log without two lines alike (they carry their time, and the signature holds
\* many of them) a poll catches up and a swap costs only fresh lines, always.
THEOREM DistinctLogIsRead ==
  ASSUME DistinctTexts
  PROVE  Spec => PollCatchesUp /\ OnlyFreshLinesMissed
<1>1. TypeInv /\ ParseInv => Unmistaken
  BY ToldApart
<1>2. Spec => []Unmistaken
  BY <1>1, TailInvHolds, PTL
<1> QED BY <1>2, PollsCatchUp, OnlyFreshLost, PTL
=============================================================================
