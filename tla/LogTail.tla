------------------------------ MODULE LogTail -------------------------------
(***************************************************************************)
(* core/logfile.py and core/logarchive.py: the tail of one character log,   *)
(* and the archiver that copies the log aside on a background thread and    *)
(* empties it on the driver thread, while the game client keeps appending.  *)
(*                                                                          *)
(* A log is a sequence of pieces; a line is two of them, its text and its   *)
(* terminated end, so a poll or a swap can fall inside a line.  Lines are   *)
(* numbered as the client writes them; the tail sees only their text.       *)
(***************************************************************************)
EXTENDS Naturals, Sequences, SequencesExt, FiniteSets

CONSTANTS
  MaxLine,    \* bound: lines the client writes
  Text,       \* [1..MaxLine -> texts]; lines may repeat a text
  Welcome,    \* the text of the session marker
  Backtrack,  \* pieces attach() looks back over   (_ATTACH_BACKTRACK_BYTES)
  SigLen,     \* pieces the signature holds         (_SIGNATURE_BYTES)
  Threshold,  \* pieces that make a log oversized   (threshold_mb)
  Catchup,    \* pieces the swap carries over       (CATCHUP_LIMIT_BYTES)
  MaxEmptied  \* bound: times somebody else empties the log

Line == 1..MaxLine
None == [copied |-> 0, bytes |-> <<>>, ready |-> FALSE]

ASSUME BoundAssumption ==
  /\ MaxLine \in Nat /\ MaxEmptied \in Nat /\ Text \in [Line -> {Text[n] : n \in Line}]
  /\ {Backtrack, SigLen, Threshold, Catchup} \subseteq Nat \ {0}

VARIABLES
  log,       \* the file's pieces: <<line, "text">> and <<line, "end">>
  written,   \* pieces the client has written in all
  position,  \* LogTail.position
  partial,   \* LogTail._partial
  signature, \* LogTail._signature
  at,        \* the driver: about to "poll", to "tick", or inside a "swap"
  staged,    \* the archiver's copy, None if there is none; ready once the sweep ended
  archive,   \* what the sealed archives hold, in order
  parsed,    \* lines handed to the pipeline since the tail attached
  from,      \* the offset this reading of the file began at
  fresh,     \* lines completed since the last poll
  missed,    \* lines the app erased that were neither parsed nor archived
  emptied    \* times somebody else emptied the log

tail == <<position, partial, signature, from>>
vars == <<log, written, position, partial, signature, at, staged, archive, parsed,
          from, fresh, missed, emptied>>

\* What a reader of the file can tell about a piece.
Shown(piece) == <<Text[piece[1]], piece[2]>>
ShownAll(pieces) == [k \in DOMAIN pieces |-> Shown(pieces[k])]

Ends(pieces) == {k \in 1..Len(pieces) : pieces[k][2] = "end"}
Whole(pieces) == {k \in Ends(pieces) : k > 1 /\ pieces[k - 1] = <<pieces[k][1], "text">>}
WholeLines(pieces) == {pieces[k][1] : k \in Whole(pieces)}
\* Wrong variant: the signature is never cut back to its last bytes.
LastAll(s, n) == s
LastN(s, n) == SubSeq(s, Len(s) - Min({n, Len(s)}) + 1, Len(s))

-----------------------------------------------------------------------------
(* LogTail                                                                 *)

\* attach: the end of the file, or just after the last session start in the
\* final few KB.  The offset is always after a complete line or at the end.
AttachAt(pieces) ==
  LET start   == Len(pieces) - Min({Backtrack, Len(pieces)})
      markers == {k \in (start + 1)..Len(pieces) : Shown(pieces[k]) = <<Welcome, "text">>}
      eols    == {k \in Ends(pieces) : k > Max(markers)}
  IN IF markers = {} \/ eols = {} THEN Len(pieces) ELSE Min(eols)

Attached(offset) ==
  /\ position' = offset /\ partial' = <<>> /\ from' = offset
  /\ signature' = LET start == Len(log) - Min({Backtrack, Len(log)})
                  IN LastN(SubSeq(log, start + 1, offset), SigLen)

\* The driver switched to another character's log and back, or was restarted.
Attach ==
  /\ at = "poll" /\ Attached(AttachAt(log)) /\ parsed' = <<>>
  /\ UNCHANGED <<log, written, at, staged, archive, fresh, missed, emptied>>

\* Wrong variant: the comparison is one piece off.
DifferentShifted == LET back == Min({Len(signature), position - 1})
                    IN /\ back > 0
                       /\ ShownAll(SubSeq(log, position - back, position - 1))
                            # ShownAll(LastN(signature, back))

\* The bytes before the offset are not the ones read from there.
Different == LET back == Min({Len(signature), position})
             IN /\ back > 0
                /\ ShownAll(SubSeq(log, position - back + 1, position))
                     # ShownAll(LastN(signature, back))

\* Wrong variant: only a smaller file is a rotated one.
Shrunk == Len(log) < position

\* poll starts over on a file that shrank or is not the one it left off in.
Rotated == Len(log) < position \/ Different

\* Positions in the order of the file.
InOrder(S) ==
  CHOOSE q \in [1..Cardinality(S) -> S] : \A i, j \in 1..Cardinality(S) : i < j => q[i] < q[j]

\* Lines that are complete in what was read; a line whose beginning is missing
\* has no timestamp, and parse_line drops it.
Complete(pieces) ==
  LET ends == InOrder(Whole(pieces))
  IN [k \in DOMAIN ends |-> pieces[ends[k]][1]]

\* Wrong variant: the unterminated rest is not kept for the next poll.
NothingKept(pieces) == <<>>

Unterminated(pieces) ==
  LET ends == Ends(pieces)
  IN IF ends = {} THEN pieces ELSE SubSeq(pieces, Max(ends) + 1, Len(pieces))

Poll ==
  /\ at = "poll" /\ at' = "tick"
  /\ LET start == IF Rotated THEN 0 ELSE position
         data  == SubSeq(log, start + 1, Len(log))
         text  == (IF Rotated THEN <<>> ELSE partial) \o data
     IN /\ position' = Len(log)
        /\ from' = IF Rotated THEN 0 ELSE from
        /\ signature' = LastN((IF Rotated THEN <<>> ELSE signature) \o data, SigLen)
        /\ partial' = Unterminated(text)
        /\ parsed' = parsed \o Complete(text)
  /\ fresh' = {}
  /\ UNCHANGED <<log, written, staged, archive, missed, emptied>>

-----------------------------------------------------------------------------
(* The game client, and whoever else touches the file                      *)

\* The client appends the next piece of what it has to say.
ClientWrites ==
  /\ written < 2 * MaxLine
  /\ LET line == (written \div 2) + 1
         half == IF written % 2 = 0 THEN "text" ELSE "end"
     IN /\ log' = Append(log, <<line, half>>)
        /\ fresh' = IF half = "end" THEN fresh \cup {line} ELSE fresh
  /\ written' = written + 1
  /\ UNCHANGED <<tail, at, staged, archive, parsed, missed, emptied>>

\* A user empties the log by hand, or the client recreates it.
SomebodyEmpties ==
  /\ emptied < MaxEmptied /\ emptied' = emptied + 1
  /\ log' = <<>>
  /\ UNCHANGED <<written, tail, at, staged, archive, parsed, fresh, missed>>

-----------------------------------------------------------------------------
(* LogArchiveService                                                       *)

\* stage_oversized_logs on the background thread copies the log up to an end of
\* file it saw; the sweep goes on, with the next oversized log or a flush.
Stage ==
  /\ staged = None /\ Len(log) >= Threshold
  /\ staged' = [copied |-> Len(log), bytes |-> log, ready |-> FALSE]
  /\ UNCHANGED <<log, written, tail, at, archive, parsed, fresh, missed, emptied>>

\* The sweep returns and hands its copies to the tick.
SweepEnds ==
  /\ staged # None /\ ~staged.ready
  /\ staged' = [staged EXCEPT !.ready = TRUE]
  /\ UNCHANGED <<log, written, tail, at, archive, parsed, fresh, missed, emptied>>

\* Wrong variant: the tick returns early though a copy waits (archiving was
\* turned off in between).
StagedIgnored ==
  /\ at = "tick" /\ at' = "poll"
  /\ UNCHANGED <<log, written, tail, staged, archive, parsed, fresh, missed, emptied>>

NothingStaged ==
  /\ at = "tick" /\ at' = "poll" /\ ~staged.ready
  /\ UNCHANGED <<log, written, tail, staged, archive, parsed, fresh, missed, emptied>>

\* Wrong variant: the file is read again from the top, not from where the copy ended.
CatchUpFromTop ==
  /\ at = "tick" /\ staged.ready /\ at' = "swap"
  /\ LET upto == Min({Len(log), staged.copied + Catchup})
     IN staged' = [staged EXCEPT !.bytes = @ \o SubSeq(log, 1, upto)]
  /\ UNCHANGED <<log, written, tail, archive, parsed, fresh, missed, emptied>>

\* finish_archive, first half: one bounded read of what was written since.
CatchUp ==
  /\ at = "tick" /\ staged.ready /\ at' = "swap"
  /\ LET upto == Min({Len(log), staged.copied + Catchup})
     IN staged' = [staged EXCEPT !.bytes = @ \o SubSeq(log, staged.copied + 1, upto)]
  /\ UNCHANGED <<log, written, tail, archive, parsed, fresh, missed, emptied>>

\* The log cannot be opened for writing: the copy is dropped, the log kept.
SwapFails ==
  /\ at = "tick" /\ staged.ready /\ at' = "poll"
  /\ staged' = None
  /\ UNCHANGED <<log, written, tail, archive, parsed, fresh, missed, emptied>>

Restarted == position' = 0 /\ partial' = <<>> /\ signature' = <<>> /\ from' = 0

\* Lines that began before the tail attached are not its to parse.
BeforeAttach == {log[k][1] : k \in 1..Min({from, Len(log)})}

\* Second half: seal the copy, empty the log and reset the tail, with no poll
\* in between (on_rotated is driver.note_log_rotated).
Truncate ==
  /\ at = "swap" /\ at' = "poll"
  /\ archive' = archive \o staged.bytes /\ staged' = None
  /\ log' = <<>> /\ Restarted
  /\ missed' = missed \cup (WholeLines(log)
                 \ (Range(parsed) \cup WholeLines(staged.bytes) \cup BeforeAttach))
  /\ UNCHANGED <<written, parsed, fresh, emptied>>

-----------------------------------------------------------------------------
Init ==
  /\ log = <<>> /\ written = 0
  /\ position = 0 /\ partial = <<>> /\ signature = <<>> /\ from = 0
  /\ at = "poll" /\ staged = None /\ archive = <<>>
  /\ parsed = <<>> /\ fresh = {} /\ missed = {} /\ emptied = 0

DriverStep == Poll \/ NothingStaged \/ CatchUp \/ SwapFails \/ Truncate

Next == DriverStep \/ Attach \/ ClientWrites \/ SomebodyEmpties \/ Stage \/ SweepEnds

\* The driver thread keeps looping and a sweep that copied a log returns; nobody
\* else is obliged to do anything.
Fairness == WF_vars(DriverStep) /\ WF_vars(SweepEnds)

Spec == Init /\ [][Next]_vars /\ Fairness

-----------------------------------------------------------------------------
Piece == Line \X {"text", "end"}

TypeOK ==
  /\ log \in Seq(Piece) /\ written \in 0..(2 * MaxLine)
  /\ position \in 0..(2 * MaxLine) /\ from \in 0..(2 * MaxLine)
  /\ partial \in Seq(Piece) /\ signature \in Seq(Piece) /\ Len(signature) <= SigLen
  /\ at \in {"poll", "tick", "swap"}
  /\ staged \in [copied : Nat, bytes : Seq(Piece), ready : BOOLEAN]
  /\ archive \in Seq(Piece) /\ parsed \in Seq(Line)
  /\ fresh \subseteq Line /\ missed \subseteq Line /\ emptied \in 0..MaxEmptied

Increasing(s) == \A i, j \in 1..Len(s) : i < j => s[i] < s[j]

\* One attachment parses no line twice and none out of order, whatever rotates
\* the log underneath it.
ParsedOnceInOrder == Increasing(parsed)

\* A poll leaves nothing behind: every whole line between where this reading
\* began and the end of the file has been parsed, however the file got there.
CaughtUp ==
  /\ position = Len(log)
  /\ \A k \in Whole(log) : k - 1 > from => log[k][1] \in Range(parsed)
PollCatchesUp == [][at = "poll" /\ at' = "tick" => CaughtUp']_vars

\* The archives hold the log once: no line repeated, none out of order.
ArchivedOnceInOrder ==
  \A i, j \in 1..Len(archive) : i < j =>
    \/ archive[i][1] < archive[j][1]
    \/ archive[i] = <<archive[j][1], "text">> /\ archive[j][2] = "end"

\* However polls, copies, swaps and somebody else's emptying interleave, a line
\* reaches the parsers at most once per attachment, and the archives once in all.
OnceInOrder == ParsedOnceInOrder /\ ArchivedOnceInOrder

\* Emptying the log costs at most lines finished after the poll of the same
\* iteration: everything older was parsed or is in the archive.
OnlyFreshLinesMissed == [][missed' \ missed \subseteq fresh]_vars

\* What the swap drops was parsed live (logarchive.py): a line the app erases
\* has been parsed or is in an archive.
ErasedLinesWereParsed == missed = {}

\* A copy the sweep took is sealed or dropped sooner or later.
StagedIsFinished == staged # None ~> staged = None
=============================================================================
