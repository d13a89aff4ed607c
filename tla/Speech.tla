------------------------------- MODULE Speech -------------------------------
(***************************************************************************)
(* audio/tts.py: SubprocessSpeaker.  The driver's thread speaks and         *)
(* interrupts, the GUI closes, and a worker runs one child process at a     *)
(* time.  Texts are numbered in the order they are asked for.               *)
(***************************************************************************)
EXTENDS Naturals, Sequences, FiniteSets

CONSTANTS
  MaxPending,   \* MAX_PENDING
  MaxTexts      \* bound: texts asked for

ASSUME SpeechAssumption == MaxPending \in Nat \ {0} /\ MaxTexts \in Nat

VARIABLES
  asked,      \* how many texts were asked for
  pending,    \* _queue
  muted,      \* _closed
  voice,    \* where the worker is
  text,       \* the text it took, 0 for none
  child,      \* the text whose child process runs, 0 for none
  current,    \* _current, by its text
  captured,   \* the child an interrupt is about to terminate, 0 for none
  old,        \* ghost: texts asked for before the last interrupt or close
  oldBegun    \* ghost: how many of them began after it

speechVars == <<asked, pending, muted, voice, text, child, current, captured, old, oldBegun>>

Text == 1..MaxTexts

SpeechTypeOK ==
  /\ asked \in 0..MaxTexts /\ pending \in Seq(Text) /\ Len(pending) <= MaxPending
  /\ muted \in BOOLEAN /\ voice \in {"waiting", "popped", "started", "speaking", "done"}
  /\ {text, child, current, captured} \subseteq Text \cup {0}
  /\ old \subseteq Text /\ oldBegun \in 0..MaxTexts

SpeechInit ==
  /\ asked = 0 /\ pending = <<>> /\ muted = FALSE
  /\ voice = "waiting" /\ text = 0 /\ child = 0 /\ current = 0 /\ captured = 0
  /\ old = {} /\ oldBegun = 0

speechWorker == <<voice, text, child, current>>

\* Wrong variant: the queue has no limit.
PushedUncapped(q, t) == Append(q, t)

\* A queue at its limit loses its oldest text.
Pushed(q, t) == IF Len(q) < MaxPending THEN Append(q, t) ELSE Append(Tail(q), t)

Speak ==
  /\ captured = 0 /\ asked < MaxTexts
  /\ asked' = asked + 1
  /\ pending' = IF muted THEN pending ELSE Pushed(pending, asked + 1)
  /\ UNCHANGED <<muted, speechWorker, captured, old, oldBegun>>

\* Everything asked for so far should not be begun any more.
Outdates == old' = 1..asked /\ oldBegun' = 0

\* Wrong variant: what is queued is spoken after the interruption.
InterruptKeepsQueue ==
  /\ captured = 0
  /\ captured' = current
  /\ Outdates
  /\ UNCHANGED <<asked, pending, muted, speechWorker>>

\* interrupt, in its lock ...
Interrupt ==
  /\ captured = 0
  /\ pending' = <<>> /\ captured' = current
  /\ Outdates
  /\ UNCHANGED <<asked, muted, speechWorker>>

\* ... and after it: the child it saw is terminated, if it still runs.
Terminate ==
  /\ captured # 0 /\ captured' = 0
  /\ child' = IF child = captured THEN 0 ELSE child
  /\ UNCHANGED <<asked, pending, muted, voice, text, current, old, oldBegun>>

CloseSpeaker ==
  /\ ~muted /\ muted' = TRUE /\ pending' = <<>>
  /\ Outdates
  /\ UNCHANGED <<asked, speechWorker, captured>>

-----------------------------------------------------------------------------
(* The worker                                                               *)

PopText ==
  /\ voice = "waiting" /\ ~muted /\ pending # <<>>
  /\ text' = Head(pending) /\ pending' = Tail(pending)
  /\ voice' = "popped"
  /\ UNCHANGED <<asked, muted, child, current, captured, old, oldBegun>>

WorkerExits ==
  /\ voice = "waiting" /\ muted /\ voice' = "done"
  /\ UNCHANGED <<asked, pending, muted, text, child, current, captured, old, oldBegun>>

\* Popen
StartChild ==
  /\ voice = "popped"
  /\ child' = text /\ voice' = "started"
  /\ oldBegun' = IF text \in old THEN oldBegun + 1 ELSE oldBegun
  /\ UNCHANGED <<asked, pending, muted, text, current, captured, old>>

\* Popen raised: logged, and on to the next text.
StartRaises ==
  /\ voice = "popped"
  /\ voice' = "waiting" /\ text' = 0
  /\ UNCHANGED <<asked, pending, muted, child, current, captured, old, oldBegun>>

\* Only now can interrupt() see the child.
PublishChild ==
  /\ voice = "started"
  /\ current' = text /\ voice' = "speaking"
  /\ UNCHANGED <<asked, pending, muted, text, child, captured, old, oldBegun>>

ChildEnds ==
  /\ child # 0 /\ child' = 0
  /\ UNCHANGED <<asked, pending, muted, voice, text, current, captured, old, oldBegun>>

\* wait() returned.
Uttered ==
  /\ voice = "speaking" /\ child = 0
  /\ voice' = "waiting" /\ current' = 0 /\ text' = 0
  /\ UNCHANGED <<asked, pending, muted, child, captured, old, oldBegun>>

SpeechNext ==
  \/ Speak \/ Interrupt \/ Terminate \/ CloseSpeaker
  \/ PopText \/ WorkerExits \/ StartChild \/ StartRaises \/ PublishChild \/ ChildEnds \/ Uttered

SpeechSpec == SpeechInit /\ [][SpeechNext]_speechVars

-----------------------------------------------------------------------------
(* Properties                                                               *)

\* After an interrupt or a close, of all the texts asked for before it at most
\* the one the worker had already taken is still begun; and when the worker is
\* at rest, none is.
AtMostOneMore ==
  /\ oldBegun <= 1
  /\ voice = "popped" /\ text \in old => oldBegun = 0
  /\ \A i \in DOMAIN pending : pending[i] \notin old
=============================================================================
