----------------------------- MODULE MCLogTail ------------------------------
(* LogTail with lines of different texts, the second of them the session     *)
(* marker, so that a rotation can always be told from the content.           *)
EXTENDS LogTail
MCText == <<"one", "welcome", "three", "four">>
=============================================================================
