----------------------------- MODULE AttemptLog -----------------------------
(***************************************************************************)
(* What the log page promises its reader (R12, R13, KTD4): the last lines  *)
(* of the most recent attempt, in order, for as long as there is no newer  *)
(* attempt, whether or not its session still exists.                       *)
(*                                                                         *)
(* One exception is part of the promise, because the log store makes it: a *)
(* note written when nothing is being captured starts the page anew.       *)
(***************************************************************************)
EXTENDS Integers, Sequences

CONSTANTS Path, Line, Room, None

VARIABLES
  attempt,    \* the most recent attempt, or None
  capturing,  \* lines of the attempt are being captured
  page        \* what can be read

vars == <<attempt, capturing, page>>

\* The last Room elements of a sequence.
LastLines(seq) ==
  IF Len(seq) <= Room THEN seq ELSE SubSeq(seq, Len(seq) - Room + 1, Len(seq))

Init == attempt = None /\ ~capturing /\ page = <<>>

\* A newer attempt takes the page, empty; one made elsewhere is not captured.
NewAttempt(p) ==
  /\ p # attempt
  /\ attempt' = p
  /\ capturing' \in BOOLEAN
  /\ page' = <<>>

Heard(l) ==
  /\ capturing
  /\ page' = LastLines(Append(page, l))
  /\ UNCHANGED <<attempt, capturing>>

End ==
  /\ capturing
  /\ ~capturing'
  /\ UNCHANGED <<attempt, page>>

NotedOutside(p, l) ==
  /\ ~capturing
  /\ attempt \in {p, None}
  /\ attempt' = p
  /\ capturing'
  /\ page' = <<l>>

Next ==
  \/ \E p \in Path : NewAttempt(p)
  \/ \E l \in Line : Heard(l)
  \/ End
  \/ \E p \in Path, l \in Line : NotedOutside(p, l)

Spec == Init /\ [][Next]_vars
=============================================================================
