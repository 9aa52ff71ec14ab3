-------------------------------- MODULE History --------------------------------
(***************************************************************************)
(* What rewinding promises (src/core/rewind.hpp): a bounded history of     *)
(* moments.  The newest can be taken back, the oldest may be forgotten,    *)
(* and nothing in between changes.                                         *)
(***************************************************************************)
EXTENDS SequencesExt

VARIABLES
  past,       \* the moments kept, oldest first
  present     \* the machine

vars == <<past, present>>

Init == past = <<>>

\* The machine goes on, and may be remembered where it has got to.  The oldest moments
\* may be given up.
Live == past' \in Suffixes(past) \cup Suffixes(Append(past, present'))

\* The machine is again what it was at the newest moment.
Recall ==
  /\ past # <<>>
  /\ past' = Front(past) /\ present' = Last(past)

Next == Live \/ Recall

Spec == Init /\ [][Next]_vars
=============================================================================
