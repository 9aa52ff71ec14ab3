-------------------------------- MODULE Rounds ---------------------------------
(***************************************************************************)
(* Loops: a state, and what a round makes of it, for a number of rounds.   *)
(***************************************************************************)
EXTENDS Integers

\* The state after n rounds: step[<<k, s>>] is what the k-th makes of s.
Rounds(start, step, n) ==
  LET after[k \in 0 .. n] == IF k = 0 THEN start ELSE step[<<k, after[k - 1]>>]
  IN  after[n]
=============================================================================
