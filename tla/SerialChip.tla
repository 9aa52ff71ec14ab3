------------------------------ MODULE SerialChip ------------------------------
(***************************************************************************)
(* What a game expects of its serial save chip: a memory of words of the   *)
(* size it was made for, one request at a time to read or to store a word, *)
(* and a stream of bits with the word that was asked for last.             *)
(***************************************************************************)
EXTENDS Integers, Sequences

CONSTANTS Sizes,    \* how many words a chip can have
          Words,    \* what a word can be
          Prefix    \* the bits that precede a word

VARIABLES
  memory,
  answer,
  request    \* <<b>> for word b, <<b, w>> to store w in it, or <<>>

vars == <<memory, answer, request>>

Init ==
  /\ \E n \in Sizes : memory \in [0 .. n - 1 -> Words]
  /\ answer = <<>> /\ request = <<>>

Ask ==
  /\ request = <<>>
  /\ \E b \in DOMAIN memory : request' = <<b>> \/ \E w \in Words : request' = <<b, w>>
  /\ UNCHANGED <<memory, answer>>

Reply(b) ==
  /\ request = <<b>> /\ request' = <<>>
  /\ answer' = Prefix \o memory[b]
  /\ UNCHANGED memory

Store(b, w) ==
  /\ request = <<b, w>> /\ request' = <<>>
  /\ memory' = [memory EXCEPT ![b] = w]
  /\ answer' = <<>>

\* The game reads the next bit.
Take ==
  /\ request = <<>>
  /\ answer # <<>> /\ answer' = Tail(answer)
  /\ UNCHANGED <<memory, request>>

Next ==
  \/ Ask
  \/ \E b \in DOMAIN memory : Reply(b) \/ (\E w \in Words : Store(b, w))
  \/ Take

Spec == Init /\ [][Next]_vars
=============================================================================
