--------------------------------- MODULE Fifo ---------------------------------
(***************************************************************************)
(* A Direct Sound FIFO (Apu::Fifo): a ring of samples, where reading       *)
(* starts and how many are waiting.                                        *)
(***************************************************************************)
EXTENDS Integers, Sequences

CONSTANTS FifoDepth,    \* samples a FIFO holds: 32
          Samples       \* values a sample can have

ASSUME FifoAssumption == FifoDepth \in Nat \ {0}

Slots == 0 .. FifoDepth - 1

FifoRecords == [data : [Slots -> Samples], read : Slots, size : 0 .. FifoDepth]

EmptyFifo(sample) == [data |-> [i \in Slots |-> sample], read |-> 0, size |-> 0]

\* A full FIFO loses the sample.
Pushed(f, sample) ==
  IF f.size = FifoDepth THEN f
  ELSE [f EXCEPT !.data[(f.read + f.size) % FifoDepth] = sample, !.size = @ + 1]

Popped(f) ==
  IF f.size = 0 THEN f
  ELSE [f EXCEPT !.read = (@ + 1) % FifoDepth, !.size = @ - 1]

\* clear() keeps the bytes and forgets them.
Cleared(f) == [data |-> f.data, read |-> 0, size |-> 0]

\* Mutant: only when nothing is left.
WantsRefillEmpty(f)  == f.size = 0

WantsRefill(f) == f.size <= FifoDepth \div 2

\* The samples that are waiting, the oldest first.
Waiting(f) == [i \in 1 .. f.size |-> f.data[(f.read + i - 1) % FifoDepth]]
=============================================================================
