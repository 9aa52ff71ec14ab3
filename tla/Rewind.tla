-------------------------------- MODULE Rewind ---------------------------------
(***************************************************************************)
(* The rewind buffer (RewindBuffer in src/core/rewind.cpp) as operators on *)
(* a record: only the newest snapshot is kept whole, every older one as    *)
(* its difference from the next.  A snapshot is a sequence of bytes.       *)
(*                                                                         *)
(* A loop of the code is run for as many rounds as it can have; a round    *)
(* that has nothing left to do changes nothing.                            *)
(***************************************************************************)
EXTENDS Rounds, SequencesExt

CONSTANTS
  GapLimit,        \* equal bytes that end a changed run: 8
  Byte,            \* values of bytes
  ByteXor(_, _),   \* exclusive or of two bytes
  Never            \* no snapshot

ASSUME RewindAssumption ==
  /\ GapLimit \in Nat \ {0}
  /\ \A a, b \in Byte : ByteXor(a, b) \in Byte /\ ByteXor(a, ByteXor(a, b)) = b
  /\ Never \notin Seq(Byte)

Snapshots   == Seq(Byte)
Run         == [skip : Nat, bytes : Seq(Byte)]
Differences == Seq(Run)

EmptyBuffer(limit) == [newest |-> Never, differences |-> <<>>, bytes |-> 0, limit |-> limit]

-----------------------------------------------------------------------------
(* Differences: runs of [unchanged bytes to skip, changed bytes XOR old].  *)

First(positions) == CHOOSE p \in positions : \A q \in positions : p <= q

EqualUpTo(from, to, position) ==
  First({p \in position .. Len(to) : p = Len(to) \/ from[p + 1] # to[p + 1]})

\* Where a changed run ends: at GapLimit equal bytes in a row, or at the end.
ChangedUpTo(from, to, position) ==
  First({p \in position .. Len(to) :
           \A i \in p + 1 .. p + GapLimit : i <= Len(to) => from[i] = to[i]})

\* The run that starts at a position.
NextRun(from, to, position) ==
  LET start == EqualUpTo(from, to, position)
      end   == ChangedUpTo(from, to, start)
  IN  [run |-> [skip  |-> start - position,
                bytes |-> [i \in 1 .. end - start |-> ByteXor(from[start + i], to[start + i])]],
       end |-> end]

Encoded(from, to, r) ==
  IF r.position = Len(to) THEN r
  ELSE LET next == NextRun(from, to, r.position)
       IN  [runs |-> Append(r.runs, next.run), position |-> next.end]

Encodings(to) == [runs : Differences, position : 0 .. Len(to)]

\* A round gets past a byte at least.
EncodeDifference(from, to) ==
  Rounds([runs |-> <<>>, position |-> 0],
         [p \in (1 .. Len(to)) \X Encodings(to) |-> Encoded(from, to, p[2])], Len(to)).runs

ApplyRun(r, run) ==
  LET start == r.position + run.skip
      end   == start + Len(run.bytes)
  IN  IF r.target = Never \/ end > Len(r.target) THEN [r EXCEPT !.target = Never]
      ELSE [target   |-> [i \in 1 .. Len(r.target) |->
                            IF i \in start + 1 .. end
                            THEN ByteXor(r.target[i], run.bytes[i - start]) ELSE r.target[i]],
            position |-> end]

Applications == [target : Snapshots \cup {Never}, position : Nat]

\* The target with the difference applied, or Never for one that does not fit.
ApplyDifference(target, difference) ==
  Rounds([target |-> target, position |-> 0],
         [p \in (1 .. Len(difference)) \X Applications |-> ApplyRun(p[2], difference[p[1]])],
         Len(difference)).target

Total(sizes) == Rounds(0, [p \in (1 .. Len(sizes)) \X Nat |-> p[2] + sizes[p[1]]], Len(sizes))

\* Each run has two counts of one byte and the bytes that changed.
SizeOf(difference) == Total([k \in 1 .. Len(difference) |-> 2 + Len(difference[k].bytes)])

-----------------------------------------------------------------------------
(* The buffer.                                                             *)

Buffers ==
  [newest : Snapshots \cup {Never}, differences : Seq(Differences), bytes : Int, limit : Nat]

MemoryUsed(b) == b.bytes + (IF b.newest = Never THEN 0 ELSE Len(b.newest))

\* The oldest difference is given up.
GivenUp(b) ==
  [b EXCEPT !.bytes = @ - SizeOf(Head(b.differences)), !.differences = Tail(@)]

TooMuch(b) == b.differences # <<>> /\ MemoryUsed(b) > b.limit

\* Mutant: what is given up is still counted.
EvictUncounted(b) == IF TooMuch(b) THEN [b EXCEPT !.differences = Tail(@)] ELSE b

Fitted(b) == IF TooMuch(b) THEN GivenUp(b) ELSE b

\* ... until the rest fits.
Evicted(b) ==
  LET n == Len(b.differences)
  IN  Rounds(b, [p \in (1 .. n) \X Buffers |-> Fitted(p[2])], n)

SetMemoryLimit(b, limit) == Evicted([b EXCEPT !.limit = limit])

Cleared(b) == EmptyBuffer(b.limit)

\* A snapshot of another size (an EEPROM that resized itself) breaks the chain.
Chains(b, snapshot) == b.newest # Never /\ Len(b.newest) = Len(snapshot)

\* The buffer with a snapshot more, however large.
Grown(b, snapshot) ==
  LET difference == EncodeDifference(snapshot, b.newest)
  IN  IF Chains(b, snapshot)
      THEN [b EXCEPT !.newest = snapshot, !.differences = Append(@, difference),
                     !.bytes = @ + SizeOf(difference)]
      ELSE [b EXCEPT !.newest = snapshot, !.differences = <<>>, !.bytes = 0]

Pushed(b, snapshot) == Evicted(Grown(b, snapshot))

\* Mutant: the difference is taken from the old end.
PoppedOldest(b) ==
  IF b.differences = <<>> THEN [b EXCEPT !.newest = Never]
  ELSE LET before == ApplyDifference(b.newest, Head(b.differences))
       IN  IF before = Never THEN Cleared(b)
           ELSE [b EXCEPT !.newest = before, !.differences = Tail(@),
                          !.bytes = @ - SizeOf(Head(b.differences))]

\* Mutant: the last snapshot stays.
PoppedNever(b) ==
  IF b.differences = <<>> THEN b
  ELSE [b EXCEPT !.newest = ApplyDifference(@, Last(b.differences)),
                 !.differences = Front(@), !.bytes = @ - SizeOf(Last(b.differences))]

\* What is left when b.newest has been taken.
Popped(b) ==
  IF b.differences = <<>> THEN [b EXCEPT !.newest = Never]
  ELSE LET before == ApplyDifference(b.newest, Last(b.differences))
       IN  IF before = Never THEN Cleared(b)
           ELSE [b EXCEPT !.newest = before, !.differences = Front(@),
                          !.bytes = @ - SizeOf(Last(b.differences))]

\* The snapshots the buffer stands for, oldest first.
Moments(b) ==
  LET n == Len(b.differences)
      Before(later, k) == <<ApplyDifference(Head(later), b.differences[n + 1 - k])>> \o later
  IN  IF b.newest = Never THEN <<>>
      ELSE Rounds(<<b.newest>>,
                  [p \in (1 .. n) \X (Seq(Snapshots \cup {Never}) \ {<<>>}) |-> Before(p[2], p[1])], n)
=============================================================================
