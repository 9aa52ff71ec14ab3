------------------------------ MODULE Sound_proof ------------------------------
(***************************************************************************)
(* The sound: DMA with the FIFOs of Direct Sound, and the APU.             *)
(*                                                                         *)
(* DMA, for any depth of the FIFOs, any channels, any programs of them and *)
(* transfers of any cost, transfers inside their own included: samples are *)
(* played in the order they were written, refills fit and come in time,    *)
(* and, where no transfer writes the control of a channel whose own        *)
(* transfer is unfinished, each transfer is whole and paid for once.       *)
(*                                                                         *)
(* The APU, for any waveforms, periods, envelopes and lengths of samples:  *)
(* what is reported as playing can play, and summing a sample run by run   *)
(* hears what counting its cycles one by one hears.                        *)
(***************************************************************************)
EXTENDS Dma, Apu, Arithmetic_proof, FiniteSetTheorems, SequenceTheorems, TLAPS

-----------------------------------------------------------------------------
(***************************************************************************)
(* The ring of a FIFO is a queue, for every depth: what pushing, popping   *)
(* and clearing do to the samples that wait.                               *)
(***************************************************************************)
\* An index one turn past the end of the ring comes back by one turn.
LEMMA Wrapped ==
  \A x \in 0 .. 2 * FifoDepth - 1 :
    x % FifoDepth = IF x < FifoDepth THEN x ELSE x - FifoDepth
BY FifoAssumption

\* Two places less than a turn apart are different.
LEMMA Apart ==
  ASSUME NEW read \in Slots, NEW i \in 0 .. FifoDepth - 1, NEW j \in 0 .. FifoDepth - 1, i # j
  PROVE  (read + i) % FifoDepth # (read + j) % FifoDepth
<1>1. read + i \in 0 .. 2 * FifoDepth - 1 /\ read + j \in 0 .. 2 * FifoDepth - 1
  BY FifoAssumption DEF Slots
<1> QED BY <1>1, Wrapped, FifoAssumption DEF Slots

\* Counting from the next place reaches the same places.
LEMMA NextPlace ==
  ASSUME NEW read \in Slots, NEW i \in 1 .. FifoDepth - 1
  PROVE  (((read + 1) % FifoDepth) + i - 1) % FifoDepth = (read + (i + 1) - 1) % FifoDepth
<1> DEFINE next == (read + 1) % FifoDepth
<1>1. next = IF read + 1 < FifoDepth THEN read + 1 ELSE read + 1 - FifoDepth
  <2>1. read + 1 \in 0 .. 2 * FifoDepth - 1
    BY FifoAssumption DEF Slots
  <2> QED BY <2>1, Wrapped, FifoAssumption DEF Slots
<1> HIDE DEF next
<1>2. next + i - 1 \in 0 .. 2 * FifoDepth - 1 /\ read + (i + 1) - 1 \in 0 .. 2 * FifoDepth - 1
  BY <1>1, FifoAssumption DEF Slots
<1>3. (next + i - 1) % FifoDepth = IF next + i - 1 < FifoDepth THEN next + i - 1
                                   ELSE next + i - 1 - FifoDepth
  BY <1>1, <1>2, Wrapped, FifoAssumption DEF Slots
<1>4. (read + (i + 1) - 1) % FifoDepth = IF read + i < FifoDepth THEN read + i ELSE read + i - FifoDepth
  <2>1. read + (i + 1) - 1 = read + i
    BY DEF Slots
  <2> QED BY <1>2, <2>1, Wrapped, FifoAssumption DEF Slots
<1> QED BY <1>1, <1>3, <1>4, FifoAssumption DEF Slots, next

LEMMA PlaceType ==
  ASSUME NEW x \in Nat
  PROVE  x % FifoDepth \in Slots
BY FifoAssumption DEF Slots

LEMMA WaitingType ==
  ASSUME NEW f \in FifoRecords
  PROVE  Waiting(f) \in Seq(Samples) /\ Len(Waiting(f)) = f.size
<1>1. f.size \in Nat /\ f.read \in Nat /\ f.data \in [Slots -> Samples]
  BY FifoAssumption DEF FifoRecords, Slots
<1>2. \A i \in 1 .. f.size : f.read + i - 1 \in Nat
  BY <1>1
<1>3. \A i \in 1 .. f.size : f.data[(f.read + i - 1) % FifoDepth] \in Samples
  BY <1>1, <1>2, PlaceType
<1> QED BY <1>1, <1>3 DEF Waiting

\* A sample pushed into a ring that is not full waits behind the others.
LEMMA PushedWaits ==
  ASSUME NEW f \in FifoRecords, NEW s \in Samples
  PROVE  /\ Pushed(f, s) \in FifoRecords
         /\ Waiting(Pushed(f, s)) =
              IF Len(Waiting(f)) < FifoDepth THEN Append(Waiting(f), s) ELSE Waiting(f)
<1>0. f.size \in 0 .. FifoDepth /\ f.read \in Slots /\ f.data \in [Slots -> Samples]
  BY DEF FifoRecords
<1>1. CASE f.size = FifoDepth
  BY <1>1, WaitingType DEF Pushed
<1>2. CASE f.size # FifoDepth
  <2> DEFINE place == (f.read + f.size) % FifoDepth
             g     == Pushed(f, s)
  <2>1. place \in Slots
    <3>1. f.read + f.size \in Nat
      BY <1>0, FifoAssumption DEF Slots
    <3> QED BY <3>1, PlaceType
  <2>2. /\ g \in FifoRecords /\ g.size = f.size + 1 /\ g.read = f.read
        /\ g.data = [f.data EXCEPT ![place] = s]
    <3>1. g = [data |-> [f.data EXCEPT ![place] = s], read |-> f.read, size |-> f.size + 1]
      BY <1>2 DEF Pushed, FifoRecords
    <3>2. [f.data EXCEPT ![place] = s] \in [Slots -> Samples] /\ f.size + 1 \in 0 .. FifoDepth
      BY <1>0, <1>2, <2>1, FifoAssumption
    <3> QED BY <1>0, <3>1, <3>2 DEF FifoRecords
  <2>3. \A i \in 1 .. f.size : (f.read + i - 1) % FifoDepth # place
    <3> SUFFICES ASSUME NEW i \in 1 .. f.size
                 PROVE  (f.read + i - 1) % FifoDepth # place
      OBVIOUS
    <3>1. i - 1 \in 0 .. FifoDepth - 1 /\ f.size \in 0 .. FifoDepth - 1 /\ i - 1 # f.size
      BY <1>0, <1>2, FifoAssumption
    <3>2. f.read + i - 1 = f.read + (i - 1)
      BY <1>0 DEF Slots
    <3> QED BY <1>0, <3>1, <3>2, Apart
  <2>4. \A i \in 1 .. f.size : g.data[(f.read + i - 1) % FifoDepth] = f.data[(f.read + i - 1) % FifoDepth]
    BY <1>0, <2>2, <2>3
  <2>5. g.data[(f.read + (f.size + 1) - 1) % FifoDepth] = s
    <3>1. f.read + (f.size + 1) - 1 = f.read + f.size
      BY <1>0, FifoAssumption DEF Slots
    <3> QED BY <1>0, <2>1, <2>2, <3>1
  <2>6. Waiting(g) = Append(Waiting(f), s)
    <3>1. Waiting(f) = [i \in 1 .. f.size |-> f.data[(f.read + i - 1) % FifoDepth]]
          /\ Waiting(f) \in Seq(Samples) /\ Len(Waiting(f)) = f.size
      BY WaitingType DEF Waiting
    <3>2. Waiting(g) = [i \in 1 .. f.size + 1 |-> g.data[(f.read + i - 1) % FifoDepth]]
          /\ Waiting(g) \in Seq(Samples) /\ Len(Waiting(g)) = f.size + 1
      BY <2>2, WaitingType DEF Waiting
    <3> DEFINE longer == Append(Waiting(f), s)
    <3>3. /\ longer \in Seq(Samples) /\ Len(longer) = f.size + 1 /\ longer[f.size + 1] = s
          /\ \A i \in 1 .. f.size : longer[i] = Waiting(f)[i]
      <4>1. /\ longer \in Seq(Samples) /\ Len(longer) = Len(Waiting(f)) + 1
            /\ \A i \in 1 .. Len(Waiting(f)) : longer[i] = Waiting(f)[i]
            /\ longer[Len(Waiting(f)) + 1] = s
        BY WaitingType, AppendProperties
      <4> HIDE DEF longer
      <4> QED BY <3>1, <4>1
    <3> HIDE DEF longer, g
    <3>4. \A i \in 1 .. f.size : Waiting(g)[i] = longer[i]
      <4> TAKE i \in 1 .. f.size
      <4>1. i \in 1 .. f.size + 1
        BY <1>0
      <4>2. Waiting(g)[i] = g.data[(f.read + i - 1) % FifoDepth]
        BY <3>2, <4>1
      <4>3. Waiting(f)[i] = f.data[(f.read + i - 1) % FifoDepth]
        BY <3>1
      <4> QED BY <2>4, <3>3, <4>2, <4>3
    <3>5. Waiting(g)[f.size + 1] = longer[f.size + 1]
      BY <1>0, <2>5, <3>2, <3>3
    <3>6. \A i \in 1 .. f.size + 1 : Waiting(g)[i] = longer[i]
      BY <1>0, <3>4, <3>5
    <3>7. Waiting(g) = longer
      BY <3>2, <3>3, <3>6, SeqEqual
    <3> QED BY <3>7 DEF longer, g
  <2>7. Len(Waiting(f)) < FifoDepth
    BY <1>0, <1>2, WaitingType, FifoAssumption
  <2> QED BY <2>2, <2>6, <2>7
<1> QED BY <1>1, <1>2

\* What is popped is the sample that has waited longest.
LEMMA PoppedWaits ==
  ASSUME NEW f \in FifoRecords
  PROVE  /\ Popped(f) \in FifoRecords
         /\ Waiting(Popped(f)) = IF Waiting(f) # <<>> THEN Tail(Waiting(f)) ELSE Waiting(f)
<1>0. f.size \in 0 .. FifoDepth /\ f.read \in Slots /\ f.data \in [Slots -> Samples]
  BY DEF FifoRecords
<1>1. Waiting(f) \in Seq(Samples) /\ Len(Waiting(f)) = f.size
  BY WaitingType
<1>2. CASE f.size = 0
  BY <1>1, <1>2 DEF Popped
<1>3. CASE f.size # 0
  <2> DEFINE g == Popped(f)
  <2>1. (f.read + 1) % FifoDepth \in Slots
    BY <1>0, PlaceType DEF Slots
  <2>2. g \in FifoRecords /\ g.size = f.size - 1 /\ g.read = (f.read + 1) % FifoDepth /\ g.data = f.data
    <3>1. g = [data |-> f.data, read |-> (f.read + 1) % FifoDepth, size |-> f.size - 1]
      BY <1>3 DEF Popped, FifoRecords
    <3>2. f.size - 1 \in 0 .. FifoDepth
      BY <1>0, <1>3, FifoAssumption
    <3> QED BY <1>0, <2>1, <3>1, <3>2 DEF FifoRecords
  <2> HIDE DEF g
  <2>3. \A i \in 1 .. f.size - 1 :
          (g.read + i - 1) % FifoDepth = (f.read + (i + 1) - 1) % FifoDepth
    <3> SUFFICES ASSUME NEW i \in 1 .. f.size - 1
                 PROVE  (g.read + i - 1) % FifoDepth = (f.read + (i + 1) - 1) % FifoDepth
      OBVIOUS
    <3> QED BY <1>0, <2>2, NextPlace, FifoAssumption
  <2>4. Waiting(g) = Tail(Waiting(f))
    <3>1. Waiting(f) = [i \in 1 .. f.size |-> f.data[(f.read + i - 1) % FifoDepth]]
      BY DEF Waiting
    <3>2. Waiting(g) = [i \in 1 .. f.size - 1 |-> f.data[(g.read + i - 1) % FifoDepth]]
          /\ Waiting(g) \in Seq(Samples) /\ Len(Waiting(g)) = f.size - 1
      BY <2>2, WaitingType DEF Waiting
    <3> DEFINE shorter == Tail(Waiting(f))
    <3>3. Waiting(f) # <<>>
      BY <1>1, <1>3
    <3>4. shorter \in Seq(Samples) /\ Len(shorter) = f.size - 1
          /\ \A i \in 1 .. f.size - 1 : shorter[i] = Waiting(f)[i + 1]
      BY <1>1, <3>3, HeadTailProperties
    <3> HIDE DEF shorter
    <3>5. \A i \in 1 .. f.size - 1 : Waiting(f)[i + 1] = f.data[(f.read + (i + 1) - 1) % FifoDepth]
      BY <1>0, <3>1
    <3>6. \A i \in 1 .. f.size - 1 : Waiting(g)[i] = shorter[i]
      BY <1>0, <2>3, <3>2, <3>4, <3>5
    <3>7. Waiting(g) = shorter
      BY <3>2, <3>4, <3>6, SeqEqual
    <3> QED BY <3>7 DEF shorter
  <2>5. Waiting(f) # <<>>
    BY <1>1, <1>3
  <2> QED BY <2>2, <2>4, <2>5 DEF g
<1> QED BY <1>2, <1>3

\* Nothing waits in a ring that is new or cleared.
LEMMA NothingWaits ==
  /\ \A s \in Samples : EmptyFifo(s) \in FifoRecords /\ Waiting(EmptyFifo(s)) = <<>>
  /\ \A f \in FifoRecords : Cleared(f) \in FifoRecords /\ Waiting(Cleared(f)) = <<>>
<1>1. ASSUME NEW f \in FifoRecords, f.size = 0 PROVE Waiting(f) = <<>>
  BY <1>1, WaitingType
<1>2. \A s \in Samples : EmptyFifo(s) \in FifoRecords /\ EmptyFifo(s).size = 0
  BY FifoAssumption DEF EmptyFifo, FifoRecords, Slots
<1>3. ASSUME NEW f \in FifoRecords PROVE Cleared(f) \in FifoRecords /\ Cleared(f).size = 0
  <2>1. f.data \in [Slots -> Samples] /\ 0 \in Slots /\ 0 \in 0 .. FifoDepth
    BY FifoAssumption DEF FifoRecords, Slots
  <2> QED BY <2>1 DEF Cleared, FifoRecords
<1> QED BY <1>1, <1>2, <1>3

-----------------------------------------------------------------------------

\* Each ring holds what its queue does.
Rings ==
  /\ fifo \in [FifoIds -> FifoRecords]
  /\ DOMAIN queue = FifoIds /\ queue = [f \in FifoIds |-> queue[f]]
  /\ RingIsQueue

LEMMA InitRings == Init => Rings
BY NothingWaits DEF Init, Rings, RingIsQueue

\* A unit reaches at most one FIFO, and pushes one sample.
LEMMA UnitRings ==
  ASSUME Rings, Unit
  PROVE  Rings'
<1>1. CASE UNCHANGED <<fifo, queue>>
  BY <1>1 DEF Rings, RingIsQueue
<1>2. CASE ~UNCHANGED <<fifo, queue>>
  <2> DEFINE id == TargetAt[running[1].destination].id
  <2>1. PICK s \in Samples :
          /\ fifo' = [fifo EXCEPT ![id] = Pushed(@, s)]
          /\ queue' = [queue EXCEPT ![id] = IF Len(@) < FifoDepth THEN Append(@, s) ELSE @]
    BY <1>2 DEF Unit
  <2> HIDE DEF id
  <2>2. ASSUME NEW f \in FifoIds
        PROVE  fifo'[f] \in FifoRecords /\ Waiting(fifo'[f]) = queue'[f]
    <3>1. fifo[f] \in FifoRecords /\ Waiting(fifo[f]) = queue[f]
      BY DEF Rings, RingIsQueue
    <3>2. CASE f = id
      <4>1. fifo'[f] = Pushed(fifo[f], s)
        BY <2>1, <3>2 DEF Rings
      <4>2. queue'[f] = IF Len(queue[f]) < FifoDepth THEN Append(queue[f], s) ELSE queue[f]
        BY <2>1, <3>2 DEF Rings
      <4>3. /\ Pushed(fifo[f], s) \in FifoRecords
            /\ Waiting(Pushed(fifo[f], s)) = IF Len(Waiting(fifo[f])) < FifoDepth
                                             THEN Append(Waiting(fifo[f]), s) ELSE Waiting(fifo[f])
        BY <3>1, PushedWaits
      <4> QED BY <3>1, <4>1, <4>2, <4>3
    <3>3. CASE f # id
      BY <2>1, <3>1, <3>3 DEF Rings
    <3> QED BY <3>2, <3>3
  <2>3. fifo' = [f \in FifoIds |-> fifo'[f]] /\ DOMAIN queue' = FifoIds
        /\ queue' = [f \in FifoIds |-> queue'[f]]
    BY <2>1 DEF Rings
  <2> QED BY <2>2, <2>3 DEF Rings, RingIsQueue
<1> QED BY <1>1, <1>2

\* An overflow pops a sample of each FIFO its timer clocks.
LEMMA OverflowRings ==
  ASSUME Rings, Overflow
  PROVE  Rings'
<1>1. PICK clocked \in SUBSET FifoIds :
        /\ fifo' = [f \in FifoIds |-> IF f \in clocked THEN Popped(fifo[f]) ELSE fifo[f]]
        /\ queue' = [f \in FifoIds |-> IF f \in clocked /\ queue[f] # <<>>
                                       THEN Tail(queue[f]) ELSE queue[f]]
  BY DEF Overflow
<1>2. ASSUME NEW f \in FifoIds
      PROVE  fifo'[f] \in FifoRecords /\ Waiting(fifo'[f]) = queue'[f]
  <2>1. fifo[f] \in FifoRecords /\ Waiting(fifo[f]) = queue[f]
    BY DEF Rings, RingIsQueue
  <2>2. CASE f \in clocked
    <3>1. fifo'[f] = Popped(fifo[f])
      BY <1>1, <2>2
    <3>2. queue'[f] = IF queue[f] # <<>> THEN Tail(queue[f]) ELSE queue[f]
      BY <1>1, <2>2
    <3> QED BY <2>1, <3>1, <3>2, PoppedWaits
  <2>3. CASE f \notin clocked
    BY <1>1, <2>1, <2>3
  <2> QED BY <2>2, <2>3
<1>3. fifo' = [f \in FifoIds |-> fifo'[f]] /\ DOMAIN queue' = FifoIds
      /\ queue' = [f \in FifoIds |-> queue'[f]]
  BY <1>1
<1> QED BY <1>2, <1>3 DEF Rings, RingIsQueue

LEMMA ClearRings ==
  ASSUME Rings, ClearFifo
  PROVE  Rings'
<1>1. PICK id \in FifoIds : /\ fifo' = [fifo EXCEPT ![id] = Cleared(@)]
                            /\ queue' = [queue EXCEPT ![id] = <<>>]
  BY DEF ClearFifo
<1>2. ASSUME NEW f \in FifoIds
      PROVE  fifo'[f] \in FifoRecords /\ Waiting(fifo'[f]) = queue'[f]
  <2>1. fifo[f] \in FifoRecords /\ Waiting(fifo[f]) = queue[f]
    BY DEF Rings, RingIsQueue
  <2>2. CASE f = id
    <3>1. fifo'[f] = Cleared(fifo[f]) /\ queue'[f] = <<>>
      BY <1>1, <2>2 DEF Rings
    <3> QED BY <2>1, <3>1, NothingWaits
  <2>3. CASE f # id
    BY <1>1, <2>1, <2>3 DEF Rings
  <2> QED BY <2>2, <2>3
<1>3. fifo' = [f \in FifoIds |-> fifo'[f]] /\ DOMAIN queue' = FifoIds
      /\ queue' = [f \in FifoIds |-> queue'[f]]
  BY <1>1 DEF Rings
<1> QED BY <1>2, <1>3 DEF Rings, RingIsQueue

LEMMA NextRings == Rings /\ [Next]_vars => Rings'
<1> SUFFICES ASSUME Rings, [Next]_vars PROVE Rings'
  OBVIOUS
<1>1. CASE UNCHANGED <<fifo, queue>>
  BY <1>1 DEF Rings, RingIsQueue
<1>2. CASE Finish \/ LookAt \/ TakeStall \/ WriteRegisters \/ WriteEnable \/ Trigger \/ SwitchSound
  <2>1. UNCHANGED <<fifo, queue>>
    BY <1>2 DEF Finish, LookAt, TakeStall, WriteRegisters, WriteEnable, Trigger, SwitchSound, direct
  <2> QED BY <1>1, <2>1
<1>3. CASE UNCHANGED vars
  BY <1>1, <1>3 DEF vars, direct
<1> QED BY <1>2, <1>3, UnitRings, OverflowRings, ClearRings DEF Next

\* The ring behaves as a queue: samples are played in the order they were written, none
\* twice and none skipped, whatever writes, pops and clears are interleaved (apu.cpp:163).
THEOREM PlayedInOrder == Spec => []RingIsQueue
<1>1. Rings => RingIsQueue
  BY DEF Rings
<1> QED BY <1>1, InitRings, NextRings, PTL DEF Spec

-----------------------------------------------------------------------------
(***************************************************************************)
(* Stacks of transfers: the one on top replaced, one more, one less.       *)
(***************************************************************************)
Transfers == [channel : Channels, source : Address, destination : Address, toward : DOMAIN Steps,
              left : Nat, cycles : Nat, refill : BOOLEAN]

LEMMA OneMore ==
  ASSUME NEW S, NEW x \in S, NEW s \in Seq(S)
  PROVE  /\ <<x>> \o s \in Seq(S) /\ <<x>> \o s # <<>>
         /\ Len(<<x>> \o s) = Len(s) + 1
         /\ (<<x>> \o s)[1] = x
         /\ \A i \in 1 .. Len(s) : (<<x>> \o s)[i + 1] = s[i]
         /\ \A i \in 2 .. Len(s) + 1 : (<<x>> \o s)[i] = s[i - 1]
<1> DEFINE t == <<x>> \o s
<1>1. <<x>> \in Seq(S) /\ Len(<<x>>) = 1 /\ <<x>>[1] = x /\ Len(s) \in Nat
  OBVIOUS
<1>2. /\ t \in Seq(S) /\ Len(t) = 1 + Len(s)
      /\ \A i \in 1 .. 1 + Len(s) : t[i] = IF i <= 1 THEN <<x>>[i] ELSE s[i - 1]
  BY <1>1, ConcatProperties
<1> HIDE DEF t
<1>3. t[1] = x
  BY <1>1, <1>2
<1>4. \A i \in 2 .. Len(s) + 1 : t[i] = s[i - 1]
  BY <1>1, <1>2
<1>5. \A i \in 1 .. Len(s) : t[i + 1] = s[i]
  <2> TAKE i \in 1 .. Len(s)
  <2>1. i + 1 \in 2 .. Len(s) + 1 /\ (i + 1) - 1 = i
    BY <1>1
  <2> QED BY <1>4, <2>1
<1>6. t # <<>>
  BY <1>1, <1>2
<1> QED BY <1>1, <1>2, <1>3, <1>4, <1>5, <1>6 DEF t

LEMMA OneLess ==
  ASSUME NEW S, NEW s \in Seq(S), s # <<>>
  PROVE  /\ Tail(s) \in Seq(S) /\ Len(s) \in Nat \ {0} /\ Len(Tail(s)) = Len(s) - 1
         /\ s[1] \in S /\ Head(s) = s[1]
         /\ \A i \in 1 .. Len(s) - 1 : Tail(s)[i] = s[i + 1]
BY HeadTailProperties, EmptySeq, ElementOfSeq

LEMMA TopReplaced ==
  ASSUME NEW S, NEW s \in Seq(S), s # <<>>, NEW x \in S
  PROVE  /\ <<x>> \o Tail(s) \in Seq(S) /\ <<x>> \o Tail(s) # <<>>
         /\ Len(<<x>> \o Tail(s)) = Len(s)
         /\ (<<x>> \o Tail(s))[1] = x
         /\ \A i \in 2 .. Len(s) : (<<x>> \o Tail(s))[i] = s[i]
<1> DEFINE u == Tail(s)
           t == <<x>> \o u
<1>1. u \in Seq(S) /\ Len(s) \in Nat \ {0} /\ Len(u) = Len(s) - 1
      /\ \A i \in 1 .. Len(s) - 1 : u[i] = s[i + 1]
  BY OneLess
<1> HIDE DEF u
<1>2. /\ t \in Seq(S) /\ t # <<>> /\ Len(t) = Len(u) + 1 /\ t[1] = x
      /\ \A i \in 2 .. Len(u) + 1 : t[i] = u[i - 1]
  BY <1>1, OneMore
<1> HIDE DEF t
<1>3. ASSUME NEW i \in 2 .. Len(s) PROVE t[i] = s[i]
  <2>1. i - 1 \in 1 .. Len(s) - 1 /\ (i - 1) + 1 = i /\ i \in 2 .. Len(u) + 1
    BY <1>1
  <2> QED BY <1>1, <1>2, <2>1
<1> QED BY <1>1, <1>2, <1>3 DEF t, u

-----------------------------------------------------------------------------
(***************************************************************************)
(* Types, and what a request for samples is.                               *)
(***************************************************************************)
Wants  == [fifo : FifoIds]
Visits == [channel : Channels, timing : {"VBlank", "HBlank"}]

Typed ==
  /\ registers \in [Channels -> Registers] /\ internal \in [Channels -> Registers]
  /\ control \in [Channels -> Control]
  /\ running \in Seq(Transfers)
  /\ todo \in Seq(Wants) \/ todo \in Seq(Visits)
  /\ stall \in Nat /\ debt \in Nat /\ iflag \subseteq Channels /\ fed \subseteq FifoIds
  /\ reached \in [Channels -> Address]

LEMMA AddressType ==
  /\ 0 \in Address
  /\ \A x \in Nat : x % Space \in Address
BY DmaAssumption DEF Address

LEMMA StepType ==
  ASSUME NEW a \in Address, NEW way \in DOMAIN Steps
  PROVE  /\ (a + 1) % Space \in Address
         /\ (a + Steps[way]) % Space \in Address
         /\ way = "Fixed" => (a + Steps[way]) % Space = a
<1>1. Space \in Nat \ {0} /\ a \in Nat /\ a < Space
  BY DmaAssumption DEF Address
<1>2. Steps[way] \in Nat /\ (way = "Fixed" => Steps[way] = 0)
  BY <1>1 DEF Steps
<1>3. a + 1 \in Nat /\ a + Steps[way] \in Nat
  BY <1>1, <1>2
<1>4. way = "Fixed" => (a + Steps[way]) % Space = a
  <2> SUFFICES ASSUME way = "Fixed" PROVE (a + Steps[way]) % Space = a
    OBVIOUS
  <2>1. a + Steps[way] = a
    BY <1>1, <1>2
  <2> QED BY <1>1, <2>1
<1> QED BY <1>3, <1>4, AddressType

LEMMA TransferType ==
  ASSUME NEW c \in Channels, NEW at \in Registers, NEW way \in DOMAIN Steps, NEW n \in Nat,
         NEW refill \in BOOLEAN
  PROVE  Transfer(c, at, way, n, refill) \in Transfers
BY DmaAssumption DEF Transfer, Transfers, Registers

\* What one unit makes of a transfer.
AfterUnit(t) == [t EXCEPT !.source = (@ + 1) % Space,
                          !.destination = (@ + Steps[t.toward]) % Space,
                          !.left = @ - 1, !.cycles = @ + UnitCycles]

LEMMA MovedType ==
  ASSUME NEW t \in Transfers, t.left > 0
  PROVE  /\ AfterUnit(t) \in Transfers
         /\ AfterUnit(t).channel = t.channel /\ AfterUnit(t).refill = t.refill
         /\ AfterUnit(t).toward = t.toward
         /\ AfterUnit(t).source = (t.source + 1) % Space
         /\ AfterUnit(t).cycles = t.cycles + UnitCycles
         /\ AfterUnit(t).left = t.left - 1
         /\ t.toward = "Fixed" => AfterUnit(t).destination = t.destination
<1> DEFINE source      == (t.source + 1) % Space
           destination == (t.destination + Steps[t.toward]) % Space
<1>1. /\ t.source \in Address /\ t.destination \in Address /\ t.toward \in DOMAIN Steps
      /\ t.left \in Nat /\ t.cycles \in Nat /\ t.channel \in Channels /\ t.refill \in BOOLEAN
  BY DEF Transfers
<1>2. source \in Address /\ destination \in Address
      /\ (t.toward = "Fixed" => destination = t.destination)
  BY <1>1, StepType
<1>3. t.left - 1 \in Nat /\ t.cycles + UnitCycles \in Nat
  BY <1>1, DmaAssumption
<1> HIDE DEF source, destination
<1>4. AfterUnit(t) = [channel |-> t.channel, source |-> source, destination |-> destination,
                  toward |-> t.toward, left |-> t.left - 1, cycles |-> t.cycles + UnitCycles,
                  refill |-> t.refill]
  <2>1. AfterUnit(t) = [t EXCEPT !.source = source, !.destination = destination,
                             !.left = t.left - 1, !.cycles = t.cycles + UnitCycles]
    BY Zenon DEF AfterUnit, source, destination
  <2> QED BY <2>1 DEF Transfers
<1>5. AfterUnit(t) \in Transfers
  BY <1>1, <1>2, <1>3, <1>4 DEF Transfers
<1> QED BY <1>2, <1>4, <1>5 DEF source

LEMMA InitTyped == Init => Typed
<1> SUFFICES ASSUME Init PROVE Typed
  OBVIOUS
<1>1. Unset \in Registers
  BY AddressType DEF Unset, Registers
<1>2. Off \in Control
  BY DEF Off, Control, Timings, Steps
<1> QED BY <1>1, <1>2, AddressType DEF Init, Typed, Wants

\* A control written by the CPU or by a transfer.
LEMMA WriteTyped ==
  ASSUME Typed, NEW c \in Channels, NEW new \in Control, NEW outer \in Seq(Transfers),
         NEW cost \in Nat, NEW reach \in [Channels -> Address],
         WriteControl(c, new, outer, cost, reach)
  PROVE  /\ control' \in [Channels -> Control] /\ internal' \in [Channels -> Registers]
         /\ reached' \in [Channels -> Address]
         /\ running' \in Seq(Transfers) /\ debt' \in Nat
<1>1. control' \in [Channels -> Control]
  BY DEF Typed, WriteControl
<1>2. internal' \in [Channels -> Registers]
  <2>1. registers[c] \in Registers
    BY DEF Typed
  <2> QED BY <2>1 DEF Typed, WriteControl
<1>3. reached' \in [Channels -> Address]
  <2>1. registers[c].source \in Address
    BY DEF Typed, Registers
  <2> QED BY <2>1 DEF WriteControl
<1>4. running' \in Seq(Transfers)
  <2> DEFINE t == Transfer(c, registers[c], new.toward, registers[c].count, FALSE)
  <2>1. t \in Transfers
    <3>1. registers[c] \in Registers /\ registers[c].count \in Nat /\ new.toward \in DOMAIN Steps
      BY DEF Typed, Registers, Control
    <3> QED BY <3>1, TransferType
  <2> HIDE DEF t
  <2>2. <<t>> \o outer \in Seq(Transfers)
    BY <2>1, OneMore
  <2>3. running' = <<t>> \o outer \/ running' = outer
    BY DEF WriteControl, t
  <2> QED BY <2>2, <2>3
<1>5. debt' \in Nat
  BY DmaAssumption DEF WriteControl, Typed
<1> QED BY <1>1, <1>2, <1>3, <1>4, <1>5

LEMMA WritableType ==
  ASSUME Typed, NEW c, NEW new \in Writable(c)
  PROVE  c \in Channels /\ new \in Control
<1>1. CASE Unfinished(c) /\ ~SelfWrites
  <2>1. PICK i \in 1 .. Len(running) : running[i].channel = c
    BY <1>1 DEF Unfinished
  <2>2. running[i] \in Transfers
    BY <2>1, ElementOfSeq DEF Typed
  <2>3. c \in Channels
    BY <2>1, <2>2 DEF Transfers
  <2> QED BY <1>1, <2>3 DEF Writable, Typed
<1>2. CASE ~(Unfinished(c) /\ ~SelfWrites)
  <2>1. PICK w \in Controls : w[1] = c /\ w[2] = new
    BY <1>2 DEF Writable
  <2> QED BY <2>1, DmaAssumption
<1> QED BY <1>1, <1>2

\* The parts of a unit, by name.
LEMMA UnitParts ==
  ASSUME Typed, Unit
  PROVE  \E t, rest, reach :
    /\ t = running[1] /\ t \in Transfers /\ t.left > 0 /\ running # <<>>
    /\ rest = <<AfterUnit(t)>> \o Tail(running) /\ rest \in Seq(Transfers)
    /\ reach = [reached EXCEPT ![t.channel] = (t.source + 1) % Space]
    /\ reach \in [Channels -> Address]
    /\ \/ /\ running' = rest /\ debt' = debt + UnitCycles /\ reached' = reach
          /\ UNCHANGED <<control, internal>>
          /\ \/ UNCHANGED fifo
             \/ \E s \in Samples : /\ TargetAt[t.destination].kind = "fifo"
                                   /\ fifo' = [fifo EXCEPT ![TargetAt[t.destination].id] = Pushed(@, s)]
       \/ /\ TargetAt[t.destination].kind = "control"
          /\ \E c \in Channels : \E new \in Writable(c) :
               new \in Control /\ WriteControl(c, new, rest, UnitCycles, reach)
          /\ UNCHANGED fifo
    /\ UNCHANGED <<registers, todo, stall, iflag, fed>>
<1> DEFINE t     == running[1]
           rest  == <<AfterUnit(t)>> \o Tail(running)
           reach == [reached EXCEPT ![t.channel] = (t.source + 1) % Space]
           what  == TargetAt[t.destination]
<1>1. running # <<>> /\ t.left > 0 /\ t \in Transfers
  BY OneLess DEF Unit, Typed
<1>2. rest \in Seq(Transfers)
  <2>1. AfterUnit(t) \in Transfers
    BY <1>1, MovedType
  <2> QED BY <1>1, <2>1, TopReplaced DEF Typed
<1>3. reach \in [Channels -> Address]
  <2>1. t.source \in Address
    BY <1>1 DEF Transfers
  <2>2. (t.source + 1) % Space \in Address
    BY <2>1, AddressType, DmaAssumption DEF Address
  <2> QED BY <2>2 DEF Typed
<1>4. UNCHANGED <<registers, todo, stall, iflag, fed>>
  BY DEF Unit
<1>5. \/ /\ running' = rest /\ debt' = debt + UnitCycles /\ reached' = reach
         /\ UNCHANGED <<control, internal>>
         /\ \/ UNCHANGED fifo
            \/ \E s \in Samples : /\ what.kind = "fifo"
                                  /\ fifo' = [fifo EXCEPT ![what.id] = Pushed(@, s)]
      \/ /\ what.kind = "control"
         /\ \E new \in Writable(what.id) : WriteControl(what.id, new, rest, UnitCycles, reach)
         /\ UNCHANGED fifo
  BY DEF Unit, AfterUnit
<1>6. (\E new \in Writable(what.id) : WriteControl(what.id, new, rest, UnitCycles, reach))
      => \E c \in Channels : \E new \in Writable(c) :
           new \in Control /\ WriteControl(c, new, rest, UnitCycles, reach)
  BY WritableType
<1> HIDE DEF rest, reach, what
<1>7. \/ /\ running' = rest /\ debt' = debt + UnitCycles /\ reached' = reach
         /\ UNCHANGED <<control, internal>>
         /\ \/ UNCHANGED fifo
            \/ \E s \in Samples : /\ what.kind = "fifo"
                                  /\ fifo' = [fifo EXCEPT ![what.id] = Pushed(@, s)]
      \/ /\ what.kind = "control"
         /\ \E c \in Channels : \E new \in Writable(c) :
              new \in Control /\ WriteControl(c, new, rest, UnitCycles, reach)
         /\ UNCHANGED fifo
  BY <1>5, <1>6
<1> QED BY <1>1, <1>2, <1>3, <1>4, <1>7 DEF rest, reach, what

\* A channel that runs outside any other transfer.
LEMMA RunTyped ==
  ASSUME Typed, NEW c \in Channels, Run(c)
  PROVE  \E t \in Transfers :
           /\ running' = <<t>> /\ running' \in Seq(Transfers) /\ debt' = debt + StartCycles
           /\ t.channel = c /\ t.source = internal[c].source
           /\ t.destination = internal[c].destination /\ t.cycles = StartCycles
           /\ t.refill = SoundFifo(c)
           /\ SoundFifo(c) => t.toward = "Fixed" /\ t.left = RefillUnits
<1> DEFINE t == IF SoundFifo(c) THEN Transfer(c, internal[c], "Fixed", RefillUnits, TRUE)
                ELSE Transfer(c, internal[c], control[c].toward, internal[c].count, FALSE)
<1>1. /\ internal[c] \in Registers /\ internal[c].count \in Nat
      /\ control[c].toward \in DOMAIN Steps /\ "Fixed" \in DOMAIN Steps /\ RefillUnits \in Nat
  BY DmaAssumption DEF Typed, Registers, Control, Steps
<1>2. /\ Transfer(c, internal[c], "Fixed", RefillUnits, TRUE) \in Transfers
      /\ Transfer(c, internal[c], control[c].toward, internal[c].count, FALSE) \in Transfers
  BY <1>1, TransferType
<1>3. t \in Transfers
  BY <1>2
<1>4. /\ t.channel = c /\ t.source = internal[c].source
      /\ t.destination = internal[c].destination /\ t.cycles = StartCycles
      /\ t.refill = SoundFifo(c)
      /\ SoundFifo(c) => t.toward = "Fixed" /\ t.left = RefillUnits
  <2>1. CASE SoundFifo(c)
    BY <2>1 DEF Transfer
  <2>2. CASE ~SoundFifo(c)
    BY <2>2 DEF Transfer, SoundFifo
  <2> QED BY <2>1, <2>2
<1>5. running' = <<t>> /\ debt' = debt + StartCycles
  BY DEF Run
<1> HIDE DEF t
<1> QED BY <1>3, <1>4, <1>5

\* The channel a FIFO's request finds.
LEMMA RefillerFound ==
  ASSUME Typed, NEW f \in FifoIds, Refillers(f) # {}
  PROVE  /\ Min(Refillers(f)) \in Channels
         /\ SoundFifo(Min(Refillers(f)))
         /\ internal[Min(Refillers(f))].destination = FifoAddress[f]
<1>1. Refillers(f) \subseteq {1, 2}
  BY DEF Refillers
<1>2. \E x \in Refillers(f) : \A y \in Refillers(f) : x =< y
  BY <1>1
<1>3. Min(Refillers(f)) \in Refillers(f)
  BY <1>2 DEF Min
<1> QED BY <1>3 DEF Refillers, SoundFifo

LEMMA FinitelyMany ==
  /\ IsFiniteSet(Channels)
  /\ \A S \in SUBSET FifoIds : IsFiniteSet(S)
<1>0. 0 \in Int /\ 1 \in Int /\ 2 \in Int /\ 3 \in Int
  OBVIOUS
<1>1. IsFiniteSet(0 .. 3) /\ IsFiniteSet(1 .. 2)
  BY ONLY <1>0, FS_Interval, Zenon
<1>2. Channels \in SUBSET (0 .. 3) /\ \A S \in SUBSET FifoIds : S \in SUBSET (1 .. 2)
  BY DmaAssumption
<1> QED BY <1>1, <1>2, FS_Subset

LEMMA OrderType ==
  ASSUME NEW S, S \subseteq Nat, IsFiniteSet(S), NEW order \in Ascending(S)
  PROVE  /\ order \in Seq(S) /\ DOMAIN order = 1 .. Len(order)
         /\ \A i, j \in 1 .. Len(order) : order[i] = order[j] => i = j
         /\ \A x \in S : \E i \in 1 .. Len(order) : order[i] = x
<1>1. Cardinality(S) \in Nat
  BY FS_CardinalityType
<1> DEFINE n == Cardinality(S)
<1>2. order \in [1 .. n -> S] /\ \A i, j \in 1 .. n : i < j => order[i] < order[j]
  BY DEF Ascending
<1> HIDE DEF n
<1>3. n \in Nat
  BY <1>1 DEF n
<1>4. order \in Seq(S) /\ Len(order) = n /\ DOMAIN order = 1 .. n
  BY <1>2, <1>3
<1>5. ASSUME NEW i \in 1 .. n, NEW j \in 1 .. n, order[i] = order[j] PROVE i = j
  <2>1. order[i] \in Nat /\ order[j] \in Nat
    BY <1>2
  <2> QED BY <1>2, <1>3, <1>5, <2>1
<1>6. order \in Surjection(1 .. n, S)
  <2>1. order \in Injection(1 .. n, S)
    BY <1>2, <1>5, Zenon DEF Injection, IsInjective
  <2>2. Cardinality(1 .. n) = n
    <3>1. 1 \in Int /\ n \in Int /\ Cardinality(1 .. n) = IF 1 > n THEN 0 ELSE n - 1 + 1
      BY <1>3, FS_Interval
    <3> QED BY <1>3, <3>1
  <2> QED BY <2>1, <2>2, FS_Injection DEF n
<1>7. \A x \in S : \E i \in 1 .. n : order[i] = x
  BY <1>6 DEF Surjection
<1> QED BY <1>4, <1>5, <1>7

\* What a trigger leaves to look at, and what an overflow does.
LEMMA TriggerParts ==
  ASSUME Trigger
  PROVE  /\ todo' \in Seq(Visits)
         /\ \A i, j \in 1 .. Len(todo') : todo'[i] = todo'[j] => i = j
<1>1. PICK timing \in {"VBlank", "HBlank"}, order \in Ascending(Channels) :
        todo' = [i \in DOMAIN order |-> [channel |-> order[i], timing |-> timing]]
  BY DEF Trigger
<1>2. /\ order \in Seq(Channels) /\ DOMAIN order = 1 .. Len(order)
      /\ \A i, j \in 1 .. Len(order) : order[i] = order[j] => i = j
  <2>1. Channels \subseteq Nat
    BY DmaAssumption
  <2> QED BY <2>1, OrderType, FinitelyMany
<1>3. \A i \in 1 .. Len(order) : [channel |-> order[i], timing |-> timing] \in Visits
  BY <1>2 DEF Visits
<1>4. todo' \in Seq(Visits) /\ Len(todo') = Len(order)
  BY <1>1, <1>2, <1>3
<1>5. \A i, j \in 1 .. Len(order) : todo'[i] = todo'[j] => order[i] = order[j]
  BY <1>1, <1>2
<1> QED BY <1>2, <1>4, <1>5

LEMMA OverflowParts ==
  ASSUME Overflow
  PROVE  \E clocked \in SUBSET FifoIds :
           /\ fifo' = [f \in FifoIds |-> IF f \in clocked THEN Popped(fifo[f]) ELSE fifo[f]]
           /\ todo' \in Seq(Wants)
           /\ \A i, j \in 1 .. Len(todo') : todo'[i] = todo'[j] => i = j
           /\ \A f \in FifoIds : (\E i \in 1 .. Len(todo') : todo'[i] = [fifo |-> f])
                                <=> f \in clocked /\ WantsRefill(fifo'[f])
<1>1. PICK clocked \in SUBSET FifoIds :
        /\ fifo' = [f \in FifoIds |-> IF f \in clocked THEN Popped(fifo[f]) ELSE fifo[f]]
        /\ \E order \in Ascending({f \in clocked : WantsRefill(fifo'[f])}) :
             todo' = [i \in DOMAIN order |-> [fifo |-> order[i]]]
  BY DEF Overflow
<1> DEFINE S == {f \in clocked : WantsRefill(fifo'[f])}
<1>2. PICK order \in Ascending(S) : todo' = [i \in DOMAIN order |-> [fifo |-> order[i]]]
  BY <1>1
<1>3. S \in SUBSET FifoIds /\ S \subseteq Nat
  <2>1. S \subseteq FifoIds
    OBVIOUS
  <2> HIDE DEF S
  <2>2. FifoIds \subseteq Nat
    BY DmaAssumption
  <2> QED BY <2>1, <2>2
<1> HIDE DEF S
<1>4. /\ order \in Seq(S) /\ DOMAIN order = 1 .. Len(order)
      /\ \A i, j \in 1 .. Len(order) : order[i] = order[j] => i = j
      /\ \A x \in S : \E i \in 1 .. Len(order) : order[i] = x
  <2>1. S \subseteq Nat /\ IsFiniteSet(S) /\ order \in Ascending(S)
    BY <1>2, <1>3, FinitelyMany
  <2> QED BY ONLY <2>1, OrderType, ZenonT(60)
<1>5. todo' \in Seq(Wants) /\ Len(todo') = Len(order)
  <2>1. \A i \in 1 .. Len(order) : order[i] \in FifoIds
    BY <1>3, <1>4, ElementOfSeq
  <2>2. \A i \in 1 .. Len(order) : [fifo |-> order[i]] \in Wants
    BY <2>1 DEF Wants
  <2> QED BY <1>2, <1>4, <2>2
<1>6. \A i, j \in 1 .. Len(todo') : todo'[i] = todo'[j] => i = j
  <2>1. \A i, j \in 1 .. Len(order) : todo'[i] = todo'[j] => order[i] = order[j]
    BY <1>2, <1>4
  <2> QED BY <1>4, <1>5, <2>1
<1>7. ASSUME NEW f \in FifoIds
      PROVE  (\E i \in 1 .. Len(todo') : todo'[i] = [fifo |-> f]) <=> f \in S
  <2>1. ASSUME f \in S PROVE \E i \in 1 .. Len(todo') : todo'[i] = [fifo |-> f]
    <3>1. PICK i \in 1 .. Len(order) : order[i] = f
      BY <1>4, <2>1
    <3> QED BY <1>2, <1>4, <1>5, <3>1
  <2>2. ASSUME NEW i \in 1 .. Len(todo'), todo'[i] = [fifo |-> f] PROVE f \in S
    <3>1. order[i] = f
      BY <1>2, <1>4, <1>5, <2>2
    <3> QED BY <1>4, <1>5, <3>1
  <2> QED BY <2>1, <2>2
<1> QED BY <1>1, <1>5, <1>6, <1>7 DEF S

LEMMA NextTyped ==
  ASSUME Typed, [Next]_vars
  PROVE  Typed'
<1>1. CASE Unit
  <2>1. PICK t, rest, reach :
          /\ rest \in Seq(Transfers) /\ reach \in [Channels -> Address]
          /\ \/ /\ running' = rest /\ debt' = debt + UnitCycles /\ reached' = reach
                /\ UNCHANGED <<control, internal>>
             \/ \E c \in Channels : \E new \in Control :
                  WriteControl(c, new, rest, UnitCycles, reach)
          /\ UNCHANGED <<registers, todo, stall, iflag, fed>>
    BY <1>1, UnitParts, ZenonT(60)
  <2>2. UnitCycles \in Nat
    BY DmaAssumption
  <2>3. /\ control' \in [Channels -> Control] /\ internal' \in [Channels -> Registers]
        /\ reached' \in [Channels -> Address]
        /\ running' \in Seq(Transfers) /\ debt' \in Nat
    <3>1. CASE running' = rest /\ debt' = debt + UnitCycles /\ reached' = reach
               /\ UNCHANGED <<control, internal>>
      BY <2>1, <2>2, <3>1 DEF Typed
    <3>2. ASSUME NEW c \in Channels, NEW new \in Control,
                 WriteControl(c, new, rest, UnitCycles, reach)
          PROVE  /\ control' \in [Channels -> Control] /\ internal' \in [Channels -> Registers]
                 /\ reached' \in [Channels -> Address]
                 /\ running' \in Seq(Transfers) /\ debt' \in Nat
      BY <2>1, <2>2, <3>2, WriteTyped
    <3> QED BY <2>1, <3>1, <3>2
  <2> QED BY <2>1, <2>3 DEF Typed
<1>2. CASE Finish
  <2> DEFINE t  == running[1]
             c  == t.channel
             on == control[c].repeat /\ control[c].timing # "Immediate"
  <2>1. /\ t \in Transfers /\ t.left = 0 /\ running' = Tail(running)
        /\ Tail(running) \in Seq(Transfers)
    BY <1>2, OneLess DEF Typed, Finish
  <2>2. c \in Channels /\ t.source \in Address /\ t.destination \in Address /\ t.cycles \in Nat
    BY <2>1 DEF Transfers
  <2>3. registers[c] \in Registers /\ internal[c] \in Registers /\ control[c] \in Control
    BY <2>2 DEF Typed
  <2>4. internal' \in [Channels -> Registers]
    <3> DEFINE new == [source |-> t.source,
                       destination |-> IF on /\ t.toward = "IncrementReload"
                                       THEN registers[c].destination ELSE t.destination,
                       count |-> IF on THEN registers[c].count ELSE internal[c].count]
    <3>1. new \in Registers
      BY <2>2, <2>3 DEF Registers
    <3>2. internal' = [internal EXCEPT ![c] = new]
      BY <1>2 DEF Finish
    <3> HIDE DEF new
    <3> QED BY <3>1, <3>2 DEF Typed
  <2>5. control' \in [Channels -> Control]
    <3>1. control' = IF on THEN control ELSE [control EXCEPT ![c].enabled = FALSE]
      BY <1>2 DEF Finish
    <3>2. [control[c] EXCEPT !.enabled = FALSE] \in Control
      BY <2>3 DEF Control
    <3> QED BY <3>1, <3>2 DEF Typed
  <2>6. iflag' \subseteq Channels
    BY <1>2, <2>2 DEF Finish, Typed
  <2>7. stall' \in Nat
    BY <1>2, <2>2 DEF Finish, Typed, StallWith
  <2>8. UNCHANGED <<registers, todo, debt, reached, fed>>
    BY <1>2 DEF Finish, direct
  <2> QED BY <2>1, <2>4, <2>5, <2>6, <2>7, <2>8 DEF Typed
<1>3. CASE LookAt
  <2> DEFINE next == Head(todo)
  <2>1. todo # <<>> /\ todo' = Tail(todo)
        /\ UNCHANGED <<registers, control, internal, stall, iflag, reached>>
    BY <1>3 DEF LookAt, programmed
  <2>2. /\ todo' \in Seq(Wants) \/ todo' \in Seq(Visits)
        /\ next \in Wants \/ next \in Visits
    BY <2>1, HeadTailProperties DEF Typed
  <2>3. running' \in Seq(Transfers) /\ debt' \in Nat /\ fed' \subseteq FifoIds
    <3>1. CASE next \in Wants
      <4>1. next.fifo \in FifoIds /\ "fifo" \in DOMAIN next
        BY <3>1 DEF Wants
      <4>2. CASE Refillers(next.fifo) # {}
        <5>1. Run(Min(Refillers(next.fifo))) /\ fed' = fed \cup {next.fifo}
          BY <1>3, <4>1, <4>2 DEF LookAt
        <5>2. Min(Refillers(next.fifo)) \in Channels
          BY <4>1, <4>2, RefillerFound
        <5>3. running' \in Seq(Transfers) /\ debt' = debt + StartCycles
          BY <5>1, <5>2, RunTyped
        <5>4. debt' \in Nat
          BY <5>3, DmaAssumption DEF Typed
        <5>5. fed' \subseteq FifoIds
          BY <4>1, <5>1 DEF Typed
        <5> QED BY <5>3, <5>4, <5>5
      <4>3. CASE Refillers(next.fifo) = {}
        BY <1>3, <4>1, <4>3 DEF LookAt, Typed
      <4> QED BY <4>2, <4>3
    <3>2. CASE next \in Visits
      <4>1. next.channel \in Channels /\ "fifo" \notin DOMAIN next
        BY <3>2 DEF Visits
      <4>2. Run(next.channel) \/ UNCHANGED <<running, debt>>
        BY <1>3, <4>1 DEF LookAt
      <4>3. UNCHANGED fed
        BY <1>3, <4>1 DEF LookAt
      <4>4. ASSUME Run(next.channel) PROVE running' \in Seq(Transfers) /\ debt' = debt + StartCycles
        BY <4>1, <4>4, RunTyped
      <4> QED BY <4>2, <4>3, <4>4, DmaAssumption DEF Typed
    <3> QED BY <2>2, <3>1, <3>2
  <2> QED BY <2>1, <2>2, <2>3 DEF Typed
<1>4. CASE TakeStall
  BY <1>4 DEF TakeStall, Typed, programmed, direct
<1>5. CASE WriteRegisters
  <2>1. PICK s \in Setups : registers' = [registers EXCEPT ![s[1]] = s[2]]
    BY <1>5 DEF WriteRegisters
  <2>2. s[1] \in Channels /\ s[2] \in Registers
    BY DmaAssumption
  <2> QED BY <1>5, <2>1, <2>2 DEF WriteRegisters, Typed, direct
<1>6. CASE WriteEnable
  <2>1. PICK w \in Controls : WriteControl(w[1], w[2], <<>>, 0, reached)
    BY <1>6 DEF WriteEnable
  <2>2. w[1] \in Channels /\ w[2] \in Control /\ <<>> \in Seq(Transfers) /\ 0 \in Nat
        /\ reached \in [Channels -> Address]
    BY DmaAssumption DEF Typed
  <2>3. /\ control' \in [Channels -> Control] /\ internal' \in [Channels -> Registers]
        /\ reached' \in [Channels -> Address]
        /\ running' \in Seq(Transfers) /\ debt' \in Nat
    BY <2>1, <2>2, WriteTyped
  <2> QED BY <1>6, <2>3 DEF WriteEnable, Typed, direct
<1>7. CASE Trigger
  BY <1>7, TriggerParts DEF Trigger, Typed, programmed, direct
<1>8. CASE Overflow
  BY <1>8, OverflowParts DEF Overflow, Typed, programmed
<1>9. CASE ClearFifo
  BY <1>9 DEF ClearFifo, Typed, programmed
<1>10. CASE SwitchSound
  BY <1>10 DEF SwitchSound, Typed, programmed
<1>11. CASE UNCHANGED vars
  BY <1>11 DEF vars, Typed, programmed, direct
<1> QED BY <1>1, <1>2, <1>3, <1>4, <1>5, <1>6, <1>7, <1>8, <1>9, <1>10, <1>11 DEF Next

-----------------------------------------------------------------------------
(***************************************************************************)
(* The requests of the FIFOs.                                              *)
(***************************************************************************)
Asks(f) == \E i \in 1 .. Len(todo) : todo[i] = [fifo |-> f]

Refills(f) ==
  /\ running # <<>> /\ running[1].refill
  /\ running[1].destination = FifoAddress[f]

\* A refill runs alone and into the FIFO that asked, whose room it never exceeds; the FIFOs
\* still to look at want theirs, and nothing but the refill of another runs meanwhile; and
\* a FIFO that was fed is half full, or about to be.
Served ==
  /\ \A i \in 1 .. Len(running) : running[i].refill => Len(running) = 1
  /\ running # <<>> /\ running[1].refill =>
       running[1].toward = "Fixed" /\ \E f \in FifoIds : Refills(f)
  /\ \A f \in FifoIds : Refills(f) => fifo[f].size + running[1].left <= FifoDepth
  /\ \A i, j \in 1 .. Len(todo) : todo[i] = todo[j] => i = j
  /\ \A f \in FifoIds : Asks(f) =>
       /\ WantsRefill(fifo[f])
       /\ running = <<>> \/ (running[1].refill /\ ~Refills(f))
  /\ \A f \in fed : \/ fifo[f].size >= FifoDepth \div 2
                    \/ Asks(f)
                    \/ Refills(f) /\ fifo[f].size + running[1].left >= FifoDepth \div 2

Sound == Rings /\ Typed /\ Served

LEMMA FifoSizes ==
  ASSUME Rings
  PROVE  /\ \A f \in FifoIds : fifo[f] \in FifoRecords /\ fifo[f].size \in 0 .. FifoDepth
         /\ FifoDepth \in Nat \ {0} /\ FifoDepth \div 2 \in Nat
BY FifoAssumption DEF Rings, FifoRecords

LEMMA FifosApart ==
  ASSUME NEW f \in FifoIds, NEW g \in FifoIds, FifoAddress[f] = FifoAddress[g]
  PROVE  f = g
<1>1. TargetAt[FifoAddress[f]] = [kind |-> "fifo", id |-> f]
  BY DmaAssumption
<1>2. TargetAt[FifoAddress[g]] = [kind |-> "fifo", id |-> g]
  BY DmaAssumption
<1>3. [kind |-> "fifo", id |-> f] = [kind |-> "fifo", id |-> g]
  BY <1>1, <1>2
<1> QED BY <1>3

LEMMA InitServed == Init => Served
BY DEF Init, Served, Asks, Refills

\* A unit of a refill brings a sample to its FIFO and to no other.
LEMMA RefillUnit ==
  ASSUME Sound, Unit, running[1].refill
  PROVE  Served'
<1>1. PICK t : /\ t = running[1] /\ t \in Transfers /\ t.left > 0 /\ running # <<>>
               /\ TargetAt[t.destination].kind # "control" => running' = <<AfterUnit(t)>> \o Tail(running)
               /\ UNCHANGED <<todo, fed>>
  BY UnitParts DEF Sound
<1>2. PICK f \in FifoIds : t.destination = FifoAddress[f] /\ t.toward = "Fixed"
  BY <1>1 DEF Sound, Served, Refills
<1>3. TargetAt[t.destination] = [kind |-> "fifo", id |-> f]
  BY <1>2, DmaAssumption
<1>4. Len(running) = 1
  <2>1. 1 \in 1 .. Len(running)
    BY <1>1, OneLess DEF Sound, Typed
  <2> QED BY <2>1 DEF Sound, Served
<1>5. /\ running' # <<>> /\ Len(running') = 1 /\ running'[1] = AfterUnit(t)
  <2>1. running' = <<AfterUnit(t)>> \o Tail(running)
    BY <1>1, <1>3
  <2>2. AfterUnit(t) \in Transfers
    BY <1>1, MovedType
  <2> QED BY <1>1, <1>4, <2>1, <2>2, TopReplaced DEF Sound, Typed
<1>6. /\ running'[1].refill /\ running'[1].toward = "Fixed"
      /\ running'[1].destination = FifoAddress[f]
      /\ running'[1].left = t.left - 1 /\ t.left \in Nat
  BY <1>1, <1>2, <1>5, MovedType DEF Transfers
<1>7. \E s \in Samples : fifo' = [fifo EXCEPT ![f] = Pushed(@, s)]
  BY <1>1, <1>3 DEF Unit
<1>8. /\ fifo[f].size + t.left <= FifoDepth
      /\ fifo[f].size \in 0 .. FifoDepth
  BY <1>1, <1>2, FifoSizes DEF Sound, Served, Refills
<1>9. /\ fifo'[f].size = fifo[f].size + 1
      /\ \A g \in FifoIds \ {f} : fifo'[g] = fifo[g]
  <2>1. PICK s \in Samples : fifo' = [fifo EXCEPT ![f] = Pushed(@, s)]
    BY <1>7
  <2>2. fifo' = [fifo EXCEPT ![f] = Pushed(fifo[f], s)] /\ DOMAIN fifo = FifoIds
    BY <2>1 DEF Sound, Rings
  <2>3. fifo[f].size # FifoDepth
    BY <1>1, <1>6, <1>8, FifoAssumption
  <2>4. fifo[f] \in FifoRecords
    BY FifoSizes DEF Sound
  <2>5. Pushed(fifo[f], s).size = fifo[f].size + 1
    BY <2>3, <2>4 DEF Pushed, FifoRecords
  <2> QED BY <2>2, <2>5
<1>10. \A g \in FifoIds : Refills(g)' <=> g = f
  BY <1>5, <1>6, FifosApart DEF Refills
<1>11. \A g \in FifoIds : Refills(g) <=> g = f
  BY <1>1, <1>2, FifosApart DEF Refills
<1>12. \A g : Asks(g)' <=> Asks(g)
  BY <1>1 DEF Asks
<1>13. fifo'[f].size + running'[1].left = fifo[f].size + t.left
  BY <1>6, <1>8, <1>9, FifoAssumption
<1>14. \A g \in FifoIds : Asks(g)' =>
         /\ WantsRefill(fifo'[g])
         /\ running' = <<>> \/ (running'[1].refill /\ ~Refills(g)')
  <2> SUFFICES ASSUME NEW g \in FifoIds, Asks(g)
               PROVE  WantsRefill(fifo'[g]) /\ running'[1].refill /\ ~Refills(g)'
    BY <1>12
  <2>1. WantsRefill(fifo[g]) /\ ~Refills(g)
    BY <1>1 DEF Sound, Served
  <2> QED BY <1>6, <1>9, <1>10, <1>11, <2>1
<1>15. \A g \in fed : \/ fifo'[g].size >= FifoDepth \div 2
                      \/ Asks(g)'
                      \/ Refills(g)' /\ fifo'[g].size + running'[1].left >= FifoDepth \div 2
  <2> TAKE g \in fed
  <2>0. g \in FifoIds
    BY DEF Sound, Typed
  <2>1. \/ fifo[g].size >= FifoDepth \div 2
        \/ Asks(g)
        \/ Refills(g) /\ fifo[g].size + running[1].left >= FifoDepth \div 2
    BY DEF Sound, Served
  <2>2. CASE g = f
    <3>1. CASE fifo[f].size >= FifoDepth \div 2
      <4>1. fifo[f].size + 1 >= FifoDepth \div 2
        BY <1>8, <3>1, FifoSizes DEF Sound
      <4> QED BY <1>9, <2>2, <4>1
    <3>2. CASE Refills(f) /\ fifo[f].size + running[1].left >= FifoDepth \div 2
      BY <1>1, <1>10, <1>13, <2>2, <3>2
    <3> QED BY <1>12, <2>1, <2>2, <3>1, <3>2
  <2>3. CASE g # f
    BY <1>9, <1>11, <1>12, <2>0, <2>1, <2>3
  <2> QED BY <2>2, <2>3
<1>16. /\ \A i \in 1 .. Len(running') : running'[i].refill => Len(running') = 1
       /\ running' # <<>> /\ running'[1].refill =>
            running'[1].toward = "Fixed" /\ \E g \in FifoIds : Refills(g)'
       /\ \A g \in FifoIds : Refills(g)' => fifo'[g].size + running'[1].left <= FifoDepth
  BY <1>5, <1>6, <1>8, <1>10, <1>13
<1>17. (\A i, j \in 1 .. Len(todo) : todo[i] = todo[j] => i = j)' /\ fed' = fed
  BY <1>1 DEF Sound, Served
<1> QED BY <1>14, <1>15, <1>16, <1>17 DEF Served

\* Without a refill there is nothing left to ask, and a FIFO only gains samples.
LEMMA OtherUnit ==
  ASSUME Sound, Unit, ~running[1].refill
  PROVE  Served'
<1>1. PICK t, rest, reach :
        /\ t = running[1] /\ t \in Transfers /\ t.left > 0 /\ running # <<>>
        /\ rest = <<AfterUnit(t)>> \o Tail(running) /\ rest \in Seq(Transfers)
        /\ \/ /\ running' = rest
              /\ \/ UNCHANGED fifo
                 \/ \E s \in Samples : /\ TargetAt[t.destination].kind = "fifo"
                                       /\ fifo' = [fifo EXCEPT ![TargetAt[t.destination].id] = Pushed(@, s)]
           \/ /\ \E c \in Channels : \E new \in Control : WriteControl(c, new, rest, UnitCycles, reach)
              /\ UNCHANGED fifo
        /\ UNCHANGED <<todo, fed>>
  BY UnitParts, ZenonT(60) DEF Sound
<1>2. \A i \in 1 .. Len(rest) : rest[i].refill = FALSE
  <2>1. AfterUnit(t) \in Transfers /\ ~AfterUnit(t).refill
    BY <1>1, MovedType
  <2>2. /\ Len(rest) = Len(running) /\ rest[1] = AfterUnit(t)
        /\ \A i \in 2 .. Len(running) : rest[i] = running[i]
        /\ Len(running) \in Nat \ {0}
    BY <1>1, <2>1, TopReplaced, OneLess DEF Sound, Typed
  <2>3. \A i \in 2 .. Len(running) : ~running[i].refill
    BY <2>2 DEF Sound, Served
  <2>4. \A i \in 1 .. Len(rest) : rest[i] \in Transfers
    BY <1>1, ElementOfSeq
  <2>5. \A i \in 1 .. Len(rest) : rest[i].refill \in BOOLEAN
    BY <2>4 DEF Transfers
  <2>6. \A i \in 1 .. Len(rest) : ~rest[i].refill
    BY <2>1, <2>2, <2>3
  <2> QED BY <2>5, <2>6
<1>3. \A i \in 1 .. Len(running') : ~running'[i].refill
  <2>1. CASE running' = rest
    BY <1>2, <2>1
  <2>2. ASSUME NEW c \in Channels, NEW new \in Control, WriteControl(c, new, rest, UnitCycles, reach)
        PROVE  \A i \in 1 .. Len(running') : ~running'[i].refill
    <3> DEFINE u == Transfer(c, registers[c], new.toward, registers[c].count, FALSE)
    <3>1. u \in Transfers /\ ~u.refill
      <4>1. registers[c] \in Registers /\ registers[c].count \in Nat /\ new.toward \in DOMAIN Steps
        BY DEF Sound, Typed, Registers, Control
      <4> QED BY <4>1, TransferType DEF Transfer
    <3>2. running' = rest \/ running' = <<u>> \o rest
      BY <2>2 DEF WriteControl
    <3> HIDE DEF u
    <3>3. CASE running' = <<u>> \o rest
      <4>1. /\ Len(<<u>> \o rest) = Len(rest) + 1 /\ (<<u>> \o rest)[1] = u
            /\ \A i \in 2 .. Len(rest) + 1 : (<<u>> \o rest)[i] = rest[i - 1]
            /\ Len(rest) \in Nat
        BY <1>1, <3>1, OneMore
      <4>2. \A i \in 2 .. Len(rest) + 1 : i - 1 \in 1 .. Len(rest)
        BY <4>1
      <4>3. \A i \in 2 .. Len(rest) + 1 : ~(<<u>> \o rest)[i].refill
        BY <1>2, <4>1, <4>2
      <4> QED BY <3>1, <3>3, <4>1, <4>3
    <3> QED BY <1>2, <3>2, <3>3
  <2> QED BY <1>1, <2>1, <2>2
<1>4. running' # <<>> => ~running'[1].refill
  <2>1. running' \in Seq(Transfers)
    BY NextTyped DEF Sound, Typed, Next
  <2> QED BY <1>3, <2>1, OneLess
<1>5. \A f \in FifoIds : ~Refills(f)' /\ ~Refills(f)
  BY <1>4 DEF Refills
<1>6. \A f \in FifoIds : ~Asks(f) /\ ~Asks(f)'
  <2>1. \A f \in FifoIds : ~Asks(f)
    BY <1>1 DEF Sound, Served
  <2> QED BY <1>1, <2>1 DEF Asks
<1>7. \A f \in FifoIds : fifo'[f].size >= fifo[f].size /\ fifo'[f].size \in Nat
  <2> TAKE f \in FifoIds
  <2>1. fifo[f] \in FifoRecords /\ fifo[f].size \in Nat
    BY FifoSizes DEF Sound
  <2>2. CASE UNCHANGED fifo
    BY <2>1, <2>2
  <2>3. ASSUME NEW id, NEW s \in Samples, fifo' = [fifo EXCEPT ![id] = Pushed(fifo[id], s)]
        PROVE  fifo'[f].size >= fifo[f].size /\ fifo'[f].size \in Nat
    <3>1. fifo'[f] = fifo[f] \/ fifo'[f] = Pushed(fifo[f], s)
      BY <2>3 DEF Sound, Rings
    <3>2. Pushed(fifo[f], s).size = fifo[f].size \/ Pushed(fifo[f], s).size = fifo[f].size + 1
      BY <2>1 DEF Pushed, FifoRecords
    <3> QED BY <2>1, <3>1, <3>2
  <2> QED BY <1>1, <2>2, <2>3
<1>8. \A f \in fed' : fifo'[f].size >= FifoDepth \div 2
  <2> TAKE f \in fed'
  <2>1. f \in fed /\ f \in FifoIds
    BY <1>1 DEF Sound, Typed
  <2>2. fifo[f].size >= FifoDepth \div 2
    BY <1>5, <1>6, <2>1 DEF Sound, Served
  <2>3. fifo[f].size \in Nat /\ FifoDepth \div 2 \in Nat
    BY <2>1, FifoSizes DEF Sound
  <2> QED BY <1>7, <2>1, <2>2, <2>3
<1>9. (\A i, j \in 1 .. Len(todo) : todo[i] = todo[j] => i = j)'
  BY <1>1 DEF Sound, Served
<1> QED BY <1>3, <1>4, <1>5, <1>6, <1>8, <1>9 DEF Served

LEMMA FinishServed ==
  ASSUME Sound, Finish
  PROVE  Served'
<1> DEFINE t == running[1]
<1>1. running # <<>> /\ t.left = 0 /\ running' = Tail(running) /\ UNCHANGED <<todo, fifo, fed>>
  BY DEF Finish, direct
<1>2. /\ Len(running) \in Nat \ {0} /\ Tail(running) \in Seq(Transfers)
      /\ Len(Tail(running)) = Len(running) - 1
      /\ \A i \in 1 .. Len(running) - 1 : Tail(running)[i] = running[i + 1]
  BY <1>1, OneLess DEF Sound, Typed
<1>3. \A i \in 1 .. Len(running') : ~running'[i].refill
  <2> TAKE i \in 1 .. Len(running')
  <2>1. i \in 1 .. Len(running) - 1 /\ i + 1 \in 1 .. Len(running) /\ Len(running) # 1
    BY <1>1, <1>2
  <2>2. ~running[i + 1].refill
    BY <2>1 DEF Sound, Served
  <2> QED BY <1>1, <1>2, <2>1, <2>2
<1>4. running' # <<>> => ~running'[1].refill
  BY <1>1, <1>2, <1>3, OneLess
<1>5. \A f \in FifoIds : ~Refills(f)'
  BY <1>4 DEF Refills
<1>6. \A f : Asks(f)' <=> Asks(f)
  BY <1>1 DEF Asks
<1>7. \A f \in FifoIds : Asks(f) => running' = <<>>
  <2> SUFFICES ASSUME NEW f \in FifoIds, Asks(f) PROVE running' = <<>>
    OBVIOUS
  <2>1. running[1].refill
    BY <1>1 DEF Sound, Served
  <2>2. Len(running) = 1
    <3>1. 1 \in 1 .. Len(running)
      BY <1>2
    <3> QED BY <2>1, <3>1 DEF Sound, Served
  <2> QED BY <1>1, <1>2, <2>2, EmptySeq
<1>8. \A f \in FifoIds : Asks(f) => WantsRefill(fifo[f])
  BY DEF Sound, Served
<1>9. \A f \in fed : fifo[f].size >= FifoDepth \div 2 \/ Asks(f)
  <2> TAKE f \in fed
  <2>1. f \in FifoIds
    BY DEF Sound, Typed
  <2>2. fifo[f].size \in Nat
    BY <2>1, FifoSizes DEF Sound
  <2>3. fifo[f].size + running[1].left >= FifoDepth \div 2 => fifo[f].size >= FifoDepth \div 2
    BY <1>1, <2>2
  <2> QED BY <2>3 DEF Sound, Served
<1>10. (\A i, j \in 1 .. Len(todo) : todo[i] = todo[j] => i = j)'
  BY <1>1 DEF Sound, Served
<1>11. /\ \A i \in 1 .. Len(running') : running'[i].refill => Len(running') = 1
       /\ running' # <<>> /\ running'[1].refill =>
            running'[1].toward = "Fixed" /\ \E f \in FifoIds : Refills(f)'
       /\ \A f \in FifoIds : Refills(f)' => fifo'[f].size + running'[1].left <= FifoDepth
  BY <1>3, <1>4, <1>5
<1>12. \A f \in FifoIds : Asks(f)' =>
         /\ WantsRefill(fifo'[f])
         /\ running' = <<>> \/ (running'[1].refill /\ ~Refills(f)')
  BY <1>1, <1>6, <1>7, <1>8
<1>13. \A f \in fed' : fifo'[f].size >= FifoDepth \div 2 \/ Asks(f)'
  BY <1>1, <1>6, <1>9
<1> QED BY <1>10, <1>11, <1>12, <1>13 DEF Served

LEMMA LookAtServed ==
  ASSUME Sound, LookAt
  PROVE  Served'
<1> DEFINE next == Head(todo)
<1>1. running = <<>> /\ todo # <<>> /\ todo' = Tail(todo) /\ UNCHANGED fifo
  BY DEF LookAt
<1>2. /\ Len(todo) \in Nat \ {0} /\ Len(Tail(todo)) = Len(todo) - 1 /\ next = todo[1]
      /\ \A i \in 1 .. Len(todo) - 1 : Tail(todo)[i] = todo[i + 1]
      /\ next \in Wants \/ next \in Visits
  <2>1. CASE todo \in Seq(Wants)
    BY <1>1, <2>1, OneLess
  <2>2. CASE todo \in Seq(Visits)
    BY <1>1, <2>2, OneLess
  <2> QED BY <2>1, <2>2 DEF Sound, Typed
<1> HIDE DEF next
<1>3. \A i, j \in 1 .. Len(todo') : todo'[i] = todo'[j] => i = j
  <2> SUFFICES ASSUME NEW i \in 1 .. Len(todo) - 1, NEW j \in 1 .. Len(todo) - 1, todo[i + 1] = todo[j + 1]
               PROVE  i = j
    BY <1>1, <1>2
  <2>1. i + 1 \in 1 .. Len(todo) /\ j + 1 \in 1 .. Len(todo)
    BY <1>2
  <2>2. i + 1 = j + 1
    BY <2>1 DEF Sound, Served
  <2> QED BY <1>2, <2>2
\* Those that still ask are those that asked, but the one that is looked at.
<1>4. \A f \in FifoIds : Asks(f)' <=> Asks(f) /\ next # [fifo |-> f]
  <2> TAKE f \in FifoIds
  <2>1. ASSUME Asks(f)' PROVE Asks(f) /\ next # [fifo |-> f]
    <3>1. PICK i \in 1 .. Len(todo) - 1 : todo[i + 1] = [fifo |-> f]
      BY <1>1, <1>2, <2>1 DEF Asks
    <3>2. i + 1 \in 1 .. Len(todo) /\ 1 \in 1 .. Len(todo) /\ i + 1 # 1
      BY <1>2
    <3>3. todo[1] # todo[i + 1]
      BY <3>2 DEF Sound, Served
    <3> QED BY <1>2, <3>1, <3>2, <3>3 DEF Asks
  <2>2. ASSUME Asks(f), next # [fifo |-> f] PROVE Asks(f)'
    <3>1. PICK i \in 1 .. Len(todo) : todo[i] = [fifo |-> f]
      BY <2>2 DEF Asks
    <3>2. i # 1
      BY <1>2, <2>2, <3>1
    <3>3. i - 1 \in 1 .. Len(todo) - 1 /\ (i - 1) + 1 = i
      BY <1>2, <3>2
    <3>4. Tail(todo)[i - 1] = [fifo |-> f] /\ i - 1 \in 1 .. Len(Tail(todo))
      BY <1>2, <3>1, <3>3
    <3> QED BY <1>1, <3>4 DEF Asks
  <2> QED BY <2>1, <2>2
<1>5. \A f \in FifoIds : ~Refills(f)
  BY <1>1 DEF Refills
<1>6. \A f \in fed : fifo[f].size >= FifoDepth \div 2 \/ Asks(f)
  BY <1>5 DEF Sound, Served, Typed
<1>7. \A f \in FifoIds : Asks(f) => WantsRefill(fifo[f])
  BY DEF Sound, Served
<1>8. CASE next \in Wants /\ Refillers(next.fifo) # {}
  <2> DEFINE g == next.fifo
  <2>1. g \in FifoIds /\ next = [fifo |-> g] /\ "fifo" \in DOMAIN next
    BY <1>8 DEF Wants
  <2>2. Run(Min(Refillers(g))) /\ fed' = fed \cup {g}
    BY <1>8, <2>1 DEF LookAt, next
  <2>3. /\ Min(Refillers(g)) \in Channels /\ SoundFifo(Min(Refillers(g)))
        /\ internal[Min(Refillers(g))].destination = FifoAddress[g]
    BY <1>8, <2>1, RefillerFound DEF Sound
  <2>4. PICK t \in Transfers :
          /\ running' = <<t>> /\ t.refill /\ t.toward = "Fixed" /\ t.left = RefillUnits
          /\ t.destination = FifoAddress[g]
    BY <2>2, <2>3, RunTyped DEF Sound
  <2>5. running' # <<>> /\ Len(running') = 1 /\ running'[1] = t
    BY <2>4
  <2> HIDE DEF g
  <2>6. \A f \in FifoIds : Refills(f)' <=> f = g
    BY <2>1, <2>4, <2>5, FifosApart DEF Refills
  <2>7. Asks(g)
    <3>1. 1 \in 1 .. Len(todo) /\ todo[1] = [fifo |-> g]
      BY <1>2, <2>1
    <3> QED BY <3>1 DEF Asks
  <2>8. fifo[g].size + RefillUnits <= FifoDepth /\ fifo[g].size + RefillUnits >= FifoDepth \div 2
    <3>1. fifo[g].size \in Nat /\ FifoDepth \in Nat /\ FifoDepth \div 2 \in Nat
      BY <2>1, FifoSizes DEF Sound
    <3>2. fifo[g].size <= FifoDepth \div 2
      BY <1>7, <2>1, <2>7 DEF WantsRefill
    <3>3. RefillUnits \in Nat /\ FifoDepth \div 2 <= RefillUnits
          /\ RefillUnits <= FifoDepth - FifoDepth \div 2
      BY DmaAssumption
    <3> DEFINE half == FifoDepth \div 2
    <3> HIDE DEF half
    <3>4. half \in Nat /\ fifo[g].size <= half /\ half <= RefillUnits /\ RefillUnits <= FifoDepth - half
      BY <3>1, <3>2, <3>3 DEF half
    <3>5. fifo[g].size + RefillUnits <= FifoDepth /\ fifo[g].size + RefillUnits >= half
      BY <3>1, <3>3, <3>4
    <3> QED BY <3>5 DEF half
  <2>9. \A f \in FifoIds : Asks(f)' => f # g /\ WantsRefill(fifo[f])
    BY <1>4, <1>7, <2>1
  <2>10. \A f \in fed' : \/ fifo'[f].size >= FifoDepth \div 2
                         \/ Asks(f)'
                         \/ Refills(f)' /\ fifo'[f].size + running'[1].left >= FifoDepth \div 2
    <3> TAKE f \in fed'
    <3>1. CASE f = g
      BY <1>1, <2>1, <2>4, <2>5, <2>6, <2>8, <3>1
    <3>2. CASE f # g
      <4>1. f \in fed /\ f \in FifoIds
        BY <2>2, <3>2 DEF Sound, Typed, g
      <4>2. next # [fifo |-> f]
        <5>1. next.fifo = g /\ [fifo |-> f].fifo = f
          BY DEF g
        <5> QED BY <3>2, <5>1
      <4>3. fifo[f].size >= FifoDepth \div 2 \/ Asks(f)
        BY <1>6, <4>1
      <4>4. Asks(f) => Asks(f)'
        BY <1>4, <4>1, <4>2
      <4>5. fifo'[f] = fifo[f]
        BY <1>1
      <4> QED BY <4>3, <4>4, <4>5
    <3> QED BY <3>1, <3>2
  <2> QED BY <1>1, <1>3, <2>1, <2>4, <2>5, <2>6, <2>8, <2>9, <2>10 DEF Served
<1>9. CASE next \in Wants /\ Refillers(next.fifo) = {}
  <2>1. next.fifo \in FifoIds /\ next = [fifo |-> next.fifo] /\ "fifo" \in DOMAIN next
    BY <1>9 DEF Wants
  <2>2. UNCHANGED running /\ fed' = fed \ {next.fifo}
    BY <1>9, <2>1 DEF LookAt, next
  <2>3. \A f \in FifoIds : ~Refills(f)'
    BY <1>1, <2>2 DEF Refills
  <2>4. running' = <<>> /\ Len(running') = 0
    BY <1>1, <2>2
  <2>5. \A f \in fed' : fifo'[f].size >= FifoDepth \div 2 \/ Asks(f)'
    <3> TAKE f \in fed'
    <3>1. f \in fed /\ f \in FifoIds /\ f # next.fifo
      BY <2>2 DEF Sound, Typed
    <3>2. next # [fifo |-> f]
      BY <3>1
    <3> QED BY <1>1, <1>4, <1>6, <3>1, <3>2
  <2> QED BY <1>1, <1>3, <1>4, <1>7, <2>3, <2>4, <2>5 DEF Served
<1>10. CASE next \in Visits
  <2>1. next.channel \in Channels /\ next.timing \in {"VBlank", "HBlank"}
        /\ "fifo" \notin DOMAIN next
    BY <1>10 DEF Visits
  <2>2. UNCHANGED fed
    BY <2>1 DEF LookAt, next
  <2>3. \A f \in FifoIds : ~Asks(f)
    <3>1. todo \in Seq(Visits)
      <4>1. todo \in Seq(Wants) => next \in Wants
        BY <1>1, <1>2, OneLess
      <4>2. next \notin Wants
        BY <2>1 DEF Wants
      <4> QED BY <4>1, <4>2 DEF Sound, Typed
    <3>2. \A i \in 1 .. Len(todo) : "fifo" \notin DOMAIN todo[i]
      <4> TAKE i \in 1 .. Len(todo)
      <4>1. todo[i] \in Visits
        BY <3>1, ElementOfSeq
      <4> QED BY <4>1 DEF Visits
    <3>3. \A f : "fifo" \in DOMAIN [fifo |-> f]
      OBVIOUS
    <3> QED BY <3>2, <3>3 DEF Asks
  <2>4. \A f \in FifoIds : ~Asks(f)'
    BY <1>4, <2>3
  <2>5. \A i \in 1 .. Len(running') : ~running'[i].refill
    <3>1. CASE Run(next.channel) /\ control[next.channel].timing = next.timing
      <4>1. ~SoundFifo(next.channel)
        BY <2>1, <3>1 DEF SoundFifo
      <4>2. PICK t \in Transfers : running' = <<t>> /\ t.refill = SoundFifo(next.channel)
        BY <2>1, <3>1, RunTyped DEF Sound
      <4> QED BY <4>1, <4>2
    <3>2. CASE UNCHANGED running
      BY <1>1, <3>2
    <3> QED BY <2>1, <3>1, <3>2 DEF LookAt, next
  <2>6. running' # <<>> => ~running'[1].refill
    <3>1. running' \in Seq(Transfers)
      BY NextTyped DEF Sound, Typed, Next
    <3> QED BY <2>5, <3>1, OneLess
  <2>7. \A f \in FifoIds : ~Refills(f)'
    BY <2>6 DEF Refills
  <2>8. \A f \in fed' : fifo'[f].size >= FifoDepth \div 2
    BY <1>1, <1>6, <2>2, <2>3 DEF Sound, Typed
  <2> QED BY <1>3, <2>4, <2>5, <2>6, <2>7, <2>8 DEF Served
<1> QED BY <1>2, <1>8, <1>9, <1>10

\* Outside the transfers nothing asks, and every FIFO that was fed is half full.
LEMMA AtRest ==
  ASSUME Sound, Idle
  PROVE  /\ \A f \in FifoIds : ~Refills(f)
         /\ \A f \in fed : f \in FifoIds /\ fifo[f].size >= FifoDepth \div 2
<1>1. running = <<>> /\ \A f : ~Asks(f)
  BY DEF Idle, Asks
<1>2. \A f \in FifoIds : ~Refills(f)
  BY <1>1 DEF Refills
<1>3. \A f \in fed : f \in FifoIds
  BY DEF Sound, Typed
<1> QED BY <1>1, <1>2, <1>3 DEF Sound, Served

LEMMA OverflowServed ==
  ASSUME Sound, Overflow
  PROVE  Served'
<1>1. Idle /\ running = <<>> /\ UNCHANGED <<running, fed>>
  BY DEF Overflow, Outside, Idle
<1>2. PICK clocked \in SUBSET FifoIds :
        /\ fifo' = [f \in FifoIds |-> IF f \in clocked THEN Popped(fifo[f]) ELSE fifo[f]]
        /\ \A i, j \in 1 .. Len(todo') : todo'[i] = todo'[j] => i = j
        /\ \A f \in FifoIds : Asks(f)' <=> f \in clocked /\ WantsRefill(fifo'[f])
  BY OverflowParts DEF Asks
<1>3. Len(running') = 0 /\ running' = <<>> /\ \A f \in FifoIds : ~Refills(f)'
  BY <1>1 DEF Refills
<1>4. \A f \in fed' : fifo'[f].size >= FifoDepth \div 2 \/ Asks(f)'
  <2> TAKE f \in fed'
  <2>1. f \in FifoIds /\ fifo[f].size >= FifoDepth \div 2
    BY <1>1, AtRest
  <2>2. CASE f \in clocked
    <3>1. fifo'[f] = Popped(fifo[f]) /\ fifo[f] \in FifoRecords
      BY <1>2, <2>1, <2>2, FifoSizes DEF Sound
    <3>2. fifo'[f].size \in Nat
      BY <3>1, PoppedWaits, FifoAssumption DEF FifoRecords
    <3>3. fifo'[f].size >= FifoDepth \div 2 \/ WantsRefill(fifo'[f])
      <4>1. FifoDepth \div 2 \in Nat
        BY FifoAssumption
      <4> QED BY <3>2, <4>1 DEF WantsRefill
    <3> QED BY <1>2, <2>1, <2>2, <3>3
  <2>3. CASE f \notin clocked
    BY <1>2, <2>1, <2>3
  <2> QED BY <2>2, <2>3
<1>5. /\ \A i \in 1 .. Len(running') : running'[i].refill => Len(running') = 1
      /\ running' # <<>> /\ running'[1].refill =>
           running'[1].toward = "Fixed" /\ \E f \in FifoIds : Refills(f)'
  BY <1>3
<1>6. \A f \in FifoIds : Asks(f)' => WantsRefill(fifo'[f])
  BY <1>2
<1> QED BY <1>2, <1>3, <1>4, <1>5, <1>6 DEF Served

LEMMA NextServed ==
  ASSUME Sound, [Next]_vars
  PROVE  Served'
\* What leaves the requests and the FIFOs alone, but for clearing one.
<1>1. ASSUME Idle, running' = <<>>, \A i, j \in 1 .. Len(todo') : todo'[i] = todo'[j] => i = j,
             \A f : ~Asks(f)', \A f \in fed' : f \in fed /\ fifo'[f] = fifo[f]
      PROVE  Served'
  <2>1. Len(running') = 0 /\ \A f \in FifoIds : ~Refills(f)'
    BY <1>1 DEF Refills
  <2>2. \A f \in fed' : fifo'[f].size >= FifoDepth \div 2
    BY <1>1, AtRest
  <2> QED BY <1>1, <2>1, <2>2 DEF Served
<1>2. CASE Unit
  BY <1>2, RefillUnit, OtherUnit
<1>3. CASE TakeStall \/ WriteRegisters \/ SwitchSound
  <2>1. Idle /\ UNCHANGED <<running, todo, fifo, fed>>
    BY <1>3 DEF TakeStall, WriteRegisters, SwitchSound, Outside, direct
  <2>2. running' = <<>> /\ todo' = <<>>
    BY <2>1 DEF Idle
  <2> QED BY <1>1, <2>1, <2>2 DEF Asks
<1>4. CASE WriteEnable
  <2>1. Idle /\ UNCHANGED <<todo, fifo, fed>>
    BY <1>4 DEF WriteEnable, Outside, direct
  <2>2. todo' = <<>> /\ \A f : ~Asks(f)'
    BY <2>1 DEF Asks, Idle
  <2>3. PICK w \in Controls : WriteControl(w[1], w[2], <<>>, 0, reached)
    BY <1>4 DEF WriteEnable
  <2> DEFINE t == Transfer(w[1], registers[w[1]], w[2].toward, registers[w[1]].count, FALSE)
  <2>4. ~t.refill
    BY DEF Transfer
  <2>5. t \in Transfers
    <3>1. w[1] \in Channels /\ w[2] \in Control
      BY DmaAssumption
    <3>2. registers[w[1]] \in Registers /\ registers[w[1]].count \in Nat /\ w[2].toward \in DOMAIN Steps
      BY <3>1 DEF Sound, Typed, Registers, Control
    <3> QED BY <3>1, <3>2, TransferType
  <2>6. running' = <<t>> \o <<>> \/ running' = <<>>
    BY <2>3 DEF WriteControl
  <2> HIDE DEF t
  <2>7. running' = <<t>> \/ running' = <<>>
    BY <2>5, <2>6, ConcatEmptySeq
  <2>8. /\ \A i \in 1 .. Len(running') : ~running'[i].refill
        /\ running' # <<>> => ~running'[1].refill
    BY <2>4, <2>7
  <2>9. \A f \in fed' : fifo'[f].size >= FifoDepth \div 2
    BY <2>1, AtRest
  <2> QED BY <2>2, <2>8, <2>9 DEF Served, Refills
<1>5. CASE Trigger
  <2>1. Idle /\ UNCHANGED <<running, fifo, fed>>
    BY <1>5 DEF Trigger, Outside, direct
  <2>2. todo' \in Seq(Visits) /\ \A i, j \in 1 .. Len(todo') : todo'[i] = todo'[j] => i = j
    BY <1>5, TriggerParts
  <2>3. \A f : ~Asks(f)'
    <3>1. \A i \in 1 .. Len(todo') : "fifo" \notin DOMAIN todo'[i]
      <4> TAKE i \in 1 .. Len(todo')
      <4>1. todo'[i] \in Visits
        BY <2>2, ElementOfSeq
      <4> QED BY <4>1 DEF Visits
    <3>2. \A f : "fifo" \in DOMAIN [fifo |-> f]
      OBVIOUS
    <3> QED BY <3>1, <3>2 DEF Asks
  <2>4. running' = <<>>
    BY <2>1 DEF Idle
  <2> QED BY <1>1, <2>1, <2>2, <2>3, <2>4
<1>6. CASE ClearFifo
  <2>1. Idle /\ UNCHANGED <<running, todo>>
    BY <1>6 DEF ClearFifo, Outside
  <2>2. PICK f \in FifoIds : fifo' = [fifo EXCEPT ![f] = Cleared(@)] /\ fed' = fed \ {f}
    BY <1>6 DEF ClearFifo
  <2>3. \A g \in fed' : g \in fed /\ fifo'[g] = fifo[g]
    BY <2>2 DEF Sound, Typed, Rings
  <2>4. running' = <<>> /\ todo' = <<>>
    BY <2>1 DEF Idle
  <2> QED BY <1>1, <2>1, <2>3, <2>4 DEF Asks
<1>7. CASE UNCHANGED vars
  <2>1. UNCHANGED <<running, todo, fifo, fed>>
    BY <1>7 DEF vars, direct
  <2>2. \A f : (Asks(f)' <=> Asks(f)) /\ (Refills(f)' <=> Refills(f))
    BY <2>1 DEF Asks, Refills
  <2> QED BY <2>1, <2>2 DEF Sound, Served
<1> QED BY <1>2, <1>3, <1>4, <1>5, <1>6, <1>7, FinishServed, LookAtServed, OverflowServed DEF Next

\* Sound by DMA: the samples come in order, a refill always finds room for all it brings,
\* and once the requests of an overflow are served every FIFO a channel feeds is half full
\* again, with any program in the channels (apu.cpp:163, apu.cpp:539, gba_bus.cpp:444).
THEOREM SoundByDma == Spec => []SoundBuffersFeed
<1>1. Init => Sound
  BY InitRings, InitTyped, InitServed DEF Sound
<1>2. Sound /\ [Next]_vars => Sound'
  BY NextRings, NextTyped, NextServed DEF Sound
<1>3. Sound => SoundBuffersFeed
  <2> SUFFICES ASSUME Sound PROVE SoundBuffersFeed
    OBVIOUS
  <2>1. RingIsQueue
    BY DEF Sound, Rings
  <2>2. StaysFed
    BY AtRest DEF StaysFed
  <2>3. RefillFits
    <3> SUFFICES ASSUME running # <<>>, running[1].refill, running[1].left > 0
                 PROVE  fifo[TargetAt[running[1].destination].id].size < FifoDepth
      BY DEF RefillFits
    <3>1. PICK f \in FifoIds : Refills(f)
      BY DEF Sound, Served
    <3>2. fifo[f].size + running[1].left <= FifoDepth
      BY <3>1 DEF Sound, Served
    <3>3. running[1].left \in Nat
      <4>1. running \in Seq(Transfers)
        BY DEF Sound, Typed
      <4>2. running[1] \in Transfers
        BY <4>1, OneLess
      <4> QED BY <4>2 DEF Transfers
    <3>4. fifo[f].size \in Nat /\ FifoDepth \in Nat
      BY FifoSizes DEF Sound
    <3>5. TargetAt[running[1].destination] = [kind |-> "fifo", id |-> f]
      BY <3>1, DmaAssumption DEF Refills
    <3> QED BY <3>2, <3>3, <3>4, <3>5
  <2> QED BY <2>1, <2>2, <2>3 DEF SoundBuffersFeed
<1> QED BY <1>1, <1>2, <1>3, PTL DEF Spec

-----------------------------------------------------------------------------
(***************************************************************************)
(* What the transfers on a stack have moved and cost.                      *)
(***************************************************************************)
In(stack, c) == \E i \in 1 .. Len(stack) : stack[i].channel = c

Total(cost) == cost[0] + cost[1] + cost[2] + cost[3]

\* What is due is the cost of the unfinished transfers, channel by channel.
Accounts(stack, due, cost) ==
  /\ due = Total(cost)
  /\ \A i \in 1 .. Len(stack) : cost[stack[i].channel] = stack[i].cycles
  /\ \A c \in 0 .. 3 : ~In(stack, c) => cost[c] = 0

\* No channel has two unfinished transfers; each goes on from the source its channel has
\* reached, and an idle channel will start there.
Whole(stack, at, reach, due) ==
  /\ \A i, j \in 1 .. Len(stack) : stack[i].channel = stack[j].channel => i = j
  /\ \A i \in 1 .. Len(stack) : stack[i].source = reach[stack[i].channel]
  /\ \A c \in Channels : ~In(stack, c) => at[c].source = reach[c]
  /\ \E cost \in [0 .. 3 -> Nat] : Accounts(stack, due, cost)

LEMMA TotalChanges ==
  ASSUME NEW cost \in [0 .. 3 -> Nat], NEW c \in 0 .. 3, NEW v \in Nat
  PROVE  /\ [cost EXCEPT ![c] = v] \in [0 .. 3 -> Nat]
         /\ Total([cost EXCEPT ![c] = v]) = Total(cost) + v - cost[c]
<1>1. cost[0] \in Nat /\ cost[1] \in Nat /\ cost[2] \in Nat /\ cost[3] \in Nat
  OBVIOUS
<1>2. c = 0 \/ c = 1 \/ c = 2 \/ c = 3
  OBVIOUS
<1> QED BY <1>1, <1>2 DEF Total

LEMMA StackChannels ==
  ASSUME NEW stack \in Seq(Transfers), NEW i \in 1 .. Len(stack)
  PROVE  /\ stack[i] \in Transfers /\ stack[i].channel \in Channels
         /\ stack[i].channel \in 0 .. 3 /\ stack[i].cycles \in Nat
<1>1. stack[i] \in Transfers
  BY ElementOfSeq
<1> QED BY <1>1, DmaAssumption DEF Transfers

\* A unit of the transfer on top.
LEMMA WholeMoved ==
  ASSUME NEW stack \in Seq(Transfers), stack # <<>>, stack[1].left > 0,
         NEW at, NEW reach \in [Channels -> Address], NEW due \in Int,
         Whole(stack, at, reach, due)
  PROVE  Whole(<<AfterUnit(stack[1])>> \o Tail(stack), at,
               [reach EXCEPT ![stack[1].channel] = (stack[1].source + 1) % Space],
               due + UnitCycles)
<1> DEFINE t    == stack[1]
           rest == <<AfterUnit(t)>> \o Tail(stack)
           next == [reach EXCEPT ![t.channel] = (t.source + 1) % Space]
<1>0. Len(stack) \in Nat \ {0} /\ t \in Transfers
  BY OneLess
<1>1. /\ AfterUnit(t) \in Transfers /\ AfterUnit(t).channel = t.channel
      /\ AfterUnit(t).source = (t.source + 1) % Space
      /\ AfterUnit(t).cycles = t.cycles + UnitCycles
  BY <1>0, MovedType
<1>2. /\ Len(rest) = Len(stack) /\ rest[1] = AfterUnit(t)
      /\ \A i \in 2 .. Len(stack) : rest[i] = stack[i]
  BY <1>1, TopReplaced
<1>3. t.channel \in Channels /\ t.channel \in 0 .. 3 /\ t.cycles \in Nat /\ UnitCycles \in Nat
  BY <1>0, StackChannels, DmaAssumption
<1> HIDE DEF rest
<1>4. \A i \in 1 .. Len(stack) : i = 1 \/ i \in 2 .. Len(stack)
  BY <1>0
<1>5. \A i \in 1 .. Len(stack) : rest[i].channel = stack[i].channel
  BY <1>1, <1>2, <1>4
<1>6. \A i, j \in 1 .. Len(rest) : rest[i].channel = rest[j].channel => i = j
  BY <1>2, <1>5 DEF Whole
<1>7. \A c : In(rest, c) <=> In(stack, c)
  BY <1>2, <1>5 DEF In
<1>8. \A i \in 2 .. Len(stack) : stack[i].channel # t.channel
  <2> TAKE i \in 2 .. Len(stack)
  <2>1. i \in 1 .. Len(stack) /\ 1 \in 1 .. Len(stack) /\ i # 1
    BY <1>0
  <2> QED BY <2>1 DEF Whole
<1>9. \A i \in 1 .. Len(rest) : rest[i].source = next[rest[i].channel]
  <2> SUFFICES ASSUME NEW i \in 1 .. Len(stack) PROVE rest[i].source = next[rest[i].channel]
    BY <1>2
  <2>1. CASE i = 1
    BY <1>1, <1>2, <1>3, <2>1
  <2>2. CASE i \in 2 .. Len(stack)
    <3>1. rest[i] = stack[i] /\ stack[i].channel # t.channel /\ stack[i].channel \in Channels
      BY <1>2, <1>8, <2>2, StackChannels
    <3>2. stack[i].source = reach[stack[i].channel]
      BY DEF Whole
    <3> QED BY <3>1, <3>2
  <2> QED BY <1>4, <2>1, <2>2
<1>10. \A c \in Channels : ~In(rest, c) => at[c].source = next[c]
  <2> TAKE c \in Channels
  <2>1. ~In(stack, c) => c # t.channel
    BY <1>0 DEF In
  <2> QED BY <1>7, <2>1 DEF Whole
<1>11. \E cost \in [0 .. 3 -> Nat] : Accounts(rest, due + UnitCycles, cost)
  <2>1. PICK cost \in [0 .. 3 -> Nat] : Accounts(stack, due, cost)
    BY DEF Whole
  <2>2. cost[t.channel] = t.cycles
    BY <1>0, <2>1 DEF Accounts
  <2> DEFINE d   == t.channel
             v   == t.cycles + UnitCycles
             new == [cost EXCEPT ![d] = v]
  <2>3. new \in [0 .. 3 -> Nat] /\ Total(new) = Total(cost) + v - cost[d]
    <3>1. v \in Nat /\ d \in 0 .. 3
      BY <1>3
    <3> HIDE DEF v, d
    <3> QED BY <3>1, TotalChanges
  <2>4. due + UnitCycles = Total(new)
    <3>1. due = Total(cost)
      BY <2>1 DEF Accounts
    <3> HIDE DEF new
    <3> QED BY <1>3, <2>2, <2>3, <3>1, SMTT(30)
  <2>5. \A i \in 1 .. Len(rest) : new[rest[i].channel] = rest[i].cycles
    <3> SUFFICES ASSUME NEW i \in 1 .. Len(stack) PROVE new[rest[i].channel] = rest[i].cycles
      BY <1>2
    <3>1. CASE i = 1
      BY <1>1, <1>2, <1>3, <3>1
    <3>2. CASE i \in 2 .. Len(stack)
      <4>1. rest[i] = stack[i] /\ stack[i].channel # t.channel /\ stack[i].channel \in 0 .. 3
        BY <1>2, <1>8, <3>2, StackChannels
      <4> QED BY <2>1, <4>1 DEF Accounts
    <3> QED BY <1>4, <3>1, <3>2
  <2>6. \A c \in 0 .. 3 : ~In(rest, c) => new[c] = 0
    <3> TAKE c \in 0 .. 3
    <3>1. ~In(stack, c) => c # t.channel
      BY <1>0 DEF In
    <3> QED BY <1>7, <2>1, <3>1 DEF Accounts
  <2> QED BY <2>3, <2>4, <2>5, <2>6 DEF Accounts
<1> QED BY <1>6, <1>9, <1>10, <1>11 DEF Whole, rest

\* A channel that has no unfinished transfer latches its registers.
LEMMA WholeLatched ==
  ASSUME NEW stack \in Seq(Transfers), NEW at \in [Channels -> Registers],
         NEW reach \in [Channels -> Address], NEW due,
         Whole(stack, at, reach, due),
         NEW c \in Channels, NEW from \in Registers, ~In(stack, c)
  PROVE  Whole(stack, [at EXCEPT ![c] = from], [reach EXCEPT ![c] = from.source], due)
<1> DEFINE at2    == [at EXCEPT ![c] = from]
           reach2 == [reach EXCEPT ![c] = from.source]
<1>1. \A i \in 1 .. Len(stack) : stack[i].channel # c /\ stack[i].channel \in Channels
  BY StackChannels DEF In
<1>2. \A i \in 1 .. Len(stack) : stack[i].source = reach2[stack[i].channel]
  BY <1>1 DEF Whole
<1>3. \A d \in Channels : ~In(stack, d) => at2[d].source = reach2[d]
  BY DEF Whole
<1> HIDE DEF at2, reach2
<1> QED BY <1>2, <1>3 DEF Whole, at2, reach2

\* It starts a transfer from where it is.
LEMMA WholeStarted ==
  ASSUME NEW stack \in Seq(Transfers), NEW at \in [Channels -> Registers],
         NEW reach \in [Channels -> Address], NEW due \in Int,
         Whole(stack, at, reach, due),
         NEW t \in Transfers, ~In(stack, t.channel), t.source = reach[t.channel],
         t.cycles = StartCycles
  PROVE  Whole(<<t>> \o stack, at, reach, due + StartCycles)
<1> DEFINE new == <<t>> \o stack
<1>0. /\ Len(stack) \in Nat /\ t.channel \in Channels /\ t.channel \in 0 .. 3 /\ StartCycles \in Nat
  <2>1. t.channel \in Channels
    BY DEF Transfers
  <2>2. Len(stack) \in Nat
    OBVIOUS
  <2>3. t.channel \in 0 .. 3 /\ StartCycles \in Nat
    BY <2>1, DmaAssumption
  <2> QED BY <2>1, <2>2, <2>3
<1>1. /\ Len(new) = Len(stack) + 1 /\ new[1] = t
      /\ \A i \in 1 .. Len(stack) : new[i + 1] = stack[i]
      /\ \A i \in 2 .. Len(stack) + 1 : new[i] = stack[i - 1]
  BY OneMore
<1> HIDE DEF new
<1>2. \A i \in 1 .. Len(new) : i = 1 \/ (i \in 2 .. Len(stack) + 1 /\ i - 1 \in 1 .. Len(stack))
  BY <1>0, <1>1
<1>3. \A i \in 2 .. Len(stack) + 1 : new[i] = stack[i - 1] /\ i - 1 \in 1 .. Len(stack)
                                     /\ stack[i - 1].channel # t.channel
  BY <1>0, <1>1 DEF In
<1>4. \A i, j \in 1 .. Len(new) : new[i].channel = new[j].channel => i = j
  <2> TAKE i, j \in 1 .. Len(new)
  <2> HAVE new[i].channel = new[j].channel
  <2>1. CASE i = 1 \/ j = 1
    BY <1>1, <1>2, <1>3, <2>1
  <2>2. CASE i # 1 /\ j # 1
    <3>1. /\ i - 1 \in 1 .. Len(stack) /\ new[i] = stack[i - 1]
          /\ j - 1 \in 1 .. Len(stack) /\ new[j] = stack[j - 1]
      BY <1>2, <1>3, <2>2
    <3>2. i - 1 = j - 1
      BY <3>1 DEF Whole
    <3> QED BY <1>0, <1>1, <3>2
  <2> QED BY <2>1, <2>2
<1>5. \A i \in 1 .. Len(new) : new[i].source = reach[new[i].channel]
  BY <1>1, <1>2, <1>3, SMTT(30) DEF Whole
<1>6. \A c : In(new, c) <=> c = t.channel \/ In(stack, c)
  <2> TAKE c
  <2>1. ASSUME In(stack, c) PROVE In(new, c)
    <3>1. PICK i \in 1 .. Len(stack) : stack[i].channel = c
      BY <2>1 DEF In
    <3>2. i + 1 \in 1 .. Len(new) /\ new[i + 1] = stack[i]
      BY <1>0, <1>1
    <3> QED BY <3>1, <3>2 DEF In
  <2>2. In(new, t.channel)
    <3>1. 1 \in 1 .. Len(new)
      BY <1>0, <1>1
    <3> QED BY <1>1, <3>1 DEF In
  <2>3. ASSUME In(new, c), c # t.channel PROVE In(stack, c)
    <3>1. PICK i \in 1 .. Len(new) : new[i].channel = c
      BY <2>3 DEF In
    <3>2. i # 1
      BY <1>1, <2>3, <3>1
    <3> QED BY <1>2, <1>3, <3>1, <3>2 DEF In
  <2> QED BY <2>1, <2>2, <2>3
<1>7. \A c \in Channels : ~In(new, c) => at[c].source = reach[c]
  BY <1>6 DEF Whole
<1>8. \E cost \in [0 .. 3 -> Nat] : Accounts(new, due + StartCycles, cost)
  <2>1. PICK cost \in [0 .. 3 -> Nat] : Accounts(stack, due, cost)
    BY DEF Whole
  <2>2. cost[t.channel] = 0
    BY <1>0, <2>1 DEF Accounts
  <2> DEFINE more == [cost EXCEPT ![t.channel] = StartCycles]
  <2>3. more \in [0 .. 3 -> Nat] /\ Total(more) = Total(cost) + StartCycles - cost[t.channel]
    BY <1>0, TotalChanges
  <2>4. due + StartCycles = Total(more)
    <3>1. due = Total(cost)
      BY <2>1 DEF Accounts
    <3> HIDE DEF more
    <3> QED BY <1>0, <2>2, <2>3, <3>1
  <2>5. \A i \in 1 .. Len(new) : more[new[i].channel] = new[i].cycles
    <3> TAKE i \in 1 .. Len(new)
    <3>1. CASE i = 1
      BY <1>0, <1>1, <3>1
    <3>2. CASE i # 1
      <4>1. new[i] = stack[i - 1] /\ i - 1 \in 1 .. Len(stack) /\ stack[i - 1].channel # t.channel
        BY <1>2, <1>3, <3>2
      <4>2. stack[i - 1].channel \in 0 .. 3
        BY <4>1, StackChannels
      <4>3. cost[stack[i - 1].channel] = stack[i - 1].cycles
        BY <2>1, <4>1 DEF Accounts
      <4> QED BY <4>1, <4>2, <4>3
    <3> QED BY <3>1, <3>2
  <2>6. \A c \in 0 .. 3 : ~In(new, c) => more[c] = 0
    BY <1>6, <2>1 DEF Accounts
  <2> QED BY <2>3, <2>4, <2>5, <2>6 DEF Accounts
<1> QED BY <1>4, <1>5, <1>7, <1>8 DEF Whole, new

\* The transfer on top ends: its channel will go on where it stopped.
LEMMA WholeEnded ==
  ASSUME NEW stack \in Seq(Transfers), stack # <<>>, NEW at \in [Channels -> Registers],
         NEW reach \in [Channels -> Address], NEW due \in Int,
         Whole(stack, at, reach, due),
         NEW last \in Registers, last.source = stack[1].source
  PROVE  Whole(Tail(stack), [at EXCEPT ![stack[1].channel] = last], reach, due - stack[1].cycles)
<1> DEFINE t   == stack[1]
           new == Tail(stack)
           at2 == [at EXCEPT ![t.channel] = last]
<1>0. Len(stack) \in Nat \ {0} /\ t \in Transfers /\ 1 \in 1 .. Len(stack)
  BY OneLess
<1>1. /\ Len(new) = Len(stack) - 1
      /\ \A i \in 1 .. Len(stack) - 1 : new[i] = stack[i + 1]
  BY OneLess
<1>2. t.channel \in Channels /\ t.channel \in 0 .. 3 /\ t.cycles \in Nat
  BY <1>0, StackChannels
<1> HIDE DEF new
<1>3. \A i \in 1 .. Len(new) : new[i] = stack[i + 1] /\ i + 1 \in 1 .. Len(stack)
                               /\ stack[i + 1].channel # t.channel
  <2> TAKE i \in 1 .. Len(new)
  <2>1. i + 1 \in 1 .. Len(stack) /\ i + 1 # 1 /\ i \in 1 .. Len(stack) - 1
    BY <1>0, <1>1
  <2> QED BY <1>0, <1>1, <2>1 DEF Whole
<1>4. \A i, j \in 1 .. Len(new) : new[i].channel = new[j].channel => i = j
  <2> TAKE i, j \in 1 .. Len(new)
  <2> HAVE new[i].channel = new[j].channel
  <2>1. /\ i + 1 \in 1 .. Len(stack) /\ j + 1 \in 1 .. Len(stack)
        /\ stack[i + 1].channel = stack[j + 1].channel
    BY <1>3
  <2>2. \A k, l \in 1 .. Len(stack) : stack[k].channel = stack[l].channel => k = l
    BY DEF Whole
  <2>3. i + 1 = j + 1
    BY ONLY <2>1, <2>2
  <2> QED BY <1>0, <1>1, <2>3
<1>5. \A i \in 1 .. Len(new) : new[i].source = reach[new[i].channel]
  BY <1>3 DEF Whole
<1>6. \A c : c # t.channel => (In(new, c) <=> In(stack, c))
  <2> SUFFICES ASSUME NEW c, c # t.channel PROVE In(new, c) <=> In(stack, c)
    OBVIOUS
  <2>1. ASSUME In(stack, c) PROVE In(new, c)
    <3>1. PICK i \in 1 .. Len(stack) : stack[i].channel = c
      BY <2>1 DEF In
    <3>2. i # 1
      BY <3>1
    <3>3. i - 1 \in 1 .. Len(new) /\ i - 1 \in 1 .. Len(stack) - 1 /\ (i - 1) + 1 = i
      BY <1>0, <1>1, <3>2
    <3>4. new[i - 1] = stack[i]
      BY <1>1, <3>3
    <3> QED BY <3>1, <3>3, <3>4 DEF In
  <2>2. ASSUME In(new, c) PROVE In(stack, c)
    BY <1>3, <2>2 DEF In
  <2> QED BY <2>1, <2>2
<1>7. \A c \in Channels : ~In(new, c) => at2[c].source = reach[c]
  <2> TAKE c \in Channels
  <2>1. CASE c = t.channel
    <3>1. t.source = reach[t.channel]
      BY <1>0 DEF Whole
    <3> QED BY <2>1, <3>1
  <2>2. CASE c # t.channel
    BY <1>6, <2>2 DEF Whole
  <2> QED BY <2>1, <2>2
<1>8. ~In(new, t.channel)
  BY <1>3 DEF In
<1>9. \E cost \in [0 .. 3 -> Nat] : Accounts(new, due - t.cycles, cost)
  <2>1. PICK cost \in [0 .. 3 -> Nat] : Accounts(stack, due, cost)
    BY DEF Whole
  <2>2. cost[t.channel] = t.cycles
    BY <1>0, <2>1 DEF Accounts
  <2> DEFINE less == [cost EXCEPT ![t.channel] = 0]
  <2>3. less \in [0 .. 3 -> Nat] /\ Total(less) = Total(cost) + 0 - cost[t.channel]
    BY <1>2, TotalChanges
  <2>4. due - t.cycles = Total(less)
    <3>1. due = Total(cost)
      BY <2>1 DEF Accounts
    <3> HIDE DEF less
    <3> QED BY <1>2, <2>2, <2>3, <3>1
  <2>5. \A i \in 1 .. Len(new) : less[new[i].channel] = new[i].cycles
    <3> TAKE i \in 1 .. Len(new)
    <3>1. stack[i + 1].channel \in 0 .. 3
      BY <1>3, StackChannels
    <3>2. cost[stack[i + 1].channel] = stack[i + 1].cycles
      BY <1>3, <2>1 DEF Accounts
    <3> QED BY <1>3, <3>1, <3>2
  <2>6. \A c \in 0 .. 3 : ~In(new, c) => less[c] = 0
    BY <1>6, <2>1 DEF Accounts
  <2> QED BY <2>3, <2>4, <2>5, <2>6 DEF Accounts
<1> QED BY <1>4, <1>5, <1>7, <1>9 DEF Whole, new

\* Every unit is paid for, every channel goes on where it stopped, and no channel is twice
\* on the stack.
Nested == Whole(running, internal, reached, debt - stall)

\* A control written while the transfers of `outer' are not finished.
LEMMA WriteWhole ==
  ASSUME Typed, NEW c \in Channels, NEW new \in Control, NEW outer \in Seq(Transfers),
         NEW cost \in Nat, NEW reach \in [Channels -> Address],
         In(outer, c) => new = control[c],
         Whole(outer, internal, reach, debt + cost - stall),
         WriteControl(c, new, outer, cost, reach), UNCHANGED stall
  PROVE  Nested'
<1> DEFINE due == debt + cost - stall
<1>0. /\ internal \in [Channels -> Registers] /\ registers[c] \in Registers
      /\ debt \in Nat /\ stall \in Nat /\ due \in Int
  BY DEF Typed
<1>1. CASE ~Enables(c, new)
  <2>1. running' = outer /\ internal' = internal /\ reached' = reach /\ debt' = debt + cost
    BY <1>1 DEF WriteControl, Enables
  <2>2. debt' - stall' = debt + cost - stall
    BY <1>0, <2>1
  <2> QED BY <2>1, <2>2 DEF Nested
<1>2. CASE Enables(c, new)
  <2> DEFINE at2    == [internal EXCEPT ![c] = registers[c]]
             reach2 == [reach EXCEPT ![c] = registers[c].source]
  <2>1. ~In(outer, c)
    BY <1>2 DEF Enables
  <2>2. internal' = at2 /\ reached' = reach2
    BY <1>2 DEF WriteControl, Enables
  <2>3. Whole(outer, at2, reach2, due)
    BY <1>0, <2>1, WholeLatched
  <2>4. registers[c].source \in Address
    BY <1>0 DEF Registers
  <2>5. at2 \in [Channels -> Registers] /\ reach2 \in [Channels -> Address]
        /\ reach2[c] = registers[c].source
    BY <1>0, <2>4
  <2> HIDE DEF at2, reach2
  <2>6. CASE new.timing # "Immediate"
    <3>1. running' = outer /\ debt' = debt + cost
      BY <2>6 DEF WriteControl
    <3>2. debt' - stall' = due
      BY <1>0, <3>1
    <3> QED BY <2>2, <2>3, <3>1, <3>2 DEF Nested
  <2>7. CASE new.timing = "Immediate"
    <3> DEFINE t == Transfer(c, registers[c], new.toward, registers[c].count, FALSE)
    <3>1. running' = <<t>> \o outer /\ debt' = debt + cost + StartCycles
      BY <1>2, <2>7 DEF WriteControl
    <3>2. t \in Transfers
      <4>1. registers[c].count \in Nat /\ new.toward \in DOMAIN Steps
        BY <1>0 DEF Registers, Control
      <4> QED BY <1>0, <4>1, TransferType
    <3>3. t.channel = c /\ t.source = registers[c].source /\ t.cycles = StartCycles
      BY DEF Transfer
    <3> HIDE DEF t, due
    <3>4. Whole(<<t>> \o outer, at2, reach2, due + StartCycles)
      BY <1>0, <2>1, <2>3, <2>5, <3>2, <3>3, WholeStarted
    <3>5. debt' - stall' = due + StartCycles
      BY <1>0, <3>1, DmaAssumption DEF due
    <3> QED BY <2>2, <3>1, <3>4, <3>5 DEF Nested
  <2> QED BY <2>6, <2>7
<1> QED BY <1>1, <1>2

LEMMA NextNested ==
  ASSUME ~SelfWrites, Typed, Nested, [Next]_vars
  PROVE  Nested'
<1>0. /\ running \in Seq(Transfers) /\ internal \in [Channels -> Registers]
      /\ reached \in [Channels -> Address] /\ debt \in Nat /\ stall \in Nat
      /\ debt - stall \in Int /\ UnitCycles \in Nat /\ StartCycles \in Nat
  BY DmaAssumption DEF Typed
<1>1. CASE Unit
  <2>1. PICK t, rest, reach :
          /\ t = running[1] /\ t \in Transfers /\ t.left > 0 /\ running # <<>>
          /\ rest = <<AfterUnit(t)>> \o Tail(running) /\ rest \in Seq(Transfers)
          /\ reach = [reached EXCEPT ![t.channel] = (t.source + 1) % Space]
          /\ reach \in [Channels -> Address]
          /\ \/ /\ running' = rest /\ debt' = debt + UnitCycles /\ reached' = reach
                /\ UNCHANGED internal
             \/ \E c \in Channels : \E new \in Writable(c) :
                  new \in Control /\ WriteControl(c, new, rest, UnitCycles, reach)
          /\ UNCHANGED stall
    BY <1>1, UnitParts
  <2>2. Whole(rest, internal, reach, debt - stall + UnitCycles)
    BY <1>0, <2>1, WholeMoved DEF Nested
  <2>3. debt - stall + UnitCycles = debt + UnitCycles - stall
    BY <1>0
  <2>4. Whole(rest, internal, reach, debt + UnitCycles - stall)
    BY <2>2, <2>3
  <2>5. \A c : In(rest, c) => Unfinished(c)
    <3>1. AfterUnit(t) \in Transfers /\ AfterUnit(t).channel = t.channel
      BY <2>1, MovedType
    <3>2. /\ Len(rest) = Len(running) /\ rest[1] = AfterUnit(t)
          /\ \A i \in 2 .. Len(running) : rest[i] = running[i]
          /\ Len(running) \in Nat \ {0}
      BY <1>0, <2>1, <3>1, TopReplaced, OneLess
    <3>3. \A i \in 1 .. Len(running) : rest[i].channel = running[i].channel
      BY <2>1, <3>1, <3>2
    <3> QED BY <3>2, <3>3 DEF In, Unfinished
  <2>6. CASE running' = rest /\ debt' = debt + UnitCycles /\ reached' = reach /\ UNCHANGED internal
    <3>0. stall' = stall
      BY <2>1
    <3>1. debt' - stall' = debt + UnitCycles - stall
      BY <1>0, <2>6, <3>0
    <3> QED BY <2>4, <2>6, <3>1 DEF Nested
  <2>7. ASSUME NEW c \in Channels, NEW new \in Writable(c), new \in Control,
               WriteControl(c, new, rest, UnitCycles, reach)
        PROVE  Nested'
    <3>1. In(rest, c) => new = control[c]
      BY <2>5, <2>7 DEF Writable
    <3> QED BY <1>0, <2>1, <2>4, <2>7, <3>1, WriteWhole
  <2> QED BY <2>1, <2>6, <2>7
<1>2. CASE Finish
  <2> DEFINE t    == running[1]
             c    == t.channel
             last == internal'[c]
  <2>1. /\ running # <<>> /\ running' = Tail(running) /\ t \in Transfers
        /\ stall' = stall + t.cycles /\ UNCHANGED <<debt, reached>>
    BY <1>0, <1>2, OneLess DEF Finish, StallWith
  <2>2. c \in Channels /\ t.cycles \in Nat
    BY <2>1 DEF Transfers
  <2>3. internal' \in [Channels -> Registers]
    BY <1>2, NextTyped DEF Next, Typed
  <2>4. last \in Registers /\ last.source = t.source /\ internal' = [internal EXCEPT ![c] = last]
    <3> DEFINE on == control[c].repeat /\ control[c].timing # "Immediate"
               r  == [source |-> t.source,
                      destination |-> IF on /\ t.toward = "IncrementReload"
                                      THEN registers[c].destination ELSE t.destination,
                      count |-> IF on THEN registers[c].count ELSE internal[c].count]
    <3>1. internal' = [internal EXCEPT ![c] = r] /\ r.source = t.source
      BY <1>2 DEF Finish
    <3> HIDE DEF r
    <3>2. last = r
      BY <1>0, <2>2, <3>1
    <3> QED BY <2>2, <2>3, <3>1, <3>2
  <2> HIDE DEF last
  <2>5. Whole(Tail(running), [internal EXCEPT ![c] = last], reached, (debt - stall) - t.cycles)
    BY <1>0, <2>1, <2>4, WholeEnded DEF Nested
  <2>6. debt' - stall' = (debt - stall) - t.cycles
    <3>1. stall \in Nat /\ debt \in Nat
      BY <1>0 DEF Typed
    <3>2. stall' = stall + t.cycles /\ debt' = debt /\ t.cycles \in Nat
      BY <2>1, <2>2
    <3> HIDE DEF t
    <3> QED BY <3>1, <3>2
  <2> QED BY <2>1, <2>4, <2>5, <2>6 DEF Nested
<1>3. CASE LookAt
  <2>1. running = <<>> /\ todo # <<>> /\ UNCHANGED <<internal, stall, reached>>
    BY <1>3 DEF LookAt, programmed
  <2>2. \A c : ~In(running, c) /\ ~In(<<>>, c)
    BY <2>1 DEF In
  <2>3. ASSUME NEW c \in Channels, Run(c) PROVE Nested'
    <3>1. PICK t \in Transfers :
            /\ running' = <<t>> /\ debt' = debt + StartCycles
            /\ t.channel = c /\ t.source = internal[c].source /\ t.cycles = StartCycles
      BY <2>3, RunTyped
    <3>2. t.source = reached[t.channel]
      BY <2>2, <3>1 DEF Nested, Whole
    <3>3. Whole(<<t>> \o running, internal, reached, (debt - stall) + StartCycles)
      BY <1>0, <2>2, <3>1, <3>2, WholeStarted DEF Nested
    <3>4. <<t>> \o running = <<t>>
      BY <2>1, <3>1, ConcatEmptySeq
    <3>5. debt' - stall' = (debt - stall) + StartCycles
      BY <1>0, <2>1, <3>1
    <3> QED BY <2>1, <3>1, <3>3, <3>4, <3>5 DEF Nested
  <2>4. CASE UNCHANGED <<running, debt>>
    BY <2>1, <2>4 DEF Nested
  <2>5. UNCHANGED <<running, debt>> \/ \E c \in Channels : Run(c)
    <3> DEFINE next == Head(todo)
    <3>1. next \in Wants \/ next \in Visits
      BY <2>1, HeadTailProperties DEF Typed
    <3>2. CASE next \in Wants
      <4>1. next.fifo \in FifoIds /\ "fifo" \in DOMAIN next
        BY <3>2 DEF Wants
      <4> QED BY <1>3, <4>1, RefillerFound DEF LookAt
    <3>3. CASE next \in Visits
      <4>1. next.channel \in Channels /\ "fifo" \notin DOMAIN next
        BY <3>3 DEF Visits
      <4> QED BY <1>3, <4>1 DEF LookAt
    <3> QED BY <3>1, <3>2, <3>3
  <2> QED BY <2>3, <2>4, <2>5
<1>4. CASE TakeStall
  <2>1. running = <<>> /\ running' = <<>> /\ UNCHANGED <<internal, reached>> /\ debt' - stall' = 0
    BY <1>4 DEF TakeStall, Idle, programmed
  <2>2. debt - stall = 0
    <3>1. PICK cost \in [0 .. 3 -> Nat] : Accounts(running, debt - stall, cost)
      BY DEF Nested, Whole
    <3>2. cost[0] = 0 /\ cost[1] = 0 /\ cost[2] = 0 /\ cost[3] = 0
      BY <2>1, <3>1 DEF Accounts, In
    <3> QED BY <3>1, <3>2 DEF Accounts, Total
  <2> QED BY <2>1, <2>2 DEF Nested
<1>5. CASE WriteEnable
  <2>1. PICK w \in Controls : WriteControl(w[1], w[2], <<>>, 0, reached) /\ running = <<>>
    BY <1>5 DEF WriteEnable, Outside, Idle
  <2>2. w[1] \in Channels /\ w[2] \in Control /\ 0 \in Nat /\ <<>> \in Seq(Transfers)
    BY DmaAssumption
  <2>3. ~In(<<>>, w[1]) /\ UNCHANGED stall
    BY <1>5 DEF In, WriteEnable
  <2>4. debt + 0 - stall = debt - stall
    BY <1>0
  <2>5. Whole(<<>>, internal, reached, debt + 0 - stall)
    BY <2>1, <2>4 DEF Nested
  <2> QED BY <1>0, <2>1, <2>2, <2>3, <2>5, WriteWhole
<1>6. CASE WriteRegisters \/ Trigger \/ Overflow \/ ClearFifo \/ SwitchSound \/ UNCHANGED vars
  <2>1. UNCHANGED <<running, internal, reached, debt, stall>>
    BY <1>6 DEF WriteRegisters, Trigger, Overflow, ClearFifo, SwitchSound, vars, programmed
  <2> QED BY <2>1 DEF Nested
<1> QED BY <1>1, <1>2, <1>3, <1>4, <1>5, <1>6 DEF Next

LEMMA InitNested == Init => Nested
<1> SUFFICES ASSUME Init PROVE Nested
  OBVIOUS
<1> DEFINE cost == [c \in 0 .. 3 |-> 0]
<1>1. running = <<>> /\ Len(running) = 0 /\ \A c : ~In(running, c)
  BY DEF Init, In
<1>2. debt - stall = Total(cost) /\ cost \in [0 .. 3 -> Nat] /\ \A c \in 0 .. 3 : cost[c] = 0
  BY DEF Init, Total
<1> HIDE DEF cost
<1>3. Accounts(running, debt - stall, cost)
  BY <1>1, <1>2 DEF Accounts
<1>4. \A c \in Channels : internal[c].source = reached[c]
  BY DEF Init, Unset
<1> QED BY <1>1, <1>2, <1>3, <1>4 DEF Nested, Whole

\* Transfers nest no deeper than there are channels: they are all of different ones.
LEMMA NestingBounded ==
  ASSUME Typed, Nested
  PROVE  Len(running) <= Cardinality(Channels)
<1> DEFINE n == Len(running)
           f == [i \in 1 .. n |-> running[i].channel]
<1>1. n \in Nat
  BY DEF Typed
<1>2. \A i \in 1 .. n : running[i].channel \in Channels
  BY StackChannels DEF Typed
<1>3. f \in [1 .. n -> Channels]
  BY <1>2
<1>4. \A i, j \in 1 .. n : f[i] = f[j] => i = j
  BY DEF Nested, Whole
<1> HIDE DEF f
<1>5. f \in Injection(1 .. n, Channels)
  BY <1>3, <1>4, Zenon DEF Injection, IsInjective
<1> HIDE DEF n
<1>6. Cardinality(1 .. n) <= Cardinality(Channels)
  BY <1>5, FinitelyMany, FS_Injection
<1>7. Cardinality(1 .. n) = n
  <2>1. 1 \in Int /\ n \in Int /\ Cardinality(1 .. n) = IF 1 > n THEN 0 ELSE n - 1 + 1
    BY <1>1, FS_Interval
  <2> QED BY <1>1, <2>1
<1> QED BY <1>6, <1>7 DEF n

\* Unless a transfer restarts a channel that is not finished, every transfer moves what it
\* was set up to move, each from where its channel had come, all of it is paid for, once,
\* and transfers nest no deeper than there are channels (dma.cpp:113, 215, 217).
THEOREM TransfersAreWhole ==
  ASSUME ~SelfWrites
  PROVE  Spec => []TransfersWhole
<1> DEFINE IInv == Sound /\ Nested
<1>1. Init => IInv
  BY InitRings, InitTyped, InitServed, InitNested DEF Sound
<1>2. IInv /\ [Next]_vars => IInv'
  BY NextRings, NextTyped, NextServed, NextNested DEF Sound
<1>3. IInv => TransfersWhole
  <2> SUFFICES ASSUME Sound, Nested PROVE TransfersWhole
    OBVIOUS
  <2>1. TypeOK
    BY NestingBounded DEF Sound, Typed, Rings, TypeOK
  <2>2. PaidInFull
    <3> SUFFICES ASSUME running = <<>> PROVE stall = debt
      BY DEF PaidInFull, Idle
    <3>1. PICK cost \in [0 .. 3 -> Nat] : Accounts(running, debt - stall, cost)
      BY DEF Nested, Whole
    <3>2. cost[0] = 0 /\ cost[1] = 0 /\ cost[2] = 0 /\ cost[3] = 0
      BY <3>1 DEF Accounts, In
    <3>3. debt - stall = 0 /\ debt \in Nat /\ stall \in Nat
      BY <3>1, <3>2 DEF Accounts, Total, Sound, Typed
    <3> QED BY <3>3
  <2>3. SourceContinues
    BY DEF SourceContinues, Nested, Whole, In, Unfinished
  <2> QED BY <2>1, <2>2, <2>3 DEF TransfersWhole
<1> QED BY <1>1, <1>2, <1>3, PTL DEF Spec

-----------------------------------------------------------------------------
(***************************************************************************)
(* The APU.                                                                *)
(***************************************************************************)
Channel ==
  [enabled : BOOLEAN, dac : BOOLEAN, frequency : 0 .. FrequencyLimit - 1, timer : Nat,
   length : 0 .. LengthLimit, length_enable : BOOLEAN, place : Nat,
   envelope : [initial : 0 .. VolumeLimit, increase : BOOLEAN, period : Nat,
               volume : 0 .. VolumeLimit, timer : Nat],
   sweep : [period : Nat, divisor : Nat \ {0}, negate : BOOLEAN], sweep_timer : Nat,
   shadow : 0 .. FrequencyLimit - 1, sweep_enabled : BOOLEAN, two_banks : BOOLEAN,
   bank : 0 .. 1, narrow : BOOLEAN, lfsr : 0 .. AllOnes, noise_period : Nat \ {0}]

\* The part of the register that feeds back is not all zeros.
Alive(c) == IF c.narrow THEN c.lfsr % (2 * NarrowTop) # 0 ELSE c.lfsr # 0

\* What every operation keeps of a channel.
Good(c) ==
  /\ c \in Channel
  /\ c.enabled => c.dac /\ c.length > 0
  /\ voice = "noise" /\ ~WidthSwitches /\ c.enabled => Alive(c)

LEMMA Parameters ==
  /\ LowLimit \in Nat /\ LowLimit > 0 /\ FrequencyLimit \in Nat /\ FrequencyLimit > 0
  /\ LengthLimit \in Nat /\ LengthLimit > 0 /\ VolumeLimit \in Nat /\ VolumeLimit > 0
  /\ SweepReload \in Nat /\ DutySteps \in Nat /\ DutySteps > 0 /\ WaveSteps \in Nat /\ WaveSteps > 0
  /\ SampleCycles \in Nat /\ SampleCycles > 0
  /\ LfsrTop \in Nat /\ LfsrTop > 0 /\ NarrowTop \in Nat /\ NarrowTop > 0
  /\ AllOnes \in Nat /\ AllOnes = 2 * LfsrTop - 1
  /\ BufferLimit \in Nat /\ MaxWrites \in Nat
  BY ApuAssumption DEF ApuAssumption, AllOnes

LEMMA Settings ==
  /\ Lengths \subseteq 1 .. LengthLimit /\ NoisePeriods \subseteq Nat \ {0}
  /\ \A e \in Envelopes : e.initial \in 0 .. VolumeLimit /\ e.increase \in BOOLEAN /\ e.period \in Nat
  /\ Sweeps \subseteq [period : Nat, divisor : Nat \ {0}, negate : BOOLEAN]
  /\ Levels \subseteq Int
  BY ApuAssumption DEF ApuAssumption

\* Halving, and the bits of a sum.
LEMMA Halves ==
  ASSUME NEW x \in Nat
  PROVE  /\ x \div 2 \in Nat /\ x % 2 \in {0, 1} /\ x = 2 * (x \div 2) + (x % 2)
         /\ (x + x \div 2) % 2 = ((x % 2) + ((x \div 2) % 2)) % 2
  OBVIOUS

LEMMA Shifted ==
  ASSUME NEW x \in 0 .. AllOnes, NEW f \in {0, 1}
  PROVE  /\ x \div 2 + f * LfsrTop \in 0 .. AllOnes
         /\ x # 0 /\ f = (x + x \div 2) % 2 => x \div 2 + f * LfsrTop # 0
<1> USE Parameters
<1>1. x \in Nat /\ x <= 2 * LfsrTop - 1
  OBVIOUS
<1>2. x \div 2 \in 0 .. LfsrTop - 1
  BY <1>1
<1>3. f * LfsrTop \in {0, LfsrTop} /\ (f = 1 => f * LfsrTop = LfsrTop)
  OBVIOUS
<1>4. ASSUME x # 0, f = (x + x \div 2) % 2, x \div 2 = 0 PROVE f = 1
  <2>1. x = 1
    BY <1>1, <1>4
  <2> QED BY <1>4, <2>1
<1> QED BY <1>2, <1>3, <1>4

\* The narrow register: the bit at NarrowTop is the feedback, the bits below it are shifted.
LEMMA NarrowShift ==
  ASSUME NEW x \in 0 .. AllOnes, NEW f \in {0, 1}
  PROVE  LET shifted == x \div 2 + f * LfsrTop
             bit     == (shifted \div NarrowTop) % 2
             next    == shifted + (f - bit) * NarrowTop
         IN  /\ next \in 0 .. AllOnes
             /\ (f = (x + x \div 2) % 2 /\ x % (2 * NarrowTop) # 0) => next % (2 * NarrowTop) # 0
<1> USE Parameters
<1> DEFINE N == NarrowTop
           W == 2 * NarrowTop
           m == LfsrTop \div W
           h == x \div 2
           b == x % 2
           k == h \div N
           r == h % N
           s == h + f * LfsrTop
           q == s \div N
           bit == q % 2
           next == s + (f - bit) * N
<1>1. N \in Nat /\ N > 0 /\ W \in Nat /\ W > 0 /\ W = N + N /\ N % 2 = 0
  BY ApuAssumption DEF ApuAssumption
<1>2. m \in Nat /\ m > 0 /\ m * W = LfsrTop
  <2>1. LfsrTop % W = 0
    BY ApuAssumption DEF ApuAssumption
  <2>2. m \in Nat /\ LfsrTop % W = LfsrTop - m * W
    BY <1>1, Quotient
  <2>3. m * W = LfsrTop
    <3> HIDE DEF m, W
    <3> QED BY <2>1, <2>2, <1>1
  <2>4. m # 0
    BY <2>3
  <2> QED BY <2>2, <2>3, <2>4
<1>3. x \in Nat /\ h \in Nat /\ b \in {0, 1} /\ x = 2 * h + b /\ h <= LfsrTop - 1
  OBVIOUS
<1>4. k \in Nat /\ r \in 0 .. N - 1 /\ h = k * N + r
  <2>1. k \in Nat /\ r = h - k * N /\ r \in 0 .. N - 1
    BY <1>1, <1>3, Quotient, Modulo
  <2> HIDE DEF k, r
  <2> QED BY <1>1, <1>3, <2>1
<1> DEFINE M == m * W
           K == k * N
<1>5. M = 2 * (m * N) /\ M \in Nat /\ K \in Nat
  <2> HIDE DEF m, k
  <2> QED BY <1>1, <1>2, <1>4
<1>6. q = k + 2 * m * f /\ s = q * N + r
  <2> DEFINE p == k + 2 * m * f
  <2>1. p \in Nat
    BY <1>2, <1>4
  <2>2. p * N + r = s
    <3> HIDE DEF k, r, m
    <3>1. f * LfsrTop = f * (m * W)
      BY <1>2
    <3> QED BY <1>1, <1>2, <1>3, <1>4, <3>1
  <2>3. p * N <= s /\ s < (p + 1) * N /\ s \in Nat
    <3>1. (p + 1) * N = p * N + N
      BY <1>1, <2>1, Successor
    <3> HIDE DEF p, k, m, r
    <3>2. p * N \in Nat
      BY <1>1, <2>1
    <3> QED BY <1>1, <1>4, <2>1, <2>2, <3>1, <3>2
  <2>4. s \div N = p
    BY <1>1, <2>1, <2>3, InInterval
  <2> QED BY <2>2, <2>4
<1>7. bit = k % 2
  BY <1>2, <1>4, <1>6
<1> DEFINE j == k \div 2 + m * f
           low == f * N + r
<1>8. j \in Nat /\ low \in 0 .. W - 1 /\ next = j * W + low
  <2>1. k \div 2 \in Nat /\ k = 2 * (k \div 2) + (k % 2) /\ k % 2 \in {0, 1}
    BY <1>4
  <2>2. j \in Nat
    BY <1>2, <2>1
  <2>3. low \in 0 .. W - 1
    BY <1>1, <1>4
  <2>4. q + f - bit = 2 * j + f
    <3>1. q = k + 2 * m * f /\ bit = k % 2 /\ m * f \in Nat /\ 2 * m * f = 2 * (m * f)
      <4> HIDE DEF m, k, q, bit
      <4> QED BY <1>2, <1>4, <1>6, <1>7
    <3> DEFINE mf == m * f
               e == k \div 2
               o == k % 2
    <3>2. e \in Nat /\ mf \in Nat /\ o \in Int /\ k = 2 * e + o /\ q = k + 2 * mf /\ bit = o /\ j = e + mf
      BY <2>1, <3>1
    <3> HIDE DEF mf, e, o, q, bit, j, k
    <3> QED BY <3>2
  <2>5. q \in Nat /\ bit \in {0, 1}
    BY <1>2, <1>4, <1>6, <1>7, <2>1
  <2>6. next = (q + f - bit) * N + r
    <3> HIDE DEF q, bit, r
    <3>1. (q + (f - bit)) * N = q * N + (f - bit) * N
      BY <1>1, <2>5
    <3> HIDE DEF s
    <3>2. s \in Nat /\ q * N \in Nat /\ (f - bit) * N \in Int
      BY <1>1, <1>4, <1>6, <2>5
    <3> QED BY <1>4, <1>6, <3>1, <3>2, <2>5
  <2>7. (2 * j + f) * N = j * W + f * N
    <3> HIDE DEF j
    <3> QED BY <1>1, <2>2
  <2>8. j * W \in Nat /\ f * N \in Nat
    <3> HIDE DEF j
    <3> QED BY <1>1, <2>2
  <2> HIDE DEF next, q, bit, j, r, W
  <2> QED BY <1>4, <2>2, <2>3, <2>4, <2>6, <2>7, <2>8
<1>9. next % W = low
  <2>1. next \in Nat /\ j * W <= next /\ next < (j + 1) * W
    <3>1. (j + 1) * W = j * W + W /\ j * W \in Nat
      BY <1>1, <1>8, Successor
    <3> HIDE DEF next, j, low, W
    <3> QED BY <1>1, <1>8, <3>1
  <2>2. next % W = next - j * W
    <3>1. W \in Nat \ {0}
      BY <1>1
    <3> HIDE DEF next, j, W
    <3> QED BY <1>8, <2>1, <3>1, InInterval
  <2> HIDE DEF next, j, low, W
  <2> QED BY <1>1, <1>8, <2>1, <2>2
<1>10. next <= AllOnes
  <2>1. k < 2 * m
    <3>1. k * N < (2 * m) * N
      BY <1>1, <1>2, <1>3, <1>4, <1>5
    <3> QED BY <1>1, <1>2, <1>4, <3>1, Cancellation
  <2>2. j + 1 <= 2 * m
    <3>1. k \div 2 + 1 <= m
      BY <1>2, <1>4, <2>1
    <3> QED BY <1>2, <1>4, <3>1
  <2>3. (j + 1) * W <= (2 * m) * W
    BY <1>1, <1>2, <1>8, <2>2, Monotone
  <2>4. (2 * m) * W = LfsrTop + LfsrTop /\ (j + 1) * W = j * W + W /\ j * W \in Nat
    <3>1. (2 * m) * W = m * W + m * W
      <4> HIDE DEF m
      <4> QED BY <1>1, <1>2
    <3> QED BY <1>1, <1>2, <1>8, <3>1, Successor
  <2> HIDE DEF next, j, low, W, m
  <2> QED BY <1>1, <1>8, <2>3, <2>4
<1>11. ASSUME f = (x + x \div 2) % 2, x % W # 0 PROVE low # 0
  <2>1. CASE r # 0
    BY <1>1, <1>4, <2>1
  <2>2. CASE r = 0
    <3>1. h % 2 = 0
      <4>1. h = k * N /\ N = 2 * (N \div 2) /\ N \div 2 \in Nat
        BY <1>1, <1>4, <2>2
      <4>2. h = 2 * (k * (N \div 2))
        <5> DEFINE n == N \div 2
        <5> HIDE DEF n, k
        <5> QED BY <1>4, <4>1
      <4>3. k * (N \div 2) \in Nat
        <5> HIDE DEF k
        <5> QED BY <1>4, <4>1
      <4> QED BY <4>2, <4>3
    <3>2. b = 1
      <4>1. SUFFICES ASSUME b = 0 PROVE FALSE
        BY <1>3
      <4>2. x = k * W
        BY <1>1, <1>3, <1>4, <4>1, <2>2
      <4>3. k * W <= x /\ x < (k + 1) * W
        <5>1. (k + 1) * W = k * W + W
          BY <1>1, <1>4, Successor
        <5> HIDE DEF k, W
        <5> QED BY <1>1, <1>3, <4>2, <5>1
      <4>4. x % W = x - k * W
        BY <1>1, <1>3, <1>4, <4>3, InInterval
      <4> QED BY <1>3, <1>11, <4>2, <4>4
    <3>3. f = 1
      BY <1>3, <1>11, <3>1, <3>2
    <3> QED BY <1>1, <2>2, <3>3
  <2> QED BY <2>1, <2>2
<1>12. next \in 0 .. AllOnes
  <2>1. next \in Nat
    <3> HIDE DEF next, j, low, W
    <3> QED BY <1>1, <1>8
  <2> HIDE DEF next
  <2> QED BY <2>1, <1>10
<1> QED BY <1>9, <1>11, <1>12

-----------------------------------------------------------------------------
\* A register that is not stuck stays so, and in range.
LEMMA LfsrLives ==
  ASSUME NEW c \in Channel
  PROVE  LfsrNext(c) \in 0 .. AllOnes /\ (Alive(c) => Alive([c EXCEPT !.lfsr = LfsrNext(c)]))
<1> DEFINE x == c.lfsr
           f == (x + x \div 2) % 2
           shifted == x \div 2 + f * LfsrTop
           bit == (shifted \div NarrowTop) % 2
           next == shifted + (f - bit) * NarrowTop
           d == [c EXCEPT !.lfsr = LfsrNext(c)]
<1>1. x \in 0 .. AllOnes /\ x \in Nat /\ f \in {0, 1} /\ c.narrow \in BOOLEAN
  BY Parameters DEF Channel
<1>2. LfsrNext(c) = IF c.narrow THEN next ELSE shifted
  BY DEF LfsrNext
<1>3. d.lfsr = LfsrNext(c) /\ d.narrow = c.narrow
  BY DEF Channel
<1>4. CASE c.narrow
  <2>1. next \in 0 .. AllOnes /\ (x % (2 * NarrowTop) # 0 => next % (2 * NarrowTop) # 0)
    <3> HIDE DEF x
    <3> QED BY <1>1, NarrowShift
  <2> HIDE DEF x, next, d
  <2> QED BY <1>2, <1>3, <1>4, <2>1 DEF Alive, x
<1>5. CASE ~c.narrow
  <2>1. shifted \in 0 .. AllOnes /\ (x # 0 => shifted # 0)
    <3> HIDE DEF x
    <3> QED BY <1>1, Shifted
  <2> HIDE DEF x, shifted, d
  <2> QED BY <1>2, <1>3, <1>5, <2>1 DEF Alive, x
<1> QED BY <1>1, <1>4, <1>5

LEMMA FullRegister == AllOnes \in 0 .. AllOnes /\ AllOnes # 0 /\ AllOnes % (2 * NarrowTop) # 0
<1>1. AllOnes \in Nat /\ AllOnes % 2 = 1
  BY Parameters
<1> DEFINE W == 2 * NarrowTop
           q == AllOnes \div W
<1>2. W \in Nat \ {0} /\ W = 2 * NarrowTop
  BY Parameters
<1>3. SUFFICES ASSUME AllOnes % W = 0 PROVE FALSE
  BY <1>1
<1>4. q \in Nat /\ AllOnes = q * W
  <2>1. q \in Nat /\ AllOnes % W = AllOnes - q * W
    BY <1>1, <1>2, Quotient
  <2>2. q * W \in Nat
    <3> HIDE DEF q, W
    <3> QED BY <2>1, <1>2
  <2> HIDE DEF q, W
  <2> QED BY <1>1, <1>3, <2>1, <2>2
<1>5. AllOnes = 2 * (q * NarrowTop) /\ q * NarrowTop \in Nat
  <2> HIDE DEF q
  <2> QED BY <1>2, <1>4, Parameters
<1> QED BY <1>1, <1>5

\* The period of a channel is never zero.
LEMMA PeriodPositive ==
  ASSUME voice \in Psg, NEW c \in Channel
  PROVE  Period(c) \in Nat \ {0}
  BY Parameters DEF Period, Psg, Enveloped, Squares, Channel

LEMMA AdvancedGood ==
  ASSUME voice \in Psg, NEW c, Good(c), NEW t \in Nat
  PROVE  Good([Advanced(c) EXCEPT !.timer = t])
<1>1. c \in Channel
  BY DEF Good
<1>2. CASE voice = "noise"
  <2>1. Advanced(c) = [c EXCEPT !.lfsr = LfsrNext(c)]
    BY <1>2 DEF Advanced, Squares
  <2>2. LfsrNext(c) \in 0 .. AllOnes /\ (Alive(c) => Alive([c EXCEPT !.lfsr = LfsrNext(c)]))
    BY <1>1, LfsrLives
  <2> DEFINE n == LfsrNext(c)
             d == [[c EXCEPT !.lfsr = n] EXCEPT !.timer = t]
  <2> HIDE DEF n
  <2>3. d \in Channel
    BY <1>1, <2>2 DEF Channel, n
  <2>4. d.enabled = c.enabled /\ d.dac = c.dac /\ d.length = c.length /\ d.lfsr = n /\ d.narrow = c.narrow
    BY <1>1 DEF Channel
  <2>5. [c EXCEPT !.lfsr = n].lfsr = n /\ [c EXCEPT !.lfsr = n].narrow = c.narrow
    BY <1>1 DEF Channel
  <2>6. Good(d)
    <3> HIDE DEF d
    <3> QED BY <2>2, <2>3, <2>4, <2>5 DEF Good, Alive, n
  <2> QED BY <2>1, <2>6 DEF n
<1>3. CASE voice # "noise"
  <2>1. PICK p \in Nat : Advanced(c) = [c EXCEPT !.place = p]
    <3>1. c.place \in Nat /\ c.two_banks \in BOOLEAN
      BY <1>1 DEF Channel
    <3>2. CASE voice \in Squares
      <4>1. (c.place + 1) % DutySteps \in Nat
        BY <3>1, Parameters
      <4> QED BY <3>2, <4>1 DEF Advanced, Squares
    <3>3. CASE voice = "wave"
      <4>1. (c.place + 1) % (IF c.two_banks THEN 2 * WaveSteps ELSE WaveSteps) \in Nat
        BY <3>1, Parameters
      <4> QED BY <3>3, <4>1 DEF Advanced, Squares
    <3> QED BY <1>3, <3>2, <3>3 DEF Psg, Enveloped
  <2> DEFINE d == [[c EXCEPT !.place = p] EXCEPT !.timer = t]
  <2>2. d \in Channel
    BY <1>1 DEF Channel
  <2>3. d.enabled = c.enabled /\ d.dac = c.dac /\ d.length = c.length
    BY <1>1 DEF Channel
  <2> HIDE DEF d
  <2>4. Good(d)
    BY <1>3, <2>2, <2>3 DEF Good
  <2> QED BY <2>1, <2>4 DEF d
<1> QED BY <1>2, <1>3

\* What a good channel keeps when only its timer is written.
LEMMA TimerGood ==
  ASSUME NEW c, Good(c), NEW t \in Nat
  PROVE  Good([c EXCEPT !.timer = t])
<1> DEFINE d == [c EXCEPT !.timer = t]
<1>1. d \in Channel /\ d.enabled = c.enabled /\ d.dac = c.dac /\ d.length = c.length
      /\ d.lfsr = c.lfsr /\ d.narrow = c.narrow
  BY DEF Good, Channel
<1> HIDE DEF d
<1>2. Good(d)
  BY <1>1 DEF Good, Alive
<1> QED BY <1>2 DEF d

LEMMA MovedGood ==
  ASSUME voice \in Psg, NEW c, Good(c), NEW left \in Nat
  PROVE  Good(Ticked(c, left)) /\ Ticked(c, left).timer > 0
<1>1. c \in Channel
  BY DEF Good
<1>2. Period(c) \in Nat \ {0}
  BY <1>1, PeriodPositive
<1>3. CASE left = 0
  <2> DEFINE p == Period(c)
             a == Advanced(c)
  <2>1. Good([a EXCEPT !.timer = p])
    BY <1>2, AdvancedGood
  <2> HIDE DEF p, a
  <2>2. [a EXCEPT !.timer = p].timer = p
    <3>1. "timer" \in DOMAIN [a EXCEPT !.timer = p]
      BY <2>1 DEF Good, Channel
    <3> QED BY <3>1
  <2>3. Ticked(c, left) = [a EXCEPT !.timer = p]
    BY <1>3 DEF Ticked, a, p
  <2> QED BY <1>2, <2>1, <2>2, <2>3 DEF p
<1>4. CASE left # 0
  <2>1. Ticked(c, left) = [c EXCEPT !.timer = left]
    BY <1>4 DEF Ticked
  <2>2. [c EXCEPT !.timer = left].timer = left
    BY <1>1 DEF Channel
  <2> QED BY <1>4, <2>1, <2>2, TimerGood
<1> QED BY <1>3, <1>4

LEMMA LoadedGood ==
  ASSUME voice \in Psg, NEW c, Good(c)
  PROVE  Good(Loaded(c)) /\ Loaded(c).timer > 0 /\ (c.timer > 0 => Loaded(c) = c)
<1>1. c \in Channel /\ c.timer \in Nat
  BY DEF Good, Channel
<1>2. Period(c) \in Nat \ {0}
  BY <1>1, PeriodPositive
<1>3. [c EXCEPT !.timer = Period(c)].timer = Period(c)
  BY <1>1 DEF Channel
<1>4. Good([c EXCEPT !.timer = Period(c)])
  BY <1>2, TimerGood
<1> QED BY <1>1, <1>2, <1>3, <1>4 DEF Loaded

-----------------------------------------------------------------------------
(***************************************************************************)
(* The two ways to sum a sample, as sequences of states.                   *)
(***************************************************************************)
Sums == [channel : Channel, cycles : Nat, sum : Int]
Hearings == [channel : Channel, sum : Int]

\* What a run or a cycle keeps.
LEMMA OutputInteger ==
  ASSUME voice \in Psg, NEW c \in Channel
  PROVE  Output(c) \in Int
<1>1. c.envelope.volume \in Int
  BY Parameters DEF Channel
<1> QED BY <1>1 DEF Output, Volume, Psg, Enveloped, Squares

LEMMA RunGood ==
  ASSUME voice \in Psg, NEW r \in Sums, Good(r.channel), r.channel.timer > 0, r.cycles > 0
  PROVE  /\ OutputRun(r) \in Sums /\ Good(OutputRun(r).channel) /\ OutputRun(r).channel.timer > 0
         /\ OutputRun(r).cycles < r.cycles
<1> DEFINE c == r.channel
           n == r.cycles
           run == RunLength(c, n)
           left == c.timer - run
<1>1. c \in Channel /\ n \in Nat /\ n > 0 /\ c.timer \in Nat /\ c.timer > 0 /\ r.sum \in Int
  BY DEF Sums, Channel
<1>2. run \in Nat /\ run > 0 /\ run <= n /\ left \in Nat
  BY <1>1 DEF RunLength
<1>3. Good(Ticked(c, left)) /\ Ticked(c, left).timer > 0
  BY <1>2, MovedGood
<1>4. r.sum + Output(c) * run \in Int
  <2>1. Output(c) \in Int
    BY <1>1, OutputInteger
  <2> HIDE DEF c, run
  <2> QED BY <1>1, <1>2, <2>1
<1>5. OutputRun(r) = [channel |-> Ticked(c, left), cycles |-> n - run, sum |-> r.sum + Output(c) * run]
  BY DEF OutputRun
<1> DEFINE d == Ticked(c, left)
           total == r.sum + Output(c) * run
<1>6. d \in Channel /\ Good(d) /\ d.timer > 0 /\ total \in Int /\ OutputRun(r) = [channel |-> d, cycles |-> n - run, sum |-> total]
  BY <1>3, <1>4, <1>5 DEF Good
<1> HIDE DEF c, run, left, d, total
<1> QED BY <1>1, <1>2, <1>6 DEF Sums

\* One more run, while there are cycles left.
RunOn(r) == IF r.cycles = 0 THEN r ELSE OutputRun(r)

Ready == {r \in Sums : Good(r.channel) /\ r.channel.timer > 0}

LEMMA RunOnReady ==
  ASSUME voice \in Psg, NEW r \in Ready
  PROVE  RunOn(r) \in Ready
  BY RunGood DEF RunOn, Ready, Sums

LEMMA IntegrateRuns ==
  ASSUME voice \in Psg, NEW c, Good(c), c.timer > 0, NEW cycles \in Nat
  PROVE  \E after \in [0 .. cycles -> Ready] :
            /\ Integrate(c, cycles) = after[cycles]
            /\ after[0] = [channel |-> c, cycles |-> cycles, sum |-> 0]
            /\ \A k \in 0 .. cycles - 1 : after[k + 1] = RunOn(after[k])
<1> DEFINE start == [channel |-> c, cycles |-> cycles, sum |-> 0]
           step_ == [p \in (1 .. cycles) \X Ready |-> RunOn(p[2])]
           body(a, k) == IF k = 0 THEN start
                         ELSE LET r == a[k - 1] IN IF r.cycles = 0 THEN r ELSE OutputRun(r)
           after == CHOOSE a : a = [k \in 0 .. cycles |-> body(a, k)]
<1>1. start \in Ready
  BY DEF Ready, Sums, Good
<1>2. step_ \in [(1 .. cycles) \X Ready -> Ready]
  BY RunOnReady
<1>3. PICK h \in [0 .. cycles -> Ready] : Follows(h, start, step_, cycles)
  <2> HIDE DEF start, step_
  <2> QED BY <1>1, <1>2, Recursion
<1>4. h[0] = start /\ \A k \in 0 .. cycles - 1 : h[k + 1] = RunOn(h[k])
  <2>1. \A k \in 0 .. cycles - 1 : h[k] \in Ready /\ <<k + 1, h[k]>> \in (1 .. cycles) \X Ready
    OBVIOUS
  <2> HIDE DEF start
  <2> QED BY <1>3, <2>1 DEF Follows
<1>5. h = [k \in 0 .. cycles |-> body(h, k)]
  <2>1. ASSUME NEW k \in 0 .. cycles PROVE h[k] = body(h, k)
    <3>1. CASE k = 0
      BY <1>4, <3>1
    <3>2. CASE k # 0
      <4>1. k - 1 \in 0 .. cycles - 1 /\ (k - 1) + 1 = k
        BY <3>2
      <4>2. h[k] = RunOn(h[k - 1])
        BY <1>4, <4>1
      <4> QED BY <3>2, <4>2 DEF RunOn
    <3> QED BY <3>1, <3>2
  <2> HIDE DEF body
  <2> QED BY <2>1
<1>6. after = [k \in 0 .. cycles |-> body(after, k)]
  <2> HIDE DEF body
  <2> QED BY <1>5
<1>7. Integrate(c, cycles) = after[cycles]
  BY DEF Integrate
<1>8. \A k \in 0 .. cycles : after[k] = body(after, k)
  <2> HIDE DEF after, body
  <2> QED BY <1>6
<1> HIDE DEF after
<1>9. after[0] = start
  BY <1>8
<1>10. ASSUME NEW k \in 0 .. cycles - 1 PROVE after[k + 1] = RunOn(after[k])
  <2>1. k + 1 \in 0 .. cycles /\ k + 1 # 0 /\ (k + 1) - 1 = k
    OBVIOUS
  <2> QED BY <1>8, <2>1 DEF RunOn
<1>11. after \in [0 .. cycles -> Ready]
  <2> DEFINE T == {k \in 0 .. cycles : after[k] \in Ready}
  <2>1. 0 \in T
    BY <1>1, <1>9
  <2>2. \A k \in 0 .. cycles - 1 : k \in T => k + 1 \in T
    BY <1>10, RunOnReady
  <2> HIDE DEF T
  <2>3. 0 .. cycles \subseteq T
    BY <2>1, <2>2, UpToInduct
  <2>4. after = [k \in 0 .. cycles |-> after[k]]
    <3> HIDE DEF body
    <3> QED BY <1>6
  <2> QED BY <2>3, <2>4 DEF T
<1> QED BY <1>7, <1>9, <1>10, <1>11

\* A listener's next cycle.
Listening == {r \in Hearings : Good(r.channel)}

LEMMA CycleGood ==
  ASSUME voice \in Psg, NEW r \in Listening
  PROVE  Cycle(r) \in Listening /\ Cycle(r).channel.timer > 0
<1> DEFINE c == Loaded(r.channel)
<1>1. Good(r.channel) /\ r.sum \in Int
  BY DEF Listening, Hearings
<1>2. Good(c) /\ c.timer > 0 /\ c \in Channel /\ c.timer \in Nat
  <2>1. Good(c) /\ c.timer > 0
    BY <1>1, LoadedGood
  <2> HIDE DEF c
  <2> QED BY <2>1 DEF Good, Channel
<1> HIDE DEF c
<1> DEFINE d == Ticked(c, c.timer - 1)
           total == r.sum + Output(c)
<1>3. Good(d) /\ d.timer > 0 /\ d \in Channel
  <2>1. c.timer - 1 \in Nat
    BY <1>2
  <2>2. Good(d) /\ d.timer > 0
    BY <1>2, <2>1, MovedGood
  <2> QED BY <2>2 DEF Good
<1>4. total \in Int
  BY <1>1, <1>2, OutputInteger
<1>5. Cycle(r) = [channel |-> d, sum |-> total]
  BY DEF Cycle, c
<1> HIDE DEF d, total
<1> QED BY <1>3, <1>4, <1>5 DEF Listening, Hearings

LEMMA ListenedCycles ==
  ASSUME voice \in Psg, NEW c, Good(c)
  PROVE  \E after \in [0 .. SampleCycles -> Listening] :
            /\ Listened(c) = after[SampleCycles]
            /\ after[0] = [channel |-> c, sum |-> 0]
            /\ \A k \in 0 .. SampleCycles - 1 : after[k + 1] = Cycle(after[k])
<1> DEFINE start == [channel |-> c, sum |-> 0]
           step_ == [p \in (1 .. SampleCycles) \X Listening |-> Cycle(p[2])]
           body(a, k) == IF k = 0 THEN start ELSE Cycle(a[k - 1])
           after == CHOOSE a : a = [n \in 0 .. SampleCycles |-> body(a, n)]
<1>1. start \in Listening
  BY DEF Listening, Hearings, Good
<1>2. step_ \in [(1 .. SampleCycles) \X Listening -> Listening]
  BY CycleGood
<1>3. SampleCycles \in Nat
  BY Parameters
<1>4. PICK h \in [0 .. SampleCycles -> Listening] : Follows(h, start, step_, SampleCycles)
  <2> HIDE DEF start, step_
  <2> QED BY <1>1, <1>2, <1>3, Recursion
<1>5. h[0] = start /\ \A k \in 0 .. SampleCycles - 1 : h[k + 1] = Cycle(h[k])
  <2>1. \A k \in 0 .. SampleCycles - 1 : h[k] \in Listening /\ <<k + 1, h[k]>> \in (1 .. SampleCycles) \X Listening
    BY <1>3
  <2> HIDE DEF start
  <2> QED BY <1>4, <2>1 DEF Follows
<1>6. h = [n \in 0 .. SampleCycles |-> body(h, n)]
  <2>1. ASSUME NEW k \in 0 .. SampleCycles PROVE h[k] = body(h, k)
    <3>1. CASE k = 0
      BY <1>5, <3>1
    <3>2. CASE k # 0
      <4>1. k - 1 \in 0 .. SampleCycles - 1 /\ (k - 1) + 1 = k
        BY <1>3, <3>2
      <4>2. h[k] = Cycle(h[k - 1])
        BY <1>5, <4>1
      <4> QED BY <3>2, <4>2
    <3> QED BY <3>1, <3>2
  <2> HIDE DEF body
  <2> QED BY <2>1
<1>7. after = [n \in 0 .. SampleCycles |-> body(after, n)]
  <2> HIDE DEF body
  <2> QED BY <1>6
<1>8. Listened(c) = after[SampleCycles]
  BY DEF Listened
<1>9. \A k \in 0 .. SampleCycles : after[k] = body(after, k)
  <2> HIDE DEF after, body
  <2> QED BY <1>7
<1> HIDE DEF after
<1>10. after[0] = start
  BY <1>3, <1>9
<1>11. ASSUME NEW k \in 0 .. SampleCycles - 1 PROVE after[k + 1] = Cycle(after[k])
  <2>1. k + 1 \in 0 .. SampleCycles /\ k + 1 # 0 /\ (k + 1) - 1 = k
    BY <1>3
  <2> QED BY <1>9, <2>1
<1>12. after \in [0 .. SampleCycles -> Listening]
  <2> DEFINE T == {k \in 0 .. SampleCycles : after[k] \in Listening}
  <2>1. 0 \in T
    BY <1>1, <1>3, <1>10
  <2>2. \A k \in 0 .. SampleCycles - 1 : k \in T => k + 1 \in T
    BY <1>3, <1>11, CycleGood
  <2> HIDE DEF T
  <2>3. 0 .. SampleCycles \subseteq T
    BY <1>3, <2>1, <2>2, UpToInduct
  <2>4. after = [k \in 0 .. SampleCycles |-> after[k]]
    <3> HIDE DEF body
    <3> QED BY <1>7
  <2> QED BY <2>3, <2>4 DEF T
<1> QED BY <1>8, <1>10, <1>11, <1>12

-----------------------------------------------------------------------------
\* A run goes through the cycles it stands for.
LEMMA OutputTimeless ==
  ASSUME voice \in Psg, NEW c \in Channel, NEW t \in Nat
  PROVE  /\ Output([c EXCEPT !.timer = t]) = Output(c)
         /\ Ticked([c EXCEPT !.timer = t], 0) = Ticked(c, 0)
         /\ \A u \in Nat \ {0} : Ticked([c EXCEPT !.timer = t], u) = Ticked(c, u)
<1> DEFINE d == [c EXCEPT !.timer = t]
<1>1. d \in Channel
  BY DEF Channel
<1>2. /\ d.enabled = c.enabled /\ d.envelope = c.envelope /\ d.place = c.place /\ d.lfsr = c.lfsr
      /\ d.two_banks = c.two_banks /\ d.bank = c.bank /\ d.narrow = c.narrow
      /\ d.frequency = c.frequency /\ d.noise_period = c.noise_period
  BY DEF Channel
<1>3. Output(d) = Output(c)
  <2> HIDE DEF d
  <2> QED BY <1>2 DEF Output, Volume, WaveHigh, Psg, Enveloped, Squares
<1>4. Period(d) = Period(c) /\ LfsrNext(d) = LfsrNext(c)
  <2> HIDE DEF d
  <2> QED BY <1>2 DEF Period, LfsrNext, Psg, Enveloped, Squares
<1>5. ASSUME NEW u \in Nat PROVE [d EXCEPT !.timer = u] = [c EXCEPT !.timer = u]
  BY DEF Channel
<1>6. ASSUME NEW u \in Nat PROVE [Advanced(d) EXCEPT !.timer = u] = [Advanced(c) EXCEPT !.timer = u]
  <2>1. ASSUME NEW v PROVE [[d EXCEPT !.place = v] EXCEPT !.timer = u] = [[c EXCEPT !.place = v] EXCEPT !.timer = u]
    BY DEF Channel
  <2>2. ASSUME NEW v PROVE [[d EXCEPT !.lfsr = v] EXCEPT !.timer = u] = [[c EXCEPT !.lfsr = v] EXCEPT !.timer = u]
    BY DEF Channel
  <2> HIDE DEF d
  <2>3. CASE voice = "noise"
    <3>1. Advanced(d) = [d EXCEPT !.lfsr = LfsrNext(c)] /\ Advanced(c) = [c EXCEPT !.lfsr = LfsrNext(c)]
      BY <1>4, <2>3 DEF Advanced, Squares
    <3> QED BY <2>2, <3>1
  <2>4. CASE voice # "noise"
    <3> DEFINE v == IF voice \in Squares THEN (c.place + 1) % DutySteps
                    ELSE (c.place + 1) % (IF c.two_banks THEN 2 * WaveSteps ELSE WaveSteps)
    <3>1. Advanced(d) = [d EXCEPT !.place = v] /\ Advanced(c) = [c EXCEPT !.place = v]
      BY <1>2, <2>4 DEF Advanced, Psg, Enveloped, Squares
    <3> HIDE DEF v
    <3> QED BY <2>1, <3>1
  <2> QED BY <2>3, <2>4
<1>7. Period(c) \in Nat
  BY PeriodPositive
<1>8. Ticked(d, 0) = Ticked(c, 0)
  <2> HIDE DEF d
  <2> QED BY <1>4, <1>6, <1>7 DEF Ticked
<1>9. \A u \in Nat \ {0} : Ticked(d, u) = Ticked(c, u)
  <2> HIDE DEF d
  <2> QED BY <1>5 DEF Ticked
<1> QED BY <1>3, <1>8, <1>9

\* A run that has come as far as a listener, and the listener ready to go on.
Together(r, l) == r.channel = Loaded(l.channel) /\ r.sum = l.sum

LEMMA RunIsCycles ==
  ASSUME voice \in Psg, NEW a \in [0 .. SampleCycles -> Listening],
         \A k \in 0 .. SampleCycles - 1 : a[k + 1] = Cycle(a[k]),
         NEW r \in Ready, r.cycles > 0, r.cycles <= SampleCycles,
         Together(r, a[SampleCycles - r.cycles])
  PROVE  Together(OutputRun(r), a[SampleCycles - OutputRun(r).cycles])
<1> DEFINE c == r.channel
           t == c.timer
           n == SampleCycles - r.cycles
           run == RunLength(c, r.cycles)
           out == Output(c)
           Here(j) == /\ a[n + j].sum = r.sum + out * j
                      /\ IF j < t THEN Loaded(a[n + j].channel) = [c EXCEPT !.timer = t - j]
                                  ELSE a[n + j].channel = Ticked(c, 0)
           T == {j \in 0 .. run : Here(j)}
<1>1. c \in Channel /\ Good(c) /\ t \in Nat /\ t > 0 /\ r.sum \in Int /\ out \in Int
      /\ r.cycles \in Nat /\ n \in Nat /\ n + r.cycles = SampleCycles
  <2>1. c \in Channel /\ Good(c) /\ t \in Nat /\ t > 0 /\ r.sum \in Int /\ r.cycles \in Nat
    BY DEF Ready, Sums, Channel
  <2> QED BY <2>1, OutputInteger, Parameters
<1>2. run \in Nat /\ run > 0 /\ run <= r.cycles /\ run <= t
  BY <1>1 DEF RunLength
<1>3. 0 \in T
  <2>1. [c EXCEPT !.timer = t - 0] = c
    BY <1>1, SMTT(30) DEF Channel
  <2>2. a[n].sum = r.sum /\ Loaded(a[n].channel) = c /\ out * 0 = 0 /\ n + 0 = n
    BY <1>1 DEF Together
  <2>3. Here(0)
    <3> HIDE DEF c, n, t, out
    <3> QED BY <1>1, <2>1, <2>2
  <2> HIDE DEF Here, run
  <2> QED BY <1>2, <2>3
<1>4. ASSUME NEW j \in 0 .. run - 1, j \in T PROVE j + 1 \in T
  <2> DEFINE l == a[n + j]
             d == Loaded(l.channel)
             left == t - (j + 1)
  <2>1. Here(j) /\ j < t /\ n + j \in 0 .. SampleCycles - 1 /\ j \in Nat /\ left \in Nat
        /\ n + (j + 1) = (n + j) + 1
    <3> HIDE DEF Here, c, t, n, run
    <3> QED BY <1>1, <1>2, <1>4
  <2>2. d = [c EXCEPT !.timer = t - j] /\ l.sum = r.sum + out * j
    <3> HIDE DEF c, t, n, out
    <3> QED BY <2>1
  <2>3. d.timer - 1 = left
    <3> HIDE DEF d
    <3>1. d.timer = t - j
      BY <1>1, <2>2 DEF Channel
    <3> HIDE DEF t
    <3> QED BY <1>1, <2>1, <3>1
  <2>4. Output(d) = out /\ Ticked(d, left) = Ticked(c, left)
    <3>1. t - j \in Nat
      <4> HIDE DEF t
      <4> QED BY <1>1, <2>1, SMTT(30)
    <3>2. \A k \in Nat : /\ Output([c EXCEPT !.timer = k]) = out
                         /\ Ticked([c EXCEPT !.timer = k], 0) = Ticked(c, 0)
                         /\ \A u \in Nat \ {0} : Ticked([c EXCEPT !.timer = k], u) = Ticked(c, u)
      <4> HIDE DEF c
      <4> QED BY <1>1, OutputTimeless DEF out
    <3> HIDE DEF d, t, c, out, left
    <3>3. left = 0 \/ left \in Nat \ {0}
      BY <2>1
    <3> QED BY <2>2, <3>1, <3>2, <3>3
  <2>5. a[n + (j + 1)] = Cycle(l)
    <3> HIDE DEF n
    <3> QED BY <2>1
  <2>6. Cycle(l) = [channel |-> Ticked(d, d.timer - 1), sum |-> l.sum + Output(d)]
    BY DEF Cycle
  <2>7. a[n + (j + 1)].channel = Ticked(c, left) /\ a[n + (j + 1)].sum = l.sum + out
    <3> HIDE DEF n, l, d, left, c, out
    <3> QED BY <2>3, <2>4, <2>5, <2>6
  <2>8. l.sum + out = r.sum + out * (j + 1)
    <3> HIDE DEF l, c, out, t, n
    <3>1. out * (j + 1) = out * j + out /\ out * j \in Int
      BY <1>1, <2>1, NextProduct
    <3> DEFINE p == out * j
               q == out * (j + 1)
    <3>2. l.sum = r.sum + p /\ q = p + out /\ p \in Int
      BY <2>2, <3>1
    <3> HIDE DEF p, q
    <3>3. l.sum + out = r.sum + q
      BY <1>1, <3>2
    <3> QED BY <3>3 DEF q
  <2>9. CASE j + 1 < t
    <3>1. left # 0 /\ left > 0 /\ left = t - (j + 1)
      <4> HIDE DEF t
      <4> QED BY <1>1, <2>1, <2>9
    <3>2. Ticked(c, left) = [c EXCEPT !.timer = left]
      BY <3>1 DEF Ticked
    <3>3. Good(Ticked(c, left)) /\ Ticked(c, left).timer > 0
      <4> HIDE DEF c, left
      <4> QED BY <1>1, <2>1, MovedGood
    <3>4. Loaded(Ticked(c, left)) = Ticked(c, left)
      <4> HIDE DEF c, left
      <4> QED BY <3>3, LoadedGood
    <3>5. Here(j + 1)
      <4> HIDE DEF c, left, l, d, n, out, t
      <4> QED BY <2>7, <2>8, <2>9, <3>1, <3>2, <3>4
    <3> HIDE DEF Here, run
    <3> QED BY <1>2, <1>4, <3>5
  <2>10. CASE ~(j + 1 < t)
    <3>1. left = 0
      <4> HIDE DEF t
      <4> QED BY <1>1, <2>1, <2>10
    <3>2. Here(j + 1)
      <4> HIDE DEF c, left, l, d, n, out, t
      <4> QED BY <2>7, <2>8, <2>10, <3>1
    <3> HIDE DEF Here, run
    <3> QED BY <1>2, <1>4, <3>2
  <2> QED BY <2>9, <2>10
<1>5. Here(run)
  <2> HIDE DEF T, Here, run
  <2>1. 0 .. run \subseteq T
    BY <1>2, <1>3, <1>4, UpToInduct
  <2>2. run \in T
    BY <1>2, <2>1
  <2> QED BY <2>2 DEF T
<1>6. OutputRun(r).channel = Ticked(c, t - run) /\ OutputRun(r).cycles = r.cycles - run
      /\ OutputRun(r).sum = r.sum + out * run
  BY DEF OutputRun
<1>7. SampleCycles - OutputRun(r).cycles = n + run
  <2> HIDE DEF run, c
  <2> QED BY <1>1, <1>2, <1>6, Parameters
<1>8. OutputRun(r).channel = Loaded(a[n + run].channel)
  <2>1. t - run \in Nat
    <3> HIDE DEF t, run
    <3> QED BY <1>1, <1>2
  <2>2. Good(Ticked(c, t - run)) /\ Ticked(c, t - run).timer > 0
    <3> HIDE DEF c, t, run
    <3> QED BY <1>1, <2>1, MovedGood
  <2>3. Loaded(Ticked(c, t - run)) = Ticked(c, t - run)
    <3> HIDE DEF c, t, run
    <3> QED BY <2>2, LoadedGood
  <2>4. CASE run < t
    <3>1. Loaded(a[n + run].channel) = [c EXCEPT !.timer = t - run]
      <4> HIDE DEF c, t, n, run, out
      <4> QED BY <1>5, <2>4
    <3>2. t - run # 0
      <4> HIDE DEF t, run
      <4> QED BY <1>1, <1>2, <2>4
    <3> HIDE DEF c, t, n, run, out
    <3> QED BY <1>6, <3>1, <3>2 DEF Ticked
  <2>5. CASE ~(run < t)
    <3>1. a[n + run].channel = Ticked(c, 0)
      <4> HIDE DEF c, t, n, run, out
      <4> QED BY <1>5, <2>5
    <3>2. t - run = 0
      <4> HIDE DEF t, run
      <4> QED BY <1>1, <1>2, <2>5
    <3> HIDE DEF c, t, n, run, out
    <3> QED BY <1>6, <2>3, <3>1, <3>2
  <2> QED BY <2>4, <2>5
<1>9. OutputRun(r).sum = a[n + run].sum
  <2> HIDE DEF c, t, n, run, out
  <2> QED BY <1>5, <1>6
<1> HIDE DEF c, t, n, run, out
<1> QED BY <1>7, <1>8, <1>9 DEF Together

\* A whole sample.
LEMMA SumsAgree ==
  ASSUME voice \in Psg, NEW c, Good(c)
  PROVE  /\ Sampled(c).channel = Listened(c).channel /\ Sampled(c).sum = Listened(c).sum
         /\ Good(Sampled(c).channel)
<1> DEFINE N == SampleCycles
           d == Loaded(c)
<1>1. N \in Nat /\ N > 0
  BY Parameters
<1>2. Good(d) /\ d.timer > 0
  BY LoadedGood
<1>3. PICK a \in [0 .. N -> Listening] :
         /\ Listened(c) = a[N] /\ a[0] = [channel |-> c, sum |-> 0]
         /\ \A k \in 0 .. N - 1 : a[k + 1] = Cycle(a[k])
  BY ListenedCycles
<1>4. PICK b \in [0 .. N -> Ready] :
         /\ Integrate(d, N) = b[N] /\ b[0] = [channel |-> d, cycles |-> N, sum |-> 0]
         /\ \A k \in 0 .. N - 1 : b[k + 1] = RunOn(b[k])
  <2> HIDE DEF d
  <2> QED BY <1>1, <1>2, IntegrateRuns
<1> DEFINE Done(k) == /\ b[k].cycles <= N - k \/ b[k].cycles = 0
                      /\ b[k].cycles <= N
                      /\ Together(b[k], a[N - b[k].cycles])
           T == {k \in 0 .. N : Done(k)}
<1>5. 0 \in T
  <2>1. b[0].cycles = N /\ b[0].channel = d /\ b[0].sum = 0 /\ N - N = 0
    BY <1>1, <1>4
  <2>2. Together(b[0], a[0])
    BY <1>3, <2>1 DEF Together
  <2> HIDE DEF N
  <2> QED BY <1>1, <2>1, <2>2
<1>6. ASSUME NEW k \in 0 .. N - 1, k \in T PROVE k + 1 \in T
  <2>1. Done(k) /\ b[k] \in Ready /\ b[k].cycles \in Nat /\ b[k + 1] = RunOn(b[k]) /\ k + 1 \in 0 .. N
    <3>1. b[k] \in Ready /\ k + 1 \in 0 .. N
      BY <1>1
    <3> HIDE DEF N, Done
    <3> QED BY <1>4, <1>6, <3>1 DEF Ready, Sums
  <2>2. CASE b[k].cycles = 0
    <3>1. b[k + 1] = b[k]
      BY <2>1, <2>2 DEF RunOn
    <3> HIDE DEF N
    <3> QED BY <2>1, <2>2, <3>1
  <2>3. CASE b[k].cycles # 0
    <3>1. b[k + 1] = OutputRun(b[k]) /\ b[k].cycles > 0
      BY <2>1, <2>3 DEF RunOn
    <3>2. Together(OutputRun(b[k]), a[N - OutputRun(b[k]).cycles])
      BY <1>3, <2>1, <3>1, RunIsCycles
    <3>3. OutputRun(b[k]).cycles < b[k].cycles /\ OutputRun(b[k]).cycles \in Nat
      <4>1. OutputRun(b[k]) \in Sums /\ OutputRun(b[k]).cycles < b[k].cycles
        BY <2>1, <3>1, RunGood DEF Ready
      <4> QED BY <4>1 DEF Sums
    <3>4. Done(k + 1)
      <4> HIDE DEF N
      <4> QED BY <1>1, <2>1, <2>3, <3>1, <3>2, <3>3
    <3> HIDE DEF N, Done
    <3> QED BY <2>1, <3>4
  <2> QED BY <2>2, <2>3
<1>7. Done(N)
  <2> HIDE DEF T, Done, N
  <2>1. 0 .. N \subseteq T
    BY <1>1, <1>5, <1>6, UpToInduct
  <2>2. N \in T
    BY <1>1, <2>1
  <2> QED BY <2>2 DEF T
<1>8. b[N] \in Ready /\ b[N].cycles \in Nat /\ Good(b[N].channel)
  <2>1. b[N] \in Ready
    BY <1>1
  <2> HIDE DEF N
  <2> QED BY <2>1 DEF Ready, Sums
<1>9. Together(b[N], a[N])
  <2>1. b[N].cycles = 0 /\ N - 0 = N
    <3> HIDE DEF N
    <3> QED BY <1>1, <1>7, <1>8
  <2> HIDE DEF N
  <2> QED BY <1>7, <2>1
<1>10. Loaded(a[N].channel) = a[N].channel
  <2>1. N - 1 \in 0 .. N - 1 /\ (N - 1) + 1 = N /\ N - 1 \in 0 .. N
    BY <1>1
  <2>2. a[N] = Cycle(a[N - 1]) /\ a[N - 1] \in Listening
    <3> HIDE DEF N
    <3> QED BY <1>3, <2>1
  <2>3. Cycle(a[N - 1]) \in Listening /\ Cycle(a[N - 1]).channel.timer > 0
    BY <2>2, CycleGood
  <2>4. Good(a[N].channel) /\ a[N].channel.timer > 0
    BY <2>2, <2>3 DEF Listening
  <2> QED BY <2>4, LoadedGood
<1>11. Sampled(c) = b[N]
  BY <1>4 DEF Sampled
<1> HIDE DEF N, d
<1> QED BY <1>3, <1>8, <1>9, <1>10, <1>11 DEF Together

-----------------------------------------------------------------------------
(***************************************************************************)
(* Register writes and the frame sequencer keep a channel good.            *)
(***************************************************************************)

LEMMA StartGood ==
  ASSUME voice \in Psg
  PROVE  Good(Common) /\ ~Common.enabled
<1>1. 0 \in 0 .. FrequencyLimit - 1 /\ 0 \in 0 .. LengthLimit /\ 0 \in 0 .. VolumeLimit
      /\ AllOnes \in 0 .. AllOnes
  BY Parameters, FullRegister
<1>2. Common \in Channel /\ Common.enabled = FALSE
  BY <1>1 DEF Common, Channel, Envelope0, Sweep0
<1> QED BY <1>2 DEF Good

\* Both halves of a frequency.
LEMMA FrequencyHalves ==
  ASSUME NEW f \in 0 .. FrequencyLimit - 1
  PROVE  /\ \A v \in 0 .. LowLimit - 1 : (f \div LowLimit) * LowLimit + v \in 0 .. FrequencyLimit - 1
         /\ \A v \in 0 .. FrequencyLimit \div LowLimit - 1 :
               v * LowLimit + (f % LowLimit) \in 0 .. FrequencyLimit - 1
<1> DEFINE L == LowLimit
           F == FrequencyLimit
           m == F \div L
           q == f \div L
<1>1. L \in Nat \ {0} /\ F \in Nat /\ f \in Nat /\ f < F
  BY Parameters
<1>2. m \in Nat /\ m * L = F
  <2>1. m \in Nat /\ F % L = F - m * L /\ F % L = 0
    BY <1>1, Quotient, ApuAssumption DEF ApuAssumption
  <2>2. m * L \in Nat
    <3> HIDE DEF m, L
    <3> QED BY <1>1, <2>1
  <2> HIDE DEF m, L, F
  <2> QED BY <1>1, <2>1, <2>2
<1>3. q \in Nat /\ q * L <= f /\ q < m
  <2>1. q \in Nat /\ q * L <= f
    BY <1>1, Quotient
  <2>2. q * L < m * L
    <3>1. q * L \in Nat
      <4> HIDE DEF q, L
      <4> QED BY <1>1, <2>1
    <3> HIDE DEF q, L, m, F
    <3> QED BY <1>1, <1>2, <2>1, <3>1
  <2>3. q < m
    <3> HIDE DEF q, L, m, F
    <3> QED BY <1>1, <1>2, <2>1, <2>2, Cancellation
  <2> QED BY <2>1, <2>3
<1>4. ASSUME NEW v \in Nat, v < m, NEW u \in 0 .. L - 1 PROVE v * L + u \in 0 .. F - 1
  <2>1. (v + 1) * L <= m * L /\ (v + 1) * L = v * L + L /\ v * L \in Nat
    <3> HIDE DEF L, m, F
    <3> QED BY <1>1, <1>2, <1>4, Monotone, Successor
  <2> HIDE DEF L, m, F
  <2> QED BY <1>1, <1>2, <1>4, <2>1
<1>5. \A v \in 0 .. L - 1 : q * L + v \in 0 .. F - 1
  <2> HIDE DEF L, F, m, q
  <2> QED BY <1>3, <1>4
<1>6. f % L \in 0 .. L - 1
  BY <1>1, Modulo
<1>7. \A v \in 0 .. m - 1 : v * L + (f % L) \in 0 .. F - 1
  <2> DEFINE u == f % L
  <2> HIDE DEF L, F, m, u
  <2> QED BY <1>2, <1>4, <1>6 DEF u
<1> QED BY <1>5, <1>7

\* Writing fields that say nothing about whether a channel plays.
LEMMA FrequencyGood ==
  ASSUME NEW c, Good(c), NEW f \in 0 .. FrequencyLimit - 1, NEW on \in BOOLEAN
  PROVE  /\ Good([c EXCEPT !.frequency = f])
         /\ Good([c EXCEPT !.frequency = f, !.length_enable = on])
         /\ Good([c EXCEPT !.length_enable = on])
<1>1. c \in Channel
  BY DEF Good
<1> DEFINE d == [c EXCEPT !.frequency = f]
           e == [c EXCEPT !.frequency = f, !.length_enable = on]
           g == [c EXCEPT !.length_enable = on]
           Same(x) == x \in Channel /\ x.enabled = c.enabled /\ x.dac = c.dac /\ x.length = c.length
                      /\ x.lfsr = c.lfsr /\ x.narrow = c.narrow
<1>2. Same(d) /\ Same(e) /\ Same(g)
  BY <1>1 DEF Channel
<1> HIDE DEF d, e, g
<1>3. Good(d) /\ Good(e) /\ Good(g)
  BY <1>2 DEF Good, Alive
<1> QED BY <1>3 DEF d, e, g

LEMMA LowHighGood ==
  ASSUME NEW c, Good(c)
  PROVE  /\ \A v \in 0 .. LowLimit - 1 : Good(Low(c, v))
         /\ \A v \in 0 .. FrequencyLimit \div LowLimit - 1, on \in BOOLEAN : Good(High(c, v, on))
<1>1. c.frequency \in 0 .. FrequencyLimit - 1
  BY DEF Good, Channel
<1>2. ASSUME NEW v \in 0 .. LowLimit - 1 PROVE Good(Low(c, v))
  <2>1. (c.frequency \div LowLimit) * LowLimit + v \in 0 .. FrequencyLimit - 1
    BY <1>1, FrequencyHalves
  <2> QED BY <2>1, FrequencyGood DEF Low
<1>3. ASSUME NEW v \in 0 .. FrequencyLimit \div LowLimit - 1, NEW on \in BOOLEAN PROVE Good(High(c, v, on))
  <2>1. v * LowLimit + (c.frequency % LowLimit) \in 0 .. FrequencyLimit - 1
    BY <1>1, FrequencyHalves
  <2> QED BY <2>1, FrequencyGood DEF High
<1> QED BY <1>2, <1>3

\* Where a sweep goes.
LEMMA SweepGood ==
  ASSUME NEW c, Good(c)
  PROVE  /\ Good(SweepTarget(c).channel) /\ SweepTarget(c).target \in Nat
         /\ SweepTarget(c).channel \in {c, [c EXCEPT !.enabled = FALSE]}
<1>1. c \in Channel /\ c.shadow \in Nat /\ c.sweep.divisor \in Nat \ {0} /\ c.sweep.negate \in BOOLEAN
  BY DEF Good, Channel
<1> DEFINE delta == c.shadow \div c.sweep.divisor
           d == [c EXCEPT !.enabled = FALSE]
<1>2. delta \in Nat /\ delta <= c.shadow
  <2> DEFINE s == c.shadow
             v == c.sweep.divisor
  <2>1. s \in Nat /\ v \in Nat \ {0}
    BY <1>1
  <2> HIDE DEF s, v
  <2>2. s \div v \in Nat /\ (s \div v) * v <= s
    BY <2>1, Quotient
  <2> DEFINE w == s \div v
  <2> HIDE DEF w
  <2>3. w <= w * v
    BY <2>1, <2>2 DEF w
  <2>4. w \in Nat /\ w * v \in Nat /\ w * v <= s
    BY <2>1, <2>2 DEF w
  <2>5. w <= s
    BY <2>1, <2>3, <2>4
  <2> QED BY <2>4, <2>5 DEF w, s, v
<1>3. Good(d)
  <2>1. d \in Channel /\ d.enabled = FALSE
    BY <1>1 DEF Channel
  <2> HIDE DEF d
  <2> QED BY <2>1 DEF Good
<1>4. SweepTarget(c).target = IF c.sweep.negate THEN c.shadow - delta ELSE c.shadow + delta
  BY DEF SweepTarget
<1>5. SweepTarget(c).channel \in {c, d}
  BY DEF SweepTarget
<1> HIDE DEF delta, d
<1>6. SweepTarget(c).target \in Nat
  BY <1>1, <1>2, <1>4
<1> QED BY <1>3, <1>5, <1>6 DEF d

LEMMA SweptGood ==
  ASSUME NEW c, Good(c)
  PROVE  Good(Swept(c))
<1> DEFINE first == SweepTarget(c)
           n == first.target
           e == first.channel
           d == [e EXCEPT !.shadow = n, !.frequency = n]
<1>1. Good(e) /\ n \in Nat
  BY SweepGood
<1> HIDE DEF n, e
<1>2. ASSUME n < FrequencyLimit PROVE Good(d)
  <2>1. n \in 0 .. FrequencyLimit - 1
    BY <1>1, <1>2, Parameters
  <2>2. d \in Channel /\ d.enabled = e.enabled /\ d.dac = e.dac /\ d.length = e.length
        /\ d.lfsr = e.lfsr /\ d.narrow = e.narrow
    BY <1>1, <2>1 DEF Good, Channel
  <2> HIDE DEF d
  <2> QED BY <1>1, <2>2 DEF Good, Alive
<1>3. Swept(c) = IF n < FrequencyLimit /\ c.sweep.divisor # 1 THEN SweepTarget(d).channel ELSE e
  BY DEF Swept, n, e
<1> HIDE DEF d
<1> QED BY <1>1, <1>2, <1>3, SweepGood

LEMMA TriggeredGood ==
  ASSUME voice \in Psg, NEW c, Good(c)
  PROVE  Good(Triggered(c))
<1>1. c \in Channel /\ c.length \in 0 .. LengthLimit /\ c.dac \in BOOLEAN
  BY DEF Good, Channel
<1>2. Period(c) \in Nat
  BY <1>1, PeriodPositive
<1> DEFINE length == IF c.length = 0 THEN LengthLimit ELSE c.length
           period == Period(c)
           d == Started(c)
           e == IF IsVoice(Enveloped)
                THEN [d EXCEPT !.envelope.volume = d.envelope.initial,
                               !.envelope.timer = d.envelope.period]
                ELSE d
           Going(x) == x \in Channel /\ (x.enabled => x.dac /\ x.length > 0)
<1>3. length \in 0 .. LengthLimit /\ length > 0
  BY <1>1, Parameters
<1>4. d = [c EXCEPT !.enabled = c.dac, !.length = length, !.timer = period]
  BY DEF Started
<1> HIDE DEF length, period, d
<1>5. Going(d)
  BY <1>1, <1>2, <1>3, <1>4 DEF Channel, period
<1>6. Going(e)
  BY <1>5 DEF Channel
<1>7. /\ voice = "square1" => Triggered(c) = SweepTriggered(e)
      /\ voice = "square2" => Triggered(c) = e
      /\ voice = "wave" => Triggered(c) = [e EXCEPT !.place = 0]
      /\ voice = "noise" => Triggered(c) = [e EXCEPT !.lfsr = AllOnes]
  <2>1. Triggered(c) = CASE IsVoice({"square1"}) -> SweepTriggered(e)
                         [] IsVoice({"square2"}) -> e
                         [] IsVoice({"wave"})    -> [e EXCEPT !.place = 0]
                         [] IsVoice({"noise"})   -> [e EXCEPT !.lfsr = AllOnes]
    BY DEF Triggered, d
  <2> HIDE DEF e
  <2> QED BY <2>1 DEF IsVoice
<1> HIDE DEF e
<1>8. CASE voice = "square1"
  <2> DEFINE f == [e EXCEPT !.shadow = e.frequency, !.sweep_timer = SweepPeriod(e),
                            !.sweep_enabled = e.sweep.period # 0 \/ e.sweep.divisor # 1]
  <2>1. SweepPeriod(e) \in Nat
    BY <1>6, Parameters DEF SweepPeriod, Channel
  <2>2. Going(f)
    BY <1>6, <2>1 DEF Channel
  <2>3. SweepTriggered(e) = IF e.sweep.divisor # 1 THEN SweepTarget(f).channel ELSE f
    BY DEF SweepTriggered
  <2> HIDE DEF f
  <2>4. Good(f)
    BY <1>8, <2>2 DEF Good
  <2> QED BY <1>7, <1>8, <2>3, <2>4, SweepGood
<1>9. CASE voice = "square2"
  BY <1>6, <1>7, <1>9 DEF Good
<1>10. CASE voice = "wave"
  <2> DEFINE f == [e EXCEPT !.place = 0]
  <2>1. Going(f)
    BY <1>6 DEF Channel
  <2> HIDE DEF f
  <2>2. Triggered(c) = f
    BY <1>7, <1>10 DEF f
  <2> QED BY <1>10, <2>1, <2>2 DEF Good
<1>11. CASE voice = "noise"
  <2> DEFINE f == [e EXCEPT !.lfsr = AllOnes]
  <2>1. Going(f) /\ f.lfsr = AllOnes
    BY <1>6, FullRegister DEF Channel
  <2> HIDE DEF f
  <2>2. Triggered(c) = f
    BY <1>7, <1>11 DEF f
  <2> QED BY <2>1, <2>2, FullRegister DEF Good, Alive
<1> QED BY <1>8, <1>9, <1>10, <1>11 DEF Psg, Enveloped, Squares

LEMMA ClockLengthGood ==
  ASSUME NEW c, Good(c)
  PROVE  Good(ClockLength(c))
<1>1. c \in Channel /\ c.length \in 0 .. LengthLimit /\ c.enabled \in BOOLEAN
  BY DEF Good, Channel
<1> DEFINE n == c.length - 1
           on == c.enabled /\ c.length > 1
           d == [c EXCEPT !.length = n, !.enabled = on]
<1>2. CASE c.length_enable /\ c.length > 0
  <2>1. n \in 0 .. LengthLimit /\ on \in BOOLEAN /\ (on => c.enabled /\ n > 0)
    BY <1>1, <1>2, Parameters
  <2> HIDE DEF n, on
  <2>2. d \in Channel /\ d.enabled = on /\ d.dac = c.dac /\ d.length = n /\ d.lfsr = c.lfsr /\ d.narrow = c.narrow
    BY <1>1, <2>1 DEF Channel
  <2> HIDE DEF d
  <2>3. Good(d)
    BY <2>1, <2>2 DEF Good, Alive
  <2>4. ClockLength(c) = d
    BY <1>2 DEF ClockLength, d, n, on
  <2> QED BY <2>3, <2>4
<1>3. CASE ~(c.length_enable /\ c.length > 0)
  BY <1>3 DEF ClockLength
<1> QED BY <1>2, <1>3

LEMMA ClockSweepGood ==
  ASSUME NEW c, Good(c)
  PROVE  Good(ClockSweep(c))
<1>1. c \in Channel /\ c.sweep_timer \in Nat
  BY DEF Good, Channel
<1>2. SweepPeriod(c) \in Nat
  BY <1>1, Parameters DEF SweepPeriod, Channel
<1> DEFINE left == IF c.sweep_timer > 0 THEN c.sweep_timer - 1 ELSE 0
           t == IF left = 0 THEN SweepPeriod(c) ELSE left
           d == [c EXCEPT !.sweep_timer = t]
<1>3. t \in Nat
  BY <1>1, <1>2
<1> HIDE DEF t
<1>4. d \in Channel /\ d.enabled = c.enabled /\ d.dac = c.dac /\ d.length = c.length /\ d.lfsr = c.lfsr
      /\ d.narrow = c.narrow
  BY <1>1, <1>3 DEF Channel
<1> HIDE DEF d
<1>5. Good(d)
  BY <1>4 DEF Good, Alive
<1>6. ClockSweep(c) = IF left = 0 /\ c.sweep_enabled /\ c.sweep.period # 0 THEN Swept(d) ELSE d
  BY DEF ClockSweep, d, t
<1> QED BY <1>5, <1>6, SweptGood

LEMMA ClockEnvelopeGood ==
  ASSUME NEW c, Good(c)
  PROVE  Good(ClockEnvelope(c))
<1>1. c \in Channel /\ c.envelope.volume \in 0 .. VolumeLimit /\ c.envelope.timer \in Nat
      /\ c.envelope.period \in Nat /\ c.envelope.increase \in BOOLEAN
  BY DEF Good, Channel
<1> DEFINE e == c.envelope
           left == IF e.timer > 0 THEN e.timer - 1 ELSE 0
           up == IF e.increase /\ e.volume < VolumeLimit THEN 1
                 ELSE IF ~e.increase /\ e.volume > 0 THEN -1 ELSE 0
           d == [c EXCEPT !.envelope.timer = left]
           f == [c EXCEPT !.envelope.timer = e.period, !.envelope.volume = @ + up]
           Same(x) == x \in Channel /\ x.enabled = c.enabled /\ x.dac = c.dac /\ x.length = c.length
                      /\ x.lfsr = c.lfsr /\ x.narrow = c.narrow
<1>2. left \in Nat
  BY <1>1
<1>3. e.volume + up \in 0 .. VolumeLimit
  BY <1>1, Parameters
<1>4. ClockEnvelope(c) = IF e.period = 0 THEN c ELSE IF left > 0 THEN d ELSE f
  BY DEF ClockEnvelope
<1> HIDE DEF left, up
<1>5. Same(d) /\ Same(f)
  BY <1>1, <1>2, <1>3 DEF Channel
<1> HIDE DEF d, f
<1>6. Good(d) /\ Good(f)
  BY <1>5 DEF Good, Alive
<1> QED BY <1>4, <1>6

LEMMA ClockedGood ==
  ASSUME NEW c, Good(c)
  PROVE  Good(Clocked(c))
<1> DEFINE d == IF step % 2 = 0 THEN ClockLength(c) ELSE c
           e == IF step \in {2, 6} /\ IsVoice({"square1"}) THEN ClockSweep(d) ELSE d
<1>1. Good(d)
  BY ClockLengthGood
<1> HIDE DEF d
<1>2. Good(e)
  BY <1>1, ClockSweepGood
<1> HIDE DEF e
<1>3. Clocked(c) = IF step = 7 /\ IsVoice(Enveloped) THEN ClockEnvelope(e) ELSE e
  BY DEF Clocked, d, e
<1> QED BY <1>2, <1>3, ClockEnvelopeGood

LEMMA EnvelopeGood ==
  ASSUME NEW c, Good(c), NEW e \in Envelopes
  PROVE  Good(LoadEnvelope(c, e))
<1>1. c \in Channel /\ c.enabled \in BOOLEAN
  BY DEF Good, Channel
<1>2. e.initial \in 0 .. VolumeLimit /\ e.increase \in BOOLEAN /\ e.period \in Nat
  BY Settings
<1> DEFINE dac == e.initial # 0 \/ e.increase
           on == c.enabled /\ dac
           d == [c EXCEPT !.envelope.initial = e.initial, !.envelope.increase = e.increase,
                          !.envelope.period = e.period, !.dac = dac, !.enabled = on]
<1>3. dac \in BOOLEAN /\ on \in BOOLEAN /\ (on => c.enabled /\ dac)
  OBVIOUS
<1>4. LoadEnvelope(c, e) = d
  BY DEF LoadEnvelope
<1> HIDE DEF dac, on
<1>5. d \in Channel /\ d.enabled = on /\ d.dac = dac /\ d.length = c.length /\ d.lfsr = c.lfsr /\ d.narrow = c.narrow
  BY <1>1, <1>2, <1>3 DEF Channel
<1> HIDE DEF d
<1> QED BY <1>3, <1>4, <1>5 DEF Good, Alive

\* The writes of single fields.
LEMMA FieldsGood ==
  ASSUME NEW c, Good(c)
  PROVE  /\ \A s \in Sweeps : Good([c EXCEPT !.sweep = s])
         /\ \A n \in Lengths : Good([c EXCEPT !.length = n])
         /\ voice # "noise" => \A two, dac \in BOOLEAN, bank \in 0 .. 1 :
              Good([c EXCEPT !.two_banks = two, !.bank = bank, !.dac = dac, !.enabled = @ /\ dac])
         /\ \A p \in NoisePeriods, narrow \in BOOLEAN :
              WidthSwitches \/ ~c.enabled \/ narrow = c.narrow
                => Good([c EXCEPT !.noise_period = p, !.narrow = narrow])
<1>1. c \in Channel /\ c.enabled \in BOOLEAN
  BY DEF Good, Channel
<1>2. ASSUME NEW s \in Sweeps PROVE Good([c EXCEPT !.sweep = s])
  <2> DEFINE d == [c EXCEPT !.sweep = s]
  <2>1. d \in Channel /\ d.enabled = c.enabled /\ d.dac = c.dac /\ d.length = c.length /\ d.lfsr = c.lfsr
        /\ d.narrow = c.narrow
    BY <1>1, Settings DEF Channel
  <2> HIDE DEF d
  <2>2. Good(d)
    BY <2>1 DEF Good, Alive
  <2> QED BY <2>2 DEF d
<1>3. ASSUME NEW n \in Lengths PROVE Good([c EXCEPT !.length = n])
  <2> DEFINE d == [c EXCEPT !.length = n]
  <2>1. n \in 0 .. LengthLimit /\ n > 0
    BY Settings, Parameters
  <2>2. d \in Channel /\ d.enabled = c.enabled /\ d.dac = c.dac /\ d.length = n /\ d.lfsr = c.lfsr
        /\ d.narrow = c.narrow
    BY <1>1, <2>1 DEF Channel
  <2> HIDE DEF d
  <2>3. Good(d)
    BY <2>1, <2>2 DEF Good, Alive
  <2> QED BY <2>3 DEF d
<1>4. ASSUME voice # "noise", NEW two \in BOOLEAN, NEW dac \in BOOLEAN, NEW bank \in 0 .. 1
      PROVE  Good([c EXCEPT !.two_banks = two, !.bank = bank, !.dac = dac, !.enabled = @ /\ dac])
  <2> DEFINE d == [c EXCEPT !.two_banks = two, !.bank = bank, !.dac = dac, !.enabled = @ /\ dac]
  <2>1. d \in Channel /\ d.enabled = (c.enabled /\ dac) /\ d.dac = dac /\ d.length = c.length
    BY <1>1, ZenonT(60) DEF Channel
  <2> HIDE DEF d
  <2>2. Good(d)
    BY <1>1, <1>4, <2>1 DEF Good
  <2> QED BY <2>2 DEF d
<1>5. ASSUME NEW p \in NoisePeriods, NEW narrow \in BOOLEAN,
             WidthSwitches \/ ~c.enabled \/ narrow = c.narrow
      PROVE  Good([c EXCEPT !.noise_period = p, !.narrow = narrow])
  <2> DEFINE d == [c EXCEPT !.noise_period = p, !.narrow = narrow]
  <2>1. p \in Nat \ {0}
    BY Settings
  <2>2. d \in Channel /\ d.enabled = c.enabled /\ d.dac = c.dac /\ d.length = c.length /\ d.lfsr = c.lfsr
        /\ d.narrow = narrow
    BY <1>1, <2>1 DEF Channel
  <2> HIDE DEF d
  <2>3. Good(d)
    BY <1>5, <2>2 DEF Good, Alive
  <2> QED BY <2>3 DEF d
<1> QED BY <1>2, <1>3, <1>4, <1>5

LEMMA ResetGood ==
  ASSUME voice \in Psg, NEW c \in Channel
  PROVE  Good(ResetPsg(c)) /\ ~ResetPsg(c).enabled
<1>1. Common \in Channel /\ ~Common.enabled /\ c.bank \in 0 .. 1
  BY StartGood DEF Good, Channel
<1> DEFINE d == ResetPsg(c)
<1>2. d = [Common EXCEPT !.bank = c.bank]
  BY DEF ResetPsg
<1> HIDE DEF d
<1>3. d \in Channel /\ d.enabled = Common.enabled
  BY <1>1, <1>2 DEF Channel
<1> QED BY <1>1, <1>3 DEF Good, d

-----------------------------------------------------------------------------
Direct == [current : Int, integral : Int, last_change : Nat]

LEMMA DirectFields ==
  ASSUME NEW c \in Direct
  PROVE  /\ LET d == [c EXCEPT !.integral = 0, !.last_change = 0]
            IN  d \in Direct /\ d.integral = 0 /\ d.last_change = 0
         /\ LET d == [c EXCEPT !.current = 0, !.integral = 0]
            IN  d \in Direct /\ d.current = 0 /\ d.integral = 0 /\ d.last_change = c.last_change
<1> DEFINE y == 0
           z == 0
           d == [c EXCEPT !.integral = y, !.last_change = z]
           e == [c EXCEPT !.current = z, !.integral = y]
<1>1. y \in Int /\ z \in Nat /\ z \in Int
  OBVIOUS
<1> HIDE DEF y, z
<1>2. d \in Direct /\ d.integral = y /\ d.last_change = z
  BY <1>1 DEF Direct
<1>3. e \in Direct /\ e.current = z /\ e.integral = y /\ e.last_change = c.last_change
  BY <1>1 DEF Direct
<1> HIDE DEF d, e
<1> QED BY <1>2, <1>3, Zenon DEF d, e, y, z

\* The parts of the state that say nothing of the voice.
Counters ==
  /\ voice \in Voices /\ master \in BOOLEAN /\ step \in 0 .. 7
  /\ buffered \in 0 .. BufferLimit
  /\ now \in 0 .. SampleCycles /\ writes \in 0 .. MaxWrites

\* The window of a Direct Sound sample: what is integrated, and what is still to be, is what
\* was heard.
Window ==
  /\ ch \in Direct /\ heard \in Int /\ ch.last_change <= now
  /\ ch.integral + ch.current * (now - ch.last_change) = heard

ApuInv ==
  /\ Counters
  /\ voice \in Psg => Good(ch) /\ (ch.enabled => master)
  /\ voice = "direct" => Window

LEMMA InitApuInv == ApuInit => ApuInv
<1> SUFFICES ASSUME ApuInit PROVE ApuInv
  OBVIOUS
<1>1. Counters
  BY Parameters DEF ApuInit, Counters
<1>2. CASE voice \in Psg
  <2>1. ch = Common /\ voice # "direct"
    BY <1>2 DEF ApuInit, Psg, Enveloped, Squares
  <2> QED BY <1>1, <1>2, <2>1, StartGood DEF ApuInv
<1>3. CASE voice = "direct"
  <2>1. ch = Direct0 /\ now = 0 /\ heard = 0
    BY <1>3 DEF ApuInit
  <2>2. Window
    BY <2>1 DEF Window, Direct, Direct0
  <2> QED BY <1>1, <1>3, <2>2 DEF ApuInv, Psg, Enveloped, Squares
<1> QED BY <1>1, <1>2, <1>3 DEF ApuInv

\* A register write of a channel.
LEMMA WriteKeeps ==
  ASSUME ApuInv, voice \in Psg, NEW c, Wrote(c), Good(c)
  PROVE  ApuInv'
<1>1. Counters'
  BY Parameters DEF ApuInv, Counters, Wrote
<1>2. voice' = voice /\ master' = master /\ voice # "direct" /\ ch' \in {c, ch} /\ (~master => ch' = ch)
  BY DEF Wrote, Psg, Enveloped, Squares
<1>3. Good(ch)'
  BY <1>2 DEF ApuInv, Good, Alive
<1>4. ch'.enabled => master'
  BY <1>2 DEF ApuInv
<1> QED BY <1>1, <1>2, <1>3, <1>4 DEF ApuInv

LEMMA RegistersKeep ==
  ASSUME ApuInv,
         \/ WriteSweep \/ WriteLength \/ WriteEnvelope \/ WriteFrequencyLow \/ WriteFrequencyHigh
         \/ WriteWaveControl \/ WriteNoisePeriod \/ WriteNoiseHigh
  PROVE  ApuInv'
<1>1. voice \in Psg /\ Good(ch) /\ ch \in Channel
  <2>1. voice \in Psg
    BY DEF WriteSweep, WriteLength, WriteEnvelope, WriteFrequencyLow, WriteFrequencyHigh,
           WriteWaveControl, WriteNoisePeriod, WriteNoiseHigh, IsVoice, Psg, Enveloped, Squares
  <2> QED BY <2>1 DEF ApuInv, Good
<1>2. CASE WriteSweep
  BY <1>1, <1>2, FieldsGood, WriteKeeps DEF WriteSweep
<1>3. CASE WriteLength
  BY <1>1, <1>3, FieldsGood, WriteKeeps DEF WriteLength
<1>4. CASE WriteEnvelope
  BY <1>1, <1>4, EnvelopeGood, WriteKeeps DEF WriteEnvelope
<1>5. CASE WriteFrequencyLow
  BY <1>1, <1>5, LowHighGood, WriteKeeps DEF WriteFrequencyLow
<1>6. CASE WriteFrequencyHigh
  <2>1. PICK v \in 0 .. FrequencyLimit \div LowLimit - 1, on, trigger \in BOOLEAN :
           Wrote(IF trigger THEN Triggered(High(ch, v, on)) ELSE High(ch, v, on))
    BY <1>6 DEF WriteFrequencyHigh
  <2>2. Good(High(ch, v, on))
    BY <1>1, LowHighGood
  <2>3. Good(Triggered(High(ch, v, on)))
    BY <1>1, <2>2, TriggeredGood
  <2> QED BY <1>1, <2>1, <2>2, <2>3, WriteKeeps
<1>7. CASE WriteWaveControl
  <2>1. voice # "noise"
    BY <1>7 DEF WriteWaveControl, IsVoice
  <2> QED BY <1>1, <1>7, <2>1, FieldsGood, WriteKeeps DEF WriteWaveControl
<1>8. CASE WriteNoisePeriod
  BY <1>1, <1>8, FieldsGood, WriteKeeps DEF WriteNoisePeriod
<1>9. CASE WriteNoiseHigh
  <2>1. PICK on, trigger \in BOOLEAN :
           Wrote(IF trigger THEN Triggered([ch EXCEPT !.length_enable = on])
                 ELSE [ch EXCEPT !.length_enable = on])
    BY <1>9 DEF WriteNoiseHigh
  <2>2. Good([ch EXCEPT !.length_enable = on])
    <3>1. ch.frequency \in 0 .. FrequencyLimit - 1
      BY <1>1 DEF Channel
    <3> QED BY <1>1, <3>1, FrequencyGood
  <2>3. Good(Triggered([ch EXCEPT !.length_enable = on]))
    BY <1>1, <2>2, TriggeredGood
  <2> QED BY <1>1, <2>1, <2>2, <2>3, WriteKeeps
<1> QED BY <1>2, <1>3, <1>4, <1>5, <1>6, <1>7, <1>8, <1>9

LEMMA DirectIsAlone == \A v \in Psg : v # "direct"
  BY DEF Psg, Enveloped, Squares

LEMMA OthersKeep ==
  ASSUME ApuInv, WriteMaster \/ OnSequencerStep \/ OnSample \/ TakeSamples
  PROVE  ApuInv'
<1>1. CASE WriteMaster
  <2>1. PICK on \in BOOLEAN : master' = on /\ ch' = IF master /\ ~on /\ IsVoice(Psg) THEN ResetPsg(ch) ELSE ch
    BY <1>1 DEF WriteMaster
  <2>2. Counters' /\ voice' = voice /\ now' = now /\ heard' = heard
    BY <1>1, <2>1, Parameters DEF WriteMaster, ApuInv, Counters
  <2>3. CASE voice \in Psg
    <3>1. Good(ch) /\ ch \in Channel /\ (ch.enabled => master)
      BY <2>3 DEF ApuInv, Good
    <3>2. Good(ResetPsg(ch)) /\ ~ResetPsg(ch).enabled
      BY <2>3, <3>1, ResetGood
    <3>3. Good(ch') /\ (ch'.enabled => master')
      BY <2>1, <2>3, <3>1, <3>2 DEF IsVoice
    <3>4. Good(ch)'
      BY <2>2, <3>3 DEF Good, Alive
    <3> QED BY <2>2, <2>3, <3>3, <3>4, DirectIsAlone DEF ApuInv
  <2>4. CASE voice \notin Psg
    <3>1. ch' = ch
      BY <2>1, <2>4 DEF IsVoice
    <3>2. voice = "direct" => Window'
      BY <2>2, <3>1 DEF ApuInv, Window
    <3> QED BY <2>2, <2>4, <3>2 DEF ApuInv
  <2> QED BY <2>3, <2>4
<1>2. CASE OnSequencerStep
  <2>1. Counters' /\ voice' = voice /\ now' = now /\ heard' = heard /\ master' = master
    BY <1>2 DEF OnSequencerStep, ApuInv, Counters
  <2>2. ch' = IF master /\ IsVoice(Psg) THEN Clocked(ch) ELSE ch
    BY <1>2 DEF OnSequencerStep
  <2>3. CASE voice \in Psg
    <3>1. Good(ch) /\ (ch.enabled => master)
      BY <2>3 DEF ApuInv
    <3>2. Good(Clocked(ch))
      BY <3>1, ClockedGood
    <3>3. Good(ch') /\ (ch'.enabled => master')
      BY <2>1, <2>2, <2>3, <3>1, <3>2 DEF IsVoice
    <3>4. Good(ch)'
      BY <2>1, <3>3 DEF Good, Alive
    <3> QED BY <2>1, <2>3, <3>3, <3>4, DirectIsAlone DEF ApuInv
  <2>4. CASE voice \notin Psg
    <3>1. ch' = ch
      BY <2>2, <2>4 DEF IsVoice
    <3>2. voice = "direct" => Window'
      BY <2>1, <3>1 DEF ApuInv, Window
    <3> QED BY <2>1, <2>4, <3>2 DEF ApuInv
  <2> QED BY <2>3, <2>4
<1>3. CASE OnSample
  <2>1. Counters' /\ voice' = voice /\ now' = 0 /\ heard' = 0 /\ master' = master
    BY <1>3, Parameters DEF OnSample, ApuInv, Counters, HasRoom
  <2>2. ch' = IF voice = "direct" THEN [ch EXCEPT !.integral = 0, !.last_change = 0]
              ELSE IF HasRoom /\ master THEN Sampled(ch).channel ELSE ch
    BY <1>3 DEF OnSample, IsVoice
  <2>3. CASE voice \in Psg
    <3>1. Good(ch) /\ (ch.enabled => master)
      BY <2>3 DEF ApuInv
    <3>2. Good(Sampled(ch).channel)
      BY <2>3, <3>1, SumsAgree
    <3>3. Good(ch') /\ (ch'.enabled => master')
      BY <2>1, <2>2, <2>3, <3>1, <3>2, DirectIsAlone
    <3>4. Good(ch)'
      BY <2>1, <3>3 DEF Good, Alive
    <3> QED BY <2>1, <2>3, <3>3, <3>4, DirectIsAlone DEF ApuInv
  <2>4. CASE voice = "direct"
    <3>1. ch \in Direct
      BY <2>4 DEF ApuInv, Window
    <3>2. ch' \in Direct /\ ch'.integral = 0 /\ ch'.last_change = 0
      <4>1. ch' = [ch EXCEPT !.integral = 0, !.last_change = 0]
        BY <2>2, <2>4
      <4> QED BY <3>1, <4>1, DirectFields
    <3>3. Window'
      <4>1. ch'.current \in Int
        BY <3>2 DEF Direct
      <4> QED BY <2>1, <3>2, <4>1 DEF Window
    <3> QED BY <2>1, <2>4, <3>3, DirectIsAlone DEF ApuInv
  <2>5. CASE voice \notin Psg \cup {"direct"}
    BY <2>1, <2>5 DEF ApuInv
  <2> QED BY <2>3, <2>4, <2>5
<1>4. CASE TakeSamples
  <2>1. Counters' /\ voice' = voice /\ ch' = ch /\ now' = now /\ heard' = heard /\ master' = master
    BY <1>4, Parameters DEF TakeSamples, ApuInv, Counters
  <2>2. Good(ch) => Good(ch)'
    BY <2>1 DEF Good, Alive
  <2>3. Window => Window'
    BY <2>1 DEF Window
  <2> QED BY <2>1, <2>2, <2>3 DEF ApuInv
<1> QED BY <1>1, <1>2, <1>3, <1>4

LEMMA DirectKeeps ==
  ASSUME ApuInv, Tick \/ OnTimerOverflow \/ DropFifo
  PROVE  ApuInv'
<1> DEFINE level == ch.current
           since == now - ch.last_change
<1>1. voice = "direct" /\ voice' = voice /\ Window /\ now \in Nat
      /\ ch \in Direct /\ heard \in Int /\ level \in Int /\ ch.integral \in Int
      /\ ch.last_change \in Nat /\ since \in Nat /\ ch.integral + level * since = heard
  <2>1. voice = "direct" /\ voice' = voice
    BY DEF Tick, OnTimerOverflow, DropFifo, IsVoice
  <2>2. Window /\ now \in Nat
    BY <2>1, Parameters DEF ApuInv, Counters
  <2> QED BY <2>1, <2>2 DEF Window, Direct
<1>2. Counters'
  BY Parameters, <1>1 DEF ApuInv, Counters, Tick, OnTimerOverflow, DropFifo
<1> DEFINE area == level * since
<1>3. area \in Int /\ ch.integral + area = heard
  <2> HIDE DEF level, since
  <2> QED BY <1>1
<1>4. CASE Tick
  <2>1. ch' = ch /\ now' = now + 1 /\ heard' = heard + level
    BY <1>4 DEF Tick
  <2>2. now' - ch'.last_change = since + 1
    <3>1. ch.last_change \in Int /\ now \in Int
      BY <1>1
    <3> QED BY <2>1, <3>1
  <2>3. level * (since + 1) = area + level
    <3> HIDE DEF level, since
    <3> QED BY <1>1, NextProduct
  <2> DEFINE more == level * (since + 1)
  <2>4. ch'.current * (now' - ch'.last_change) = more /\ more = area + level
    <3> HIDE DEF since
    <3> QED BY <2>1, <2>2, <2>3
  <2> HIDE DEF more, area, since
  <2>5. Window'
    BY <1>1, <1>3, <2>1, <2>4 DEF Window
  <2> QED BY <1>1, <1>2, <2>5, DirectIsAlone DEF ApuInv
<1>5. CASE OnTimerOverflow
  <2>1. PICK next \in Levels : ch' = [Integrated(ch) EXCEPT !.current = next]
    BY <1>5 DEF OnTimerOverflow
  <2>2. now' = now /\ heard' = heard
    BY <1>5 DEF OnTimerOverflow
  <2>3. next \in Int
    BY Settings
  <2> DEFINE total == ch.integral + area
  <2>4. Integrated(ch) = [ch EXCEPT !.integral = total, !.last_change = now]
    BY DEF Integrated
  <2>5. total \in Int /\ total = heard
    <3> HIDE DEF area
    <3> QED BY <1>1, <1>3
  <2> HIDE DEF total
  <2>6. ch' \in Direct /\ ch'.integral = total /\ ch'.last_change = now /\ ch'.current = next
    BY <1>1, <2>1, <2>3, <2>4, <2>5 DEF Direct
  <2>7. next * (now' - ch'.last_change) = 0
    BY <1>1, <2>2, <2>3, <2>6
  <2>8. Window'
    BY <1>1, <2>2, <2>5, <2>6, <2>7 DEF Window
  <2> QED BY <1>1, <1>2, <2>8, DirectIsAlone DEF ApuInv
<1>6. CASE DropFifo
  <2>1. ch' = [ch EXCEPT !.current = 0, !.integral = 0] /\ heard' = 0 /\ now' = now
    BY <1>6 DEF DropFifo
  <2>2. ch' \in Direct /\ ch'.current = 0 /\ ch'.integral = 0 /\ ch'.last_change = ch.last_change
    <3>1. ch \in Direct
      BY <1>1
    <3> HIDE DEF level, since, area
    <3> QED BY <2>1, <3>1, DirectFields
  <2>3. ch'.current * (now' - ch'.last_change) = 0
    BY <1>1, <2>1, <2>2
  <2>4. Window'
    BY <1>1, <2>1, <2>2, <2>3 DEF Window
  <2> QED BY <1>1, <1>2, <2>4, DirectIsAlone DEF ApuInv
<1> QED BY <1>4, <1>5, <1>6

LEMMA NextApuInv == ApuInv /\ [ApuNext]_apuVars => ApuInv'
<1> SUFFICES ASSUME ApuInv, [ApuNext]_apuVars PROVE ApuInv'
  OBVIOUS
<1>1. CASE ApuNext
  BY <1>1, RegistersKeep, OthersKeep, DirectKeeps DEF ApuNext
<1>2. CASE UNCHANGED apuVars
  <2>1. Counters' /\ voice' = voice /\ ch' = ch /\ now' = now /\ heard' = heard /\ master' = master
    BY <1>2 DEF apuVars, ApuInv, Counters
  <2>2. Good(ch) => Good(ch)'
    BY <2>1 DEF Good, Alive
  <2>3. Window => Window'
    BY <2>1 DEF Window
  <2> QED BY <2>1, <2>2, <2>3 DEF ApuInv
<1> QED BY <1>1, <1>2

LEMMA Invariance == ApuSpec => []ApuInv
  BY InitApuInv, NextApuInv, PTL DEF ApuSpec

-----------------------------------------------------------------------------
LEMMA InvPlayable ==
  ASSUME ~WidthSwitches, ApuInv
  PROVE  ChannelsPlayable
<1>1. ApuTypeOK
  <2>1. ASSUME voice \in Psg PROVE ch \in Channel /\ Period(ch) > 0
    <3>1. ch \in Channel
      BY <2>1 DEF ApuInv, Good
    <3> QED BY <2>1, <3>1, PeriodPositive
  <2> QED BY <2>1 DEF ApuTypeOK, ApuInv, Counters, Channel
<1>2. ActiveCanPlay
  BY DEF ActiveCanPlay, ApuInv, Good
<1>3. NoiseNeverStuck
  BY DEF NoiseNeverStuck, ApuInv, Good, Alive, Psg, Enveloped
<1> QED BY <1>1, <1>2, <1>3 DEF ChannelsPlayable

\* If no program changes the width of noise that plays, a channel is always in a state it can
\* play from: its converter is on, it has time left, its period is not zero, its register is not
\* stuck; after any triggers, writes, sweeps, lengths and resets.
THEOREM AlwaysPlayable ==
  ASSUME ~WidthSwitches
  PROVE  ApuSpec => []ChannelsPlayable
<1>1. ApuInv => ChannelsPlayable
  BY InvPlayable
<1> QED BY <1>1, Invariance, PTL

\* Whatever widths programs write, types hold and a channel that is reported as playing can play.
THEOREM ActiveIsTrue == ApuSpec => [](ApuTypeOK /\ ActiveCanPlay)
<1>1. ApuInv => ApuTypeOK /\ ActiveCanPlay
  <2> SUFFICES ASSUME ApuInv PROVE ApuTypeOK /\ ActiveCanPlay
    OBVIOUS
  <2>1. ASSUME voice \in Psg PROVE ch \in Channel /\ Period(ch) > 0
    <3>1. ch \in Channel
      BY <2>1 DEF ApuInv, Good
    <3> QED BY <2>1, <3>1, PeriodPositive
  <2>2. ApuTypeOK
    BY <2>1 DEF ApuTypeOK, ApuInv, Counters, Channel
  <2> QED BY <2>2 DEF ActiveCanPlay, ApuInv, Good
<1> QED BY <1>1, Invariance, PTL

\* Summing runs of equal output gives what a listener hears cycle by cycle, and a window of
\* Direct Sound its exact integral, for every length of a sample and every waveform.
THEOREM SummedExactly == ApuSpec => []SamplesExact
<1>1. ApuInv => SamplesExact
  <2> SUFFICES ASSUME ApuInv PROVE SamplesExact
    OBVIOUS
  <2>1. RunLengthExact
    BY SumsAgree DEF RunLengthExact, ApuInv
  <2>2. DirectSoundExact
    <3> SUFFICES ASSUME voice = "direct" PROVE Integrated(ch).integral = heard
      BY DEF DirectSoundExact
    <3>1. Window
      BY DEF ApuInv
    <3>2. Integrated(ch).integral = ch.integral + ch.current * (now - ch.last_change)
      BY <3>1 DEF Integrated, Window, Direct
    <3> QED BY <3>1, <3>2 DEF Window
  <2> QED BY <2>1, <2>2 DEF SamplesExact
<1> QED BY <1>1, Invariance, PTL
=============================================================================
