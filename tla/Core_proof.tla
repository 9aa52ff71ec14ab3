------------------------------- MODULE Core_proof ------------------------------
(***************************************************************************)
(* The processor and the timers it runs with.                              *)
(*                                                                         *)
(* The processor, for any programs of decoded instructions, any memory and *)
(* words of any width from twelve bits: it runs what it fetched, keeps its *)
(* modes apart, returns from exceptions to what they interrupted, and its  *)
(* shifts, sums and flags tell the truth about the words they are of.      *)
(*                                                                         *)
(* The timers and their scheduler agree for any counter width, number of   *)
(* timers, tick sizes, programs, instruction and DMA lengths; and events   *)
(* fire in deadline order, and no counter runs past its overflow unseen,   *)
(* as long as no program changes the prescaler of a running timer.  Then,  *)
(* if no DMA writes a control while an overflow is due, programs read what *)
(* they would read of timers that count every cycle.                       *)
(***************************************************************************)
EXTENDS Processor, TimerLockstep, Scheduler_proof, FiniteSetTheorems

-----------------------------------------------------------------------------
(***************************************************************************)
(* Words.                                                                  *)
(***************************************************************************)
LEMMA Powers ==
  /\ \A n \in 0 .. Width : 2 ^ n \in Nat \ {0}
  /\ \A n \in 0 .. Width - 1 : 2 ^ (n + 1) = 2 * 2 ^ n
<1>1. 2 ^ 0 = 1 /\ \A n \in 0 .. Width - 1 : 2 ^ (n + 1) = 2 * 2 ^ n
  BY PowersAssumption
<1> DEFINE T == {n \in 0 .. Width : 2 ^ n \in Nat \ {0}}
<1>2. 0 \in T
  BY <1>1, WidthAssumption
<1>3. ASSUME NEW k \in 0 .. Width - 1, k \in T PROVE k + 1 \in T
  <2>1. 2 ^ (k + 1) = 2 * 2 ^ k /\ 2 ^ k \in Nat \ {0}
    BY <1>1, <1>3
  <2> QED BY <2>1, WidthAssumption
<1> HIDE DEF T
<1>4. 0 .. Width \subseteq T
  BY <1>2, <1>3, WidthAssumption, UpToInduct
<1> QED BY <1>1, <1>4 DEF T

\* 2 ^ (a + b) = 2 ^ a * 2 ^ b, within a word.
LEMMA PowerSum ==
  ASSUME NEW a \in Nat, NEW b \in Nat, a + b <= Width
  PROVE  2 ^ (a + b) = 2 ^ a * 2 ^ b
<1> DEFINE T == {n \in 0 .. b : 2 ^ (a + n) = 2 ^ a * 2 ^ n}
<1>1. 2 ^ a \in Nat \ {0}
  <2>1. a \in 0 .. Width
    BY WidthAssumption
  <2> QED BY <2>1, Powers
<1>2. 0 \in T
  <2>1. 2 ^ (a + 0) = 2 ^ a /\ 2 ^ 0 = 1
    BY PowersAssumption
  <2> QED BY <1>1, <2>1
<1>3. ASSUME NEW k \in 0 .. b - 1, k \in T PROVE k + 1 \in T
  <2> DEFINE p == 2 ^ a
             q == 2 ^ k
  <2>1. a + k \in 0 .. Width - 1 /\ k \in 0 .. Width - 1
    BY WidthAssumption
  <2>2. 2 ^ ((a + k) + 1) = 2 * 2 ^ (a + k) /\ 2 ^ (k + 1) = 2 * q
    BY <2>1, Powers
  <2>3. 2 ^ (a + k) = p * q
    BY <1>3
  <2>4. p \in Nat /\ q \in Nat
    <3>1. k \in 0 .. Width
      BY <2>1, WidthAssumption
    <3> QED BY <1>1, <3>1, Powers
  <2>5. (a + k) + 1 = a + (k + 1) /\ k + 1 \in 0 .. b
    OBVIOUS
  <2> HIDE DEF p, q
  <2>6. 2 * (p * q) = p * (2 * q)
    BY <2>4
  <2>7. 2 ^ (a + (k + 1)) = p * 2 ^ (k + 1)
    BY <2>2, <2>3, <2>5, <2>6
  <2> QED BY <2>5, <2>7 DEF p
<1> HIDE DEF T
<1>4. 0 .. b \subseteq T
  BY <1>2, <1>3, UpToInduct
<1> QED BY <1>4 DEF T

LEMMA Sizes ==
  /\ Width \in Nat /\ Width >= 12
  /\ Size \in Nat \ {0} /\ Top \in Nat \ {0} /\ Size = 2 * Top
  /\ \E k \in Nat \ {0} : Size = 32 * k
<1>1. Width \in Nat /\ Width >= 12
  BY WidthAssumption
<1>2. Size \in Nat \ {0} /\ Top \in Nat \ {0}
  BY <1>1, Powers DEF Size, Top
<1>3. Size = 2 * Top
  <2>1. Width - 1 \in 0 .. Width - 1 /\ (Width - 1) + 1 = Width
    BY <1>1
  <2>2. 2 ^ ((Width - 1) + 1) = 2 * 2 ^ (Width - 1)
    BY <2>1, Powers
  <2> QED BY <2>1, <2>2 DEF Size, Top
<1>4. Size = 32 * 2 ^ (Width - 5) /\ 2 ^ (Width - 5) \in Nat \ {0}
  <2>1. 2 ^ 5 = 32
    <3>1. 2 ^ (0 + 1) = 2 * 2 ^ 0 /\ 2 ^ (1 + 1) = 2 * 2 ^ 1 /\ 2 ^ (2 + 1) = 2 * 2 ^ 2
          /\ 2 ^ (3 + 1) = 2 * 2 ^ 3 /\ 2 ^ (4 + 1) = 2 * 2 ^ 4
      BY <1>1, Powers
    <3>2. 2 ^ 0 = 1
      BY PowersAssumption
    <3>3. 0 + 1 = 1 /\ 1 + 1 = 2 /\ 2 + 1 = 3 /\ 3 + 1 = 4 /\ 4 + 1 = 5
      OBVIOUS
    <3> QED BY <3>1, <3>2, <3>3
  <2> DEFINE w == Width - 5
  <2>2. 5 + w = Width /\ w \in Nat /\ 5 \in Nat /\ w \in 0 .. Width
    BY <1>1
  <2> HIDE DEF w
  <2>3. 2 ^ (5 + w) = 2 ^ 5 * 2 ^ w
    <3>1. \A a \in Nat, b \in Nat : a + b <= Width => 2 ^ (a + b) = 2 ^ a * 2 ^ b
      BY PowerSum
    <3>2. 5 + w <= Width
      BY <1>1, <2>2
    <3> QED BY <2>2, <3>1, <3>2, Zenon
  <2>4. 2 ^ w \in Nat \ {0}
    BY <2>2, Powers
  <2>5. Size = 32 * 2 ^ w /\ 2 ^ w \in Nat \ {0}
    BY <2>1, <2>2, <2>3, <2>4 DEF Size
  <2> QED BY <2>5 DEF w
<1> QED BY <1>1, <1>2, <1>3, <1>4

LEMMA Octets ==
  /\ Octet \in Nat \ {0} /\ Octet ^ 1 = Octet /\ Octet ^ 2 = Octet * Octet
  /\ \A k \in 0 .. 4 : Octet ^ k \in Nat \ {0}
  /\ Octet ^ 4 = Size /\ Octet <= Size /\ Octet * Octet <= Size
<1> DEFINE q == Width \div 4
<1>1. q \in Nat /\ Width = 4 * q
  BY WidthAssumption
<1>2. Octet = 2 ^ q
  BY DEF Octet
<1> HIDE DEF q
<1>3. Octet \in Nat \ {0}
  BY <1>1, <1>2, Powers, Sizes
<1>4. 2 ^ (q + q) = Octet * Octet
  BY <1>1, <1>2, PowerSum
<1>5. 2 ^ ((q + q) + (q + q)) = (Octet * Octet) * (Octet * Octet)
  BY <1>1, <1>4, PowerSum
<1>6. Size = (Octet * Octet) * (Octet * Octet)
  <2>1. (q + q) + (q + q) = Width
    BY <1>1
  <2> QED BY <1>5, <2>1 DEF Size
<1>7. /\ Octet ^ 0 = 1 /\ Octet ^ (0 + 1) = Octet * Octet ^ 0 /\ Octet ^ (1 + 1) = Octet * Octet ^ 1
      /\ Octet ^ (2 + 1) = Octet * Octet ^ 2 /\ Octet ^ (3 + 1) = Octet * Octet ^ 3
  BY PowersAssumption
<1>8. Octet ^ 1 = Octet
  BY <1>3, <1>7
<1>9. Octet ^ 2 = Octet * Octet
  BY <1>7, <1>8
<1>10. Octet ^ 3 = Octet * (Octet * Octet) /\ Octet ^ 4 = Octet * (Octet * (Octet * Octet))
  BY <1>7, <1>9
<1> DEFINE o == Octet
           oo == o * o
<1>11. oo \in Nat \ {0} /\ o <= oo
  BY <1>3
<1>12. o * (o * oo) = oo * oo /\ o * oo \in Nat \ {0}
  BY <1>3, <1>11
<1>13. Octet ^ 4 = Size
  BY <1>6, <1>10, <1>12
<1>14. oo <= Size
  <2> HIDE DEF oo
  <2>1. oo <= oo * oo
    BY <1>11
  <2> QED BY <1>6, <2>1 DEF oo
<1>15. \A k \in 0 .. 4 : k = 0 \/ k = 1 \/ k = 2 \/ k = 3 \/ k = 4
  OBVIOUS
<1>16. \A k \in 0 .. 4 : Octet ^ k \in Nat \ {0}
  BY <1>3, <1>7, <1>8, <1>9, <1>10, <1>11, <1>12, <1>13, <1>15, Sizes
<1> QED BY <1>3, <1>8, <1>9, <1>11, <1>13, <1>14, <1>16, Sizes

\* The remainder is the one number below n that differs by a multiple of n.
LEMMA Remainder ==
  ASSUME NEW n \in Nat \ {0}, NEW x \in Int
  PROVE  /\ x % n \in 0 .. n - 1
         /\ \E k \in Int : x = k * n + (x % n)
         /\ \A k \in Int, r \in 0 .. n - 1 : x = k * n + r => x % n = r
<1>1. x % n \in 0 .. n - 1 /\ x \div n \in Int /\ x = (x \div n) * n + (x % n)
  OBVIOUS
<1>2. ASSUME NEW k \in Int, NEW r \in 0 .. n - 1, x = k * n + r PROVE x % n = r
  <2> DEFINE q == x \div n
             m == x % n
  <2>1. q \in Int /\ m \in 0 .. n - 1 /\ q * n + m = k * n + r
    BY <1>1, <1>2
  <2> HIDE DEF q, m
  <2> DEFINE d == q - k
  <2>2. d \in Int /\ d * n = r - m
    BY <2>1
  <2> HIDE DEF d
  <2>3. d = 0
    <3>1. CASE d >= 1
      <4>1. d * n >= n
        BY <3>1, <2>2
      <4> QED BY <4>1, <2>1, <2>2
    <3>2. CASE d <= -1
      <4>1. d * n <= -n
        BY <3>2, <2>2
      <4> QED BY <4>1, <2>1, <2>2
    <3> QED BY <3>1, <3>2, <2>2
  <2> QED BY <2>1, <2>2, <2>3 DEF m
<1> QED BY <1>1, <1>2

LEMMA RemainderSum ==
  ASSUME NEW n \in Nat \ {0}, NEW a \in Int, NEW b \in Int
  PROVE  ((a % n) + b) % n = (a + b) % n
<1>1. PICK k \in Int : a = k * n + (a % n)
  BY Remainder
<1> DEFINE m == a % n
           s == a + b
           u == m + b
<1>2. m \in Int /\ s \in Int /\ u \in Int
  BY Remainder
<1>3. PICK j \in Int : u = j * n + (u % n)
  BY <1>2, Remainder
<1> DEFINE r == u % n
<1>4. r \in 0 .. n - 1
  BY <1>2, Remainder
<1>5. s = (j + k) * n + r
  <2>1. a = k * n + m /\ u = j * n + r
    BY <1>1, <1>3
  <2> HIDE DEF r, m
  <2>2. (j + k) * n = j * n + k * n
    OBVIOUS
  <2>3. k * n \in Int /\ j * n \in Int
    OBVIOUS
  <2> QED BY <2>1, <2>2, <2>3, <1>2, <1>4
<1>6. s % n = r
  <2> HIDE DEF r, s
  <2> QED BY <1>2, <1>4, <1>5, Remainder
<1> QED BY <1>6

LEMMA Wrapped ==
  /\ \A a \in Int : Wrap(a) \in Words
  /\ \A a \in Words : Wrap(a) = a /\ a \in Nat /\ a < Size
  /\ \A a \in Int, b \in Int : Wrap(Wrap(a) + b) = Wrap(a + b)
<1>1. Size \in Nat \ {0}
  BY Sizes
<1>2. ASSUME NEW a \in Int PROVE Wrap(a) \in Words
  BY <1>1 DEF Wrap, Words
<1>3. ASSUME NEW a \in Words PROVE Wrap(a) = a /\ a \in Nat /\ a < Size
  BY <1>1 DEF Wrap, Words
<1>4. ASSUME NEW a \in Int, NEW b \in Int PROVE Wrap(Wrap(a) + b) = Wrap(a + b)
  BY <1>1, RemainderSum DEF Wrap
<1> QED BY <1>2, <1>3, <1>4

LEMMA WordInWords ==
  ASSUME NEW S
  PROVE  Word(S) \in Words
<1> DEFINE step == [p \in (1 .. Width) \X Nat |-> 2 * p[2] + Num(Width - p[1] \in S)]
           T == {p \in (0 .. Width) \X Nat : p[2] < 2 ^ p[1]}
<1>1. \A k \in 1 .. Width, x \in Nat :
        step[<<k, x>>] = 2 * x + Num(Width - k \in S) /\ step[<<k, x>>] \in Nat
  BY DEF Num
<1>2. <<0, 0>> \in T
  <2>1. 0 \in 0 .. Width /\ 0 < 2 ^ 0
    BY PowersAssumption, Sizes
  <2> QED BY <2>1
<1>3. ASSUME NEW k \in 0 .. Width - 1, NEW x \in Nat, <<k, x>> \in T
      PROVE  <<k + 1, step[<<k + 1, x>>]>> \in T
  <2>1. x < 2 ^ k /\ 2 ^ (k + 1) = 2 * 2 ^ k /\ 2 ^ k \in Nat
    <3>1. k \in 0 .. Width
      BY Sizes
    <3> QED BY <1>3, <3>1, Powers
  <2>2. k + 1 \in 1 .. Width /\ k + 1 \in 0 .. Width
    BY Sizes
  <2>3. step[<<k + 1, x>>] <= 2 * x + 1 /\ step[<<k + 1, x>>] \in Nat
    BY <1>1, <2>2 DEF Num
  <2>4. step[<<k + 1, x>>] < 2 ^ (k + 1)
    <3> HIDE DEF step
    <3> QED BY <2>1, <2>3
  <2> HIDE DEF step
  <2> QED BY <2>2, <2>3, <2>4
<1> HIDE DEF T
<1>4. Rounds(0, step, Width) \in Nat /\ <<Width, Rounds(0, step, Width)>> \in T
  <2> HIDE DEF step
  <2> QED BY <1>1, <1>2, <1>3, Sizes, RoundsCounted
<1>5. Word(S) = Rounds(0, step, Width)
  BY DEF Word
<1> HIDE DEF step
<1> QED BY <1>4, <1>5 DEF T, Words, Size

\* A number of bits, and what is left of a word without them.
LEMMA Rotated ==
  ASSUME NEW v \in Words, NEW k \in 0 .. Width
  PROVE  RotatedRight(v, k) \in Words
<1> DEFINE P == 2 ^ k
           w == Width - k
           Q == 2 ^ w
           q == v \div P
           m == v % P
<1>1. P \in Nat \ {0} /\ Q \in Nat \ {0} /\ Size = P * Q
  <2>1. w \in 0 .. Width /\ k \in Nat /\ w \in Nat /\ k + w = Width
    BY Sizes
  <2> HIDE DEF w
  <2>2. 2 ^ (k + w) = 2 ^ k * 2 ^ w
    BY <2>1, PowerSum, Sizes
  <2> QED BY <2>1, <2>2, Powers DEF Size
<1>2. v \in Nat /\ v < P * Q
  BY <1>1, Wrapped
<1>3. q \in Nat /\ m \in Nat /\ m <= P - 1 /\ q * P <= v
  <2>1. P \in Nat \ {0} /\ v \in Nat
    BY <1>1, <1>2
  <2> HIDE DEF P
  <2>2. q \in Nat /\ q * P <= v
    BY <2>1, Quotient
  <2>3. m \in 0 .. P - 1
    BY <2>1, Modulo
  <2> QED BY <2>1, <2>2, <2>3
<1>4. RotatedRight(v, k) = q + m * Q
  BY DEF RotatedRight
<1> HIDE DEF P, Q, q, m
<1>5. q < Q
  <2>1. q * P < Q * P
    BY <1>1, <1>2, <1>3
  <2> QED BY <1>1, <1>3, <2>1, Cancellation
<1>6. m * Q <= (P - 1) * Q
  BY <1>1, <1>3, Monotone
<1>7. (P - 1) * Q = P * Q - Q /\ m * Q \in Nat
  BY <1>1, <1>3
<1>8. q + m * Q \in Nat /\ q + m * Q < P * Q
  BY <1>1, <1>3, <1>5, <1>6, <1>7
<1> QED BY <1>1, <1>4, <1>8 DEF Words

LEMMA Halved ==
  ASSUME NEW v \in Nat, NEW n \in Nat \ {0}
  PROVE  v \div n \in Nat /\ v \div n <= v
<1> DEFINE q == v \div n
<1>1. q \in Nat /\ q * n <= v
  BY Division
<1> HIDE DEF q
<1>2. q <= q * n
  BY <1>1
<1>3. q \in Nat /\ q <= v
  BY <1>1, <1>2
<1> QED BY <1>3 DEF q

ShiftResults == [value : Words, carry : BOOLEAN]

LEMMA ShiftedByRegister ==
  ASSUME NEW type \in ShiftTypes, NEW v \in Words, NEW n \in Nat, NEW c \in BOOLEAN
  PROVE  ShiftByRegister(type, v, n, c) \in ShiftResults
<1>0. /\ \A w \in Words, b \in BOOLEAN : Shift(w, b) \in ShiftResults
      /\ \A w, k : Bit(w, k) \in BOOLEAN
      /\ 0 \in Words /\ v \in Nat /\ v < Size /\ Size \in Nat \ {0} /\ Width \in Nat
  BY Sizes, Wrapped DEF Shift, ShiftResults, Bit, Words
<1>1. CASE n = 0
  <2>1. ShiftByRegister(type, v, n, c) = Shift(v, c)
    BY <1>1 DEF ShiftByRegister
  <2> QED BY <1>0, <2>1
<1>2. CASE n # 0 /\ type = "LSL"
  <2>1. n < Width => Wrap(v * 2 ^ n) \in Words
    <3>1. ASSUME n < Width PROVE v * 2 ^ n \in Int
      <4>1. n \in 0 .. Width
        BY <1>0, <3>1
      <4>2. 2 ^ n \in Nat
        BY <4>1, Powers
      <4> QED BY <1>0, <4>2
    <3> QED BY <3>1, Wrapped
  <2> DEFINE w == IF n < Width THEN Wrap(v * 2 ^ n) ELSE 0
             b == n <= Width /\ Bit(v, Width - n)
  <2>2. w \in Words /\ b \in BOOLEAN
    BY <1>0, <2>1
  <2>3. ShiftByRegister(type, v, n, c) = Shift(w, b)
    BY <1>2 DEF ShiftByRegister
  <2> QED BY <1>0, <2>2, <2>3
<1>3. CASE n # 0 /\ type = "LSR"
  <2>1. n < Width => v \div 2 ^ n \in Words
    <3>1. ASSUME n < Width PROVE v \div 2 ^ n \in Words
      <4>1. n \in 0 .. Width
        BY <1>0, <3>1
      <4>2. 2 ^ n \in Nat \ {0}
        BY <4>1, Powers
      <4>3. v \div 2 ^ n \in Nat /\ v \div 2 ^ n <= v
        BY <1>0, <4>2, Halved
      <4> QED BY <1>0, <4>3 DEF Words
    <3> QED BY <3>1
  <2> DEFINE w == IF n < Width THEN v \div 2 ^ n ELSE 0
             b == n <= Width /\ Bit(v, n - 1)
  <2>2. w \in Words /\ b \in BOOLEAN
    BY <1>0, <2>1
  <2>3. ShiftByRegister(type, v, n, c) = Shift(w, b)
    BY <1>3 DEF ShiftByRegister
  <2> QED BY <1>0, <2>2, <2>3
<1>4. CASE n # 0 /\ type = "ASR"
  <2> DEFINE k == Min({n, Width - 1})
             w == Wrap(Signed(v) \div 2 ^ k)
             b == Bit(v, Min({n, Width}) - 1)
  <2>1. k \in 0 .. Width
    <3>1. \E x \in {n, Width - 1} : \A y \in {n, Width - 1} : x <= y
      BY <1>0, Sizes
    <3>2. k \in {n, Width - 1} /\ \A y \in {n, Width - 1} : k <= y
      BY <3>1 DEF Min
    <3> QED BY <1>0, <3>2, Sizes
  <2> HIDE DEF k
  <2>2. 2 ^ k \in Nat \ {0} /\ Signed(v) \in Int
    BY <1>0, <2>1, Powers DEF Signed
  <2>3. Signed(v) \div 2 ^ k \in Int
    BY <2>2
  <2>4. w \in Words /\ b \in BOOLEAN
    BY <1>0, <2>3, Wrapped
  <2>5. ShiftByRegister(type, v, n, c) = Shift(w, b)
    BY <1>4 DEF ShiftByRegister, k
  <2> QED BY <1>0, <2>4, <2>5
<1>5. CASE n # 0 /\ type = "ROR"
  <2> DEFINE k == n % Width
             w == RotatedRight(v, k)
  <2>1. k \in 0 .. Width
    BY <1>0, Sizes, Modulo
  <2>2. w \in Words /\ Bit(w, Width - 1) \in BOOLEAN
    BY <1>0, <2>1, Rotated
  <2>3. ShiftByRegister(type, v, n, c) = Shift(w, Bit(w, Width - 1))
    BY <1>5 DEF ShiftByRegister
  <2> QED BY <1>0, <2>2, <2>3
<1> QED BY <1>1, <1>2, <1>3, <1>4, <1>5 DEF ShiftTypes

LEMMA ShiftedByImmediate ==
  ASSUME NEW type \in ShiftTypes, NEW v \in Words, NEW n \in Nat, NEW c \in BOOLEAN
  PROVE  ShiftByImmediate(type, v, n, c) \in ShiftResults
<1>1. CASE n = 0 /\ type \in {"LSR", "ASR"}
  <2>1. Width \in Nat
    BY Sizes
  <2>2. ShiftByImmediate(type, v, n, c) = ShiftByRegister(type, v, Width, c)
    BY <1>1 DEF ShiftByImmediate
  <2> QED BY <2>1, <2>2, ShiftedByRegister
<1>2. CASE n = 0 /\ type = "ROR"
  <2> DEFINE h == v \div 2
             w == Num(c) * Top + h
  <2>1. v \in Nat /\ v < 2 * Top /\ Top \in Nat
    BY Wrapped, Sizes
  <2>2. h \in Nat /\ h < Top
    BY <2>1
  <2> HIDE DEF h
  <2>3. Num(c) * Top \in {0, Top}
    BY <2>1 DEF Num
  <2>4. w \in Words
    BY <2>1, <2>2, <2>3, Sizes DEF Words
  <2>5. ShiftByImmediate(type, v, n, c) = Shift(w, Bit(v, 0))
    BY <1>2 DEF ShiftByImmediate, h
  <2> HIDE DEF w
  <2> QED BY <2>4, <2>5 DEF Shift, ShiftResults, Bit
<1>3. CASE ~(n = 0 /\ type \in {"LSR", "ASR"}) /\ ~(n = 0 /\ type = "ROR")
  <2>1. ShiftByImmediate(type, v, n, c) = ShiftByRegister(type, v, n, c)
    BY <1>3 DEF ShiftByImmediate
  <2> QED BY <2>1, ShiftedByRegister
<1> QED BY <1>1, <1>2, <1>3

AluResults == [value : Words, carry : BOOLEAN, overflow : BOOLEAN]

LEMMA SumTyped ==
  ASSUME NEW a \in Words, NEW b \in Words, NEW c
  PROVE  Sum(a, b, c) \in AluResults /\ Difference(a, b, c) \in AluResults
<1>1. a \in Int /\ b \in Int /\ Num(c) \in Int
  BY Wrapped DEF Num
<1>2. a + b + Num(c) \in Int /\ a - b - Num(c) \in Int
  BY <1>1
<1>3. Wrap(a + b + Num(c)) \in Words /\ Wrap(a - b - Num(c)) \in Words
  BY <1>2, Wrapped
<1> QED BY <1>3 DEF Sum, Difference, AluResults

LEMMA AluTyped ==
  ASSUME NEW op \in Operations, NEW a \in Words, NEW x \in ShiftResults, NEW s \in Statuses
  PROVE  Alu(op, a, x, s) \in AluResults
<1> DEFINE b == x.value
           Logical(v) == [value |-> v, carry |-> x.carry, overflow |-> s.v]
<1>1. b \in Words /\ x.carry \in BOOLEAN /\ s.v \in BOOLEAN
  BY DEF ShiftResults, Statuses
<1>2. \A v \in Words : Logical(v) \in AluResults
  BY <1>1 DEF AluResults
<1>3. Size - 1 - b \in Words
  <2>1. b \in Nat /\ b < Size /\ Size \in Nat
    BY <1>1, Wrapped, Sizes
  <2> HIDE DEF b
  <2> QED BY <2>1 DEF Words
<1> HIDE DEF b, Logical
<1>4. CASE op \in {"AND", "TST"}
  BY <1>2, <1>4, WordInWords DEF Alu, b, Logical
<1>5. CASE op \in {"EOR", "TEQ"}
  BY <1>2, <1>5, WordInWords DEF Alu, b, Logical
<1>6. CASE op \in {"SUB", "CMP"}
  BY <1>1, <1>6, SumTyped DEF Alu, b
<1>7. CASE op = "RSB"
  BY <1>1, <1>7, SumTyped DEF Alu, b
<1>8. CASE op \in {"ADD", "CMN"}
  BY <1>1, <1>8, SumTyped DEF Alu, b
<1>9. CASE op = "ADC"
  BY <1>1, <1>9, SumTyped DEF Alu, b
<1>10. CASE op = "SBC"
  BY <1>1, <1>10, SumTyped DEF Alu, b
<1>11. CASE op = "RSC"
  BY <1>1, <1>11, SumTyped DEF Alu, b
<1>12. CASE op = "ORR"
  BY <1>2, <1>12, WordInWords DEF Alu, b, Logical
<1>13. CASE op = "MOV"
  BY <1>1, <1>2, <1>13 DEF Alu, b, Logical
<1>14. CASE op = "BIC"
  BY <1>2, <1>14, WordInWords DEF Alu, b, Logical
<1>15. CASE op = "MVN"
  BY <1>2, <1>3, <1>15 DEF Alu, b, Logical
<1> QED BY <1>4, <1>5, <1>6, <1>7, <1>8, <1>9, <1>10, <1>11, <1>12, <1>13, <1>14, <1>15
        DEF Operations, Tests

-----------------------------------------------------------------------------
(***************************************************************************)
(* Registers, operands, status words and the bytes of memory.              *)
(***************************************************************************)
Files == [Physicals -> Words]

Typed ==
  /\ regs \in Files /\ pc \in Words
  /\ cpsr \in Statuses /\ spsr \in [Excepted -> Statuses]
  /\ mem \in [Ram -> 0 .. Octet - 1]

LEMMA BankNamed ==
  /\ \A m, r : Bank(m, r)[2] = r
  /\ \A m \in Modes, r \in Indexes : Bank(m, r) \in Physicals
  /\ \A p \in Physicals : \E m \in Modes, r \in Indexes : p = Bank(m, r)
  BY DEF Bank, Physicals

LEMMA ValueTyped ==
  ASSUME Typed, NEW r \in Indexes
  PROVE  Value(r) \in Words
<1>1. cpsr.mode \in Modes
  BY DEF Typed, Statuses
<1>2. Bank(cpsr.mode, r) \in Physicals
  BY <1>1, BankNamed
<1> QED BY <1>2 DEF Value, Typed, Files

LEMMA WordsAreNatural == Words \subseteq Nat
  BY Wrapped

LEMMA ValueNatural ==
  ASSUME Typed, NEW r \in Indexes
  PROVE  Value(r) \in Nat
  BY ValueTyped, WordsAreNatural

LEMMA OperandTyped ==
  ASSUME Typed, NEW r \in Operands, NEW s \in BOOLEAN
  PROVE  Operand(r, s) \in Words
<1>1. pc \in Nat
  BY Wrapped DEF Typed
<1>2. CASE r = Pc
  <2>1. pc + 4 \in Int /\ pc + (IF s THEN 12 ELSE 8) \in Int
    BY <1>1
  <2>2. Wrap(pc + 4) \in Words /\ Wrap(pc + IF s THEN 12 ELSE 8) \in Words
    BY <2>1, Wrapped
  <2> QED BY <1>2, <2>2 DEF Operand, Pc, PcWord
<1>3. CASE r = PcWord
  <2>1. 4 * ((pc + 4) \div 4) \in Int
    BY <1>1
  <2>2. Wrap(4 * ((pc + 4) \div 4)) \in Words
    BY <2>1, Wrapped
  <2> QED BY <1>3, <2>2 DEF Operand, Pc, PcWord
<1>4. CASE r # Pc /\ r # PcWord
  <2>1. r \in Indexes /\ Operand(r, s) = Value(r)
    BY <1>4 DEF Operands, Operand
  <2> QED BY <2>1, ValueTyped
<1> QED BY <1>2, <1>3, <1>4

LEMMA WithTyped ==
  ASSUME NEW file \in Files, NEW r, NEW v \in Words
  PROVE  /\ With(file, r, v) \in Files
         /\ \A p \in Physicals : With(file, r, v)[p] # file[p] => p = Bank(cpsr.mode, r)
  BY DEF With, Files

LEMMA SourceTyped ==
  ASSUME Typed, NEW src, IsSource(src)
  PROVE  Source(src) \in ShiftResults
<1>1. cpsr.c \in BOOLEAN
  BY DEF Typed, Statuses
<1>2. CASE src.form = "immediate"
  <2> DEFINE c == IF src.rotated THEN Bit(src.value, Width - 1) ELSE cpsr.c
  <2>1. Source(src) = Shift(src.value, c)
    BY <1>2 DEF Source
  <2>2. src.value \in Words /\ src.rotated \in BOOLEAN
    BY <1>2 DEF IsSource
  <2>3. c \in BOOLEAN
    BY <1>1, <2>2 DEF Bit
  <2> HIDE DEF c
  <2> QED BY <2>1, <2>2, <2>3 DEF Shift, ShiftResults
<1>3. CASE src.form = "register"
  <2>1. Source(src) = ShiftByImmediate(src.type, Operand(src.reg, FALSE), src.amount, cpsr.c)
    BY <1>3 DEF Source
  <2>2. src.reg \in Operands /\ src.type \in ShiftTypes /\ src.amount \in Nat
    BY <1>3, Sizes DEF IsSource
  <2> QED BY <1>1, <2>1, <2>2, OperandTyped, ShiftedByImmediate
<1>4. CASE src.form = "shifted"
  <2>1. Source(src) = ShiftByRegister(src.type, Operand(src.reg, TRUE), Value(src.by) % Octet, cpsr.c)
    BY <1>4 DEF Source
  <2>2. src.reg \in Operands /\ src.type \in ShiftTypes /\ src.by \in Indexes
    BY <1>4 DEF IsSource
  <2>3. Value(src.by) % Octet \in Nat
    <3>1. Value(src.by) \in Nat
      BY <2>2, ValueTyped, Wrapped
    <3> DEFINE v == Value(src.by)
    <3>2. v \in Nat /\ Octet \in Nat \ {0}
      BY <3>1, Octets
    <3> HIDE DEF v
    <3>3. v % Octet \in Nat
      BY <3>2
    <3> QED BY <3>3 DEF v
  <2> QED BY <1>1, <2>1, <2>2, <2>3, OperandTyped, ShiftedByRegister
<1> QED BY <1>2, <1>3, <1>4 DEF IsSource

LEMMA ResultTyped ==
  ASSUME Typed, NEW i, i.op \in Operations, i.rn \in Operands, IsSource(i.src)
  PROVE  Result(i) \in AluResults
<1>1. Operand(i.rn, i.src.form = "shifted") \in Words /\ Source(i.src) \in ShiftResults
  BY OperandTyped, SourceTyped
<1> QED BY <1>1, AluTyped DEF Result, Typed

\* The flags change, and nothing else of a status word.
LEMMA FlagsTyped ==
  ASSUME NEW s \in Statuses, NEW v, NEW r \in AluResults
  PROVE  /\ WithNz(s, v) \in Statuses /\ WithFlags(s, r) \in Statuses
         /\ WithNz(s, v).mode = s.mode /\ WithFlags(s, r).mode = s.mode
         /\ WithNz(s, v).i = s.i /\ WithFlags(s, r).i = s.i
         /\ WithNz(s, v).f = s.f /\ WithFlags(s, r).f = s.f
         /\ WithNz(s, v).t = s.t /\ WithFlags(s, r).t = s.t
<1>1. ASSUME NEW w
      PROVE  /\ WithNz(s, w) \in Statuses /\ WithNz(s, w).mode = s.mode
             /\ WithNz(s, w).i = s.i /\ WithNz(s, w).f = s.f /\ WithNz(s, w).t = s.t
  <2>1. Bit(w, Width - 1) \in BOOLEAN /\ (w = 0) \in BOOLEAN
    BY DEF Bit
  <2> QED BY <2>1 DEF WithNz, Statuses
<1>2. r.carry \in BOOLEAN /\ r.overflow \in BOOLEAN
  BY DEF AluResults
<1> DEFINE x == WithNz(s, r.value)
<1>3. WithFlags(s, r) = [x EXCEPT !.c = r.carry, !.v = r.overflow]
  BY DEF WithFlags
<1>4. /\ x \in Statuses /\ x.mode = s.mode
      /\ x.i = s.i /\ x.f = s.f /\ x.t = s.t
  BY <1>1
<1> HIDE DEF x
<1> QED BY <1>1, <1>2, <1>3, <1>4 DEF Statuses

LEMMA AssignedTyped ==
  ASSUME NEW old \in Statuses, NEW w, NEW fields, NEW thumb
  PROVE  Assigned(old, PsrMerged(old, w, fields, thumb)) \in Statuses
<1> DEFINE new == PsrMerged(old, w, fields, thumb)
<1>1. /\ new.n \in BOOLEAN /\ new.z \in BOOLEAN /\ new.c \in BOOLEAN /\ new.v \in BOOLEAN
      /\ new.i \in BOOLEAN /\ new.f \in BOOLEAN /\ new.t \in BOOLEAN
  BY DEF PsrMerged, Bit, Statuses
<1>2. new = [n |-> new.n, z |-> new.z, c |-> new.c, v |-> new.v, i |-> new.i, f |-> new.f,
             t |-> new.t, mode |-> new.mode]
  BY DEF PsrMerged
<1> HIDE DEF new
<1>3. new.mode \in Modes => new \in Statuses
  BY <1>1, <1>2 DEF Statuses
<1> QED BY <1>3 DEF Assigned, new

LEMMA SameControl ==
  ASSUME NEW old \in Statuses, NEW w, NEW fields, "c" \notin fields
  PROVE  /\ Assigned(old, PsrMerged(old, w, fields, FALSE)).mode = old.mode
         /\ Assigned(old, PsrMerged(old, w, fields, FALSE)).i = old.i
         /\ Assigned(old, PsrMerged(old, w, fields, FALSE)).f = old.f
<1> DEFINE new == PsrMerged(old, w, fields, FALSE)
<1>1. new.mode = old.mode /\ new.i = old.i /\ new.f = old.f
  BY DEF PsrMerged
<1> HIDE DEF new
<1> QED BY <1>1 DEF Assigned, new

LEMMA SameSet ==
  ASSUME NEW old \in Statuses, NEW w, NEW fields
  PROVE  Assigned(old, PsrMerged(old, w, fields, FALSE)).t = old.t
<1> DEFINE new == PsrMerged(old, w, fields, FALSE)
<1>1. new.t = old.t
  BY DEF PsrMerged
<1> HIDE DEF new
<1> QED BY <1>1 DEF Assigned, new

LEMMA RestoredTyped ==
  ASSUME Typed
  PROVE  /\ Restored \in Statuses
         /\ HasSpsr => Restored = spsr[cpsr.mode]
         /\ ~HasSpsr => Restored = cpsr
         /\ cpsr.mode = "usr" => ~HasSpsr
  BY DEF Typed, Restored, HasSpsr, Assigned, Statuses, Excepted

-----------------------------------------------------------------------------
(***************************************************************************)
(* Memory.                                                                 *)
(***************************************************************************)
\* The n bytes at an address are among the four of its word.
LEMMA BytesOfWord ==
  ASSUME NEW a \in Nat, NEW n \in {1, 2, 4}, Aligned(a, 4) \in Ram, NEW k \in 0 .. n - 1
  PROVE  Aligned(a, n) + k \in Ram
<1> DEFINE w == a - (a % 4)
<1>1. w \in Nat /\ w % 4 = 0 /\ w \in Ram
  BY DEF Aligned
<1>2. \E j \in 0 .. 3 : Aligned(a, n) + k = w + j
  <2>1. CASE n = 1
    BY <2>1 DEF Aligned
  <2>2. CASE n = 2
    BY <2>2 DEF Aligned
  <2>3. CASE n = 4
    BY <2>3 DEF Aligned
  <2> QED BY <2>1, <2>2, <2>3
<1> HIDE DEF w
<1>3. \A j \in 0 .. 3 : w - (w % 4) + j \in Ram
  BY <1>1, RamAssumption
<1>4. w - (w % 4) = w
  BY <1>1
<1> QED BY <1>2, <1>3, <1>4

LEMMA PieceTyped ==
  ASSUME Typed, NEW a \in Nat, NEW n \in {1, 2, 4}, Aligned(a, 4) \in Ram
  PROVE  Piece(a, n) \in Nat /\ Piece(a, n) < Octet ^ n
<1> DEFINE w == Aligned(a, n)
           step == [p \in (1 .. n) \X Nat |-> p[2] * Octet + mem[w + n - p[1]]]
           T == {p \in (0 .. n) \X Nat : p[2] < Octet ^ p[1]}
<1>0. w \in Int /\ n \in Nat
  BY DEF Aligned
<1>1. \A k \in 1 .. n : mem[w + n - k] \in 0 .. Octet - 1
  <2>1. ASSUME NEW k \in 1 .. n PROVE mem[w + n - k] \in 0 .. Octet - 1
    <3>1. n - k \in 0 .. n - 1
      BY <1>0
    <3>2. w + (n - k) \in Ram
      BY <3>1, BytesOfWord
    <3>3. w + (n - k) = w + n - k
      BY <1>0, <3>1
    <3> QED BY <3>2, <3>3 DEF Typed
  <2> QED BY <2>1
<1>2. \A k \in 1 .. n, x \in Nat :
        step[<<k, x>>] = x * Octet + mem[w + n - k] /\ step[<<k, x>>] \in Nat
  <2>1. ASSUME NEW k \in 1 .. n, NEW x \in Nat
        PROVE  step[<<k, x>>] = x * Octet + mem[w + n - k] /\ step[<<k, x>>] \in Nat
    <3>1. step[<<k, x>>] = x * Octet + mem[w + n - k]
      OBVIOUS
    <3>2. x * Octet \in Nat /\ mem[w + n - k] \in Nat
      BY <1>1, Octets
    <3> HIDE DEF step, w
    <3> QED BY <3>1, <3>2
  <2> QED BY <2>1
<1>3. <<0, 0>> \in T
  <2>1. Octet ^ 0 = 1 /\ 0 \in 0 .. n
    BY PowersAssumption, <1>0
  <2> QED BY <2>1
<1>4. ASSUME NEW k \in 0 .. n - 1, NEW x \in Nat, <<k, x>> \in T
      PROVE  <<k + 1, step[<<k + 1, x>>]>> \in T
  <2>1. k \in 0 .. 3 /\ k \in 0 .. n /\ k + 1 \in 1 .. n /\ k + 1 \in 0 .. n
    BY <1>0
  <2> DEFINE m == mem[w + n - (k + 1)]
             P == Octet ^ k
  <2>2. m \in 0 .. Octet - 1 /\ step[<<k + 1, x>>] = x * Octet + m /\ step[<<k + 1, x>>] \in Nat
    BY <1>1, <1>2, <2>1
  <2>3. x < P
    BY <1>4
  <2>4. Octet ^ (k + 1) = Octet * P
    BY <2>1, PowersAssumption
  <2>5. P \in Nat /\ Octet \in Nat \ {0}
    BY <2>1, Octets
  <2> HIDE DEF step, m, P
  <2>6. (x + 1) * Octet <= P * Octet
    BY <2>3, <2>5, Monotone
  <2>7. (x + 1) * Octet = x * Octet + Octet /\ P * Octet = Octet * P /\ x * Octet \in Nat
    BY <2>5
  <2>8. x * Octet + m < Octet * P
    BY <2>2, <2>5, <2>6, <2>7
  <2> QED BY <2>1, <2>2, <2>4, <2>8
<1>5. Piece(a, n) = Rounds(0, step, n)
  BY DEF Piece
<1> HIDE DEF step, T
<1>6. Rounds(0, step, n) \in Nat /\ <<n, Rounds(0, step, n)>> \in T
  BY <1>0, <1>2, <1>3, <1>4, RoundsCounted
<1> QED BY <1>5, <1>6 DEF T

LEMMA PieceWord ==
  ASSUME Typed, NEW a \in Nat, NEW n \in {1, 2, 4}, Aligned(a, 4) \in Ram
  PROVE  Piece(a, n) \in Words
<1>1. Piece(a, n) \in Nat /\ Piece(a, n) < Octet ^ n
  BY PieceTyped
<1>2. Octet ^ n <= Size /\ Octet ^ n \in Nat /\ Size \in Nat
  <2>1. n = 1 \/ n = 2 \/ n = 4
    OBVIOUS
  <2> QED BY <2>1, Octets, Sizes
<1> QED BY <1>1, <1>2 DEF Words

LEMMA ExtendedTyped ==
  ASSUME NEW v \in Words, NEW n \in {1, 2}
  PROVE  SignExtended(v, n) \in Words
<1>1. Octet ^ n \in Nat /\ v \in Int
  <2>1. n = 1 \/ n = 2
    OBVIOUS
  <2>2. Octet ^ n \in Nat
    BY <2>1, Octets
  <2> QED BY <2>2, Wrapped
<1>2. Wrap(v - Octet ^ n) \in Words
  BY <1>1, Wrapped
<1> QED BY <1>2 DEF SignExtended

LEMMA LoadedTyped ==
  ASSUME Typed, NEW a \in Nat, Aligned(a, 4) \in Ram
  PROVE  /\ LoadedWord(a) \in Words
         /\ \A n \in {1, 2, 4}, signed \in BOOLEAN : Loaded(a, n, signed) \in Words
<1> DEFINE q == Width \div 4
<1>1. q \in Nat /\ Width = 4 * q
  BY WidthAssumption
<1>2. (a % 4) * q \in 0 .. Width /\ (a % 2) * q \in 0 .. Width
  <2> DEFINE u == a % 4
             h == a % 2
  <2>1. u \in 0 .. 3 /\ h \in 0 .. 1
    OBVIOUS
  <2> HIDE DEF u, h, q
  <2>2. u * q \in 0 .. Width /\ h * q \in 0 .. Width
    BY <1>1, <2>1
  <2> QED BY <2>2 DEF u, h
<1>3. \A n \in {1, 2, 4} : Piece(a, n) \in Words
  BY PieceWord
<1>4. LoadedWord(a) \in Words
  <2>1. LoadedWord(a) = RotatedRight(Piece(a, 4), (a % 4) * q)
    BY DEF LoadedWord
  <2> HIDE DEF q
  <2> QED BY <1>2, <1>3, <2>1, Rotated
<1>5. ASSUME NEW signed \in BOOLEAN PROVE LoadedHalf(a, signed) \in Words
  <2>1. CASE signed /\ a % 2 = 1
    <3>1. LoadedHalf(a, signed) = SignExtended(Piece(a, 1), 1)
      BY <2>1 DEF LoadedHalf
    <3> QED BY <1>3, <3>1, ExtendedTyped
  <2>2. CASE signed /\ a % 2 = 0
    <3>1. LoadedHalf(a, signed) = SignExtended(Piece(a, 2), 2)
      BY <2>2 DEF LoadedHalf
    <3> QED BY <1>3, <3>1, ExtendedTyped
  <2>3. CASE ~signed
    <3>1. LoadedHalf(a, signed) = RotatedRight(Piece(a, 2), (a % 2) * q)
      BY <2>3 DEF LoadedHalf
    <3> HIDE DEF q
    <3> QED BY <1>2, <1>3, <3>1, Rotated
  <2> QED BY <2>1, <2>2, <2>3
<1>6. ASSUME NEW n \in {1, 2, 4}, NEW signed \in BOOLEAN
      PROVE  Loaded(a, n, signed) \in Words
  <2>1. CASE n = 4
    BY <1>4, <2>1 DEF Loaded
  <2>2. CASE n = 2
    BY <1>5, <2>2 DEF Loaded
  <2>3. CASE n = 1
    <3>1. Loaded(a, n, signed) = IF signed THEN SignExtended(Piece(a, 1), 1) ELSE Piece(a, 1)
      BY <2>3 DEF Loaded
    <3> QED BY <1>3, <3>1, ExtendedTyped
  <2> QED BY <2>1, <2>2, <2>3
<1> QED BY <1>4, <1>6

LEMMA LaneTyped ==
  ASSUME NEW w \in Words, NEW k \in 0 .. 3
  PROVE  Lane(w, k) \in 0 .. Octet - 1
<1> DEFINE P == Octet ^ k
           q == w \div P
<1>1. P \in Nat \ {0} /\ w \in Nat /\ Octet \in Nat \ {0}
  <2>1. k \in 0 .. 4
    OBVIOUS
  <2> QED BY <2>1, Octets, Wrapped
<1> HIDE DEF P
<1>2. q \in Nat
  BY <1>1, Division
<1> HIDE DEF q
<1>3. q % Octet \in 0 .. Octet - 1
  BY <1>1, <1>2, Modulo
<1> QED BY <1>3 DEF Lane, q, P

LEMMA HoldingTyped ==
  ASSUME NEW m \in [Ram -> 0 .. Octet - 1], NEW a, NEW n \in {1, 2, 4}, NEW v \in Words
  PROVE  Holding(m, a, n, v) \in [Ram -> 0 .. Octet - 1]
<1>1. ASSUME NEW x \in Ram PROVE Lane(v, x % n) \in 0 .. Octet - 1
  <2>1. x \in Nat
    BY RamAssumption, Wrapped
  <2>2. x % n \in 0 .. 3
    BY <2>1
  <2> QED BY <2>2, LaneTyped
<1> QED BY <1>1 DEF Holding

-----------------------------------------------------------------------------
(***************************************************************************)
(* Where the next instruction is.                                          *)
(***************************************************************************)
\* The size of an instruction of the set that a status names.
SizeIn(s) == IF s.t THEN 2 ELSE 4

LEMMA AlignedTyped ==
  ASSUME NEW a \in Words, NEW n \in {2, 4}
  PROVE  Aligned(a, n) \in Words /\ Aligned(a, n) % n = 0 /\ (a % n = 0 => Aligned(a, n) = a)
<1>1. a \in Nat /\ a < Size /\ Size \in Nat
  BY Wrapped, Sizes
<1>2. CASE n = 2
  BY <1>1, <1>2 DEF Aligned, Words
<1>3. CASE n = 4
  BY <1>1, <1>3 DEF Aligned, Words
<1> QED BY <1>2, <1>3

\* Wrapping keeps what an instruction is aligned to.
LEMMA WrapAligned ==
  ASSUME NEW a \in Int, NEW n \in {2, 4}, a % n = 0
  PROVE  Wrap(a) \in Words /\ Wrap(a) % n = 0
<1> DEFINE r == a % Size
<1>1. PICK k \in Int : a = k * Size + r
  BY Sizes, Remainder
<1>2. PICK h \in Nat : Size = 32 * h
  BY Sizes
<1>3. r \in Int /\ Wrap(a) = r /\ Wrap(a) \in Words
  <2>1. Wrap(a) \in Words
    BY Wrapped
  <2> QED BY <2>1, Wrapped DEF Wrap
<1> HIDE DEF r
<1> DEFINE j == k * h
<1>4. j \in Int /\ k * Size = 32 * j
  BY <1>2
<1> HIDE DEF j
<1>5. r = a - 32 * j
  BY <1>1, <1>3, <1>4
<1>6. r % n = 0
  <2>1. CASE n = 2
    BY <1>3, <1>4, <1>5, <2>1
  <2>2. CASE n = 4
    BY <1>3, <1>4, <1>5, <2>2
  <2> QED BY <2>1, <2>2
<1> QED BY <1>3, <1>6

LEMMA SizeOfSet ==
  ASSUME Typed
  PROVE  InstructionSize = SizeIn(cpsr) /\ InstructionSize \in {2, 4} /\ cpsr.t \in BOOLEAN
  BY DEF Typed, Statuses, InstructionSize, SizeIn

LEMMA NextAligned ==
  ASSUME Typed, pc % InstructionSize = 0
  PROVE  Wrap(pc + InstructionSize) \in Words /\ Wrap(pc + InstructionSize) % InstructionSize = 0
<1>1. InstructionSize \in {2, 4} /\ pc \in Nat
  BY SizeOfSet, Wrapped DEF Typed
<1> DEFINE a == pc + InstructionSize
<1>2. a \in Int /\ a % InstructionSize = 0
  BY <1>1
<1> HIDE DEF a
<1>3. Wrap(a) \in Words /\ Wrap(a) % InstructionSize = 0
  BY <1>1, <1>2, WrapAligned
<1> QED BY <1>3 DEF a

LEMMA BranchedTo ==
  ASSUME cpsr' \in Statuses, NEW target \in Words, BranchTo(cpsr', target)
  PROVE  /\ pc' \in Words /\ pc' % InstructionSize' = 0 /\ RunsWhatItFetched'
         /\ target % SizeIn(cpsr') = 0 => pc' = target
<1> DEFINE n == SizeIn(cpsr')
<1>1. n \in {2, 4} /\ n = InstructionSize'
  BY DEF SizeIn, InstructionSize, Statuses
<1>2. pc' = Aligned(target, n) /\ pipe' = Flushed
  BY DEF BranchTo, SizeIn
<1>3. Aligned(target, n) \in Words /\ Aligned(target, n) % n = 0
      /\ (target % n = 0 => Aligned(target, n) = target)
  <2> HIDE DEF n
  <2> QED BY <1>1, AlignedTyped
<1>4. ~pipe'.valid
  BY <1>2 DEF Flushed
<1> QED BY <1>1, <1>2, <1>3, <1>4 DEF RunsWhatItFetched

\* The opcodes after a step to the next instruction: those fetched for it, if the ones
\* before were, and the instruction set is the same.
LEMMA FetchedRight ==
  ASSUME Typed, RunsWhatItFetched, pc' = Wrap(pc + InstructionSize), cpsr'.t = cpsr.t,
         pipe' = Fetched
  PROVE  RunsWhatItFetched'
<1>1. pc \in Int /\ InstructionSize \in Int /\ InstructionSize' = InstructionSize
  <2>0. pc \in Words
    BY DEF Typed
  <2>1. pc \in Int
    BY <2>0, Wrapped
  <2>2. InstructionSize \in {2, 4}
    BY SizeOfSet
  <2>3. InstructionSize' = InstructionSize
    BY DEF InstructionSize
  <2> HIDE DEF InstructionSize
  <2> QED BY <2>1, <2>2, <2>3
<1> DEFINE n == InstructionSize
           kept == pipe.valid /\ pipe.at = pc
           next == IF kept THEN pipe.slots[2] ELSE Token(pc + n)
<1>2. pipe' = [valid |-> TRUE, mixed |-> kept /\ pipe.mixed, at |-> Wrap(pc + n),
               slots |-> <<next, Token(pc + 2 * n)>>]
  BY DEF Fetched
<1>3. (Token(pc))' = Token(pc + n) /\ (Token(pc + InstructionSize))' = Token(pc + 2 * n)
  <2>1. Wrap(Wrap(pc + n)) = Wrap(pc + n)
    BY <1>1, Wrapped
  <2>2. Wrap(Wrap(pc + n) + n) = Wrap(pc + n + n)
    BY <1>1, Wrapped
  <2>3. pc + n + n = pc + 2 * n
    BY <1>1
  <2>4. pc' = Wrap(pc + n) /\ InstructionSize' = n
    BY <1>1
  <2> HIDE DEF n
  <2> QED BY <2>1, <2>2, <2>3, <2>4 DEF Token
<1>4. ~(kept /\ pipe.mixed) => next = Token(pc + n)
  BY DEF RunsWhatItFetched
<1>5. /\ pipe'.valid /\ pipe'.at = pc' /\ pipe'.mixed = (kept /\ pipe.mixed)
      /\ pipe'.slots = <<next, Token(pc + 2 * n)>>
  BY <1>2
<1>6. ~pipe'.mixed => pipe'.slots = <<Token(pc), Token(pc + InstructionSize)>>'
  BY <1>3, <1>4, <1>5
<1> QED BY <1>1, <1>5, <1>6 DEF RunsWhatItFetched

-----------------------------------------------------------------------------
(***************************************************************************)
(* What every step keeps: the types, the opcodes fetched, the banks of the *)
(* other modes, and user mode.                                             *)
(***************************************************************************)
Kept == CpuTypeOK' /\ RunsWhatItFetched' /\ BanksStep /\ UserStep

Memories == [Ram -> 0 .. Octet - 1]

\* The instruction set and what user mode may not change are as they were.
SameUser == cpsr.mode = "usr" => cpsr'.mode = "usr" /\ cpsr'.i = cpsr.i /\ cpsr'.f = cpsr.f

LEMMA TypesApart == CpuTypeOK <=> Typed /\ pc % InstructionSize = 0
  BY DEF CpuTypeOK, Typed, Files

LEMMA MovesOn ==
  ASSUME CpuTypeOK, RunsWhatItFetched, cpsr' \in Statuses, cpsr'.t = cpsr.t, Advance
  PROVE  pc' \in Words /\ pc' % InstructionSize' = 0 /\ RunsWhatItFetched'
<1>1. Typed /\ pc % InstructionSize = 0
  BY TypesApart
<1>2. pc' = Wrap(pc + InstructionSize) /\ pipe' = Fetched
  BY DEF Advance
<1>3. InstructionSize' = InstructionSize
  BY DEF InstructionSize
<1> QED BY <1>1, <1>2, <1>3, NextAligned, FetchedRight

LEMMA OwnStep ==
  ASSUME CpuTypeOK, RunsWhatItFetched,
         regs' \in Files,
         \A p \in Physicals : regs'[p] # regs[p] => p = Bank(cpsr.mode, p[2]),
         cpsr' \in Statuses, SameUser,
         spsr' \in [Excepted -> Statuses], mem' \in Memories,
         \/ Advance /\ cpsr'.t = cpsr.t
         \/ \E target \in Words : BranchTo(cpsr', target)
  PROVE  Kept
<1>1. pc' \in Words /\ pc' % InstructionSize' = 0 /\ RunsWhatItFetched'
  BY MovesOn, BranchedTo
<1>2. CpuTypeOK'
  BY <1>1 DEF CpuTypeOK, Files, Memories
<1> QED BY <1>1, <1>2 DEF Kept, BanksStep, UserStep, SameUser

\* A register of the mode's own.
LEMMA OwnRegister ==
  ASSUME NEW file \in Files, \A p \in Physicals : file[p] # regs[p] => p = Bank(cpsr.mode, p[2]),
         NEW r, NEW v \in Words
  PROVE  /\ With(file, r, v) \in Files
         /\ \A p \in Physicals : With(file, r, v)[p] # regs[p] => p = Bank(cpsr.mode, p[2])
<1>1. /\ With(file, r, v) \in Files
      /\ \A p \in Physicals : With(file, r, v)[p] # file[p] => p = Bank(cpsr.mode, r)
  BY WithTyped
<1>2. Bank(cpsr.mode, r)[2] = r
  BY BankNamed
<1> QED BY <1>1, <1>2

LEMMA TestStep ==
  ASSUME CpuTypeOK, RunsWhatItFetched, NEW i, Decoded(i), Test(i),
         i.set = "both" \/ cpsr.t = (i.set = "thumb")
  PROVE  Kept
<1>1. Typed /\ pc % InstructionSize = 0 /\ i.kind = "data" /\ i.op \in Tests
  BY TypesApart DEF Test, Executes
<1>2. /\ i.op \in Operations /\ i.rd \in Results /\ i.rn \in Operands /\ IsSource(i.src)
      /\ i.rd = Pc => i.set = "arm"
  BY <1>1 DEF Decoded
<1>3. Result(i) \in AluResults
  BY <1>1, <1>2, ResultTyped
<1>4. cpsr \in Statuses /\ WithFlags(cpsr, Result(i)) \in Statuses /\ Restored \in Statuses
  BY <1>1, <1>3, FlagsTyped, RestoredTyped DEF Typed
<1>5. cpsr' \in Statuses
  BY <1>4 DEF Test
<1>6. SameUser
  <2>1. CASE i.rd = Pc /\ HasSpsr
    BY <1>1, <2>1, RestoredTyped DEF SameUser
  <2>2. CASE ~(i.rd = Pc /\ HasSpsr)
    <3>1. cpsr' = WithFlags(cpsr, Result(i))
      BY <2>2 DEF Test
    <3> QED BY <1>3, <1>4, <3>1, FlagsTyped DEF SameUser
  <2> QED BY <2>1, <2>2
<1>7. cpsr.t => cpsr'.t = cpsr.t
  <2>1. ASSUME cpsr.t PROVE ~(i.rd = Pc)
    BY <1>2, <2>1
  <2>2. ASSUME cpsr.t PROVE cpsr' = WithFlags(cpsr, Result(i))
    BY <2>1, <2>2 DEF Test
  <2> QED BY <1>3, <1>4, <2>2, FlagsTyped
<1> DEFINE n == InstructionSize
<1>8. pc' = Wrap(pc + n) /\ pc' \in Words /\ pc' % n = 0
  BY <1>1, NextAligned DEF Test
<1>9. pc' % InstructionSize' = 0
  <2>1. CASE cpsr'.t = cpsr.t
    <3>1. InstructionSize' = n
      BY <2>1 DEF InstructionSize
    <3> QED BY <1>8, <3>1
  <2>2. CASE cpsr'.t # cpsr.t
    <3>1. n = 4 /\ InstructionSize' = 2
      BY <1>4, <1>5, <1>7, <2>2 DEF InstructionSize, Statuses
    <3>2. pc' \in Nat /\ pc' % 4 = 0
      BY <1>8, <3>1, Wrapped
    <3>3. \A x \in Nat : x % 4 = 0 => x % 2 = 0
      OBVIOUS
    <3> QED BY <3>1, <3>2, <3>3
  <2> QED BY <2>1, <2>2
<1>10. RunsWhatItFetched'
  <2> DEFINE old == Fetched
  <2>1. pipe' = [old EXCEPT !.mixed = @ \/ cpsr'.t # cpsr.t]
    BY DEF Test
  <2>2. old = [valid |-> old.valid, mixed |-> old.mixed, at |-> old.at, slots |-> old.slots]
        /\ old.at = Wrap(pc + n) /\ old.mixed \in BOOLEAN
    BY DEF Fetched
  <2>3. CASE cpsr'.t = cpsr.t
    <3>1. pipe' = Fetched
      <4> HIDE DEF old
      <4>1. (old.mixed \/ cpsr'.t # cpsr.t) = old.mixed
        BY <2>2, <2>3
      <4>2. pipe' = [old EXCEPT !.mixed = old.mixed]
        BY <2>1, <4>1
      <4>3. pipe' = old
        BY <2>2, <4>2
      <4> QED BY <4>3 DEF old
    <3> QED BY <1>1, <1>8, <2>3, <3>1, FetchedRight
  <2>4. CASE cpsr'.t # cpsr.t
    <3> HIDE DEF old
    <3>1. pipe'.mixed /\ pipe'.at = pc'
      BY <1>8, <2>1, <2>2, <2>4
    <3> QED BY <3>1 DEF RunsWhatItFetched
  <2> QED BY <2>3, <2>4
<1>11. regs' = regs /\ spsr' = spsr /\ mem' = mem
  BY DEF Test
<1>12. CpuTypeOK'
  BY <1>1, <1>5, <1>8, <1>9, <1>11 DEF CpuTypeOK, Typed, Files
<1> QED BY <1>6, <1>10, <1>11, <1>12 DEF Kept, BanksStep, UserStep, SameUser

LEMMA ComputeStep ==
  ASSUME CpuTypeOK, RunsWhatItFetched, NEW i, Decoded(i), Compute(i)
  PROVE  Kept
<1>1. Typed /\ i.kind = "data"
  BY TypesApart DEF Compute, Executes
<1>2. i.op \in Operations /\ i.rn \in Operands /\ IsSource(i.src)
  BY <1>1 DEF Decoded
<1>3. Result(i) \in AluResults
  BY <1>1, <1>2, ResultTyped
<1>4. cpsr \in Statuses /\ regs \in Files /\ Result(i).value \in Words
  BY <1>1, <1>3 DEF Typed, AluResults
<1> DEFINE s == WithFlags(cpsr, Result(i))
<1>5. s \in Statuses /\ s.mode = cpsr.mode /\ s.i = cpsr.i /\ s.f = cpsr.f /\ s.t = cpsr.t
  BY <1>3, <1>4, FlagsTyped
<1> HIDE DEF s
<1>6. cpsr' = s \/ cpsr' = cpsr
  BY DEF Compute, s
<1>7. regs' = With(regs, i.rd, Result(i).value) /\ Advance /\ spsr' = spsr /\ mem' = mem
  BY DEF Compute
<1>8. /\ regs' \in Files
      /\ \A p \in Physicals : regs'[p] # regs[p] => p = Bank(cpsr.mode, p[2])
  BY <1>4, <1>7, OwnRegister
<1>9. cpsr' \in Statuses /\ cpsr'.t = cpsr.t /\ SameUser
  BY <1>4, <1>5, <1>6 DEF SameUser
<1>10. spsr' \in [Excepted -> Statuses] /\ mem' \in Memories
  BY <1>1, <1>7 DEF Typed, Memories
<1> QED BY <1>7, <1>8, <1>9, <1>10, OwnStep

LEMMA ComputePcStep ==
  ASSUME CpuTypeOK, RunsWhatItFetched, NEW i, Decoded(i), ComputePc(i)
  PROVE  Kept
<1>1. Typed /\ i.kind = "data"
  BY TypesApart DEF ComputePc, Executes
<1>2. i.op \in Operations /\ i.rn \in Operands /\ IsSource(i.src)
  BY <1>1 DEF Decoded
<1>3. Result(i) \in AluResults
  BY <1>1, <1>2, ResultTyped
<1>4. cpsr \in Statuses /\ regs \in Files /\ Result(i).value \in Words
  BY <1>1, <1>3 DEF Typed, AluResults
<1>5. (cpsr' = Restored /\ HasSpsr) \/ cpsr' = cpsr
  BY DEF ComputePc
<1>6. cpsr' \in Statuses /\ SameUser
  BY <1>1, <1>4, <1>5, RestoredTyped DEF SameUser
<1>7. BranchTo(cpsr', Result(i).value) /\ regs' = regs /\ spsr' = spsr /\ mem' = mem
  BY DEF ComputePc
<1>8. spsr' \in [Excepted -> Statuses] /\ mem' \in Memories
  BY <1>1, <1>7 DEF Typed, Memories
<1> QED BY <1>4, <1>6, <1>7, <1>8, OwnStep

LEMMA MultiplyStep ==
  ASSUME CpuTypeOK, RunsWhatItFetched, NEW i, Decoded(i), Multiply(i)
  PROVE  Kept
<1>1. Typed /\ i.kind = "multiply"
  BY TypesApart DEF Multiply, Executes
<1>2. i.rm \in Indexes /\ i.rs \in Indexes /\ i.rn \in Indexes
  BY <1>1 DEF Decoded
<1> DEFINE n == IF i.accumulate THEN Value(i.rn) ELSE 0
           p == Value(i.rm) * Value(i.rs) + n
           r == Wrap(p)
<1>3. r \in Words
  <2>1. Value(i.rm) \in Int /\ Value(i.rs) \in Int /\ n \in Int
    BY <1>1, <1>2, ValueNatural
  <2> HIDE DEF n
  <2>2. p \in Int
    BY <2>1
  <2> HIDE DEF p
  <2> QED BY <2>2, Wrapped
<1>4. /\ regs' = With(regs, i.rd, r) /\ (cpsr' = WithNz(cpsr, r) \/ cpsr' = cpsr)
      /\ Advance /\ spsr' = spsr /\ mem' = mem
  BY DEF Multiply
<1> HIDE DEF r
<1>5. cpsr \in Statuses /\ regs \in Files
  BY <1>1 DEF Typed
<1>6. cpsr' \in Statuses /\ cpsr'.t = cpsr.t /\ SameUser
  <2>1. CASE cpsr' = cpsr
    BY <1>5, <2>1 DEF SameUser
  <2>2. CASE cpsr' = WithNz(cpsr, r)
    <3>1. \E x : x \in AluResults
      <4>1. 0 \in Words
        BY Sizes DEF Words
      <4>2. [value |-> 0, carry |-> FALSE, overflow |-> FALSE] \in AluResults
        BY <4>1 DEF AluResults
      <4> QED BY <4>2
    <3> QED BY <1>5, <2>2, <3>1, FlagsTyped DEF SameUser
  <2> QED BY <1>4, <2>1, <2>2
<1>7. /\ regs' \in Files
      /\ \A x \in Physicals : regs'[x] # regs[x] => x = Bank(cpsr.mode, x[2])
  BY <1>3, <1>4, <1>5, OwnRegister
<1>8. spsr' \in [Excepted -> Statuses] /\ mem' \in Memories
  BY <1>1, <1>4 DEF Typed, Memories
<1> QED BY <1>4, <1>6, <1>7, <1>8, OwnStep

LEMMA ProductTyped ==
  ASSUME Typed, NEW i, {i.rm, i.rs} \subseteq Indexes,
         i.accumulate => {i.high, i.low} \subseteq Indexes
  PROVE  Product(i) % Size \in Words /\ Product(i) \div Size \in Words
<1> DEFINE a == IF i.signed THEN Signed(Value(i.rm)) * Signed(Value(i.rs))
                            ELSE Value(i.rm) * Value(i.rs)
           b == IF i.accumulate THEN Value(i.high) * Size + Value(i.low) ELSE 0
           r == (a + b) % (Size * Size)
<1>1. Size \in Nat \ {0} /\ Size * Size \in Nat \ {0}
  BY Sizes
<1>2. a \in Int
  <2>1. Value(i.rm) \in Int /\ Value(i.rs) \in Int
    BY ValueNatural
  <2>2. Signed(Value(i.rm)) \in Int /\ Signed(Value(i.rs)) \in Int
    BY <1>1, <2>1 DEF Signed
  <2>3. Signed(Value(i.rm)) * Signed(Value(i.rs)) \in Int /\ Value(i.rm) * Value(i.rs) \in Int
    BY <2>1, <2>2
  <2> QED BY <2>3
<1>3. b \in Int
  <2>1. CASE i.accumulate
    <3>1. Value(i.high) \in Int /\ Value(i.low) \in Int
      BY <2>1, ValueNatural
    <3>2. Value(i.high) * Size + Value(i.low) \in Int
      BY <1>1, <3>1
    <3> QED BY <3>2
  <2>2. CASE ~i.accumulate
    BY <2>2
  <2> QED BY <2>1, <2>2
<1>4. Product(i) = r
  BY DEF Product
<1> DEFINE s == a + b
           n == Size * Size
<1>5. r \in Nat /\ r < Size * Size
  <2>1. s \in Int
    BY <1>2, <1>3
  <2>2. n \in Nat \ {0}
    BY <1>1
  <2> HIDE DEF s, n
  <2>3. s % n \in 0 .. n - 1
    BY <2>1, <2>2
  <2>4. s % n \in Nat /\ s % n < n
    BY <2>2, <2>3
  <2> QED BY <2>4 DEF s, n
<1> HIDE DEF r
<1> DEFINE q == r \div Size
<1>6. q \in Nat /\ q * Size <= r /\ r % Size \in 0 .. Size - 1
  BY <1>1, <1>5, Quotient, Modulo
<1> HIDE DEF q
<1>7. q < Size
  <2>1. q * Size < Size * Size
    BY <1>1, <1>5, <1>6
  <2> QED BY <1>1, <1>6, <2>1, Cancellation
<1>8. r % Size \in Words /\ q \in Words
  BY <1>1, <1>6, <1>7 DEF Words
<1> QED BY <1>4, <1>8 DEF q

LEMMA LongMultiplyStep ==
  ASSUME CpuTypeOK, RunsWhatItFetched, NEW i, Decoded(i), LongMultiply(i)
  PROVE  Kept
<1>1. Typed /\ i.kind = "long" /\ Pc \notin {i.high, i.low}
  BY TypesApart DEF LongMultiply, Executes
<1>2. i.rm \in Indexes /\ i.rs \in Indexes /\ i.high \in Indexes /\ i.low \in Indexes
  BY <1>1 DEF Decoded, Results
<1> DEFINE r == Product(i)
           lo == r % Size
           hi == r \div Size
           s == [cpsr EXCEPT !.n = hi >= Top, !.z = r = 0]
<1>3. lo \in Words /\ hi \in Words
  BY <1>1, <1>2, ProductTyped
<1>4. /\ regs' = With(With(regs, i.low, lo), i.high, hi) /\ (cpsr' = s \/ cpsr' = cpsr)
      /\ Advance /\ spsr' = spsr /\ mem' = mem
  BY DEF LongMultiply
<1>5. cpsr \in Statuses /\ regs \in Files
  BY <1>1 DEF Typed
<1>6. s \in Statuses /\ s.mode = cpsr.mode /\ s.i = cpsr.i /\ s.f = cpsr.f /\ s.t = cpsr.t
  <2>1. (hi >= Top) \in BOOLEAN /\ (r = 0) \in BOOLEAN
    OBVIOUS
  <2> HIDE DEF hi, r
  <2> QED BY <1>5, <2>1 DEF Statuses
<1> HIDE DEF s, lo, hi
<1>7. cpsr' \in Statuses /\ cpsr'.t = cpsr.t /\ SameUser
  BY <1>4, <1>5, <1>6 DEF SameUser
<1> DEFINE first == With(regs, i.low, lo)
<1>8. /\ first \in Files
      /\ \A x \in Physicals : first[x] # regs[x] => x = Bank(cpsr.mode, x[2])
  BY <1>3, <1>5, OwnRegister
<1> HIDE DEF first
<1>9. /\ regs' \in Files
      /\ \A x \in Physicals : regs'[x] # regs[x] => x = Bank(cpsr.mode, x[2])
  BY <1>3, <1>4, <1>8, OwnRegister DEF first
<1>10. spsr' \in [Excepted -> Statuses] /\ mem' \in Memories
  BY <1>1, <1>4 DEF Typed, Memories
<1> QED BY <1>4, <1>7, <1>9, <1>10, OwnStep

-----------------------------------------------------------------------------
\* The address of a transfer, and the base written back.
LEMMA AddressTyped ==
  ASSUME Typed, NEW i, i.base \in Operands, IsSource(i.src)
  PROVE  Adjusted(i) \in Words /\ AddressOf(i) \in Words
<1>1. Operand(i.base, FALSE) \in Words
  BY OperandTyped
<1>2. Offset(i.src) \in Words
  <2>1. Source(i.src) \in ShiftResults
    BY SourceTyped
  <2>2. Source(i.src).value \in Words
    BY <2>1 DEF ShiftResults
  <2>3. i.src.form = "immediate" => i.src.value \in Words
    BY DEF IsSource
  <2> QED BY <2>2, <2>3 DEF Offset
<1> DEFINE a == Operand(i.base, FALSE)
           o == Offset(i.src)
           x == a + (IF i.up THEN 1 ELSE -1) * o
<1>3. x \in Int
  <2>1. a \in Int /\ o \in Int
    <3>1. a \in Nat /\ o \in Nat
      BY <1>1, <1>2, WordsAreNatural
    <3> HIDE DEF a, o
    <3> QED BY <3>1
  <2> HIDE DEF a, o
  <2> QED BY <2>1
<1>4. Adjusted(i) = Wrap(x)
  BY DEF Adjusted
<1> HIDE DEF x
<1> QED BY <1>1, <1>3, <1>4, Wrapped DEF AddressOf

LEMMA BaseWritten ==
  ASSUME Typed, NEW i, i.base \in Operands, IsSource(i.src)
  PROVE  /\ BasedOn(i) \in Files
         /\ \A p \in Physicals : BasedOn(i)[p] # regs[p] => p = Bank(cpsr.mode, p[2])
<1>1. regs \in Files /\ Adjusted(i) \in Words
  BY AddressTyped DEF Typed
<1> QED BY <1>1, OwnRegister DEF BasedOn

LEMMA StoredTyped ==
  ASSUME Typed, NEW r \in Results
  PROVE  Stored(r) \in Words
<1>1. pc \in Int
  BY Wrapped DEF Typed
<1>2. Wrap(pc + 12) \in Words
  BY <1>1, Wrapped
<1>3. r # Pc => r \in Indexes
  BY DEF Results
<1> QED BY <1>2, <1>3, ValueTyped DEF Stored

LEMMA LoadStep ==
  ASSUME CpuTypeOK, RunsWhatItFetched, NEW i, Decoded(i), Load(i)
  PROVE  Kept
<1>1. Typed /\ i.kind = "load" /\ Reachable(i)
  BY TypesApart DEF Load, Executes
<1>2. /\ i.base \in Operands /\ IsSource(i.src) /\ i.size \in {1, 2, 4} /\ i.signed \in BOOLEAN
  BY <1>1 DEF Decoded
<1> DEFINE v == Loaded(AddressOf(i), i.size, i.signed)
           file == BasedOn(i)
<1>3. v \in Words
  <2>1. AddressOf(i) \in Nat /\ Aligned(AddressOf(i), 4) \in Ram
    BY <1>1, <1>2, AddressTyped, Wrapped DEF Reachable
  <2> QED BY <1>1, <1>2, <2>1, LoadedTyped
<1>4. file \in Files /\ \A p \in Physicals : file[p] # regs[p] => p = Bank(cpsr.mode, p[2])
  BY <1>1, <1>2, BaseWritten
<1>5. /\ IF i.rd = Pc THEN regs' = file /\ BranchTo(cpsr, v) ELSE regs' = With(file, i.rd, v) /\ Advance
      /\ cpsr' = cpsr /\ spsr' = spsr /\ mem' = mem
  BY DEF Load
<1> HIDE DEF v, file
<1>6. /\ regs' \in Files
      /\ \A p \in Physicals : regs'[p] # regs[p] => p = Bank(cpsr.mode, p[2])
  BY <1>3, <1>4, <1>5, OwnRegister
<1>7. \/ Advance /\ cpsr'.t = cpsr.t
      \/ \E target \in Words : BranchTo(cpsr', target)
  BY <1>3, <1>5
<1>8. /\ cpsr' \in Statuses /\ SameUser
      /\ spsr' \in [Excepted -> Statuses] /\ mem' \in Memories
  BY <1>1, <1>5 DEF Typed, Memories, SameUser
<1> QED BY <1>6, <1>7, <1>8, OwnStep

LEMMA StoreStep ==
  ASSUME CpuTypeOK, RunsWhatItFetched, NEW i, Decoded(i), Store(i)
  PROVE  Kept
<1>1. Typed /\ i.kind = "store"
  BY TypesApart DEF Store, Executes
<1>2. i.rd \in Results /\ i.base \in Operands /\ IsSource(i.src) /\ i.size \in {1, 2, 4}
  BY <1>1 DEF Decoded
<1>3. /\ regs' = BasedOn(i) /\ mem' = Holding(mem, AddressOf(i), i.size, Stored(i.rd))
      /\ Advance /\ cpsr' = cpsr /\ spsr' = spsr
  BY DEF Store
<1>4. /\ regs' \in Files
      /\ \A p \in Physicals : regs'[p] # regs[p] => p = Bank(cpsr.mode, p[2])
  BY <1>1, <1>2, <1>3, BaseWritten
<1>5. mem' \in Memories
  <2>1. Stored(i.rd) \in Words /\ mem \in [Ram -> 0 .. Octet - 1]
    BY <1>1, <1>2, StoredTyped DEF Typed
  <2> QED BY <1>2, <1>3, <2>1, HoldingTyped DEF Memories
<1>6. cpsr' \in Statuses /\ SameUser /\ spsr' \in [Excepted -> Statuses] /\ cpsr'.t = cpsr.t
  BY <1>1, <1>3 DEF Typed, SameUser
<1> QED BY <1>3, <1>4, <1>5, <1>6, OwnStep

LEMMA SwapStep ==
  ASSUME CpuTypeOK, RunsWhatItFetched, NEW i, Decoded(i), Swap(i)
  PROVE  Kept
<1>1. Typed /\ i.kind = "swap" /\ Aligned(Value(i.base), 4) \in Ram
  BY TypesApart DEF Swap, Executes
<1>2. i.rm \in Indexes /\ i.base \in Indexes /\ i.size \in {1, 2, 4}
  BY <1>1 DEF Decoded
<1> DEFINE v == Loaded(Value(i.base), i.size, FALSE)
<1>3. v \in Words
  <2>1. Value(i.base) \in Nat
    BY <1>1, <1>2, ValueTyped, Wrapped
  <2> QED BY <1>1, <1>2, <2>1, LoadedTyped
<1>4. /\ regs' = With(regs, i.rd, v) /\ mem' = Holding(mem, Value(i.base), i.size, Value(i.rm))
      /\ Advance /\ cpsr' = cpsr /\ spsr' = spsr
  BY DEF Swap
<1> HIDE DEF v
<1>5. regs \in Files /\ mem \in [Ram -> 0 .. Octet - 1] /\ Value(i.rm) \in Words
  BY <1>1, <1>2, ValueTyped DEF Typed
<1>6. /\ regs' \in Files
      /\ \A p \in Physicals : regs'[p] # regs[p] => p = Bank(cpsr.mode, p[2])
  BY <1>3, <1>4, <1>5, OwnRegister
<1>7. mem' \in Memories
  BY <1>2, <1>4, <1>5, HoldingTyped DEF Memories
<1>8. cpsr' \in Statuses /\ SameUser /\ spsr' \in [Excepted -> Statuses] /\ cpsr'.t = cpsr.t
  BY <1>1, <1>4 DEF Typed, SameUser
<1> QED BY <1>4, <1>6, <1>7, <1>8, OwnStep

-----------------------------------------------------------------------------
\* The step of an action whose registers are another mode's too.
LEMMA BankedStep ==
  ASSUME CpuTypeOK, RunsWhatItFetched, regs' \in Files, BanksStep, UserStep, cpsr' \in Statuses,
         spsr' \in [Excepted -> Statuses], mem' \in Memories,
         \/ Advance /\ cpsr'.t = cpsr.t
         \/ \E target \in Words : BranchTo(cpsr', target)
  PROVE  Kept
<1>1. pc' \in Words /\ pc' % InstructionSize' = 0 /\ RunsWhatItFetched'
  BY MovesOn, BranchedTo
<1>2. CpuTypeOK'
  BY <1>1 DEF CpuTypeOK, Files, Memories
<1> QED BY <1>1, <1>2 DEF Kept

IsBlock(i) == i.base \in Indexes /\ i.list \subseteq Results

LEMMA ListFinite ==
  ASSUME NEW S, S \subseteq Results
  PROVE  Cardinality(S) \in Nat
<1>1. Results \subseteq 0 .. 15
  BY IndexesAssumption DEF Results, Pc
<1>2. IsFiniteSet(0 .. 15)
  <2>1. \A a, b \in Int : IsFiniteSet(a .. b)
    BY FS_Interval
  <2>2. 0 \in Int /\ 15 \in Int
    OBVIOUS
  <2> QED BY <2>1, <2>2, Zenon
<1>3. IsFiniteSet(S)
  BY <1>1, <1>2, FS_Subset
<1> QED BY <1>3, FS_CardinalityType

LEMMA BlockTyped ==
  ASSUME Typed, NEW i, IsBlock(i)
  PROVE  /\ Moved(i) \subseteq Results /\ BlockMode(i) \in Modes
         /\ Updated(i) \in Words
         /\ \A r \in Moved(i) : Place(i, r) \in Words /\ StoredWord(i, r) \in Words
<1>1. Moved(i) \subseteq Results
  BY DEF IsBlock, Moved, Results
<1>2. BlockMode(i) \in Modes
  BY DEF Typed, Statuses, BlockMode, Modes, ModeCodes
<1>3. Base(i) \in Nat /\ Count(i) \in Nat
  BY ValueNatural, ListFinite DEF Base, IsBlock, Count
<1>4. Updated(i) \in Words
  <2> DEFINE x == Base(i) + (IF i.up THEN 4 ELSE -4) * Count(i)
  <2>1. x \in Int
    <3> HIDE DEF Base, Count
    <3> QED BY <1>3
  <2>2. Updated(i) = Wrap(x)
    BY DEF Updated
  <2> HIDE DEF x
  <2> QED BY <2>1, <2>2, Wrapped
<1>5. ASSUME NEW r \in Moved(i) PROVE Place(i, r) \in Words
  <2> DEFINE n == Cardinality({q \in Moved(i) : q < r})
             x == First(i) + 4 * n
  <2>1. n \in Nat
    <3>1. {q \in Moved(i) : q < r} \subseteq Results
      BY <1>1
    <3> QED BY <3>1, ListFinite
  <2>2. First(i) \in Int
    BY <1>3 DEF First
  <2> HIDE DEF n
  <2>3. x \in Int
    BY <2>1, <2>2
  <2>4. Place(i, r) = Wrap(x)
    BY DEF Place, n
  <2> HIDE DEF x
  <2> QED BY <2>3, <2>4, Wrapped
<1>6. ASSUME NEW r \in Moved(i) PROVE StoredWord(i, r) \in Words
  <2>1. CASE r = Pc
    <3> DEFINE x == pc + IF cpsr.t THEN 6 ELSE 12
    <3>1. x \in Int
      <4>1. pc \in Nat
        BY WordsAreNatural DEF Typed
      <4> QED BY <4>1
    <3>2. StoredWord(i, r) = Wrap(x)
      BY <2>1 DEF StoredWord
    <3> HIDE DEF x
    <3> QED BY <3>1, <3>2, Wrapped
  <2>2. CASE r # Pc
    <3>1. StoredWord(i, r) \in {Updated(i), regs[Bank(BlockMode(i), r)]}
      BY <2>2 DEF StoredWord
    <3>2. Bank(BlockMode(i), r) \in Physicals
      BY <1>1, <1>2, <2>2, BankNamed DEF Results
    <3>3. regs[Bank(BlockMode(i), r)] \in Words
      BY <3>2 DEF Typed, Files
    <3> QED BY <1>4, <3>1, <3>3
  <2> QED BY <2>1, <2>2
<1> QED BY <1>1, <1>2, <1>4, <1>5, <1>6

\* Writing the base back, to registers of one's own or after a load.
LEMMA BaseOfBlock ==
  ASSUME Typed, NEW i, IsBlock(i), NEW file \in Files
  PROVE  /\ WithBase(i, file) \in Files
         /\ \A p \in Physicals : WithBase(i, file)[p] # file[p] => p = Bank(cpsr.mode, p[2])
<1>1. Updated(i) \in Words
  BY BlockTyped
<1>2. /\ With(file, i.base, Updated(i)) \in Files
      /\ \A p \in Physicals : With(file, i.base, Updated(i))[p] # file[p] => p = Bank(cpsr.mode, i.base)
  BY <1>1, WithTyped
<1>3. Bank(cpsr.mode, i.base)[2] = i.base
  BY BankNamed
<1> QED BY <1>2, <1>3 DEF WithBase

LEMMA StoreManyStep ==
  ASSUME CpuTypeOK, RunsWhatItFetched, NEW i, Decoded(i), StoreMany(i)
  PROVE  Kept
<1>1. Typed /\ i.kind = "block"
  BY TypesApart DEF StoreMany, Executes
<1>2. IsBlock(i)
  BY <1>1 DEF Decoded, IsBlock
<1>3. /\ regs' = WithBase(i, regs) /\ Advance /\ cpsr' = cpsr /\ spsr' = spsr
      /\ mem' = [x \in Ram |-> IF Aligned(x, 4) \in Places(i)
                               THEN LET r == CHOOSE q \in Moved(i) : Aligned(Place(i, q), 4) = Aligned(x, 4)
                                    IN  Lane(StoredWord(i, r), x % 4)
                               ELSE mem[x]]
  BY DEF StoreMany
<1>4. mem' \in Memories
  <2>1. ASSUME NEW x \in Ram, Aligned(x, 4) \in Places(i)
        PROVE  Lane(StoredWord(i, CHOOSE q \in Moved(i) : Aligned(Place(i, q), 4) = Aligned(x, 4)), x % 4)
                 \in 0 .. Octet - 1
    <3> DEFINE r == CHOOSE q \in Moved(i) : Aligned(Place(i, q), 4) = Aligned(x, 4)
    <3>1. \E q \in Moved(i) : Aligned(Place(i, q), 4) = Aligned(x, 4)
      BY <2>1 DEF Places
    <3>2. r \in Moved(i)
      BY <3>1
    <3> HIDE DEF r
    <3>3. StoredWord(i, r) \in Words
      BY <1>1, <1>2, <3>2, BlockTyped
    <3>4. x % 4 \in 0 .. 3
      <4>1. x \in Nat
        BY RamAssumption, WordsAreNatural
      <4> QED BY <4>1
    <3>5. Lane(StoredWord(i, r), x % 4) \in 0 .. Octet - 1
      BY <3>3, <3>4, LaneTyped
    <3> QED BY <3>5 DEF r
  <2>2. \A x \in Ram : mem[x] \in 0 .. Octet - 1
    BY <1>1 DEF Typed
  <2> QED BY <1>3, <2>1, <2>2 DEF Memories
<1>5. regs \in Files /\ cpsr \in Statuses /\ spsr \in [Excepted -> Statuses]
  BY <1>1 DEF Typed
<1>6. /\ regs' \in Files
      /\ \A p \in Physicals : regs'[p] # regs[p] => p = Bank(cpsr.mode, p[2])
  BY <1>1, <1>2, <1>3, <1>5, BaseOfBlock
<1>7. cpsr' \in Statuses /\ SameUser /\ spsr' \in [Excepted -> Statuses] /\ cpsr'.t = cpsr.t
  BY <1>3, <1>5 DEF SameUser
<1> QED BY <1>3, <1>4, <1>6, <1>7, OwnStep

LEMMA LoadedAtTyped ==
  ASSUME Typed, NEW i, IsBlock(i), Places(i) \subseteq Ram, NEW r \in Moved(i)
  PROVE  LoadedAt(i, r) \in Words
<1>1. Place(i, r) \in Words /\ Aligned(Place(i, r), 4) \in Ram
  BY BlockTyped DEF Places
<1>2. Place(i, r) \in Nat
  BY <1>1, WordsAreNatural
<1>3. LoadedWord(Place(i, r)) \in Words /\ Piece(Place(i, r), 4) \in Words
  BY <1>1, <1>2, LoadedTyped, PieceWord
<1> QED BY <1>3 DEF LoadedAt

LEMMA FilledTyped ==
  ASSUME Typed, NEW i, IsBlock(i), Places(i) \subseteq Ram
  PROVE  /\ FilledFrom(i) \in Files
         /\ \A p \in Physicals : FilledFrom(i)[p] # regs[p] => p = Bank(BlockMode(i), p[2])
<1>1. \A p \in Physicals : regs[p] \in Words
  BY DEF Typed, Files
<1>2. \A r \in Moved(i) : LoadedAt(i, r) \in Words
  BY LoadedAtTyped
<1> QED BY <1>1, <1>2 DEF FilledFrom, Files

\* The registers after a load of several: those of one's own, or of the user.
LEMMA BlockBanks ==
  ASSUME Typed, NEW i, IsBlock(i), Places(i) \subseteq Ram,
         regs' = WithBase(i, FilledFrom(i)), seen'.block = {[i |-> i, before |-> regs]}
  PROVE  regs' \in Files /\ BanksStep
<1> DEFINE file == FilledFrom(i)
<1>1. file \in Files /\ \A p \in Physicals : file[p] # regs[p] => p = Bank(BlockMode(i), p[2])
  BY FilledTyped
<1> HIDE DEF file
<1>2. regs' \in Files /\ \A p \in Physicals : regs'[p] # file[p] => p = Bank(cpsr.mode, p[2])
  BY <1>1, BaseOfBlock DEF file
<1>3. BlockMode(i) = cpsr.mode \/ (BlockMode(i) = "usr" /\ UserBank(i))
  BY DEF BlockMode
<1>4. UserBank(i) => \E b \in seen'.block : UserBank(b.i)
  <2>1. [i |-> i, before |-> regs].i = i
    OBVIOUS
  <2> QED BY <2>1
<1> QED BY <1>1, <1>2, <1>3, <1>4 DEF BanksStep

LEMMA LoadManyStep ==
  ASSUME CpuTypeOK, RunsWhatItFetched, NEW i, Decoded(i), LoadMany(i)
  PROVE  Kept
<1>1. Typed /\ i.kind = "block" /\ Places(i) \subseteq Ram
  BY TypesApart DEF LoadMany, Executes
<1>2. IsBlock(i)
  BY <1>1 DEF Decoded, IsBlock
<1>3. /\ regs' = WithBase(i, FilledFrom(i)) /\ Advance /\ cpsr' = cpsr /\ spsr' = spsr /\ mem' = mem
      /\ seen' = BlockSeen(i)
  BY DEF LoadMany, Sees
<1>4. seen'.block = {[i |-> i, before |-> regs]}
  BY <1>3 DEF BlockSeen, Quiet
<1>5. regs' \in Files /\ BanksStep
  BY <1>1, <1>2, <1>3, <1>4, BlockBanks
<1>6. /\ cpsr' \in Statuses /\ UserStep /\ cpsr'.t = cpsr.t
      /\ spsr' \in [Excepted -> Statuses] /\ mem' \in Memories
  BY <1>1, <1>3 DEF Typed, Memories, UserStep
<1> QED BY <1>3, <1>5, <1>6, BankedStep

LEMMA LoadManyAndPcStep ==
  ASSUME CpuTypeOK, RunsWhatItFetched, NEW i, Decoded(i), LoadManyAndPc(i)
  PROVE  Kept
<1>1. Typed /\ i.kind = "block" /\ Places(i) \subseteq Ram /\ Pc \in Moved(i)
  BY TypesApart DEF LoadManyAndPc, Executes
<1>2. IsBlock(i)
  BY <1>1 DEF Decoded, IsBlock
<1> DEFINE v == LoadedAt(i, Pc)
           restores == i.user /\ i.list # {}
<1>3. /\ restores => HasSpsr
      /\ cpsr' = IF restores THEN Restored ELSE cpsr
      /\ BranchTo(cpsr', v)
      /\ seen' = [BlockSeen(i) EXCEPT !.target = v, !.did = IF restores THEN "return" ELSE "loaded"]
      /\ regs' = WithBase(i, FilledFrom(i)) /\ spsr' = spsr /\ mem' = mem
  BY DEF LoadManyAndPc, Sees
<1>4. v \in Words
  BY <1>1, <1>2, LoadedAtTyped
<1> HIDE DEF v, restores
<1>5. seen'.block = {[i |-> i, before |-> regs]}
  BY <1>3 DEF BlockSeen, Quiet
<1>6. regs' \in Files /\ BanksStep
  BY <1>1, <1>2, <1>3, <1>5, BlockBanks
<1>7. cpsr' \in Statuses /\ UserStep
  <2>1. Restored \in Statuses /\ cpsr \in Statuses /\ (cpsr.mode = "usr" => ~HasSpsr)
    BY <1>1, RestoredTyped DEF Typed
  <2> QED BY <1>3, <2>1 DEF UserStep
<1>8. spsr' \in [Excepted -> Statuses] /\ mem' \in Memories
  BY <1>1, <1>3 DEF Typed, Memories
<1> QED BY <1>3, <1>4, <1>6, <1>7, <1>8, BankedStep

-----------------------------------------------------------------------------
LEMMA ReadStatusStep ==
  ASSUME CpuTypeOK, RunsWhatItFetched, NEW i, ReadStatus(i)
  PROVE  Kept
<1>1. Typed
  BY TypesApart
<1> DEFINE w == PsrWord(IF i.saved /\ HasSpsr THEN spsr[cpsr.mode] ELSE cpsr)
<1>2. w \in Words
  BY WordInWords DEF PsrWord
<1>3. regs' = With(regs, i.rd, w) /\ Advance /\ cpsr' = cpsr /\ spsr' = spsr /\ mem' = mem
  BY DEF ReadStatus
<1> HIDE DEF w
<1>4. /\ regs' \in Files
      /\ \A p \in Physicals : regs'[p] # regs[p] => p = Bank(cpsr.mode, p[2])
  <2>1. regs \in Files
    BY <1>1 DEF Typed
  <2> QED BY <1>2, <1>3, <2>1, OwnRegister
<1>5. /\ cpsr' \in Statuses /\ SameUser /\ cpsr'.t = cpsr.t
      /\ spsr' \in [Excepted -> Statuses] /\ mem' \in Memories
  BY <1>1, <1>3 DEF Typed, Memories, SameUser
<1> QED BY <1>3, <1>4, <1>5, OwnStep

\* The steps that leave the registers alone.
LEMMA SameRegisters ==
  ASSUME Typed, regs' = regs
  PROVE  /\ regs' \in Files
         /\ \A p \in Physicals : regs'[p] # regs[p] => p = Bank(cpsr.mode, p[2])
  BY DEF Typed

LEMMA WriteStatusStep ==
  ASSUME CpuTypeOK, RunsWhatItFetched, NEW i, WriteStatus(i)
  PROVE  Kept
<1>1. Typed
  BY TypesApart
<1>2. /\ cpsr' = Assigned(cpsr, PsrMerged(cpsr, Source(i.src).value, Fields(i), FALSE))
      /\ Advance /\ regs' = regs /\ spsr' = spsr /\ mem' = mem
  BY DEF WriteStatus
<1>3. cpsr \in Statuses /\ (cpsr.mode = "usr" => "c" \notin Fields(i))
  BY <1>1 DEF Typed, Fields
<1>4. /\ cpsr' \in Statuses /\ cpsr'.t = cpsr.t
      /\ "c" \notin Fields(i) => cpsr'.mode = cpsr.mode /\ cpsr'.i = cpsr.i /\ cpsr'.f = cpsr.f
  <2> DEFINE w == Source(i.src).value
             g == Fields(i)
             s == Assigned(cpsr, PsrMerged(cpsr, w, g, FALSE))
  <2>1. cpsr' = s
    BY <1>2
  <2> HIDE DEF w, g
  <2>2. s \in Statuses /\ s.t = cpsr.t
    <3>1. s \in Statuses
      BY <1>3, AssignedTyped, Zenon
    <3>2. s.t = cpsr.t
      BY <1>3, SameSet, Zenon
    <3> QED BY <3>1, <3>2
  <2>3. "c" \notin g => s.mode = cpsr.mode /\ s.i = cpsr.i /\ s.f = cpsr.f
    BY <1>3, SameControl, Zenon
  <2> HIDE DEF s
  <2> QED BY <2>1, <2>2, <2>3 DEF g
<1>5. SameUser /\ spsr' \in [Excepted -> Statuses] /\ mem' \in Memories
  BY <1>1, <1>2, <1>3, <1>4 DEF Typed, Memories, SameUser
<1> QED BY <1>1, <1>2, <1>4, <1>5, SameRegisters, OwnStep

LEMMA WriteSavedStep ==
  ASSUME CpuTypeOK, RunsWhatItFetched, NEW i, WriteSaved(i)
  PROVE  Kept
<1>1. Typed
  BY TypesApart
<1> DEFINE old == spsr[cpsr.mode]
           new == Assigned(old, PsrMerged(old, Source(i.src).value, i.fields, "c" \in i.fields))
<1>2. /\ spsr' = IF ~HasSpsr THEN spsr ELSE [spsr EXCEPT ![cpsr.mode] = new]
      /\ Advance /\ cpsr' = cpsr /\ regs' = regs /\ mem' = mem
  BY DEF WriteSaved
<1>3. HasSpsr => new \in Statuses
  <2>1. HasSpsr => old \in Statuses
    BY <1>1 DEF Typed, HasSpsr
  <2> HIDE DEF old
  <2> QED BY <2>1, AssignedTyped
<1> HIDE DEF new
<1>4. spsr' \in [Excepted -> Statuses]
  BY <1>1, <1>2, <1>3 DEF Typed, HasSpsr
<1>5. cpsr' \in Statuses /\ cpsr'.t = cpsr.t /\ SameUser /\ mem' \in Memories
  BY <1>1, <1>2 DEF Typed, Memories, SameUser
<1> QED BY <1>1, <1>2, <1>4, <1>5, SameRegisters, OwnStep

LEMMA BranchStep ==
  ASSUME CpuTypeOK, RunsWhatItFetched, NEW i, Decoded(i), Branch(i)
  PROVE  Kept
<1>1. Typed /\ i.kind = "branch"
  BY TypesApart DEF Branch, Executes
<1> DEFINE back == pc + 4
           ahead == pc + 2 * InstructionSize + i.offset
<1>2. Wrap(back) \in Words /\ Wrap(ahead) \in Words
  <2>1. pc \in Nat /\ InstructionSize \in {2, 4} /\ i.offset \in Int
    BY <1>1, WordsAreNatural, SizeOfSet DEF Decoded, Typed
  <2>2. back \in Int /\ ahead \in Int
    BY <2>1
  <2> HIDE DEF back, ahead
  <2> QED BY <2>2, Wrapped
<1>3. /\ regs' = (IF i.link THEN With(regs, Lr, Wrap(back)) ELSE regs) /\ BranchTo(cpsr, Wrap(ahead))
      /\ cpsr' = cpsr /\ spsr' = spsr /\ mem' = mem
  BY DEF Branch
<1> HIDE DEF back, ahead
<1>4. /\ regs' \in Files
      /\ \A p \in Physicals : regs'[p] # regs[p] => p = Bank(cpsr.mode, p[2])
  <2>1. regs \in Files
    BY <1>1 DEF Typed
  <2> QED BY <1>2, <1>3, <2>1, OwnRegister
<1>5. \E target \in Words : BranchTo(cpsr', target)
  BY <1>2, <1>3
<1>6. cpsr' \in Statuses /\ SameUser /\ spsr' \in [Excepted -> Statuses] /\ mem' \in Memories
  BY <1>1, <1>3 DEF Typed, Memories, SameUser
<1> QED BY <1>4, <1>5, <1>6, OwnStep

LEMMA BranchExchangeStep ==
  ASSUME CpuTypeOK, RunsWhatItFetched, NEW i, Decoded(i), BranchExchange(i)
  PROVE  Kept
<1>1. Typed /\ i.kind = "exchange"
  BY TypesApart DEF BranchExchange, Executes
<1>2. i.rm \in Operands
  BY <1>1 DEF Decoded
<1> DEFINE w == Operand(i.rm, FALSE)
<1>3. w \in Words
  BY <1>1, <1>2, OperandTyped
<1>4. /\ cpsr' = [cpsr EXCEPT !.t = w % 2 = 1] /\ BranchTo(cpsr', w)
      /\ regs' = regs /\ spsr' = spsr /\ mem' = mem
  BY DEF BranchExchange
<1> HIDE DEF w
<1>5. cpsr' \in Statuses /\ SameUser
  <2>1. cpsr \in Statuses /\ (w % 2 = 1) \in BOOLEAN
    BY <1>1 DEF Typed
  <2> QED BY <1>4, <2>1 DEF Statuses, SameUser
<1>6. spsr' \in [Excepted -> Statuses] /\ mem' \in Memories
  BY <1>1, <1>4 DEF Typed, Memories
<1> QED BY <1>1, <1>3, <1>4, <1>5, <1>6, SameRegisters, OwnStep

LEMMA LinkStep ==
  ASSUME CpuTypeOK, RunsWhatItFetched, NEW i, Decoded(i), LinkHigh(i) \/ LinkLow(i)
  PROVE  Kept
<1>1. Typed /\ i.kind \in {"high", "low"}
  BY TypesApart DEF LinkHigh, LinkLow, Executes
<1>2. pc \in Nat /\ i.offset \in Int /\ Value(Lr) \in Nat
  BY <1>1, WordsAreNatural, ValueNatural, IndexesAssumption DEF Decoded, Typed, Lr
<1> DEFINE high == pc + 4 + i.offset
           low == pc + 3
           ahead == Value(Lr) + i.offset
<1>3. Wrap(high) \in Words /\ Wrap(low) \in Words /\ Wrap(ahead) \in Words
  <2>1. high \in Int /\ low \in Int /\ ahead \in Int
    BY <1>2
  <2> HIDE DEF high, low, ahead
  <2> QED BY <2>1, Wrapped
<1>4. /\ \/ regs' = With(regs, Lr, Wrap(high)) /\ Advance
         \/ regs' = With(regs, Lr, Wrap(low)) /\ BranchTo(cpsr, Wrap(ahead))
      /\ cpsr' = cpsr /\ spsr' = spsr /\ mem' = mem
  BY DEF LinkHigh, LinkLow
<1> HIDE DEF high, low, ahead
<1>5. /\ regs' \in Files
      /\ \A p \in Physicals : regs'[p] # regs[p] => p = Bank(cpsr.mode, p[2])
  <2>1. regs \in Files
    BY <1>1 DEF Typed
  <2> QED BY <1>3, <1>4, <2>1, OwnRegister
<1>6. \/ Advance /\ cpsr'.t = cpsr.t
      \/ \E target \in Words : BranchTo(cpsr', target)
  BY <1>3, <1>4
<1>7. cpsr' \in Statuses /\ SameUser /\ spsr' \in [Excepted -> Statuses] /\ mem' \in Memories
  BY <1>1, <1>4 DEF Typed, Memories, SameUser
<1> QED BY <1>5, <1>6, <1>7, OwnStep

LEMMA SkipStep ==
  ASSUME CpuTypeOK, RunsWhatItFetched, NEW i, SkipInstruction(i)
  PROVE  Kept
<1>1. Typed
  BY TypesApart
<1>2. Advance /\ regs' = regs /\ cpsr' = cpsr /\ spsr' = spsr /\ mem' = mem
  BY DEF SkipInstruction
<1>3. /\ cpsr' \in Statuses /\ SameUser /\ cpsr'.t = cpsr.t
      /\ spsr' \in [Excepted -> Statuses] /\ mem' \in Memories
  BY <1>1, <1>2 DEF Typed, Memories, SameUser
<1> QED BY <1>1, <1>2, <1>3, SameRegisters, OwnStep

LEMMA RefuseStep ==
  ASSUME CpuTypeOK, RunsWhatItFetched, NEW i, Refuse(i)
  PROVE  Kept
<1>1. pipe' = Flushed /\ UNCHANGED <<regs, pc, cpsr, spsr, mem>>
  BY DEF Refuse
<1>2. CpuTypeOK'
  BY <1>1 DEF CpuTypeOK, InstructionSize
<1>3. RunsWhatItFetched'
  BY <1>1 DEF RunsWhatItFetched, Flushed
<1> QED BY <1>1, <1>2, <1>3 DEF Kept, BanksStep, UserStep

LEMMA Handled ==
  ASSUME NEW e \in Exceptions
  PROVE  /\ Handler(e) \in Excepted
         /\ Vector(e) \in {4, 8, 12, 16, 24, 28} /\ Vector(e) \in Words
<1>1. Handler(e) \in Excepted
  BY DEF Handler, Exceptions, Excepted, Modes, ModeCodes
<1>2. Vector(e) \in {4, 8, 12, 16, 24, 28}
  BY DEF Vector, Exceptions
<1>3. \A v \in {4, 8, 12, 16, 24, 28} : v \in Words
  <2>1. Size \in Nat /\ Size >= 32
    BY Sizes
  <2> QED BY <2>1 DEF Words
<1> QED BY <1>1, <1>2, <1>3

LEMMA TakeExceptionStep ==
  ASSUME CpuTypeOK, RunsWhatItFetched, NEW e \in Exceptions, TakeException(e)
  PROVE  Kept
<1>1. Typed
  BY TypesApart
<1> DEFINE m == Handler(e)
           link == Link(e, pc, cpsr.t)
<1>2. /\ spsr' = [spsr EXCEPT ![m] = cpsr]
      /\ cpsr' = [cpsr EXCEPT !.mode = m, !.t = FALSE, !.i = TRUE, !.f = @ \/ e = "fiq"]
      /\ regs' = [regs EXCEPT ![Bank(m, Lr)] = link]
      /\ BranchTo(cpsr', Vector(e))
      /\ mem' = mem /\ seen' = [Quiet EXCEPT !.did = "exception"]
  BY DEF TakeException, Sees
<1>3. link \in Words
  <2> DEFINE n == CASE e \in {"und", "swi"} -> IF cpsr.t THEN 2 ELSE 4
                    [] e = "dabt"           -> 8
                    [] OTHER                -> 4
             x == pc + n
  <2>1. n \in {2, 4, 8}
    OBVIOUS
  <2> HIDE DEF n
  <2>2. x \in Int
    <3>1. pc \in Nat
      BY <1>1, WordsAreNatural DEF Typed
    <3> QED BY <2>1, <3>1
  <2>3. link = Wrap(x)
    BY DEF Link, n
  <2> HIDE DEF x
  <2> QED BY <2>2, <2>3, Wrapped
<1>4. m \in Excepted /\ m \in Modes
  BY Handled DEF Excepted
<1> HIDE DEF m, link
<1>5. cpsr' \in Statuses /\ cpsr'.mode = m
  BY <1>1, <1>2, <1>4 DEF Typed, Statuses
<1>6. regs' \in Files /\ \A p \in Physicals : regs'[p] # regs[p] => p = Bank(m, Lr)
  BY <1>1, <1>2, <1>3 DEF Typed, Files
<1>7. seen'.did = "exception"
  BY <1>2 DEF Quiet
<1>8. BanksStep /\ UserStep
  BY <1>5, <1>6, <1>7 DEF BanksStep, UserStep
<1>9. spsr' \in [Excepted -> Statuses] /\ mem' \in Memories
  BY <1>1, <1>2 DEF Typed, Memories
<1>10. \E target \in Words : BranchTo(cpsr', target)
  BY <1>2, Handled
<1> QED BY <1>5, <1>6, <1>8, <1>9, <1>10, BankedStep

LEMMA ReturnStep ==
  ASSUME CpuTypeOK, RunsWhatItFetched, ReturnFromException
  PROVE  Kept
<1>1. Typed
  BY TypesApart
<1>2. cpsr' = Restored /\ BranchTo(cpsr', Value(Lr)) /\ regs' = regs /\ spsr' = spsr /\ mem' = mem
  BY DEF ReturnFromException
<1>3. Value(Lr) \in Words
  BY <1>1, ValueTyped, IndexesAssumption DEF Lr
<1>4. cpsr' \in Statuses /\ SameUser
  BY <1>1, <1>2, RestoredTyped DEF SameUser
<1>5. spsr' \in [Excepted -> Statuses] /\ mem' \in Memories
  BY <1>1, <1>2 DEF Typed, Memories
<1> QED BY <1>1, <1>2, <1>3, <1>4, <1>5, SameRegisters, OwnStep

LEMMA PlainStatusTyped == \A m \in Modes : PlainStatus(m) \in Statuses
  BY DEF PlainStatus, Statuses

LEMMA ResetStep ==
  ASSUME CpuTypeOK, RunsWhatItFetched, Reset
  PROVE  Kept
<1>1. /\ regs' = [p \in Physicals |-> 0] /\ pc' = 0
      /\ cpsr' = [PlainStatus("svc") EXCEPT !.i = TRUE, !.f = TRUE]
      /\ spsr' = [m \in Excepted |-> PlainStatus("usr")]
      /\ pipe' = Flushed /\ mem' = mem /\ seen' = [Quiet EXCEPT !.did = "reset"]
  BY DEF Reset, Sees
<1>2. 0 \in Words
  BY Sizes DEF Words
<1>3. "svc" \in Modes /\ "usr" \in Modes
  BY DEF Modes, ModeCodes
<1>4. cpsr' \in Statuses /\ spsr' \in [Excepted -> Statuses]
  <2>1. PlainStatus("svc") \in Statuses /\ PlainStatus("usr") \in Statuses
    BY <1>3, PlainStatusTyped
  <2> QED BY <1>1, <2>1 DEF Statuses
<1>5. pc' % InstructionSize' = 0
  BY <1>1 DEF InstructionSize
<1>6. CpuTypeOK'
  BY <1>1, <1>2, <1>4, <1>5 DEF CpuTypeOK
<1>7. RunsWhatItFetched'
  BY <1>1 DEF RunsWhatItFetched, Flushed
<1>8. seen'.did = "reset"
  BY <1>1 DEF Quiet
<1> QED BY <1>6, <1>7, <1>8 DEF Kept, BanksStep, UserStep

-----------------------------------------------------------------------------
(***************************************************************************)
(* What was interrupted: where the handler was told it was, and where it   *)
(* is to go on.                                                            *)
(***************************************************************************)
\* An exception, at an instruction of the set its status names.
TakenAt(x, at) ==
  /\ at \in Words /\ at % SizeIn(x.status) = 0
  /\ x.link = Link(x.kind, at, x.status.t)
  /\ x.resume = IF x.kind \in {"und", "swi"} THEN Wrap(at + SizeIn(x.status)) ELSE at

IsEntry(x) ==
  x.status \in Statuses /\ x.kind \in Exceptions /\ \E at \in Words : TakenAt(x, at)

EnteredOK ==
  entered = [m \in Excepted |-> entered[m]] /\ \A m \in Excepted : \A x \in entered[m] : IsEntry(x)

\* The inductive invariant.
CpuInv == CpuTypeOK /\ RunsWhatItFetched /\ EnteredOK /\ repertoire \in DOMAIN Repertoires

\* The return address that the handler takes off its link register leads back.
LEMMA LinkLeadsBack ==
  ASSUME NEW x, IsEntry(x), NEW s \in Statuses, s = x.status
  PROVE  LET t == Wrap(x.link - Back(x.kind))
         IN  t = x.resume /\ t \in Words /\ t % SizeIn(s) = 0
<1>1. PICK at \in Words : TakenAt(x, at)
  BY DEF IsEntry
<1> DEFINE n == SizeIn(s)
<1>2. at \in Nat /\ at % n = 0 /\ n \in {2, 4} /\ Wrap(at) = at
  BY <1>1, Wrapped DEF TakenAt, SizeIn, Statuses
<1>3. n = 2 <=> x.status.t
  BY DEF SizeIn, Statuses
<1>4. Wrap(at + n) % n = 0
  <2>1. at + n \in Int /\ (at + n) % n = 0
    BY <1>2
  <2> HIDE DEF n
  <2> QED BY <1>2, <2>1, WrapAligned
<1>5. CASE x.kind \in {"und", "swi"}
  <2>1. x.link = Wrap(at + n) /\ Back(x.kind) = 0 /\ x.resume = Wrap(at + n)
    BY <1>1, <1>3, <1>5 DEF TakenAt, Link, Back, SizeIn
  <2>2. Wrap(at + n) \in Words
    <3> DEFINE a == at + n
    <3>1. a \in Int
      BY <1>2
    <3> HIDE DEF a
    <3>2. Wrap(a) \in Words
      BY <3>1, Wrapped
    <3> QED BY <3>2 DEF a
  <2>3. Wrap(at + n) - 0 = Wrap(at + n) /\ Wrap(Wrap(at + n)) = Wrap(at + n)
    BY <2>2, Wrapped
  <2> QED BY <1>4, <2>1, <2>2, <2>3
<1>6. CASE x.kind \notin {"und", "swi"}
  <2> DEFINE k == Back(x.kind)
  <2>1. x.link = Wrap(at + k) /\ k \in Int /\ x.resume = at
    BY <1>1, <1>6 DEF TakenAt, Link, Back, IsEntry, Exceptions
  <2> HIDE DEF k
  <2>2. -k \in Int /\ at + k \in Int /\ (at + k) + (-k) = at
    BY <1>2, <2>1
  <2>3. Wrap(Wrap(at + k) + (-k)) = Wrap(at)
    BY <2>2, Wrapped
  <2>4. Wrap(at + k) - k = Wrap(at + k) + (-k)
    <3>1. Wrap(at + k) \in Int
      <4> DEFINE a == at + k
      <4>1. a \in Int
        BY <2>2
      <4> HIDE DEF a
      <4>2. Wrap(a) \in Words
        BY <4>1, Wrapped
      <4>3. Wrap(a) \in Nat
        BY <4>2, WordsAreNatural
      <4>4. Wrap(a) \in Int
        BY <4>3
      <4> QED BY <4>4 DEF a
    <3> QED BY <2>1, <3>1
  <2>5. Wrap(x.link - k) = at
    BY <1>2, <2>1, <2>3, <2>4
  <2>6. at \in Words
    BY <1>1 DEF TakenAt
  <2> QED BY <1>2, <2>1, <2>5, <2>6 DEF k
<1> QED BY <1>5, <1>6

LEMMA SameEntered ==
  ASSUME EnteredOK, entered' = entered
  PROVE  EnteredOK'
  BY DEF EnteredOK

LEMMA TakeExceptionEntered ==
  ASSUME CpuTypeOK, EnteredOK, NEW e \in Exceptions, TakeException(e)
  PROVE  EnteredOK'
<1> DEFINE m == Handler(e)
           x == [kind |-> e, status |-> cpsr, link |-> Link(e, pc, cpsr.t), resume |-> ResumesAt(e)]
<1>1. entered' = [entered EXCEPT ![m] = {x}] /\ m \in Excepted
  BY Handled DEF TakeException
<1>2. Typed /\ pc % InstructionSize = 0
  BY TypesApart
<1>3. IsEntry(x)
  <2>1. cpsr \in Statuses /\ pc \in Words /\ InstructionSize = SizeIn(cpsr)
    BY <1>2, SizeOfSet DEF Typed
  <2>2. TakenAt(x, pc)
    BY <1>2, <2>1 DEF TakenAt, ResumesAt
  <2> QED BY <2>1, <2>2 DEF IsEntry
<1> HIDE DEF m, x
<1> QED BY <1>1, <1>3 DEF EnteredOK

LEMMA StepEntered ==
  ASSUME CpuInv, CpuNext
  PROVE  EnteredOK'
<1>1. CpuTypeOK /\ EnteredOK
  BY DEF CpuInv
<1>2. CASE entered' = entered
  BY <1>1, <1>2, SameEntered
<1>3. CASE Reset
  BY <1>3 DEF Reset, EnteredOK
<1>4. CASE \E e \in Exceptions : TakeException(e)
  BY <1>1, <1>4, TakeExceptionEntered
<1>5. ASSUME NEW i, Execute(i)
      PROVE  entered' = entered \/ \E e \in Exceptions : TakeException(e)
  <2>1. "swi" \in Exceptions
    BY DEF Exceptions
  <2> QED BY <1>5, <2>1
          DEF Execute, Test, Compute, ComputePc, Multiply, LongMultiply, Load, Store, Swap, StoreMany,
              LoadMany, LoadManyAndPc, ReadStatus, WriteStatus, WriteSaved, Branch, BranchExchange,
              LinkHigh, LinkLow, SoftwareInterrupt, SkipInstruction, Refuse
<1>6. ASSUME NEW e \in Exceptions, Interrupt(e) \/ Fault(e)
      PROVE  TakeException(e)
  BY <1>6 DEF Interrupt, Fault
<1>7. ReturnFromException => entered' = entered
  BY DEF ReturnFromException
<1> QED BY <1>2, <1>3, <1>4, <1>5, <1>6, <1>7 DEF CpuNext

LEMMA ExecuteKeeps ==
  ASSUME CpuTypeOK, RunsWhatItFetched, NEW i, Decoded(i),
         i.set = "both" \/ cpsr.t = (i.set = "thumb"), Execute(i)
  PROVE  Kept
<1>1. CASE Test(i)
  BY <1>1, TestStep
<1>2. CASE Compute(i) \/ ComputePc(i)
  BY <1>2, ComputeStep, ComputePcStep
<1>3. CASE Multiply(i) \/ LongMultiply(i)
  BY <1>3, MultiplyStep, LongMultiplyStep
<1>4. CASE Load(i) \/ Store(i) \/ Swap(i)
  BY <1>4, LoadStep, StoreStep, SwapStep
<1>5. CASE StoreMany(i) \/ LoadMany(i) \/ LoadManyAndPc(i)
  BY <1>5, StoreManyStep, LoadManyStep, LoadManyAndPcStep
<1>6. CASE ReadStatus(i) \/ WriteStatus(i) \/ WriteSaved(i)
  BY <1>6, ReadStatusStep, WriteStatusStep, WriteSavedStep
<1>7. CASE Branch(i) \/ BranchExchange(i) \/ LinkHigh(i) \/ LinkLow(i)
  BY <1>7, BranchStep, BranchExchangeStep, LinkStep
<1>8. CASE SoftwareInterrupt(i)
  <2>1. "swi" \in Exceptions
    BY DEF Exceptions
  <2> QED BY <1>8, <2>1, TakeExceptionStep DEF SoftwareInterrupt
<1>9. CASE SkipInstruction(i) \/ Refuse(i)
  BY <1>9, SkipStep, RefuseStep
<1> QED BY <1>1, <1>2, <1>3, <1>4, <1>5, <1>6, <1>7, <1>8, <1>9 DEF Execute

LEMMA NextKeeps ==
  ASSUME CpuInv, CpuNext
  PROVE  Kept
<1>1. CpuTypeOK /\ RunsWhatItFetched /\ repertoire \in DOMAIN Repertoires
  BY DEF CpuInv
<1>2. ASSUME NEW i \in Repertoires[repertoire], i.set = "both" \/ cpsr.t = (i.set = "thumb"), Execute(i)
      PROVE  Kept
  BY <1>1, <1>2, RepertoiresAssumption, ExecuteKeeps
<1>3. ASSUME NEW e \in Exceptions, Interrupt(e) \/ Fault(e) PROVE Kept
  BY <1>1, <1>3, TakeExceptionStep DEF Interrupt, Fault
<1>4. CASE ReturnFromException
  BY <1>1, <1>4, ReturnStep
<1>5. CASE Reset
  BY <1>1, <1>5, ResetStep
<1> QED BY <1>2, <1>3, <1>4, <1>5 DEF CpuNext

LEMMA CpuInvInitially == CpuInit => CpuInv
<1> SUFFICES ASSUME CpuInit PROVE CpuInv
  OBVIOUS
<1>1. PICK s \in Starts[repertoire] :
        /\ regs = [p \in Physicals |-> Wrap(s.values[p[2]] + 8 * (ModeCode(p[1]) - 1))]
        /\ cpsr = [PlainStatus(s.mode) EXCEPT !.t = s.t, !.c = s.c]
  BY DEF CpuInit
<1>2. /\ repertoire \in DOMAIN Repertoires /\ pc = Origin
      /\ spsr = [m \in Excepted |-> PlainStatus("usr")]
      /\ mem = [a \in Ram |-> 0] /\ pipe = Flushed /\ entered = [m \in Excepted |-> {}]
  BY DEF CpuInit
<1>3. s.mode \in Modes /\ s.t \in BOOLEAN /\ s.c \in BOOLEAN /\ \A x \in Indexes : s.values[x] \in Int
  BY <1>2, StartsAssumption
<1>4. regs \in Files
  <2>1. ASSUME NEW p \in Physicals
        PROVE  Wrap(s.values[p[2]] + 8 * (ModeCode(p[1]) - 1)) \in Words
    <3>1. PICK m \in Modes, r \in Indexes : p = Bank(m, r)
      BY BankNamed
    <3>2. p[2] = r /\ p[1] \in Modes
      BY <3>1 DEF Bank, Modes, ModeCodes
    <3>3. ModeCode(p[1]) \in 1 .. 7
      BY <3>2 DEF ModeCode, Modes
    <3> DEFINE v == s.values[p[2]]
               c == ModeCode(p[1])
               w == v + 8 * (c - 1)
    <3>4. v \in Int /\ c \in Int
      BY <1>3, <3>2, <3>3
    <3> HIDE DEF v, c
    <3>5. w \in Int
      BY <3>4
    <3> HIDE DEF w
    <3>6. Wrap(w) \in Words
      BY <3>5, Wrapped
    <3> QED BY <3>6 DEF w, v, c
  <2> QED BY <1>1, <2>1 DEF Files
<1>5. cpsr \in Statuses /\ spsr \in [Excepted -> Statuses]
  <2>1. PlainStatus(s.mode) \in Statuses /\ PlainStatus("usr") \in Statuses
    <3>1. "usr" \in Modes
      BY DEF Modes, ModeCodes
    <3> QED BY <1>3, <3>1, PlainStatusTyped
  <2> QED BY <1>1, <1>2, <1>3, <2>1 DEF Statuses
<1>6. mem \in [Ram -> 0 .. Octet - 1]
  <2>1. 0 \in 0 .. Octet - 1
    BY Octets
  <2> QED BY <1>2, <2>1
<1>7. pc \in Words /\ pc % InstructionSize = 0
  <2>1. Origin \in Nat /\ Origin % 4 = 0 /\ Origin \in Words
    BY OriginAssumption, WordsAreNatural
  <2>2. \A x \in Nat : x % 4 = 0 => x % 2 = 0
    OBVIOUS
  <2> QED BY <1>2, <2>1, <2>2 DEF InstructionSize
<1>8. CpuTypeOK
  BY <1>4, <1>5, <1>6, <1>7 DEF CpuTypeOK, Files
<1>9. RunsWhatItFetched /\ EnteredOK
  BY <1>2 DEF RunsWhatItFetched, Flushed, EnteredOK
<1> QED BY <1>2, <1>8, <1>9 DEF CpuInv

-----------------------------------------------------------------------------
(***************************************************************************)
(* What the flags say of a sum or a difference of one word or of two.      *)
(***************************************************************************)

\* Of two numbers of several digits, the leading digits decide.
LEMMA LeadingDigits ==
  ASSUME NEW n \in Nat \ {0}, NEW u \in Int, NEW v \in Int, NEW w \in 0 .. n - 1
  PROVE  /\ u * n + w \in Int /\ v * n \in Int
         /\ u * n + w >= v * n <=> u >= v
         /\ u * n + w <= v * n - 1 <=> u <= v - 1
<1>1. u * n \in Int /\ v * n \in Int
  OBVIOUS
<1>2. CASE u >= v
  <2> DEFINE d == u - v
  <2>1. d \in Nat /\ d * n \in Nat
    BY <1>2, ProductNatural
  <2>2. d * n = u * n - v * n
    OBVIOUS
  <2> HIDE DEF d
  <2> QED BY <1>1, <1>2, <2>1, <2>2
<1>3. CASE u < v
  <2> DEFINE d == v - 1 - u
  <2>1. d \in Nat /\ d * n \in Nat
    BY <1>3, ProductNatural
  <2>2. d * n = v * n - n - u * n
    OBVIOUS
  <2> HIDE DEF d
  <2> QED BY <1>1, <1>3, <2>1, <2>2
<1> QED BY <1>1, <1>2, <1>3

\* A number of two words by its high part h and its low word w.
LEMMA HighPart ==
  ASSUME NEW h \in Int, NEW w \in Words
  PROVE  LET t == Double(h, w)
             n == Size * Size
         IN  /\ t \in Int /\ n \in Nat \ {0} /\ n \div 2 = Top * Size /\ Top * Size \in Nat
             /\ t >= n <=> h >= Size
             /\ t >= 0 <=> h >= 0
             /\ t \in -(Top * Size) .. (Top * Size) - 1 <=> h \in -Top .. Top - 1
             /\ t % n = Double(h % Size, w)
<1> DEFINE t == h * Size + w
           n == Size * Size
<1>1. Size \in Nat \ {0} /\ Top \in Nat \ {0} /\ Size = 2 * Top /\ w \in 0 .. Size - 1
  BY Sizes DEF Words
<1>2. /\ t \in Int /\ Size * Size \in Int /\ 0 * Size \in Int /\ Top * Size \in Int /\ (-Top) * Size \in Int
      /\ t >= Size * Size <=> h >= Size
      /\ t >= 0 * Size <=> h >= 0
      /\ t >= (-Top) * Size <=> h >= -Top
      /\ t <= Top * Size - 1 <=> h <= Top - 1
  <2> HIDE DEF n
  <2>1. Size \in Int /\ 0 \in Int /\ Top \in Int /\ -Top \in Int
    BY <1>1
  <2> QED BY <1>1, <2>1, LeadingDigits
<1>3. 0 * Size = 0 /\ (-Top) * Size = -(Top * Size) /\ n = 2 * (Top * Size)
  BY <1>1
<1>4. n \in Nat \ {0} /\ Top * Size \in Nat
  BY <1>1, ProductNatural
<1>5. n \div 2 = Top * Size
  <2> DEFINE q == Top * Size
  <2>1. q \in Nat /\ n = 2 * q
    BY <1>3, <1>4
  <2> HIDE DEF q, n
  <2>2. n \div 2 = q
    BY <2>1
  <2> QED BY <2>2 DEF q
<1>6. t \in -(Top * Size) .. (Top * Size) - 1 <=> h \in -Top .. Top - 1
  <2> DEFINE q == Top * Size
  <2>1. q \in Nat /\ t \in Int /\ (t >= -q <=> h >= -Top) /\ (t <= q - 1 <=> h <= Top - 1)
    BY <1>2, <1>3, <1>4
  <2> HIDE DEF q, t
  <2>2. t \in -q .. q - 1 <=> h \in -Top .. Top - 1
    BY <1>1, <2>1
  <2> QED BY <2>2 DEF q
<1>7. t % n = (h % Size) * Size + w
  <2>1. PICK k \in Int : h = k * Size + (h % Size)
    BY <1>1, Remainder, Zenon
  <2> DEFINE m == h % Size
             r == m * Size + w
  <2>2. m \in 0 .. Size - 1 /\ m \in Int
    BY <1>1, Remainder
  <2>3. r \in Int /\ (r >= 0 * Size <=> m >= 0) /\ (r <= Size * Size - 1 <=> m <= Size - 1)
    <3> HIDE DEF m
    <3>1. Size \in Int /\ 0 \in Int
      BY <1>1
    <3> QED BY <1>1, <2>2, <3>1, LeadingDigits
  <2>4. r \in 0 .. n - 1
    <3> HIDE DEF m
    <3>1. r \in Int /\ r >= 0 /\ r <= n - 1
      BY <1>1, <1>3, <2>2, <2>3
    <3> HIDE DEF r
    <3> QED BY <1>4, <3>1
  <2>5. t = k * n + r
    <3> HIDE DEF m
    <3>1. h * Size = (k * Size) * Size + m * Size
      <4>1. h = k * Size + m
        BY <2>1 DEF m
      <4> DEFINE p == k * Size
      <4>2. p \in Int
        BY <1>1
      <4> HIDE DEF p
      <4>3. h = p + m
        BY <4>1 DEF p
      <4>4. (p + m) * Size = p * Size + m * Size
        BY <1>1, <2>2, <4>2
      <4>5. h * Size = p * Size + m * Size
        BY <4>3, <4>4
      <4> QED BY <4>5 DEF p
    <3>2. (k * Size) * Size = k * n
      BY <1>1
    <3>3. k * n \in Int /\ m * Size \in Int /\ w \in Int
      BY <1>1, <1>4, <2>2
    <3> QED BY <3>1, <3>2, <3>3
  <2> HIDE DEF t, n, r
  <2>6. t % n = r
    BY <1>2, <1>4, <2>4, <2>5, Remainder, ZenonT(60)
  <2> QED BY <2>6 DEF r
<1> HIDE DEF t, n
<1>8. t >= 0 <=> h >= 0
  BY <1>2, <1>3
<1>9. t >= n <=> h >= Size
  BY <1>2 DEF n
<1> QED BY <1>2, <1>4, <1>5, <1>6, <1>7, <1>8, <1>9 DEF t, n, Double

LEMMA SignedHigh ==
  ASSUME NEW a \in Words, NEW w \in Words
  PROVE  /\ Double(a, w) \in Int
         /\ Signed(a) \in -Top .. Top - 1
         /\ SignedIn(Double(a, w), Size * Size) = Double(Signed(a), w)
<1> DEFINE t == a * Size + w
           n == Size * Size
<1>1. Size \in Nat \ {0} /\ Top \in Nat \ {0} /\ Size = 2 * Top /\ a \in 0 .. Size - 1 /\ w \in 0 .. Size - 1
  BY Sizes DEF Words
<1>2. t \in Int /\ n \div 2 = Top * Size /\ n \in Int
  BY <1>1, HighPart DEF Double
<1>3. t >= Top * Size <=> a >= Top
  <2> HIDE DEF n
  <2> QED BY <1>1, LeadingDigits
<1>4. Top * Size \in Int /\ a * Size \in Int /\ (a - Size) * Size = a * Size - n
  BY <1>1
<1>5. t < n \div 2 <=> a < Top
  <2> DEFINE q == Top * Size
  <2>1. q \in Int /\ t \in Int /\ (t >= q <=> a >= Top) /\ n \div 2 = q
    BY <1>2, <1>3, <1>4
  <2> HIDE DEF q, t, n
  <2> QED BY <1>1, <2>1
<1>6. SignedIn(t, n) = IF a < Top THEN t ELSE t - n
  BY <1>5 DEF SignedIn
<1>7. CASE a < Top
  BY <1>1, <1>2, <1>6, <1>7 DEF Signed, Double
<1>8. CASE ~(a < Top)
  <2>1. SignedIn(t, n) = t - n /\ Signed(a) = a - Size
    BY <1>6, <1>8 DEF Signed
  <2>2. t - n = (a - Size) * Size + w
    <3> DEFINE p == a * Size
               q == (a - Size) * Size
    <3>1. p \in Int /\ q = p - n /\ t = p + w
      BY <1>4
    <3> HIDE DEF p, q, t, n
    <3>2. t - n = q + w
      BY <1>1, <1>2, <3>1
    <3> QED BY <3>2 DEF q
  <2>3. Signed(a) \in -Top .. Top - 1
    BY <1>1, <1>8, <2>1
  <2> QED BY <1>2, <2>1, <2>2, <2>3 DEF Double
<1> QED BY <1>7, <1>8 DEF Double

\* The remainder of what is less than one divisor away.
LEMMA NearRemainder ==
  ASSUME NEW n \in Nat \ {0}, NEW x \in Int
  PROVE  /\ x \in 0 .. n - 1 => x % n = x
         /\ x \in n .. 2 * n - 1 => x % n = x - n
         /\ x \in -n .. -1 => x % n = x + n
<1>1. \A k \in Int, r \in 0 .. n - 1 : x = k * n + r => x % n = r
  BY Remainder
<1>2. ASSUME NEW k \in {-1, 0, 1}, x - k * n \in 0 .. n - 1 PROVE x % n = x - k * n
  <2> DEFINE r == x - k * n
  <2>1. r \in 0 .. n - 1 /\ k \in Int
    BY <1>2
  <2>2. x = k * n + r
    OBVIOUS
  <2> HIDE DEF r
  <2>3. x % n = r
    BY <1>1, <2>1, <2>2, Zenon
  <2> QED BY <2>3 DEF r
<1>3. ASSUME x \in 0 .. n - 1 PROVE x % n = x
  <2>1. 0 \in {-1, 0, 1} /\ x - 0 * n = x
    OBVIOUS
  <2> QED BY <1>2, <1>3, <2>1
<1>4. ASSUME x \in n .. 2 * n - 1 PROVE x % n = x - n
  <2>1. 1 \in {-1, 0, 1} /\ x - 1 * n = x - n /\ x - n \in 0 .. n - 1
    BY <1>4
  <2> QED BY <1>2, <2>1
<1>5. ASSUME x \in -n .. -1 PROVE x % n = x + n
  <2>1. -1 \in {-1, 0, 1} /\ x - (-1) * n = x + n /\ x + n \in 0 .. n - 1
    BY <1>5
  <2> QED BY <1>2, <2>1
<1> QED BY <1>3, <1>4, <1>5

\* One word: what wraps, and by how much.
LEMMA OneWord ==
  ASSUME NEW a \in Words, NEW b \in Words, NEW k \in {0, 1}
  PROVE  /\ Wrap(a + b + k) = IF a + b + k >= Size THEN (a + b + k) - Size ELSE a + b + k
         /\ Wrap(a - b - k) = IF a >= b + k THEN a - b - k ELSE a - b - k + Size
<1>1. Size \in Nat \ {0} /\ a \in 0 .. Size - 1 /\ b \in 0 .. Size - 1
  BY Sizes DEF Words
<1> DEFINE s == a + b + k
           d == a - b - k
<1>2. s \in 0 .. 2 * Size - 1 /\ d \in -Size .. Size - 1 /\ (a >= b + k <=> d >= 0)
  BY <1>1
<1> HIDE DEF s, d
<1>3. s % Size = IF s >= Size THEN s - Size ELSE s
  <2>1. s \in Int /\ (s >= Size => s \in Size .. 2 * Size - 1) /\ (s < Size => s \in 0 .. Size - 1)
    BY <1>1, <1>2
  <2>2. s >= Size \/ s < Size
    BY <1>1, <2>1
  <2> QED BY <1>1, <2>1, <2>2, NearRemainder
<1>4. d % Size = IF d >= 0 THEN d ELSE d + Size
  <2>1. d \in Int /\ (d >= 0 => d \in 0 .. Size - 1) /\ (~(d >= 0) => d \in -Size .. -1)
    BY <1>1, <1>2
  <2> QED BY <1>1, <2>1, NearRemainder
<1>5. Wrap(s) = IF s >= Size THEN s - Size ELSE s
  BY <1>3 DEF Wrap
<1>6. Wrap(d) = IF a >= b + k THEN d ELSE d + Size
  BY <1>2, <1>4 DEF Wrap
<1>7. Wrap(a + b + k) = IF a + b + k >= Size THEN (a + b + k) - Size ELSE a + b + k
  BY <1>5, Zenon DEF s
<1>8. Wrap(a - b - k) = IF a >= b + k THEN a - b - k ELSE a - b - k + Size
  BY <1>6, Zenon DEF d
<1> QED BY <1>7, <1>8

\* The sign of a difference: N tells it, V whether N lies.
LEMMA SignOfDifference ==
  ASSUME NEW a \in Words, NEW b \in Words, NEW k \in {0, 1}
  PROVE  LET d == Signed(a) - Signed(b) - k
         IN  ((Wrap(a - b - k) >= Top) <=> d \notin -Top .. Top - 1) <=> d >= 0
<1>1. /\ Size \in Nat \ {0} /\ Top \in Nat \ {0} /\ Size = 2 * Top
      /\ a \in 0 .. Size - 1 /\ b \in 0 .. Size - 1
  BY Sizes DEF Words
<1>2. Wrap(a - b - k) = IF a >= b + k THEN a - b - k ELSE a - b - k + Size
  BY OneWord
<1> DEFINE sa == IF a < Top THEN a ELSE a - Size
           sb == IF b < Top THEN b ELSE b - Size
           d == sa - sb - k
           r == IF a >= b + k THEN a - b - k ELSE a - b - k + Size
<1>3. ((r >= Top) <=> ~(d >= -Top /\ d <= Top - 1)) <=> d >= 0
  BY <1>1
<1>4. d \in Int /\ (d \in -Top .. Top - 1 <=> d >= -Top /\ d <= Top - 1)
  BY <1>1
<1> QED BY <1>2, <1>3, <1>4 DEF Signed

\* What each flag is after a sum or a difference.
LEMMA FlagsAre ==
  ASSUME NEW s \in Statuses, NEW r \in AluResults
  PROVE  LET f == WithFlags(s, r)
         IN  /\ f.c = r.carry /\ f.v = r.overflow
             /\ f.n = (r.value >= Top) /\ f.z = (r.value = 0)
<1>1. Bit(r.value, Width - 1) = (r.value >= Top)
  <2> DEFINE v == r.value
  <2>1. v \in Nat /\ v < 2 * Top /\ Top \in Nat \ {0}
    BY Sizes, Wrapped DEF AluResults
  <2> HIDE DEF v
  <2>2. CASE v < Top
    <3>1. 0 \in Nat /\ 0 * Top <= v /\ v < (0 + 1) * Top
      BY <2>1, <2>2
    <3>2. v \div Top = 0
      BY <2>1, <3>1, InInterval
    <3> QED BY <2>1, <2>2, <3>2 DEF Bit, Top, v
  <2>3. CASE v >= Top
    <3>1. 1 \in Nat /\ 1 * Top <= v /\ v < (1 + 1) * Top
      BY <2>1, <2>3
    <3>2. v \div Top = 1
      BY <2>1, <3>1, InInterval
    <3> QED BY <2>1, <2>3, <3>2 DEF Bit, Top, v
  <2> QED BY <2>1, <2>2, <2>3
<1>2. /\ WithFlags(s, r) = [[s EXCEPT !.n = Bit(r.value, Width - 1), !.z = r.value = 0]
                                EXCEPT !.c = r.carry, !.v = r.overflow]
  BY DEF WithFlags, WithNz
<1> QED BY <1>1, <1>2 DEF Statuses

LEMMA Conditions ==
  \A f : /\ Passes("EQ", f) = f.z /\ Passes("CS", f) = f.c /\ Passes("VS", f) = f.v
         /\ Passes("HI", f) = (f.c /\ ~f.z) /\ Passes("LS", f) = (~f.c \/ f.z)
         /\ Passes("GE", f) = (f.n = f.v) /\ Passes("LT", f) = (f.n # f.v)
         /\ Passes("GT", f) = (~f.z /\ f.n = f.v) /\ Passes("LE", f) = (f.z \/ f.n # f.v)
  BY DEF Passes

LEMMA WordSigned ==
  ASSUME NEW a \in Words
  PROVE  a \in Int /\ SignedIn(a, Size) = Signed(a) /\ Signed(a) \in -Top .. Top - 1 /\ Size \div 2 = Top
<1>1. Size = 2 * Top /\ Top \in Nat \ {0} /\ a \in 0 .. Size - 1
  BY Sizes DEF Words
<1> DEFINE t == Top
<1>2. (2 * t) \div 2 = t
  <2>1. t \in Nat
    BY <1>1
  <2> HIDE DEF t
  <2> QED BY <2>1
<1>3. Size \div 2 = Top
  BY <1>1, <1>2
<1> HIDE DEF t
<1> QED BY <1>1, <1>3 DEF SignedIn, Signed

LEMMA SumOfOne ==
  ASSUME NEW st \in Statuses, NEW a \in Words, NEW b \in Words, NEW s,
         s = [words |-> 1, add |-> TRUE, a |-> a, b |-> b, r |-> Sum(a, b, FALSE).value]
  PROVE  SumTold(s, WithFlags(st, Sum(a, b, FALSE)))
<1> DEFINE res == Sum(a, b, FALSE)
           f == WithFlags(st, res)
<1>1. res \in AluResults
  BY SumTyped
<1>2. f.c = res.carry /\ f.v = res.overflow
  BY <1>1, FlagsAre
<1>3. /\ a + b + Num(FALSE) = a + b
      /\ Signed(a) + Signed(b) + Num(FALSE) = Signed(a) + Signed(b)
  BY WordSigned, Sizes DEF Num
<1>4. /\ res.value = Wrap(a + b) /\ res.carry = (a + b >= Size)
      /\ res.overflow = (Signed(a) + Signed(b) \notin -Top .. Top - 1)
  BY <1>3 DEF Sum
<1> HIDE DEF res, f
<1>5. Passes("CS", f) = (a + b >= Size)
  BY <1>2, <1>4, Conditions
<1>6. Passes("VS", f) = (Signed(a) + Signed(b) \notin -Top .. Top - 1)
  BY <1>2, <1>4, Conditions
<1>7. s.r = (a + b) % Size /\ s.words = 1 /\ s.add = TRUE /\ s.a = a /\ s.b = b
  BY <1>4 DEF Wrap, res
<1> QED BY <1>5, <1>6, <1>7, WordSigned DEF SumTold, Limit, f, res

LEMMA DifferenceOfOne ==
  ASSUME NEW st \in Statuses, NEW a \in Words, NEW b \in Words, NEW s,
         s = [words |-> 1, add |-> FALSE, a |-> a, b |-> b, r |-> Difference(a, b, FALSE).value]
  PROVE  SumTold(s, WithFlags(st, Difference(a, b, FALSE)))
<1> DEFINE res == Difference(a, b, FALSE)
           f == WithFlags(st, res)
           sa == Signed(a)
           sb == Signed(b)
<1>1. res \in AluResults
  BY SumTyped
<1>2. f.c = res.carry /\ f.v = res.overflow /\ f.n = (res.value >= Top) /\ f.z = (res.value = 0)
  BY <1>1, FlagsAre
<1>3. /\ a \in 0 .. Size - 1 /\ b \in 0 .. Size - 1 /\ Size = 2 * Top /\ Top \in Nat \ {0}
      /\ sa \in -Top .. Top - 1 /\ sb \in -Top .. Top - 1
  BY Sizes, WordSigned DEF Words
<1>4. /\ a - b - Num(FALSE) = a - b /\ b + Num(FALSE) = b /\ sa - sb - Num(FALSE) = sa - sb
      /\ a - b - 0 = a - b /\ b + 0 = b /\ sa - sb - 0 = sa - sb
  <2> HIDE DEF sa, sb
  <2> QED BY <1>3 DEF Num
<1>5. /\ res.value = Wrap(a - b) /\ res.carry = (a >= b)
      /\ res.overflow = (sa - sb \notin -Top .. Top - 1)
  BY <1>4 DEF Difference
<1> HIDE DEF res, f
<1>6. ((Wrap(a - b) >= Top) <=> sa - sb \notin -Top .. Top - 1) <=> sa - sb >= 0
  <2>1. 0 \in {0, 1}
    OBVIOUS
  <2> QED BY <1>4, <2>1, SignOfDifference
<1>7. Wrap(a - b) = IF a >= b THEN a - b ELSE a - b + Size
  <2>1. 0 \in {0, 1}
    OBVIOUS
  <2> QED BY <1>4, <2>1, OneWord
<1>8. (sa >= sb <=> sa - sb >= 0) /\ (sa = sb <=> a = b)
      /\ (Wrap(a - b) = 0 <=> a = b)
  <2>1. sa = (IF a < Top THEN a ELSE a - Size) /\ sb = (IF b < Top THEN b ELSE b - Size)
    BY DEF Signed
  <2> HIDE DEF sa, sb
  <2> QED BY <1>3, <1>7, <2>1
<1> HIDE DEF sa, sb
<1>9. (f.n = f.v) = (sa >= sb)
  BY <1>2, <1>5, <1>6, <1>8
<1>10. f.z = (a = b) /\ f.c = (a >= b)
  BY <1>2, <1>5, <1>8
<1>11. Passes("CS", f) = (a >= b) /\ Passes("GE", f) = (sa >= sb) /\ Passes("EQ", f) = (sa = sb)
  BY <1>8, <1>9, <1>10, Conditions
<1>12. Passes("LT", f) = (sa < sb)
  BY <1>3, <1>9, Conditions
<1>13. Passes("HI", f) = (a > b) /\ Passes("LS", f) = (a <= b)
  <2>1. (a > b <=> a >= b /\ ~(a = b)) /\ (a <= b <=> ~(a >= b) \/ a = b)
    BY <1>3
  <2>2. (f.c /\ ~f.z <=> a > b) /\ (~f.c \/ f.z <=> a <= b)
    BY <1>10, <2>1
  <2>3. Passes("HI", f) = (f.c /\ ~f.z) /\ Passes("LS", f) = (~f.c \/ f.z)
    BY Conditions
  <2> QED BY <2>2, <2>3
<1>14. Passes("GT", f) = (sa > sb) /\ Passes("LE", f) = (sa <= sb)
  <2>1. (sa > sb <=> sa >= sb /\ ~(sa = sb)) /\ (sa <= sb <=> ~(sa >= sb) \/ sa = sb)
    BY <1>3
  <2>2. (~f.z /\ f.n = f.v <=> sa > sb) /\ (f.z \/ f.n # f.v <=> sa <= sb)
    BY <1>8, <1>9, <1>10, <2>1
  <2>3. Passes("GT", f) = (~f.z /\ f.n = f.v) /\ Passes("LE", f) = (f.z \/ f.n # f.v)
    BY Conditions
  <2> QED BY <2>2, <2>3
<1>15. s.r = (a - b) % Size /\ s.words = 1 /\ s.add = FALSE /\ s.a = a /\ s.b = b
  BY <1>5 DEF Wrap, res
<1>16. SignedIn(a, Size) = sa /\ SignedIn(b, Size) = sb
  BY WordSigned DEF sa, sb
<1> QED BY <1>11, <1>12, <1>13, <1>14, <1>15, <1>16 DEF SumTold, Limit, f, res

\* What a low word says of the sum or difference that carries on from it.
LEMMA LowWord ==
  ASSUME NEW st \in Statuses, NEW l, l.words = 1, l.a \in Words, l.b \in Words, l.r \in Words,
         SumTold(l, st)
  PROVE  /\ l.add => l.a + l.b = Double(Num(st.c), l.r)
         /\ ~l.add => l.a - l.b = Double(-Num(~st.c), l.r)
<1>1. Size \in Nat \ {0} /\ l.a \in 0 .. Size - 1 /\ l.b \in 0 .. Size - 1 /\ st.c \in BOOLEAN
  BY Sizes DEF Words, Statuses
<1>2. Passes("CS", st) = st.c
  BY Conditions
<1>3. 1 * Size = Size /\ 0 * Size = 0 /\ (-1) * Size = -Size
  <2> DEFINE n == Size
  <2>1. n \in Int
    BY <1>1
  <2> HIDE DEF n
  <2>2. 1 * n = n /\ 0 * n = 0 /\ (-1) * n = -n
    BY <2>1
  <2> QED BY <2>2 DEF n
<1>4. ASSUME l.add PROVE l.a + l.b = Double(Num(st.c), l.r)
  <2> DEFINE x == l.a + l.b
  <2>1. l.r = x % Size /\ (st.c <=> x >= Size)
    BY <1>1, <1>2, <1>4 DEF SumTold, Limit
  <2>2. x \in Int /\ x \in 0 .. 2 * Size - 1
    BY <1>1
  <2> HIDE DEF x
  <2>3. CASE st.c
    <3>1. x \in Size .. 2 * Size - 1
      BY <1>1, <2>1, <2>2, <2>3
    <3>2. l.r = x - Size
      BY <1>1, <2>1, <2>2, <3>1, NearRemainder
    <3>3. Num(st.c) = 1
      BY <2>3 DEF Num
    <3> QED BY <1>1, <1>3, <2>2, <3>2, <3>3 DEF x, Double
  <2>4. CASE ~st.c
    <3>1. x \in 0 .. Size - 1
      BY <1>1, <2>1, <2>2, <2>4
    <3>2. l.r = x
      BY <1>1, <2>1, <2>2, <3>1, NearRemainder
    <3>3. Num(st.c) = 0
      BY <2>4 DEF Num
    <3> QED BY <1>1, <1>3, <2>2, <3>2, <3>3 DEF x, Double
  <2> QED BY <1>1, <2>3, <2>4
<1>5. ASSUME ~l.add PROVE l.a - l.b = Double(-Num(~st.c), l.r)
  <2> DEFINE x == l.a - l.b
  <2>1. l.r = x % Size /\ (st.c <=> l.a >= l.b)
    BY <1>1, <1>2, <1>5 DEF SumTold, Limit
  <2>2. x \in Int /\ x \in -Size .. Size - 1 /\ (l.a >= l.b <=> x >= 0)
    BY <1>1
  <2> HIDE DEF x
  <2>3. CASE st.c
    <3>1. x \in 0 .. Size - 1
      BY <1>1, <2>1, <2>2, <2>3
    <3>2. l.r = x
      BY <1>1, <2>1, <2>2, <3>1, NearRemainder
    <3>3. Num(~st.c) = 0 /\ -Num(~st.c) = 0
      <4>1. Num(~st.c) = 0
        BY <2>3 DEF Num
      <4> QED BY <4>1
    <3> QED BY <1>1, <1>3, <2>2, <3>2, <3>3 DEF x, Double
  <2>4. CASE ~st.c
    <3>1. x \in -Size .. -1
      BY <1>1, <2>1, <2>2, <2>4
    <3>2. l.r = x + Size
      BY <1>1, <2>1, <2>2, <3>1, NearRemainder
    <3>3. -Num(~st.c) = -1
      <4>1. Num(~st.c) = 1
        BY <2>4 DEF Num
      <4> QED BY <4>1
    <3> QED BY <1>1, <1>3, <2>2, <3>2, <3>3 DEF x, Double
  <2> QED BY <1>1, <2>3, <2>4
<1> QED BY <1>4, <1>5

\* High words and low words are summed apart.
LEMMA AddedApart ==
  ASSUME NEW a \in Int, NEW b \in Int, NEW k \in Int, NEW p \in Int, NEW q \in Int, NEW r \in Int,
         p + q = Double(k, r)
  PROVE  Double(a, p) + Double(b, q) = Double(a + b + k, r)
<1> DEFINE n == Size
           x == a * n
           y == b * n
           z == k * n
           s == (a + b + k) * n
<1>1. n \in Int
  BY Sizes
<1>2. p + q = z + r
  BY DEF Double
<1> HIDE DEF n
<1>3. x \in Int /\ y \in Int /\ z \in Int /\ s = x + y + z
  BY <1>1
<1> HIDE DEF x, y, z, s
<1>4. (x + p) + (y + q) = s + r
  BY <1>2, <1>3
<1> QED BY <1>4 DEF x, y, s, n, Double

LEMMA TakenApart ==
  ASSUME NEW a \in Int, NEW b \in Int, NEW k \in Int, NEW p \in Int, NEW q \in Int, NEW r \in Int,
         p - q = Double(-k, r)
  PROVE  Double(a, p) - Double(b, q) = Double(a - b - k, r)
<1> DEFINE n == Size
           x == a * n
           y == b * n
           z == (-k) * n
           d == (a - b - k) * n
<1>1. n \in Int
  BY Sizes
<1>2. p - q = z + r
  BY DEF Double
<1> HIDE DEF n
<1>3. x \in Int /\ y \in Int /\ z \in Int /\ d = (x - y) + z
  BY <1>1
<1> HIDE DEF x, y, z, d
<1>4. (x + p) - (y + q) = d + r
  BY <1>2, <1>3
<1> QED BY <1>4 DEF x, y, d, n, Double

LEMMA DoubleTyped == \A a \in Int, p \in Int : Double(a, p) \in Int
  BY Sizes DEF Double

LEMMA SumOfTwo ==
  ASSUME NEW st \in Statuses, NEW a \in Words, NEW b \in Words,
         NEW l, l.words = 1, l.add = TRUE, l.a \in Words, l.b \in Words, l.r \in Words, SumTold(l, st),
         NEW s, s = [words |-> 2, add |-> TRUE, a |-> Double(a, l.a), b |-> Double(b, l.b),
                     r |-> Double(Sum(a, b, st.c).value, l.r)]
  PROVE  SumTold(s, WithFlags(st, Sum(a, b, st.c)))
<1> DEFINE res == Sum(a, b, st.c)
           f == WithFlags(st, res)
           k == Num(st.c)
           h == a + b + k
           n == Size * Size
           x == Double(a, l.a)
           y == Double(b, l.b)
           sa == Signed(a)
           sb == Signed(b)
           g == sa + sb + k
<1>1. res \in AluResults /\ f.c = res.carry /\ f.v = res.overflow
  BY SumTyped, FlagsAre
<1>2. res.value = h % Size /\ res.carry = (h >= Size) /\ res.overflow = (g \notin -Top .. Top - 1)
  BY DEF Sum, Wrap
<1> HIDE DEF res, f
<1>3. k \in Int /\ Size \in Int /\ a \in Int /\ b \in Int /\ l.a \in Int /\ l.b \in Int /\ l.r \in Int
      /\ sa \in Int /\ sb \in Int
  BY Sizes, WordSigned DEF Num
<1>4. l.a + l.b = Double(k, l.r)
  BY LowWord
<1> HIDE DEF k
<1>5. x + y = Double(h, l.r)
  <2>1. Double(a, l.a) + Double(b, l.b) = Double(a + b + k, l.r)
    BY <1>3, <1>4, AddedApart
  <2> QED BY <2>1
<1>6. Double(sa, l.a) + Double(sb, l.b) = Double(g, l.r)
  <2> HIDE DEF sa, sb
  <2>1. Double(sa, l.a) + Double(sb, l.b) = Double(sa + sb + k, l.r)
    BY <1>3, <1>4, AddedApart
  <2> QED BY <2>1
<1>7. h \in Int /\ g \in Int
  <2> HIDE DEF sa, sb
  <2> QED BY <1>3
<1>8. SignedIn(x, n) = Double(sa, l.a) /\ SignedIn(y, n) = Double(sb, l.b)
  BY SignedHigh
<1> HIDE DEF h, g, x, y, sa, sb
<1>9. /\ (x + y) % n = Double(h % Size, l.r) /\ (x + y >= n <=> h >= Size)
  BY <1>5, <1>7, HighPart DEF n
<1>10. /\ n \div 2 = Top * Size
       /\ SignedIn(x, n) + SignedIn(y, n) \in -(n \div 2) .. (n \div 2) - 1 <=> g \in -Top .. Top - 1
  BY <1>6, <1>7, <1>8, HighPart DEF n
<1> HIDE DEF n
<1>11. Passes("CS", f) = (x + y >= n)
  BY <1>1, <1>2, <1>9, Conditions
<1>12. Passes("VS", f) = (SignedIn(x, n) + SignedIn(y, n) \notin -(n \div 2) .. (n \div 2) - 1)
  BY <1>1, <1>2, <1>10, Conditions
<1>13. s.r = (x + y) % n /\ s.words = 2 /\ s.add = TRUE /\ s.a = x /\ s.b = y
  BY <1>2, <1>9 DEF res, x, y
<1>14. Limit(s.words) = n
  BY <1>13 DEF Limit, n
<1> QED BY <1>11, <1>12, <1>13, <1>14 DEF SumTold, f, res

LEMMA DifferenceOfTwo ==
  ASSUME NEW st \in Statuses, NEW a \in Words, NEW b \in Words,
         NEW l, l.words = 1, l.add = FALSE, l.a \in Words, l.b \in Words, l.r \in Words, SumTold(l, st),
         NEW s, s = [words |-> 2, add |-> FALSE, a |-> Double(a, l.a), b |-> Double(b, l.b),
                     r |-> Double(Difference(a, b, ~st.c).value, l.r)]
  PROVE  SumTold(s, WithFlags(st, Difference(a, b, ~st.c)))
<1> DEFINE res == Difference(a, b, ~st.c)
           f == WithFlags(st, res)
           k == Num(~st.c)
           h == a - b - k
           n == Size * Size
           x == Double(a, l.a)
           y == Double(b, l.b)
           sa == Signed(a)
           sb == Signed(b)
           g == sa - sb - k
<1>1. res \in AluResults /\ f.c = res.carry /\ f.v = res.overflow /\ f.n = (res.value >= Top)
  BY SumTyped, FlagsAre
<1>2. res.value = Wrap(h) /\ res.carry = (a >= b + k) /\ res.overflow = (g \notin -Top .. Top - 1)
  BY DEF Difference
<1>3. k \in {0, 1} /\ k \in Int
  BY DEF Num
<1>4. Size \in Int /\ a \in Int /\ b \in Int /\ l.a \in Int /\ l.b \in Int /\ l.r \in Int
      /\ sa \in Int /\ sb \in Int
  BY Sizes, WordSigned
<1>5. l.a - l.b = Double(-k, l.r)
  BY LowWord
<1> HIDE DEF res, f, k
<1>6. x - y = Double(h, l.r)
  BY <1>3, <1>4, <1>5, TakenApart
<1>7. Double(sa, l.a) - Double(sb, l.b) = Double(g, l.r)
  <2> HIDE DEF sa, sb
  <2> QED BY <1>3, <1>4, <1>5, TakenApart
<1>8. h \in Int /\ g \in Int /\ (a >= b + k <=> h >= 0)
  <2> HIDE DEF sa, sb
  <2> QED BY <1>3, <1>4
<1>9. x \in Int /\ y \in Int /\ SignedIn(x, n) = Double(sa, l.a) /\ SignedIn(y, n) = Double(sb, l.b)
  BY SignedHigh
<1>10. ((Wrap(h) >= Top) <=> g \notin -Top .. Top - 1) <=> g >= 0
  BY <1>3, SignOfDifference
<1>11. Double(sa, l.a) \in Int /\ Double(sb, l.b) \in Int
  <2> HIDE DEF sa, sb
  <2> QED BY <1>4, DoubleTyped
<1> HIDE DEF h, g, x, y, sa, sb
<1>12. (x - y) % n = Double(h % Size, l.r) /\ (x - y >= 0 <=> h >= 0)
  BY <1>6, <1>8, HighPart DEF n
<1>13. Double(g, l.r) >= 0 <=> g >= 0
  BY <1>8, HighPart
<1>14. Passes("CS", f) = (x >= y)
  <2>1. x - y >= 0 <=> x >= y
    BY <1>9
  <2> QED BY <1>1, <1>2, <1>8, <1>12, <2>1, Conditions
<1>15. g >= 0 <=> SignedIn(x, n) >= SignedIn(y, n)
  <2> DEFINE u == Double(sa, l.a)
             v == Double(sb, l.b)
  <2>1. u \in Int /\ v \in Int /\ (u - v >= 0 <=> g >= 0)
    BY <1>7, <1>11, <1>13
  <2> HIDE DEF u, v
  <2>2. u >= v <=> g >= 0
    BY <2>1
  <2> QED BY <1>9, <2>2 DEF u, v
<1>16. Passes("GE", f) = (SignedIn(x, n) >= SignedIn(y, n))
  BY <1>1, <1>2, <1>10, <1>15, Conditions
<1>17. Passes("LT", f) = (SignedIn(x, n) < SignedIn(y, n))
  <2>1. SignedIn(x, n) \in Int /\ SignedIn(y, n) \in Int
    BY <1>9, <1>11
  <2>2. SignedIn(x, n) < SignedIn(y, n) <=> ~(SignedIn(x, n) >= SignedIn(y, n))
    BY <2>1
  <2> QED BY <1>16, <2>2, Conditions
<1>18. s.r = (x - y) % n /\ s.words = 2 /\ s.add = FALSE /\ s.a = x /\ s.b = y
  BY <1>2, <1>12 DEF Wrap, res, x, y
<1>19. Limit(s.words) = n
  BY <1>18 DEF Limit, n
<1> HIDE DEF n
<1> QED BY <1>14, <1>16, <1>17, <1>18, <1>19 DEF SumTold, f, res

\* Every sum remembered is told right by the flags; those of one word are words.
SumInv ==
  \A s \in seen.sum :
    SumTold(s, cpsr) /\ (s.words = 1 => s.a \in Words /\ s.b \in Words /\ s.r \in Words)

LEMMA SummedTold ==
  ASSUME Typed, SumInv, NEW i, i.op \in Operations, i.rn \in Operands, IsSource(i.src),
         NEW s \in Summed(i)
  PROVE  /\ SumTold(s, WithFlags(cpsr, Result(i)))
         /\ s.words = 1 => s.a \in Words /\ s.b \in Words /\ s.r \in Words
<1> DEFINE a == Operand(i.rn, i.src.form = "shifted")
           x == Source(i.src)
           b == x.value
           res == Result(i)
           one == [words |-> 1, add |-> i.op \in {"ADD", "CMN"}, a |-> a, b |-> b, r |-> res.value]
           low == {l \in seen.sum : l.words = 1 /\ l.add = (i.op = "ADC")}
<1>1. cpsr \in Statuses /\ a \in Words /\ b \in Words
  BY OperandTyped, SourceTyped DEF Typed, ShiftResults
<1>2. res \in AluResults /\ res.value \in Words
  BY ResultTyped DEF AluResults
<1>3. res = Alu(i.op, a, x, cpsr)
  BY DEF Result
<1>4. /\ i.op \in {"ADD", "CMN", "SUB", "CMP"} => s = one
      /\ i.op = "RSB" => s = [one EXCEPT !.a = b, !.b = a]
      /\ i.op \in {"ADC", "SBC", "RSC"} =>
           \E l \in low : s = [words |-> 2, add |-> l.add, r |-> Double(res.value, l.r),
                               a |-> Double(IF i.op = "RSC" THEN b ELSE a, l.a),
                               b |-> Double(IF i.op = "RSC" THEN a ELSE b, l.b)]
      /\ i.op \in {"ADD", "CMN", "SUB", "CMP", "RSB", "ADC", "SBC", "RSC"}
  BY DEF Summed
<1>5. ASSUME NEW l \in low
      PROVE  /\ l.words = 1 /\ l.add = (i.op = "ADC") /\ SumTold(l, cpsr)
             /\ l.a \in Words /\ l.b \in Words /\ l.r \in Words
  BY DEF SumInv
<1>6. CASE i.op \in {"ADD", "CMN"}
  <2>1. res = Sum(a, b, FALSE)
    BY <1>3, <1>6 DEF Alu
  <2> HIDE DEF a, x, res
  <2>2. s = [words |-> 1, add |-> TRUE, a |-> a, b |-> b, r |-> Sum(a, b, FALSE).value]
    BY <1>4, <1>6, <2>1
  <2>3. SumTold(s, WithFlags(cpsr, res))
    BY <1>1, <2>1, <2>2, SumOfOne
  <2> QED BY <1>1, <1>2, <2>1, <2>2, <2>3 DEF res
<1>7. CASE i.op \in {"SUB", "CMP"}
  <2>1. res = Difference(a, b, FALSE)
    BY <1>3, <1>7 DEF Alu
  <2> HIDE DEF a, x, res
  <2>2. s = [words |-> 1, add |-> FALSE, a |-> a, b |-> b, r |-> Difference(a, b, FALSE).value]
    <3>1. (i.op \in {"ADD", "CMN"}) = FALSE
      BY <1>7
    <3>2. one = [words |-> 1, add |-> FALSE, a |-> a, b |-> b, r |-> res.value]
      BY <3>1
    <3> QED BY <1>4, <1>7, <2>1, <3>2
  <2>3. SumTold(s, WithFlags(cpsr, res))
    BY <1>1, <2>1, <2>2, DifferenceOfOne
  <2> QED BY <1>1, <1>2, <2>1, <2>2, <2>3 DEF res
<1>8. CASE i.op = "RSB"
  <2>1. res = Difference(b, a, FALSE)
    BY <1>3, <1>8 DEF Alu
  <2> HIDE DEF a, x, res
  <2>2. s = [words |-> 1, add |-> FALSE, a |-> b, b |-> a, r |-> Difference(b, a, FALSE).value]
    <3>1. (i.op \in {"ADD", "CMN"}) = FALSE
      BY <1>8
    <3>2. one = [words |-> 1, add |-> FALSE, a |-> a, b |-> b, r |-> res.value]
      BY <3>1
    <3> QED BY <1>4, <1>8, <2>1, <3>2
  <2>3. SumTold(s, WithFlags(cpsr, res))
    BY <1>1, <2>1, <2>2, DifferenceOfOne
  <2> QED BY <1>1, <1>2, <2>1, <2>2, <2>3 DEF res
<1>9. CASE i.op = "ADC"
  <2>1. res = Sum(a, b, cpsr.c)
    BY <1>3, <1>9 DEF Alu
  <2>2. PICK l \in low : s = [words |-> 2, add |-> l.add, r |-> Double(res.value, l.r),
                              a |-> Double(a, l.a), b |-> Double(b, l.b)]
    BY <1>4, <1>9
  <2>3. l.words = 1 /\ l.add = TRUE /\ SumTold(l, cpsr) /\ l.a \in Words /\ l.b \in Words /\ l.r \in Words
    BY <1>5, <1>9
  <2> HIDE DEF a, x, res, low
  <2>4. s = [words |-> 2, add |-> TRUE, a |-> Double(a, l.a), b |-> Double(b, l.b),
             r |-> Double(Sum(a, b, cpsr.c).value, l.r)]
    BY <2>1, <2>2, <2>3
  <2>5. SumTold(s, WithFlags(cpsr, res))
    BY <1>1, <2>1, <2>3, <2>4, SumOfTwo
  <2> QED BY <2>4, <2>5 DEF res
<1>10. CASE i.op = "SBC"
  <2>1. res = Difference(a, b, ~cpsr.c)
    BY <1>3, <1>10 DEF Alu
  <2>2. PICK l \in low : s = [words |-> 2, add |-> l.add, r |-> Double(res.value, l.r),
                              a |-> Double(a, l.a), b |-> Double(b, l.b)]
    BY <1>4, <1>10
  <2>3. l.words = 1 /\ l.add = FALSE /\ SumTold(l, cpsr) /\ l.a \in Words /\ l.b \in Words /\ l.r \in Words
    BY <1>5, <1>10
  <2> HIDE DEF a, x, res, low
  <2>4. s = [words |-> 2, add |-> FALSE, a |-> Double(a, l.a), b |-> Double(b, l.b),
             r |-> Double(Difference(a, b, ~cpsr.c).value, l.r)]
    BY <2>1, <2>2, <2>3
  <2>5. SumTold(s, WithFlags(cpsr, res))
    BY <1>1, <2>1, <2>3, <2>4, DifferenceOfTwo
  <2> QED BY <2>4, <2>5 DEF res
<1>11. CASE i.op = "RSC"
  <2>1. res = Difference(b, a, ~cpsr.c)
    BY <1>3, <1>11 DEF Alu
  <2>2. PICK l \in low : s = [words |-> 2, add |-> l.add, r |-> Double(res.value, l.r),
                              a |-> Double(b, l.a), b |-> Double(a, l.b)]
    BY <1>4, <1>11
  <2>3. l.words = 1 /\ l.add = FALSE /\ SumTold(l, cpsr) /\ l.a \in Words /\ l.b \in Words /\ l.r \in Words
    BY <1>5, <1>11
  <2> HIDE DEF a, x, res, low
  <2>4. s = [words |-> 2, add |-> FALSE, a |-> Double(b, l.a), b |-> Double(a, l.b),
             r |-> Double(Difference(b, a, ~cpsr.c).value, l.r)]
    BY <2>1, <2>2, <2>3
  <2>5. SumTold(s, WithFlags(cpsr, res))
    BY <1>1, <2>1, <2>3, <2>4, DifferenceOfTwo
  <2> QED BY <2>4, <2>5 DEF res
<1> QED BY <1>4, <1>6, <1>7, <1>8, <1>9, <1>10, <1>11

\* The instructions that remember a sum set the flags by it.
LEMMA WhatSums ==
  ASSUME NEW i, Execute(i), seen'.sum # {}
  PROVE  /\ i.kind = "data" /\ seen'.sum = Summed(i)
         /\ cpsr' = WithFlags(cpsr, Result(i))
<1>1. Quiet.sum = {} /\ BlockSeen(i).sum = {}
  BY DEF Quiet, BlockSeen
<1>2. Seen(i).sum = IF i.s THEN Summed(i) ELSE {}
  BY DEF Seen, Quiet
<1>3. CASE Test(i)
  BY <1>1, <1>2, <1>3 DEF Test, Executes, Sees
<1>4. CASE Compute(i)
  BY <1>2, <1>4 DEF Compute, Executes, Sees
<1>5. ~Multiply(i) /\ ~LongMultiply(i) /\ ~ReadStatus(i) /\ ~WriteStatus(i) /\ ~WriteSaved(i)
      /\ ~LinkHigh(i) /\ ~SkipInstruction(i)
  BY <1>1 DEF Multiply, LongMultiply, ReadStatus, WriteStatus, WriteSaved, LinkHigh, SkipInstruction, Sees
<1>6. ~Load(i) /\ ~Store(i) /\ ~Swap(i) /\ ~ComputePc(i)
  BY DEF Load, Store, Swap, ComputePc, Sees, Quiet
<1>7. ~StoreMany(i) /\ ~LoadMany(i) /\ ~LoadManyAndPc(i)
  BY <1>1 DEF StoreMany, LoadMany, LoadManyAndPc, Sees, BlockSeen, Quiet
<1>8. ~Branch(i) /\ ~BranchExchange(i) /\ ~LinkLow(i) /\ ~Refuse(i) /\ ~SoftwareInterrupt(i)
  BY DEF Branch, BranchExchange, LinkLow, Refuse, SoftwareInterrupt, TakeException, Sees, Quiet
<1> QED BY <1>3, <1>4, <1>5, <1>6, <1>7, <1>8 DEF Execute

LEMMA SumInvKept == CpuInv /\ SumInv /\ [CpuNext]_cpuVars => SumInv'
<1> SUFFICES ASSUME CpuInv, SumInv, [CpuNext]_cpuVars PROVE SumInv'
  OBVIOUS
<1>1. CASE seen'.sum = {}
  BY <1>1 DEF SumInv
<1>2. ASSUME NEW i \in Repertoires[repertoire], Execute(i), seen'.sum # {}
      PROVE  SumInv'
  <2>1. i.kind = "data" /\ seen'.sum = Summed(i) /\ cpsr' = WithFlags(cpsr, Result(i))
    BY <1>2, WhatSums
  <2>2. Typed /\ Decoded(i)
    BY RepertoiresAssumption, TypesApart DEF CpuInv
  <2>3. i.op \in Operations /\ i.rn \in Operands /\ IsSource(i.src)
    BY <2>1, <2>2 DEF Decoded
  <2>4. ASSUME NEW s \in Summed(i)
        PROVE  /\ SumTold(s, cpsr')
               /\ s.words = 1 => s.a \in Words /\ s.b \in Words /\ s.r \in Words
    BY <2>1, <2>2, <2>3, SummedTold
  <2>5. SumInv' <=> \A s \in seen'.sum :
            SumTold(s, cpsr') /\ (s.words = 1 => s.a \in Words /\ s.b \in Words /\ s.r \in Words)
    BY DEF SumInv
  <2> QED BY <2>1, <2>4, <2>5
<1>3. CASE UNCHANGED cpuVars
  BY <1>3 DEF cpuVars, SumInv
<1>4. CASE ReturnFromException \/ Reset \/ \E e : Interrupt(e) \/ Fault(e)
  <2>1. seen'.sum = {}
    BY <1>4 DEF ReturnFromException, Reset, Interrupt, Fault, TakeException, Sees, Quiet
  <2> QED BY <1>1, <2>1
<1> QED BY <1>1, <1>2, <1>3, <1>4 DEF CpuNext

-----------------------------------------------------------------------------
(* The steps that return from an exception *)

LEMMA WhatReturns ==
  ASSUME NEW i, Execute(i), seen'.did = "return"
  PROVE  \/ ComputePc(i) /\ i.s
         \/ LoadManyAndPc(i) /\ i.user /\ i.list # {}
<1>1. Quiet.did = "none" /\ Seen(i).did = "data" /\ BlockSeen(i).did \in {"loaded", "stored"}
  BY DEF Quiet, Seen, BlockSeen
<1>2. ~Test(i) /\ ~Compute(i)
  BY <1>1 DEF Test, Compute, Sees
<1>3. ~Multiply(i) /\ ~LongMultiply(i) /\ ~ReadStatus(i) /\ ~WriteStatus(i) /\ ~WriteSaved(i)
      /\ ~LinkHigh(i) /\ ~SkipInstruction(i)
  BY <1>1 DEF Multiply, LongMultiply, ReadStatus, WriteStatus, WriteSaved, LinkHigh, SkipInstruction, Sees
<1>4. ~Load(i) /\ ~Store(i) /\ ~Swap(i)
  BY DEF Load, Store, Swap, Sees, Quiet
<1>5. ~StoreMany(i) /\ ~LoadMany(i)
  BY <1>1 DEF StoreMany, LoadMany, Sees
<1>6. ~Branch(i) /\ ~BranchExchange(i) /\ ~LinkLow(i) /\ ~Refuse(i) /\ ~SoftwareInterrupt(i)
  BY DEF Branch, BranchExchange, LinkLow, Refuse, SoftwareInterrupt, TakeException, Sees, Quiet
<1>7. ComputePc(i) => i.s
  BY DEF ComputePc, Sees, Quiet
<1>8. LoadManyAndPc(i) => i.user /\ i.list # {}
  BY DEF LoadManyAndPc, Sees, BlockSeen, Quiet
<1> QED BY <1>2, <1>3, <1>4, <1>5, <1>6, <1>7, <1>8 DEF Execute

LEMMA ReturnsRestored ==
  ASSUME CpuNext, seen'.did = "return"
  PROVE  cpsr' = Restored /\ BranchTo(cpsr', seen'.target)
<1>1. ASSUME NEW i, ComputePc(i), i.s
      PROVE  cpsr' = Restored /\ BranchTo(cpsr', seen'.target)
  BY <1>1 DEF ComputePc, Sees, Quiet
<1>2. ASSUME NEW i, LoadManyAndPc(i), i.user, i.list # {}
      PROVE  cpsr' = Restored /\ BranchTo(cpsr', seen'.target)
  BY <1>2 DEF LoadManyAndPc, Sees, BlockSeen, Quiet
<1>3. ReturnFromException => cpsr' = Restored /\ BranchTo(cpsr', seen'.target)
  BY DEF ReturnFromException, Sees, Quiet
<1>4. ~Reset
  BY DEF Reset, Sees, Quiet
<1>5. \A e : ~Interrupt(e) /\ ~Fault(e)
  BY DEF Interrupt, Fault, TakeException, Sees, Quiet
<1> QED BY <1>1, <1>2, <1>3, <1>4, <1>5, WhatReturns DEF CpuNext

LEMMA ReturnLeadsBack ==
  ASSUME CpuInv, CpuNext, seen'.did = "return", HasSpsr, NEW e \in entered[cpsr.mode],
         spsr[cpsr.mode] = e.status, seen'.target = Wrap(e.link - Back(e.kind))
  PROVE  cpsr' = e.status /\ pc' = e.resume
<1>1. Typed /\ IsEntry(e)
  BY TypesApart DEF CpuInv, EnteredOK, HasSpsr
<1>2. cpsr' = Restored /\ BranchTo(cpsr', seen'.target)
  BY ReturnsRestored
<1>3. cpsr' = e.status /\ cpsr' \in Statuses
  BY <1>1, <1>2, RestoredTyped
<1> DEFINE t == seen'.target
           n == SizeIn(cpsr')
<1>4. t = e.resume /\ t \in Words /\ t % n = 0
  BY <1>1, <1>3, LinkLeadsBack
<1>5. pc' = t - (t % n)
  BY <1>2 DEF BranchTo, Aligned, SizeIn
<1>6. t \in Nat
  BY <1>4, WordsAreNatural
<1> HIDE DEF t, n
<1>7. pc' = t
  BY <1>4, <1>5, <1>6
<1> QED BY <1>3, <1>4, <1>7

-----------------------------------------------------------------------------
(***************************************************************************)
(* Shifts, bit by bit.                                                     *)
(***************************************************************************)
LEMMA QuotientIs ==
  ASSUME NEW n \in Nat \ {0}, NEW x \in Int, NEW k \in Int, NEW r \in 0 .. n - 1, x = k * n + r
  PROVE  x \div n = k /\ x % n = r
<1>1. x % n = r
  BY Remainder
<1> DEFINE q == x \div n
           m == x % n
<1>2. q \in Int /\ x = q * n + m
  OBVIOUS
<1> HIDE DEF q, m
<1>3. m = r
  BY <1>1 DEF m
<1> DEFINE d == q - k
<1>4. d \in Int /\ d * n = 0
  <2>1. d * n = q * n - k * n
    BY <1>2
  <2>2. q * n \in Int /\ k * n \in Int
    BY <1>2
  <2>3. q * n + r = k * n + r
    BY <1>2, <1>3
  <2> HIDE DEF d
  <2>4. d * n = 0
    BY <2>1, <2>2, <2>3
  <2> QED BY <1>2, <2>4 DEF d
<1> HIDE DEF d
<1>5. d = 0
  <2>1. CASE d >= 1
    <3>1. d - 1 \in Nat /\ (d - 1) * n \in Nat
      BY <1>4, <2>1, ProductNatural
    <3>2. d * n = (d - 1) * n + n
      BY <1>4
    <3> QED BY <1>4, <3>1, <3>2
  <2>2. CASE d <= -1
    <3>1. -d - 1 \in Nat /\ (-d - 1) * n \in Nat
      BY <1>4, <2>2, ProductNatural
    <3>2. d * n = -((-d - 1) * n) - n
      BY <1>4
    <3> QED BY <1>4, <3>1, <3>2
  <2> QED BY <1>4, <2>1, <2>2
<1>6. q = k
  BY <1>2, <1>5 DEF d
<1> QED BY <1>1, <1>6 DEF q

\* Dividing once more by two.
LEMMA HalfQuotient ==
  ASSUME NEW v \in Int, NEW p \in Nat \ {0}
  PROVE  LET q == v \div p
             m == v % p
         IN  /\ q \in Int /\ q \div 2 \in Int /\ q % 2 \in {0, 1} /\ q = 2 * (q \div 2) + (q % 2)
             /\ m \in 0 .. p - 1 /\ v = q * p + m
             /\ v \div (2 * p) = q \div 2
             /\ v % (2 * p) = (q % 2) * p + m
<1> DEFINE q == v \div p
           m == v % p
           j == q \div 2
           e == q % 2
<1>1. q \in Int /\ m \in 0 .. p - 1 /\ v = q * p + m
  OBVIOUS
<1> HIDE DEF q, m
<1>2. j \in Int /\ e \in {0, 1} /\ q = 2 * j + e
  BY <1>1
<1> HIDE DEF j, e
<1>3. e * p + m \in 0 .. 2 * p - 1 /\ 2 * p \in Nat \ {0}
  <2>1. CASE e = 0
    BY <1>1, <2>1
  <2>2. CASE e = 1
    BY <1>1, <2>2
  <2> QED BY <1>2, <2>1, <2>2
<1>4. v = j * (2 * p) + (e * p + m)
  <2>1. (2 * j + e) * p = j * (2 * p) + e * p
    BY <1>2
  <2>2. j * (2 * p) \in Int /\ e * p \in Int
    BY <1>2
  <2>3. q * p = j * (2 * p) + e * p
    BY <1>2, <2>1
  <2> QED BY <1>1, <2>2, <2>3
<1> DEFINE r == e * p + m
           n == 2 * p
<1>5. r \in 0 .. n - 1 /\ n \in Nat \ {0} /\ v = j * n + r
  BY <1>3, <1>4
<1> HIDE DEF r, n
<1>6. v \div n = j /\ v % n = r
  BY <1>2, <1>5, QuotientIs
<1> QED BY <1>1, <1>2, <1>6 DEF q, m, j, e, r, n

LEMMA PowerParts ==
  ASSUME NEW k \in 0 .. Width - 1
  PROVE  /\ 2 ^ k \in Nat \ {0} /\ 2 ^ (Width - 1 - k) \in Nat \ {0}
         /\ Top = 2 ^ k * 2 ^ (Width - 1 - k)
         /\ 2 ^ (k + 1) = 2 * 2 ^ k /\ 2 ^ (Width - k) = 2 * 2 ^ (Width - 1 - k)
<1> DEFINE j == Width - 1 - k
<1>1. Width \in Nat /\ j \in 0 .. Width - 1 /\ j \in Nat /\ k \in Nat /\ k + j = Width - 1 /\ k + j <= Width
      /\ j + 1 = Width - k /\ k \in 0 .. Width /\ j \in 0 .. Width
  BY Sizes
<1> HIDE DEF j
<1>2. 2 ^ (k + j) = 2 ^ k * 2 ^ j
  BY <1>1, PowerSum
<1>3. 2 ^ (j + 1) = 2 * 2 ^ j /\ 2 ^ (k + 1) = 2 * 2 ^ k
  BY <1>1, Powers
<1>4. 2 ^ k \in Nat \ {0} /\ 2 ^ j \in Nat \ {0}
  BY <1>1, Powers
<1>5. Top = 2 ^ k * 2 ^ j /\ 2 ^ (Width - k) = 2 * 2 ^ j
  BY <1>1, <1>2, <1>3 DEF Top
<1> QED BY <1>3, <1>4, <1>5 DEF j

LEMMA TopBit ==
  ASSUME NEW v \in Words
  PROVE  Bit(v, Width - 1) = (v >= Top) /\ v \in Nat /\ v < 2 * Top
<1>1. v \in Nat /\ v < 2 * Top /\ Top \in Nat \ {0}
  BY Sizes, Wrapped
<1>2. CASE v < Top
  <2>1. 0 \in Int /\ v \in 0 .. Top - 1 /\ v = 0 * Top + v
    BY <1>1, <1>2
  <2>2. v \div Top = 0
    BY <1>1, <2>1, QuotientIs
  <2> QED BY <1>1, <1>2, <2>2 DEF Bit, Top
<1>3. CASE v >= Top
  <2> DEFINE r == v - Top
  <2>1. 1 \in Int /\ r \in 0 .. Top - 1 /\ v = 1 * Top + r
    BY <1>1, <1>3
  <2> HIDE DEF r
  <2>2. v \div Top = 1
    BY <1>1, <2>1, QuotientIs
  <2> QED BY <1>1, <1>3, <2>2 DEF Bit, Top
<1> QED BY <1>1, <1>2, <1>3

\* The bit that a shift to the left moves to the top.
LEMMA ShiftedOut ==
  ASSUME NEW v \in Words, NEW k \in 0 .. Width - 1
  PROVE  (Wrap(v * 2 ^ k) >= Top) = Bit(v, Width - 1 - k)
<1> DEFINE p == 2 ^ k
           j == 2 ^ (Width - 1 - k)
           q == v \div j
           m == v % j
           h == q \div 2
           e == q % 2
<1>1. p \in Nat \ {0} /\ j \in Nat \ {0} /\ Top = p * j /\ Size = 2 * Top /\ Size \in Nat \ {0} /\ v \in Int
      /\ Top \in Nat \ {0}
  <2>1. p \in Nat \ {0} /\ j \in Nat \ {0} /\ Top = p * j
    BY PowerParts
  <2> HIDE DEF p, j
  <2>2. Size = 2 * Top /\ Size \in Nat \ {0} /\ Top \in Nat \ {0} /\ v \in Int
    BY Sizes, Wrapped
  <2> QED BY <2>1, <2>2
<1>2. q \in Int /\ h \in Int /\ e \in {0, 1} /\ q = 2 * h + e /\ m \in 0 .. j - 1 /\ v = q * j + m
  <2> HIDE DEF j
  <2> QED BY <1>1, HalfQuotient
<1>3. Bit(v, Width - 1 - k) <=> e = 1
  BY DEF Bit
<1> HIDE DEF p, j, q, m, h, e
<1>4. m * p \in 0 .. Top - 1
  <2>1. m * p \in Nat
    BY <1>1, <1>2
  <2> DEFINE d == j - 1 - m
  <2>2. d \in Nat /\ d * p \in Nat
    BY <1>1, <1>2
  <2>3. d * p = j * p - p - m * p
    BY <1>1, <1>2
  <2>4. j * p = Top
    BY <1>1
  <2> HIDE DEF d
  <2> QED BY <1>1, <2>1, <2>2, <2>3, <2>4
<1> DEFINE r == e * Top + m * p
<1>5. r \in 0 .. Size - 1 /\ (r >= Top <=> e = 1)
  <2>1. CASE e = 0
    BY <1>1, <1>4, <2>1
  <2>2. CASE e = 1
    BY <1>1, <1>4, <2>2
  <2> QED BY <1>2, <2>1, <2>2
<1>6. v * p = h * Size + r
  <2>1. (q * j + m) * p = q * (j * p) + m * p
    BY <1>1, <1>2
  <2>2. j * p = Top
    BY <1>1
  <2>3. (2 * h + e) * Top = h * (2 * Top) + e * Top
    BY <1>1, <1>2
  <2>4. v * p = q * Top + m * p
    BY <1>2, <2>1, <2>2
  <2>5. q * Top = h * Size + e * Top
    BY <1>1, <1>2, <2>3
  <2>6. h * Size \in Int /\ e * Top \in Int /\ m * p \in Int
    BY <1>1, <1>2, <1>4
  <2> QED BY <2>4, <2>5, <2>6
<1>7. v * p \in Int
  BY <1>1
<1> HIDE DEF r
<1>8. Wrap(v * p) = r
  <2> DEFINE x == v * p
  <2>1. x \in Int /\ x = h * Size + r
    BY <1>6, <1>7
  <2> HIDE DEF x
  <2>2. x % Size = r
    BY <1>1, <1>2, <1>5, <2>1, QuotientIs
  <2> QED BY <2>2 DEF x, Wrap
<1>9. Wrap(v * 2 ^ k) = r
  BY <1>8 DEF p
<1>10. (r >= Top) \in BOOLEAN /\ Bit(v, Width - 1 - k) \in BOOLEAN
  BY DEF Bit
<1> QED BY <1>3, <1>5, <1>9, <1>10

LEMMA LowBit ==
  ASSUME NEW x \in Int
  PROVE  (Bit(x, 0) <=> x % 2 = 1) /\ x \div 1 = x /\ x % 1 = 0
<1>1. 2 ^ 0 = 1
  BY PowersAssumption
<1>2. x \div 1 = x /\ x % 1 = 0
  <2>1. 0 \in 0 .. 1 - 1 /\ 1 \in Nat \ {0} /\ x = x * 1 + 0
    OBVIOUS
  <2> QED BY <2>1, QuotientIs
<1> QED BY <1>1, <1>2 DEF Bit

\* To the left: k zeros from below, the last bit out of the top is the carry.
LEMMA LeftBy ==
  ASSUME NEW v \in Words, NEW c, NEW k \in 0 .. Width
  PROVE  /\ ShiftByRegister("LSL", v, k, c) = Shift(Wrap(v * 2 ^ k), IF k = 0 THEN c ELSE Bit(v, Width - k))
         /\ v * 2 ^ k \in Int
<1>0. Width \in Nat /\ v \in Int /\ Wrap(v) = v /\ Size \in Nat \ {0} /\ k \in Nat
  BY Sizes, Wrapped
<1>1. v * 2 ^ k \in Int
  <2>1. 2 ^ k \in Nat
    BY Powers
  <2> QED BY <1>0, <2>1
<1>2. CASE k = 0
  <2>1. v * 2 ^ k = v
    BY <1>0, <1>2, PowersAssumption
  <2> QED BY <1>0, <1>1, <1>2, <2>1 DEF ShiftByRegister
<1>3. CASE k # 0 /\ k # Width
  <2>1. k < Width /\ k <= Width
    BY <1>0, <1>3
  <2>2. (k <= Width /\ Bit(v, Width - k)) = Bit(v, Width - k)
    BY <2>1 DEF Bit
  <2> QED BY <1>1, <1>3, <2>1, <2>2 DEF ShiftByRegister
<1>4. CASE k = Width
  <2>1. 0 \in 0 .. Size - 1 /\ v * Size = v * Size + 0 /\ v * Size \in Int
    BY <1>0
  <2>2. (v * Size) % Size = 0
    BY <1>0, <2>1, QuotientIs
  <2>3. Wrap(v * 2 ^ k) = 0
    BY <1>4, <2>2 DEF Wrap, Size
  <2>4. k # 0 /\ ~(k < Width) /\ k <= Width
    BY <1>0, <1>4, Sizes
  <2>5. (k <= Width /\ Bit(v, Width - k)) = Bit(v, Width - k)
    BY <2>4 DEF Bit
  <2> QED BY <1>1, <2>3, <2>4, <2>5 DEF ShiftByRegister
<1> QED BY <1>2, <1>3, <1>4

LEMMA LeftStep ==
  ASSUME NEW v \in Words, NEW c, NEW k \in Nat
  PROVE  ShiftByRegister("LSL", v, k + 1, c) = BitByBit("LSL", ShiftByRegister("LSL", v, k, c))
<1>0. Width \in Nat /\ v \in Int /\ Size \in Nat \ {0} /\ Top \in Nat \ {0}
  BY Sizes, Wrapped
<1>1. CASE k < Width
  <2>1. k \in 0 .. Width - 1 /\ k \in 0 .. Width /\ k + 1 \in 0 .. Width /\ k + 1 # 0
        /\ Width - (k + 1) = (Width - 1) - k
    BY <1>0, <1>1
  <2> DEFINE x == v * 2 ^ k
  <2>2. x \in Int /\ ShiftByRegister("LSL", v, k, c).value = Wrap(x)
    BY <2>1, LeftBy DEF Shift
  <2>3. v * 2 ^ (k + 1) = 2 * x
    <3>1. 2 ^ (k + 1) = 2 * 2 ^ k /\ 2 ^ k \in Nat
      BY <2>1, PowerParts
    <3> DEFINE p == 2 ^ k
    <3> HIDE DEF p
    <3>2. v * (2 * p) = 2 * (v * p)
      BY <1>0, <3>1 DEF p
    <3> QED BY <3>1, <3>2 DEF p
  <2>4. (Wrap(x) >= Top) = Bit(v, Width - (k + 1))
    BY <2>1, ShiftedOut
  <2> HIDE DEF x
  <2>5. Wrap(2 * Wrap(x)) = Wrap(2 * x)
    <3>1. Wrap(Wrap(x) + x) = Wrap(x + x)
      BY <2>2, Wrapped
    <3>2. Wrap(x) \in Int
      BY <2>2, Wrapped
    <3>3. Wrap(Wrap(x) + Wrap(x)) = Wrap(x + Wrap(x))
      BY <2>2, <3>2, Wrapped
    <3>4. x + Wrap(x) = Wrap(x) + x /\ 2 * x = x + x /\ 2 * Wrap(x) = Wrap(x) + Wrap(x)
      BY <2>2, <3>2
    <3> QED BY <3>1, <3>3, <3>4
  <2>6. ShiftByRegister("LSL", v, k + 1, c) = Shift(Wrap(2 * x), Bit(v, Width - (k + 1)))
    BY <2>1, <2>3, LeftBy
  <2> QED BY <2>2, <2>4, <2>5, <2>6 DEF BitByBit
<1>2. CASE ~(k < Width)
  <2>1. ShiftByRegister("LSL", v, k, c).value = 0
    BY <1>0, <1>2, Sizes DEF ShiftByRegister, Shift
  <2>2. k + 1 # 0 /\ ~(k + 1 < Width) /\ ~(k + 1 <= Width)
    BY <1>0, <1>2
  <2>3. ShiftByRegister("LSL", v, k + 1, c) = Shift(0, FALSE)
    BY <2>2 DEF ShiftByRegister
  <2>4. Wrap(2 * 0) = 0 /\ (0 >= Top) = FALSE
    <3>1. 0 \in Words
      BY <1>0 DEF Words
    <3> QED BY <1>0, <3>1, Wrapped
  <2> QED BY <2>1, <2>3, <2>4 DEF BitByBit
<1> QED BY <1>1, <1>2

\* To the right: the quotient by a power of two, the last bit out of the bottom is the carry.
LEMMA RightBy ==
  ASSUME NEW v \in Words, NEW c, NEW k \in 0 .. Width
  PROVE  /\ ShiftByRegister("LSR", v, k, c) = Shift(v \div 2 ^ k, IF k = 0 THEN c ELSE Bit(v, k - 1))
         /\ v \div 2 ^ k \in Nat /\ 2 ^ k \in Nat \ {0}
<1>0. Width \in Nat /\ v \in Nat /\ v < Size /\ Size \in Nat \ {0} /\ k \in Nat
  BY Sizes, Wrapped
<1>1. v \div 2 ^ k \in Nat /\ 2 ^ k \in Nat \ {0}
  <2>1. 2 ^ k \in Nat \ {0}
    BY Powers
  <2> QED BY <1>0, <2>1, Halved
<1>2. CASE k = 0
  <2>1. v \div 2 ^ k = v
    BY <1>0, <1>2, PowersAssumption, LowBit
  <2> QED BY <1>1, <1>2, <2>1 DEF ShiftByRegister
<1>3. CASE k # 0 /\ k # Width
  <2>1. k < Width /\ k <= Width
    BY <1>0, <1>3
  <2>2. (k <= Width /\ Bit(v, k - 1)) = Bit(v, k - 1)
    BY <2>1 DEF Bit
  <2> QED BY <1>1, <1>3, <2>1, <2>2 DEF ShiftByRegister
<1>4. CASE k = Width
  <2>1. v \in 0 .. Size - 1 /\ 0 \in Int /\ v = 0 * Size + v
    BY <1>0
  <2>2. v \div Size = 0
    BY <1>0, <2>1, QuotientIs
  <2>3. v \div 2 ^ k = 0
    BY <1>4, <2>2 DEF Size
  <2>4. k # 0 /\ ~(k < Width) /\ k <= Width
    BY <1>0, <1>4, Sizes
  <2>5. (k <= Width /\ Bit(v, k - 1)) = Bit(v, k - 1)
    BY <2>4 DEF Bit
  <2> QED BY <1>1, <2>3, <2>4, <2>5 DEF ShiftByRegister
<1> QED BY <1>1, <1>2, <1>3, <1>4

LEMMA RightStep ==
  ASSUME NEW v \in Words, NEW c, NEW k \in Nat
  PROVE  ShiftByRegister("LSR", v, k + 1, c) = BitByBit("LSR", ShiftByRegister("LSR", v, k, c))
<1>0. Width \in Nat /\ v \in Int
  BY Sizes, Wrapped
<1>1. CASE k < Width
  <2>1. k \in 0 .. Width - 1 /\ k \in 0 .. Width /\ k + 1 \in 0 .. Width /\ k + 1 # 0 /\ (k + 1) - 1 = k
    BY <1>0, <1>1
  <2> DEFINE p == 2 ^ k
             q == v \div p
  <2>2. p \in Nat \ {0} /\ q \in Nat /\ 2 ^ (k + 1) = 2 * p
        /\ ShiftByRegister("LSR", v, k, c).value = q
    BY <2>1, RightBy, PowerParts DEF Shift
  <2>3. Bit(v, k) <=> q % 2 = 1
    BY DEF Bit
  <2>4. v \div (2 * p) = q \div 2
    <3> HIDE DEF p
    <3> QED BY <1>0, <2>2, HalfQuotient
  <2>5. ShiftByRegister("LSR", v, k + 1, c) = Shift(q \div 2, Bit(v, k))
    BY <2>1, <2>2, <2>4, RightBy
  <2> HIDE DEF p, q
  <2>6. Bit(q, 0) = Bit(v, k)
    <3>1. Bit(q, 0) <=> q % 2 = 1
      BY <2>2, LowBit
    <3> QED BY <2>3, <3>1 DEF Bit
  <2> QED BY <2>2, <2>5, <2>6 DEF BitByBit
<1>2. CASE ~(k < Width)
  <2>1. ShiftByRegister("LSR", v, k, c).value = 0
    BY <1>0, <1>2, Sizes DEF ShiftByRegister, Shift
  <2>2. k + 1 # 0 /\ ~(k + 1 < Width) /\ ~(k + 1 <= Width)
    BY <1>0, <1>2
  <2>3. ShiftByRegister("LSR", v, k + 1, c) = Shift(0, FALSE)
    BY <2>2 DEF ShiftByRegister
  <2>4. 0 \div 2 = 0 /\ Bit(0, 0) = FALSE
    BY LowBit DEF Bit
  <2> QED BY <2>1, <2>3, <2>4 DEF BitByBit
<1> QED BY <1>1, <1>2

LEMMA Lesser ==
  ASSUME NEW a \in Int, NEW b \in Int
  PROVE  Min({a, b}) = IF a <= b THEN a ELSE b
<1>1. \E x \in {a, b} : \A y \in {a, b} : x <= y
  OBVIOUS
<1>2. Min({a, b}) \in {a, b} /\ \A y \in {a, b} : Min({a, b}) <= y
  BY <1>1 DEF Min
<1> QED BY <1>2

LEMMA SignedWord ==
  ASSUME NEW v \in Words
  PROVE  /\ Signed(v) \in -Top .. Top - 1 /\ Signed(v) \in Int
         /\ v = Signed(v) \/ v = Signed(v) + Size
<1>1. v \in Nat /\ v < 2 * Top /\ Size = 2 * Top /\ Top \in Nat \ {0}
  BY Sizes, Wrapped
<1> QED BY <1>1 DEF Signed

\* A word as a signed number, and the parts that a power of two cuts it in.
LEMMA SignedParts ==
  ASSUME NEW v \in Words, NEW k \in 0 .. Width - 1
  PROVE  LET x == Signed(v) \div 2 ^ k
         IN  /\ x \in Int /\ x \in -Top .. Top - 1
             /\ Bit(v, k) <=> x % 2 = 1
<1> DEFINE p == 2 ^ k
           j == 2 ^ (Width - 1 - k)
           s == Signed(v)
           x == s \div p
           m == s % p
<1>1. p \in Nat \ {0} /\ j \in Nat \ {0} /\ Top = p * j
  BY PowerParts
<1>2. s \in -Top .. Top - 1 /\ s \in Int /\ (v = s \/ v = s + Size) /\ Top \in Nat \ {0} /\ Size = 2 * Top
      /\ v \in Int
  BY Sizes, SignedWord, Wrapped
<1> HIDE DEF p, j, s
<1>3. x \in Int /\ m \in 0 .. p - 1 /\ s = x * p + m
  BY <1>1, <1>2, HalfQuotient
<1> HIDE DEF x, m
<1>4. x \in -Top .. Top - 1
  <2>1. CASE x >= Top
    <3> DEFINE d == x - Top
    <3>1. d \in Nat /\ x = Top + d
      BY <1>2, <1>3, <2>1
    <3>2. d * p \in Nat /\ (Top + d) * p = Top * p + d * p /\ Top * p \in Nat /\ Top * p >= Top
      <4> HIDE DEF d
      <4>1. Top * p = Top + Top * (p - 1) /\ Top * (p - 1) \in Nat
        BY <1>1, <1>2
      <4> QED BY <1>1, <1>2, <3>1, <4>1
    <3> HIDE DEF d
    <3>3. x * p = Top * p + d * p
      BY <3>1, <3>2
    <3> QED BY <1>2, <1>3, <3>2, <3>3
  <2>2. CASE x < -Top
    <3> DEFINE d == -Top - 1 - x
    <3>1. d \in Nat /\ x = (-Top - 1) - d
      BY <1>2, <1>3, <2>2
    <3> HIDE DEF d
    <3>2. d * p \in Nat /\ ((-Top - 1) - d) * p = (-(Top * p) - p) - d * p /\ Top * p \in Nat /\ Top * p >= Top
      <4>1. Top * p = Top + Top * (p - 1) /\ Top * (p - 1) \in Nat
        BY <1>1, <1>2
      <4>2. d * p \in Nat /\ ((-Top - 1) - d) * p = (-(Top * p) - p) - d * p
        BY <1>1, <1>2, <3>1
      <4> QED BY <1>1, <1>2, <4>1, <4>2
    <3>3. x * p = (-(Top * p) - p) - d * p
      BY <3>1, <3>2
    <3> QED BY <1>1, <1>2, <1>3, <3>2, <3>3
  <2> QED BY <1>2, <1>3, <2>1, <2>2
<1>5. Bit(v, k) <=> x % 2 = 1
  <2>1. v \div p = x \/ v \div p = x + 2 * j
    <3>1. CASE v = s
      BY <3>1 DEF x
    <3>2. CASE v = s + Size
      <4>1. (x + 2 * j) * p = x * p + 2 * (p * j)
        BY <1>1, <1>3
      <4>2. x * p \in Int
        BY <1>1, <1>3
      <4>3. v = (x + 2 * j) * p + m
        BY <1>1, <1>2, <1>3, <3>2, <4>1, <4>2
      <4>4. x + 2 * j \in Int
        BY <1>1, <1>3
      <4> DEFINE y == x + 2 * j
      <4> HIDE DEF y
      <4>5. v = y * p + m /\ y \in Int
        BY <4>3, <4>4 DEF y
      <4>6. v \div p = y
        BY <1>1, <1>2, <1>3, <4>5, QuotientIs
      <4> QED BY <4>6 DEF y
    <3> QED BY <1>2, <3>1, <3>2
  <2>2. (x + 2 * j) % 2 = x % 2
    BY <1>1, <1>3
  <2>3. Bit(v, k) <=> (v \div p) % 2 = 1
    BY DEF Bit, p
  <2> QED BY <2>1, <2>2, <2>3
<1> QED BY <1>3, <1>4, <1>5 DEF x, s, p

LEMMA ArithmeticBy ==
  ASSUME NEW v \in Words, NEW c, NEW k \in Nat
  PROVE  LET m == IF k < Width THEN k ELSE Width - 1
         IN  /\ m \in 0 .. Width - 1
             /\ ShiftByRegister("ASR", v, k, c).value = Wrap(Signed(v) \div 2 ^ m)
             /\ ShiftByRegister("ASR", v, k + 1, c) =
                   Shift(Wrap(Signed(v) \div 2 ^ (IF k + 1 < Width THEN k + 1 ELSE Width - 1)), Bit(v, m))
<1>0. Width \in Nat /\ Width >= 12
  BY Sizes
<1>1. /\ Min({k, Width - 1}) = IF k < Width THEN k ELSE Width - 1
      /\ Min({k + 1, Width - 1}) = IF k + 1 < Width THEN k + 1 ELSE Width - 1
      /\ Min({k + 1, Width}) - 1 = IF k < Width THEN k ELSE Width - 1
  <2>1. Width - 1 \in Int /\ k + 1 \in Int
    BY <1>0
  <2> QED BY <1>0, <2>1, Lesser
<1>2. CASE k = 0
  <2>1. ShiftByRegister("ASR", v, k, c).value = v
    BY <1>2 DEF ShiftByRegister, Shift
  <2>2. Wrap(Signed(v) \div 2 ^ 0) = v
    <3>1. Signed(v) \in Int /\ (Signed(v) = v \/ Signed(v) = v - Size)
      BY Sizes, Wrapped DEF Signed
    <3>2. 2 ^ 0 = 1 /\ Signed(v) \div 1 = Signed(v)
      BY <3>1, LowBit, PowersAssumption
    <3>3. v \in Int /\ Size \in Nat \ {0} /\ v \in 0 .. Size - 1
      BY Sizes, Wrapped
    <3>4. Signed(v) = 0 * Size + v \/ Signed(v) = (-1) * Size + v
      BY <3>1, <3>3
    <3>5. Signed(v) % Size = v
      <4> DEFINE s == Signed(v)
      <4>1. s \in Int /\ (s = 0 * Size + v \/ s = (-1) * Size + v)
        BY <3>1, <3>4
      <4> HIDE DEF s
      <4>2. 0 \in Int /\ -1 \in Int
        OBVIOUS
      <4>3. s % Size = v
        BY <3>3, <4>1, <4>2, QuotientIs
      <4> QED BY <4>3 DEF s
    <3> QED BY <3>2, <3>5 DEF Wrap
  <2>3. k + 1 # 0 /\ k < Width /\ 0 \in 0 .. Width - 1
    BY <1>0, <1>2
  <2> QED BY <1>1, <1>2, <2>1, <2>2, <2>3 DEF ShiftByRegister
<1>3. CASE k # 0
  <2>1. k + 1 # 0
    OBVIOUS
  <2>2. (IF k < Width THEN k ELSE Width - 1) \in 0 .. Width - 1
    BY <1>0
  <2> QED BY <1>1, <1>3, <2>1, <2>2 DEF ShiftByRegister, Shift
<1> QED BY <1>2, <1>3

LEMMA ArithmeticStep ==
  ASSUME NEW v \in Words, NEW c, NEW k \in Nat
  PROVE  ShiftByRegister("ASR", v, k + 1, c) = BitByBit("ASR", ShiftByRegister("ASR", v, k, c))
<1> DEFINE m == IF k < Width THEN k ELSE Width - 1
           n == IF k + 1 < Width THEN k + 1 ELSE Width - 1
           s == Signed(v)
           x == s \div 2 ^ m
           w == Wrap(x)
<1>0. Width \in Nat /\ Width >= 12 /\ Top \in Nat \ {0} /\ Size = 2 * Top /\ s \in Int /\ Size \in Nat \ {0}
  BY Sizes, Wrapped DEF Signed
<1>1. /\ m \in 0 .. Width - 1
      /\ ShiftByRegister("ASR", v, k, c).value = w
      /\ ShiftByRegister("ASR", v, k + 1, c) = Shift(Wrap(s \div 2 ^ n), Bit(v, m))
  BY ArithmeticBy
<1>2. x \in Int /\ x \in -Top .. Top - 1 /\ (Bit(v, m) <=> x % 2 = 1)
  BY <1>1, SignedParts
<1>3. s \div 2 ^ n = x \div 2
  <2>1. CASE k + 1 < Width
    <3>1. m = k /\ n = m + 1
      BY <1>0, <2>1
    <3> DEFINE p == 2 ^ m
    <3>2. p \in Nat \ {0} /\ 2 ^ (m + 1) = 2 * p
      BY <1>1, PowerParts
    <3> HIDE DEF p, m, n, s
    <3>3. s \div (2 * p) = (s \div p) \div 2
      BY <1>0, <3>2, HalfQuotient
    <3> QED BY <3>1, <3>2, <3>3 DEF p
  <2>2. CASE ~(k + 1 < Width)
    <3>1. m = Width - 1 /\ n = Width - 1
      BY <1>0, <2>2
    <3>2. x = s \div Top
      BY <3>1 DEF Top
    <3>3. s \in -Top .. Top - 1
      BY SignedWord
    <3>4. x = 0 \/ x = -1
      <4>1. CASE s >= 0
        <5>1. s \in 0 .. Top - 1 /\ s = 0 * Top + s /\ 0 \in Int
          BY <1>0, <3>3, <4>1
        <5> HIDE DEF s
        <5> QED BY <1>0, <3>2, <5>1, QuotientIs
      <4>2. CASE s < 0
        <5> DEFINE r == s + Top
        <5>1. r \in 0 .. Top - 1 /\ s = (-1) * Top + r /\ -1 \in Int
          BY <1>0, <3>3, <4>2
        <5> HIDE DEF s, r
        <5> QED BY <1>0, <3>2, <5>1, QuotientIs
      <4> QED BY <1>0, <4>1, <4>2
    <3>5. x \div 2 = x
      BY <3>4
    <3> QED BY <3>1, <3>5
  <2> QED BY <2>1, <2>2
<1> HIDE DEF m, n, s, x
<1>4. Wrap(x \div 2) = (w \div 2) + Num(w >= Top) * Top /\ (w % 2 = 1 <=> x % 2 = 1) /\ w \in Int
  <2>1. CASE x >= 0
    <3>1. x \in Words /\ x \div 2 \in Words /\ x < Top
      BY <1>0, <1>2, <2>1 DEF Words
    <3>2. w = x /\ Wrap(x \div 2) = x \div 2
      BY <3>1, Wrapped
    <3>3. Num(w >= Top) * Top = 0
      BY <1>0, <1>2, <3>1, <3>2 DEF Num
    <3> QED BY <1>2, <3>2, <3>3
  <2>2. CASE x < 0
    <3> DEFINE h == x \div 2
    <3>1. h \in Int /\ h \in -Top .. -1
      BY <1>0, <1>2, <2>2
    <3>2. x % Size = x + Size
      <4>1. x + Size \in 0 .. Size - 1 /\ x = (-1) * Size + (x + Size) /\ -1 \in Int
        BY <1>0, <1>2, <2>2
      <4> QED BY <1>0, <1>2, <4>1, QuotientIs
    <3>3. h % Size = h + Size
      <4>1. h + Size \in 0 .. Size - 1 /\ h = (-1) * Size + (h + Size) /\ -1 \in Int
        BY <1>0, <3>1
      <4> HIDE DEF h
      <4> QED BY <1>0, <3>1, <4>1, QuotientIs
    <3>4. w = x + 2 * Top /\ Wrap(h) = h + 2 * Top
      BY <1>0, <3>2, <3>3 DEF Wrap
    <3>5. (x + 2 * Top) \div 2 = h + Top /\ (x + 2 * Top) % 2 = x % 2
      BY <1>0, <1>2
    <3>6. w >= Top
      BY <1>0, <1>2, <3>4
    <3>7. Num(w >= Top) * Top = Top
      BY <1>0, <3>6 DEF Num
    <3> HIDE DEF w
    <3> QED BY <1>0, <1>2, <3>1, <3>4, <3>5, <3>7
  <2> QED BY <1>2, <2>1, <2>2
<1>5. Bit(v, m) = Bit(w, 0)
  <2>1. Bit(w, 0) <=> w % 2 = 1
    BY <1>4, LowBit
  <2> QED BY <1>2, <1>4, <2>1 DEF Bit
<1> HIDE DEF w
<1> QED BY <1>1, <1>3, <1>4, <1>5 DEF BitByBit

\* Rotated one bit more.
LEMMA RotatedOnce ==
  ASSUME NEW v \in Words, NEW k \in 0 .. Width - 1
  PROVE  LET r == RotatedRight(v, k)
             n == RotatedRight(v, k + 1)
         IN  /\ n = (r \div 2) + Num(Bit(r, 0)) * Top
             /\ n \in Words /\ Bit(n, Width - 1) = Bit(r, 0)
<1> DEFINE p == 2 ^ k
           j == 2 ^ (Width - 1 - k)
           q == v \div p
           m == v % p
           h == q \div 2
           e == q % 2
           r == RotatedRight(v, k)
           n == RotatedRight(v, k + 1)
<1>0. Width \in Nat /\ k \in 0 .. Width /\ k + 1 \in 0 .. Width /\ Width - (k + 1) = Width - 1 - k
      /\ Top \in Nat \ {0} /\ v \in Int
  BY Sizes, Wrapped
<1>1. p \in Nat \ {0} /\ j \in Nat \ {0} /\ Top = p * j
      /\ 2 ^ (k + 1) = 2 * p /\ 2 ^ (Width - k) = 2 * j /\ 2 ^ (Width - (k + 1)) = j
  <2>1. 2 ^ (Width - (k + 1)) = j
    BY <1>0
  <2> QED BY <2>1, PowerParts
<1>2. r \in Words /\ n \in Words
  BY <1>0, Rotated
<1>3. /\ q \in Int /\ h \in Int /\ e \in {0, 1} /\ q = 2 * h + e /\ m \in 0 .. p - 1
      /\ v \div (2 * p) = h /\ v % (2 * p) = e * p + m
  <2> HIDE DEF p
  <2> QED BY <1>0, <1>1, HalfQuotient
<1>4. r = q + m * (2 * j) /\ n = h + (e * p + m) * j
  BY <1>1, <1>3 DEF RotatedRight
<1> HIDE DEF p, j, q, m, h, e, r, n
<1>5. m * j \in Int /\ m * (2 * j) = 2 * (m * j) /\ (e * p + m) * j = e * Top + m * j
  <2>1. (e * p + m) * j = e * (p * j) + m * j
    BY <1>1, <1>3
  <2> QED BY <1>1, <1>3, <2>1
<1> DEFINE t == h + m * j
<1>6. r = 2 * t + e /\ t \in Int
  BY <1>3, <1>4, <1>5
<1>7. n = t + e * Top
  <2>1. e * Top \in Int
    BY <1>0, <1>3
  <2> QED BY <1>3, <1>4, <1>5, <2>1
<1> HIDE DEF t
<1>8. r \div 2 = t /\ r % 2 = e
  BY <1>3, <1>6
<1>9. Bit(r, 0) <=> e = 1
  BY <1>3, <1>6, <1>8, LowBit
<1>10. n = (r \div 2) + Num(Bit(r, 0)) * Top
  <2>1. CASE e = 1
    BY <1>0, <1>7, <1>8, <1>9, <2>1 DEF Num
  <2>2. CASE e = 0
    BY <1>0, <1>6, <1>7, <1>8, <1>9, <2>2 DEF Num
  <2> QED BY <1>3, <2>1, <2>2
<1>11. t \in 0 .. Top - 1
  <2>1. r \in Nat /\ r < 2 * Top
    BY <1>2, Sizes, Wrapped
  <2> QED BY <1>0, <1>3, <1>6, <2>1
<1>12. Bit(n, Width - 1) <=> e = 1
  <2>1. Bit(n, Width - 1) <=> n >= Top
    BY <1>2, TopBit
  <2>2. CASE e = 1
    BY <1>0, <1>7, <1>11, <2>1, <2>2
  <2>3. CASE e = 0
    BY <1>0, <1>7, <1>11, <2>1, <2>3
  <2> QED BY <1>3, <2>2, <2>3
<1>13. Bit(n, Width - 1) = Bit(r, 0)
  BY <1>9, <1>12 DEF Bit
<1> QED BY <1>2, <1>10, <1>13 DEF r, n

\* A whole turn leaves the word.
LEMMA WholeTurn ==
  ASSUME NEW v \in Words
  PROVE  RotatedRight(v, 0) = v /\ RotatedRight(v, Width) = v
<1>1. v \in Nat /\ v \in 0 .. Size - 1 /\ Size \in Nat \ {0} /\ Width \in Nat /\ v \in Int
  BY Sizes, Wrapped
<1>2. RotatedRight(v, 0) = v
  <2>1. v \div 2 ^ 0 = v /\ v % 2 ^ 0 = 0
    BY <1>1, LowBit, PowersAssumption
  <2>2. Width - 0 = Width /\ 0 * Size = 0
    BY <1>1
  <2>3. RotatedRight(v, 0) = v + 0 * Size
    BY <2>1, <2>2 DEF RotatedRight, Size
  <2> QED BY <1>1, <2>2, <2>3
<1>3. RotatedRight(v, Width) = v
  <2>1. 0 \in Int /\ v = 0 * Size + v
    BY <1>1
  <2>2. v \div Size = 0 /\ v % Size = v
    BY <1>1, <2>1, QuotientIs
  <2>3. Width - Width = 0 /\ 2 ^ 0 = 1
    BY <1>1, PowersAssumption
  <2>4. RotatedRight(v, Width) = 0 + v * 1
    BY <2>2, <2>3 DEF RotatedRight, Size
  <2> QED BY <1>1, <2>4
<1> QED BY <1>2, <1>3

LEMMA RotationStep ==
  ASSUME NEW v \in Words, NEW c, NEW k \in Nat
  PROVE  ShiftByRegister("ROR", v, k + 1, c) = BitByBit("ROR", ShiftByRegister("ROR", v, k, c))
<1> DEFINE j == k % Width
           i == (k + 1) % Width
<1>0. Width \in Nat \ {0} /\ Width >= 12
  BY Sizes
<1>1. j \in 0 .. Width - 1 /\ (i = j + 1 \/ (j = Width - 1 /\ i = 0))
  <2> DEFINE q == k \div Width
  <2>1. q \in Int /\ j \in 0 .. Width - 1 /\ k = q * Width + j
    BY <1>0
  <2> HIDE DEF q, j
  <2>2. CASE j < Width - 1
    <3>1. j + 1 \in 0 .. Width - 1 /\ k + 1 = q * Width + (j + 1) /\ k + 1 \in Int
      <4>1. q * Width \in Int
        BY <1>0, <2>1
      <4> QED BY <1>0, <2>1, <2>2, <4>1
    <3> QED BY <1>0, <2>1, <3>1, QuotientIs
  <2>3. CASE j = Width - 1
    <3>1. 0 \in 0 .. Width - 1 /\ k + 1 = (q + 1) * Width + 0 /\ k + 1 \in Int /\ q + 1 \in Int
      <4>1. (q + 1) * Width = q * Width + Width /\ q * Width \in Int
        BY <1>0, <2>1
      <4> QED BY <1>0, <2>1, <2>3, <4>1
    <3> QED BY <1>0, <2>1, <2>3, <3>1, QuotientIs
  <2> QED BY <1>0, <2>1, <2>2, <2>3
<1>2. RotatedRight(v, i) = RotatedRight(v, j + 1)
  <2>1. CASE i = j + 1
    BY <2>1
  <2>2. CASE j = Width - 1 /\ i = 0
    <3>1. j + 1 = Width
      BY <1>0, <2>2
    <3> QED BY <2>2, <3>1, WholeTurn
  <2> QED BY <1>1, <2>1, <2>2
<1>3. ShiftByRegister("ROR", v, k, c).value = RotatedRight(v, j)
  <2>1. CASE k = 0
    <3>1. j = 0
      BY <1>0, <2>1
    <3> QED BY <2>1, <3>1, WholeTurn DEF ShiftByRegister, Shift
  <2>2. CASE k # 0
    BY <2>2 DEF ShiftByRegister, Shift
  <2> QED BY <2>1, <2>2
<1>4. ShiftByRegister("ROR", v, k + 1, c) = Shift(RotatedRight(v, i), Bit(RotatedRight(v, i), Width - 1))
  <2>1. k + 1 # 0
    OBVIOUS
  <2> QED BY <2>1 DEF ShiftByRegister
<1> HIDE DEF j, i
<1> DEFINE r == RotatedRight(v, j)
           n == RotatedRight(v, j + 1)
<1>5. n = (r \div 2) + Num(Bit(r, 0)) * Top /\ Bit(n, Width - 1) = Bit(r, 0)
  BY <1>1, RotatedOnce
<1> HIDE DEF r, n
<1> QED BY <1>2, <1>3, <1>4, <1>5 DEF BitByBit, r, n

\* One bit more is one step more.
LEMMA OneStep ==
  ASSUME NEW type \in ShiftTypes, NEW v \in Words, NEW c, NEW k \in Nat
  PROVE  ShiftByRegister(type, v, k + 1, c) = BitByBit(type, ShiftByRegister(type, v, k, c))
  BY LeftStep, RightStep, ArithmeticStep, RotationStep DEF ShiftTypes

LEMMA AllSteps ==
  ASSUME NEW type \in ShiftTypes, NEW v \in Words, NEW c \in BOOLEAN, NEW n \in Nat
  PROVE  Steps(type, v, c, n) = ShiftByRegister(type, v, n, c)
<1> DEFINE S == ShiftResults
           f(k) == ShiftByRegister(type, v, k, c)
           step == [p \in (1 .. n) \X S |-> BitByBit(type, p[2])]
           h == [k \in 0 .. n |-> f(k)]
<1>1. \A k \in Nat : f(k) \in S
  BY ShiftedByRegister
<1>2. f(0) = Shift(v, c)
  BY DEF ShiftByRegister
<1>3. \A k \in Nat : f(k + 1) = BitByBit(type, f(k))
  BY OneStep
<1> HIDE DEF f, S
<1>4. h \in [0 .. n -> S]
  BY <1>1
<1>5. Follows(h, Shift(v, c), step, n)
  <2>1. h[0] = Shift(v, c)
    BY <1>2
  <2>2. ASSUME NEW k \in 1 .. n PROVE h[k] = step[<<k, h[k - 1]>>]
    <3>1. k - 1 \in Nat /\ k - 1 \in 0 .. n /\ k \in 0 .. n /\ (k - 1) + 1 = k
      OBVIOUS
    <3>2. h[k] = f(k) /\ h[k - 1] = f(k - 1) /\ f(k - 1) \in S
      BY <1>1, <3>1
    <3>3. f(k) = BitByBit(type, f(k - 1))
      BY <1>3, <3>1
    <3>4. step[<<k, f(k - 1)>>] = BitByBit(type, f(k - 1))
      BY <3>2
    <3> QED BY <3>2, <3>3, <3>4
  <2> HIDE DEF h, step
  <2> QED BY <2>1, <2>2 DEF Follows
<1>6. Rounds(Shift(v, c), step, n) = h[n]
  <2> HIDE DEF h, step
  <2> QED BY <1>4, <1>5, RoundsAre
<1>7. h[n] = f(n)
  OBVIOUS
<1>8. Steps(type, v, c, n) = Rounds(Shift(v, c), step, n)
  BY DEF Steps, S, ShiftResults
<1> QED BY <1>6, <1>7, <1>8 DEF f

LEMMA StepThroughCarry ==
  ASSUME NEW v \in Words, NEW c \in BOOLEAN
  PROVE  Steps("RRX", v, c, 1) = Shift(Num(c) * Top + (v \div 2), Bit(v, 0))
<1> DEFINE S == ShiftResults
           step == [p \in (1 .. 1) \X S |-> BitByBit("RRX", p[2])]
           r == BitByBit("RRX", Shift(v, c))
           h == [k \in 0 .. 1 |-> IF k = 0 THEN Shift(v, c) ELSE r]
<1>1. Top \in Nat /\ v \in Nat /\ v < 2 * Top
  BY Sizes, Wrapped
<1>2. r = Shift((v \div 2) + Num(c) * Top, Bit(v, 0))
  BY DEF BitByBit, Shift
<1>3. (v \div 2) + Num(c) * Top = Num(c) * Top + (v \div 2) /\ (v \div 2) + Num(c) * Top \in Words
  BY <1>1, Sizes DEF Num, Words
<1>4. Shift(v, c) \in S /\ r \in S
  <2>1. \A w \in Words, b \in BOOLEAN : Shift(w, b) \in ShiftResults
    BY DEF Shift, ShiftResults
  <2>2. Bit(v, 0) \in BOOLEAN
    BY DEF Bit
  <2> HIDE DEF r
  <2> QED BY <1>2, <1>3, <2>1, <2>2
<1> HIDE DEF r, S
<1>5. h \in [0 .. 1 -> S]
  BY <1>4
<1>6. Follows(h, Shift(v, c), step, 1)
  <2>1. h[0] = Shift(v, c) /\ h[1] = r
    OBVIOUS
  <2>2. step[<<1, Shift(v, c)>>] = r
    BY <1>4 DEF r
  <2>3. \A k \in 1 .. 1 : k = 1 /\ k - 1 = 0
    OBVIOUS
  <2> HIDE DEF h, step
  <2> QED BY <2>1, <2>2, <2>3 DEF Follows
<1>7. Rounds(Shift(v, c), step, 1) = h[1]
  <2> HIDE DEF h, step
  <2> DEFINE n == 1
  <2>1. n \in Nat /\ h \in [0 .. n -> S] /\ Follows(h, Shift(v, c), step, n)
    BY <1>5, <1>6
  <2> HIDE DEF n
  <2>2. Rounds(Shift(v, c), step, n) = h[n]
    BY <2>1, RoundsAre
  <2> QED BY <2>2 DEF n
<1>8. Steps("RRX", v, c, 1) = Rounds(Shift(v, c), step, 1) /\ h[1] = r
  BY DEF Steps, S, ShiftResults
<1> HIDE DEF h, step
<1> QED BY <1>2, <1>3, <1>7, <1>8

\* What a step remembers of its shift, of a typed state and a decoded instruction.
LEMMA ShiftedTold ==
  ASSUME Typed, NEW i, IsSource(i.src), NEW h \in Shifted(i)
  PROVE  ShiftTold(h)
<1> DEFINE src == i.src
           v == Operand(src.reg, src.form = "shifted")
           n == IF src.form = "shifted" THEN Value(src.by) % Octet ELSE src.amount
<1>1. /\ src.form # "immediate"
      /\ h = [byRegister |-> src.form = "shifted", type |-> src.type, c |-> cpsr.c,
              value |-> v, amount |-> n, result |-> Source(src)]
  BY DEF Shifted
<1>2. cpsr.c \in BOOLEAN
  BY DEF Typed, Statuses
<1>3. src.type \in ShiftTypes /\ src.reg \in Operands /\ v \in Words
  BY <1>1, OperandTyped DEF IsSource
<1>4. n \in Nat
  <2>1. CASE src.form = "shifted"
    <3> DEFINE u == Value(src.by)
    <3>1. u \in Nat /\ Octet \in Nat \ {0}
      BY <2>1, ValueNatural, Octets DEF IsSource
    <3> HIDE DEF u
    <3>2. u % Octet \in Nat
      BY <3>1
    <3> QED BY <2>1, <3>2 DEF u
  <2>2. CASE src.form = "register"
    BY <2>2, Sizes DEF IsSource
  <2> QED BY <1>1, <2>1, <2>2 DEF IsSource
<1>5. Source(src) = IF src.form = "shifted" THEN ShiftByRegister(src.type, v, n, cpsr.c)
                    ELSE ShiftByImmediate(src.type, v, n, cpsr.c)
  <2>1. CASE src.form = "shifted"
    <3>1. (src.form = "shifted") = TRUE
      BY <2>1
    <3> QED BY <2>1, <3>1 DEF Source
  <2>2. CASE src.form = "register"
    <3>1. (src.form = "shifted") = FALSE
      BY <2>2
    <3> QED BY <2>2, <3>1 DEF Source
  <2> QED BY <1>1, <2>1, <2>2 DEF IsSource
<1> DEFINE t == src.type
           c == cpsr.c
           r == src.form = "shifted"
<1>6. h.byRegister = r /\ h.type = t /\ h.c = c /\ h.value = v /\ h.amount = n
      /\ h.result = IF r THEN ShiftByRegister(t, v, n, c) ELSE ShiftByImmediate(t, v, n, c)
  BY <1>1, <1>5
<1>7. t \in ShiftTypes /\ v \in Words /\ n \in Nat /\ c \in BOOLEAN /\ r \in BOOLEAN
  BY <1>2, <1>3, <1>4
<1> HIDE DEF v, n, t, c, r
<1>8. CASE ~r /\ n = 0 /\ t = "ROR"
  <2>1. ShiftByImmediate(t, v, n, c) = Shift(Num(c) * Top + (v \div 2), Bit(v, 0))
    BY <1>8 DEF ShiftByImmediate
  <2>2. h.result = Steps("RRX", h.value, h.c, 1)
    BY <1>6, <1>7, <1>8, <2>1, StepThroughCarry
  <2> QED BY <1>6, <1>8, <2>2 DEF ShiftTold
<1>9. CASE ~r /\ n = 0 /\ t \in {"LSR", "ASR"}
  <2>1. ShiftByImmediate(t, v, n, c) = ShiftByRegister(t, v, Width, c)
    BY <1>9 DEF ShiftByImmediate
  <2>2. h.result = Steps(h.type, h.value, h.c, Width)
    BY <1>6, <1>7, <1>9, <2>1, AllSteps, Sizes
  <2> QED BY <1>6, <1>9, <2>2 DEF ShiftTold
<1>10. CASE r \/ ~(n = 0 /\ t \in {"LSR", "ASR", "ROR"})
  <2>1. h.result = ShiftByRegister(t, v, n, c)
    BY <1>6, <1>10 DEF ShiftByImmediate
  <2>2. h.result = Steps(h.type, h.value, h.c, h.amount)
    BY <1>6, <1>7, <2>1, AllSteps
  <2> QED BY <1>6, <1>10, <2>2 DEF ShiftTold
<1> QED BY <1>7, <1>8, <1>9, <1>10

LEMMA WhatShifts ==
  ASSUME NEW i, Execute(i), seen'.shift # {}
  PROVE  i.kind = "data" /\ seen'.shift = Shifted(i)
<1>1. Quiet.shift = {} /\ BlockSeen(i).shift = {}
  BY DEF Quiet, BlockSeen
<1>2. Seen(i).shift = Shifted(i)
  BY DEF Seen, Quiet
<1>3. CASE Test(i)
  BY <1>1, <1>2, <1>3 DEF Test, Executes, Sees
<1>4. CASE Compute(i)
  BY <1>2, <1>4 DEF Compute, Executes, Sees
<1>5. ~Multiply(i) /\ ~LongMultiply(i) /\ ~ReadStatus(i) /\ ~WriteStatus(i) /\ ~WriteSaved(i)
      /\ ~LinkHigh(i) /\ ~SkipInstruction(i)
  BY <1>1 DEF Multiply, LongMultiply, ReadStatus, WriteStatus, WriteSaved, LinkHigh, SkipInstruction, Sees
<1>6. ~Load(i) /\ ~Store(i) /\ ~Swap(i) /\ ~ComputePc(i)
  BY DEF Load, Store, Swap, ComputePc, Sees, Quiet
<1>7. ~StoreMany(i) /\ ~LoadMany(i) /\ ~LoadManyAndPc(i)
  BY <1>1 DEF StoreMany, LoadMany, LoadManyAndPc, Sees, BlockSeen, Quiet
<1>8. ~Branch(i) /\ ~BranchExchange(i) /\ ~LinkLow(i) /\ ~Refuse(i) /\ ~SoftwareInterrupt(i)
  BY DEF Branch, BranchExchange, LinkLow, Refuse, SoftwareInterrupt, TakeException, Sees, Quiet
<1> QED BY <1>3, <1>4, <1>5, <1>6, <1>7, <1>8 DEF Execute

LEMMA ShiftsKept == CpuInv /\ ShiftsExact /\ [CpuNext]_cpuVars => ShiftsExact'
<1> SUFFICES ASSUME CpuInv, ShiftsExact, [CpuNext]_cpuVars PROVE ShiftsExact'
  OBVIOUS
<1>1. CASE seen'.shift = {}
  BY <1>1 DEF ShiftsExact
<1>2. ASSUME NEW i \in Repertoires[repertoire], Execute(i), seen'.shift # {}
      PROVE  ShiftsExact'
  <2>1. i.kind = "data" /\ seen'.shift = Shifted(i)
    BY <1>2, WhatShifts
  <2>2. Typed /\ Decoded(i)
    BY RepertoiresAssumption, TypesApart DEF CpuInv
  <2>3. IsSource(i.src)
    BY <2>1, <2>2 DEF Decoded
  <2>4. \A h \in Shifted(i) : ShiftTold(h)
    BY <2>2, <2>3, ShiftedTold
  <2>5. ShiftsExact' <=> \A h \in seen'.shift : ShiftTold(h)
    BY DEF ShiftsExact
  <2> QED BY <2>1, <2>4, <2>5
<1>3. CASE UNCHANGED cpuVars
  BY <1>3 DEF cpuVars, ShiftsExact
<1>4. CASE ReturnFromException \/ Reset \/ \E e : Interrupt(e) \/ Fault(e)
  <2>1. seen'.shift = {}
    BY <1>4 DEF ReturnFromException, Reset, Interrupt, Fault, TakeException, Sees, Quiet
  <2> QED BY <1>1, <2>1
<1> QED BY <1>1, <1>2, <1>3, <1>4 DEF CpuNext

-----------------------------------------------------------------------------
LEMMA SameRepertoire ==
  ASSUME CpuNext
  PROVE  repertoire' = repertoire
<1>1. ASSUME NEW i, Execute(i) PROVE repertoire' = repertoire
  BY <1>1 DEF Execute, Test, Compute, ComputePc, Multiply, LongMultiply, Load, Store, Swap, StoreMany,
              LoadMany, LoadManyAndPc, ReadStatus, WriteStatus, WriteSaved, Branch, BranchExchange,
              LinkHigh, LinkLow, SoftwareInterrupt, SkipInstruction, Refuse, TakeException, Sees
<1>2. ASSUME NEW e, Interrupt(e) \/ Fault(e) PROVE repertoire' = repertoire
  BY <1>2 DEF Interrupt, Fault, TakeException, Sees
<1>3. ReturnFromException \/ Reset => repertoire' = repertoire
  BY DEF ReturnFromException, Reset, Sees
<1> QED BY <1>1, <1>2, <1>3 DEF CpuNext

LEMMA CpuInvKept == CpuInv /\ [CpuNext]_cpuVars => CpuInv'
<1>1. ASSUME CpuInv, CpuNext PROVE CpuInv'
  <2>1. CpuTypeOK' /\ RunsWhatItFetched'
    BY <1>1, NextKeeps DEF Kept
  <2>2. EnteredOK'
    BY <1>1, StepEntered
  <2>3. repertoire' = repertoire
    BY <1>1, SameRepertoire
  <2> QED BY <1>1, <2>1, <2>2, <2>3 DEF CpuInv
<1>2. ASSUME CpuInv, UNCHANGED cpuVars PROVE CpuInv'
  BY <1>2 DEF cpuVars, CpuInv, CpuTypeOK, InstructionSize, RunsWhatItFetched, Token, EnteredOK
<1> QED BY <1>1, <1>2

LEMMA CpuInvAlways == CpuSpec => []CpuInv
  BY CpuInvInitially, CpuInvKept, PTL DEF CpuSpec

(***************************************************************************)
(* The processor never leaves the words, bytes and modes the code's types  *)
(* allow, and never runs an opcode that was prefetched elsewhere or for    *)
(* the other instruction set, whatever the programs are.                   *)
(***************************************************************************)
THEOREM FlowAlwaysExact == CpuSpec => []FlowExact
<1>1. CpuInv => FlowExact
  BY DEF CpuInv, FlowExact
<1> QED BY <1>1, CpuInvAlways, PTL

\* A handler that returns as its exception is returned from goes back to what it interrupted.
THEOREM AlwaysReturnsWhereItLeft == CpuSpec => ReturnsWhereItLeft
<1>1. CpuInv /\ CpuNext => LeadsBack
  BY ReturnLeadsBack DEF LeadsBack
<1>2. CpuInv /\ [CpuNext]_cpuVars => [LeadsBack]_cpuVars
  BY <1>1
<1> QED BY <1>2, CpuInvAlways, PTL DEF CpuSpec, ReturnsWhereItLeft

\* Every exchange of banks and every change of mode goes by the rules: a mode's own registers,
\* a handler's link register, the user bank of a transfer; a user program keeps its mode; and a
\* handler goes back to what it interrupted.
THEOREM ModesAlwaysKept == CpuSpec => ModesKept
<1>1. CpuInv /\ [CpuNext]_cpuVars => [BanksStep]_cpuVars /\ [UserStep]_cpuVars
  BY NextKeeps DEF Kept
<1> QED BY <1>1, CpuInvAlways, AlwaysReturnsWhereItLeft, PTL DEF CpuSpec, ModesKept, BanksKept, UserStaysUser

\* The flags never lie about a sum or a difference, of one word or of two: words of any width.
THEOREM ArithmeticAlwaysExact == CpuSpec => []ArithmeticExact
<1>1. CpuInit => SumInv
  BY DEF CpuInit, Quiet, SumInv
<1>2. SumInv => ArithmeticExact
  BY DEF SumInv, ArithmeticExact
<1> QED BY <1>1, <1>2, CpuInvAlways, SumInvKept, PTL DEF CpuSpec

\* Whatever the amount, the barrel shifter gives what shifting bit by bit gives.
THEOREM ShiftsAlwaysExact == CpuSpec => []ShiftsExact
<1>1. CpuInit => ShiftsExact
  BY DEF CpuInit, Quiet, ShiftsExact
<1> QED BY <1>1, CpuInvAlways, ShiftsKept, PTL DEF CpuSpec

\* Opcodes, sums with their flags, and shifts: all of the data path.
THEOREM DataPathAlwaysExact == CpuSpec => []DataPathExact
<1>1. FlowExact /\ ArithmeticExact /\ ShiftsExact => DataPathExact
  BY DEF DataPathExact
<1> QED BY <1>1, FlowAlwaysExact, ArithmeticAlwaysExact, ShiftsAlwaysExact, PTL

-----------------------------------------------------------------------------
\* n - c ticks are left of n; after q of them, counted modulo n, no fewer.
LEMMA WrappedTicks ==
  ASSUME NEW n \in Nat \ {0}, NEW c \in Nat, c < n, NEW q \in Nat,
         NEW k \in Nat \ {0}, NEW s \in Nat
  PROVE  s + q * k + (n - ((c + q) % n)) * k >= s + (n - c) * k
<1> DEFINE m == (c + q) % n
<1>1. m \in Nat /\ m < n /\ (c + q < n => m = c + q)
  <2>1. c + q \in Nat
    OBVIOUS
  <2>2. m \in 0 .. (n - 1) /\ (c + q < n => m = c + q)
    BY <2>1, Modulo
  <2> HIDE DEF m
  <2> QED BY <2>2
<1>2. n - c \in Nat /\ n - m \in Nat
  BY <1>1
<1>3. (n - c) * k \in Nat /\ (n - m) * k \in Nat /\ q * k \in Nat
  BY <1>2, ProductNatural
<1> HIDE DEF m
<1>4. CASE c + q < n
  <2>1. n - m = (n - c) - q
    BY <1>1, <1>4
  <2>2. (n - m) * k = (n - c) * k - q * k
    BY <1>2, <2>1, DifferenceTimes
  <2> QED BY <1>3, <2>2 DEF m
<1>5. CASE n - c <= q
  <2>1. (n - c) * k <= q * k
    BY <1>2, <1>5, Monotone
  <2> QED BY <1>3, <2>1 DEF m
<1> QED BY <1>4, <1>5

-----------------------------------------------------------------------------
(***************************************************************************)
(* The operators of Timers.                                                *)
(***************************************************************************)
TimerSets == [TimerIds -> TimerRecords]

\* What a record of a timer is made of.
LEMMA TimerFields ==
  ASSUME NEW t \in TimerRecords
  PROVE  /\ t.reload \in Nat /\ t.reload < Overflow /\ t.counter \in Nat /\ t.counter < Overflow
         /\ t.start_time \in Nat /\ t.control.tick \in Nat \ {0}
         /\ t.control \in Controls /\ t.running \in BOOLEAN
<1>1. /\ t.reload \in Counters /\ t.control \in Controls /\ t.counter \in Counters
      /\ t.start_time \in Nat /\ t.running \in BOOLEAN
  BY DEF TimerRecords
<1>2. t.control.tick \in TickSizes
  BY <1>1 DEF Controls
<1>3. t.reload \in Nat /\ t.reload < Overflow /\ t.counter \in Nat /\ t.counter < Overflow
  BY <1>1, TimersAssumption DEF Counters
<1>4. t.control.tick \in Nat \ {0}
  BY <1>2, TimersAssumption
<1> QED BY <1>1, <1>3, <1>4

\* An overflow is ahead of the time the counter was last set.
LEMMA OverflowAhead ==
  ASSUME NEW t \in TimerRecords
  PROVE  OverflowTime(t) \in Nat /\ OverflowTime(t) > t.start_time
<1>1. Overflow - t.counter \in Nat /\ Overflow - t.counter > 0
  BY TimerFields, TimersAssumption
<1>2. (Overflow - t.counter) * t.control.tick \in Nat
      /\ (Overflow - t.counter) * t.control.tick > 0
  BY <1>1, TimerFields, ProductNatural
<1> QED BY <1>2, TimerFields DEF OverflowTime

\* Only whole ticks are counted, and they do not exceed the time elapsed.
LEMMA WholeTicks ==
  ASSUME NEW ts \in TimerSets, NEW i \in TimerIds, NEW time \in Nat
  PROVE  /\ Ticks(ts, i, time) \in Nat
         /\ Ticks(ts, i, time) * ts[i].control.tick \in Nat
         /\ time > ts[i].start_time =>
              Ticks(ts, i, time) * ts[i].control.tick
                <= time - ts[i].start_time
<1> DEFINE t == ts[i]
<1>1. t \in TimerRecords
  BY DEF TimerSets
<1>2. t.start_time \in Nat /\ t.control.tick \in Nat \ {0}
  BY <1>1, TimerFields
<1>3. CASE FreeRunning(ts, i) /\ time > t.start_time
  <2>1. time - t.start_time \in Nat
    BY <1>2, <1>3
  <2>2. Ticks(ts, i, time) = (time - t.start_time) \div t.control.tick
    BY <1>3 DEF Ticks
  <2> QED BY <1>2, <2>1, <2>2, Division, ProductNatural
<1>4. CASE ~(FreeRunning(ts, i) /\ time > t.start_time)
  <2>1. Ticks(ts, i, time) = 0
    BY <1>4 DEF Ticks
  <2> QED BY <1>2, <2>1
<1> QED BY <1>3, <1>4

LEMMA CounterInRange ==
  ASSUME NEW ts \in TimerSets, NEW i \in TimerIds, NEW time \in Nat
  PROVE  Counter(ts, i, time) \in Counters
<1>1. ts[i].counter + Ticks(ts, i, time) \in Nat
  BY WholeTicks, TimerFields DEF TimerSets
<1> QED BY <1>1, Modulo, TimersAssumption DEF Counter, Counters

LEMMA SynchronizedType ==
  ASSUME NEW ts \in TimerSets, NEW i \in TimerIds, NEW time \in Nat
  PROVE  /\ Synchronized(ts, i, time) \in TimerSets
         /\ \A j \in TimerIds \ {i} : Synchronized(ts, i, time)[j] = ts[j]
         /\ Synchronized(ts, i, time)[i].counter = Counter(ts, i, time)
         /\ Synchronized(ts, i, time)[i].start_time =
              ts[i].start_time + Ticks(ts, i, time) * ts[i].control.tick
         /\ Synchronized(ts, i, time)[i].control = ts[i].control
         /\ Synchronized(ts, i, time)[i].running = ts[i].running
         /\ Synchronized(ts, i, time)[i].reload = ts[i].reload
<1> DEFINE c == Counter(ts, i, time)
           s == ts[i].start_time + Ticks(ts, i, time) * ts[i].control.tick
           u == [ts[i] EXCEPT !.counter = c, !.start_time = s]
<1>1. ts[i] \in TimerRecords
  BY DEF TimerSets
<1>2. c \in Counters /\ s \in Nat
  BY <1>1, WholeTicks, CounterInRange, TimerFields
<1>3. Synchronized(ts, i, time) = [ts EXCEPT ![i] = u]
  BY DEF Synchronized, TimerSets
<1> HIDE DEF c, s
<1>4. u \in TimerRecords
  BY <1>1, <1>2 DEF TimerRecords
<1>5. u.counter = c /\ u.start_time = s /\ u.control = ts[i].control
      /\ u.running = ts[i].running /\ u.reload = ts[i].reload
  BY <1>1 DEF TimerRecords
<1>6. /\ [ts EXCEPT ![i] = u] \in TimerSets
      /\ \A j \in TimerIds \ {i} : [ts EXCEPT ![i] = u][j] = ts[j]
      /\ [ts EXCEPT ![i] = u][i] = u
  BY <1>4 DEF TimerSets
<1> HIDE DEF u
<1> QED BY <1>3, <1>5, <1>6 DEF c, s

\* Synchronizing never brings an overflow nearer.
LEMMA SynchronizedKeepsDeadline ==
  ASSUME NEW ts \in TimerSets, NEW i \in TimerIds, NEW time \in Nat
  PROVE  OverflowTime(Synchronized(ts, i, time)[i]) >= OverflowTime(ts[i])
<1> DEFINE t == ts[i]
           u == Synchronized(ts, i, time)[i]
           q == Ticks(ts, i, time)
<1>1. t \in TimerRecords
  BY DEF TimerSets
<1>3. /\ u.counter = (t.counter + q) % Overflow
      /\ u.start_time = t.start_time + q * t.control.tick
      /\ u.control = t.control
  BY SynchronizedType DEF Counter
<1>4. /\ OverflowTime(t) = t.start_time + (Overflow - t.counter) * t.control.tick
      /\ OverflowTime(u) = t.start_time + q * t.control.tick
                           + (Overflow - ((t.counter + q) % Overflow)) * t.control.tick
  BY <1>3 DEF OverflowTime
<1>5. /\ q \in Nat /\ t.control.tick \in Nat \ {0} /\ Overflow \in Nat \ {0}
      /\ t.counter \in Nat /\ t.counter < Overflow /\ t.start_time \in Nat
  BY <1>1, WholeTicks, TimerFields, TimersAssumption
<1> DEFINE c == t.counter
           k == t.control.tick
           s == t.start_time
           left == (Overflow - ((c + q) % Overflow)) * k
           right == (Overflow - c) * k
           qk == q * k
<1>6. /\ q \in Nat /\ k \in Nat \ {0} /\ Overflow \in Nat \ {0}
      /\ c \in Nat /\ c < Overflow /\ s \in Nat
  BY <1>5
<1>7. OverflowTime(t) = s + right /\ OverflowTime(u) = s + qk + left
  BY <1>4
<1> HIDE DEF t, u, q, c, k, s
<1>8. s + qk + left >= s + right
  BY ONLY <1>6, WrappedTicks
<1> HIDE DEF left, right, qk
<1> QED BY <1>7, <1>8 DEF t, u

\* A write of the control leaves timers, changes one of them, and gives it an
\* overflow after the write unless it goes on counting as before.
LEMMA ControlWritten ==
  ASSUME NEW ts \in TimerSets, NEW i \in TimerIds, NEW c \in Controls, NEW time \in Nat
  PROVE  LET w == WithControl(ts, i, c, time)
         IN  /\ w \in TimerSets
             /\ \A j \in TimerIds \ {i} : w[j] = ts[j]
             /\ FreeRunning(w, i) => c.start
             /\ FreeRunning(w, i) =>
                  \/ OverflowTime(w[i]) > time
                  \/ /\ FreeRunning(ts, i)
                     /\ c.tick = ts[i].control.tick =>
                          OverflowTime(w[i]) >= OverflowTime(ts[i])
<1> DEFINE synced == Synchronized(ts, i, time)
           set == [synced EXCEPT ![i].control = c]
           started == [set EXCEPT ![i].counter = ts[i].reload,
                                  ![i].running = TRUE,
                                  ![i].start_time = time]
           stopped == [set EXCEPT ![i].running = FALSE]
           counting == [set EXCEPT ![i].start_time = time]
           w == WithControl(ts, i, c, time)
           Same(f) == f \in TimerSets /\ \A j \in TimerIds \ {i} : f[j] = ts[j]
<1>1. Same(synced)
  BY SynchronizedType
<1> HIDE DEF synced
<1>2. Same(set) /\ set[i] = [synced[i] EXCEPT !.control = c]
  BY <1>1 DEF TimerSets, TimerRecords
<1>3. set[i].control = c /\ set[i].counter = synced[i].counter
      /\ set[i].start_time = synced[i].start_time
      /\ set[i].running = synced[i].running
  BY <1>1, <1>2 DEF TimerSets, TimerRecords
<1> HIDE DEF set
<1>4. /\ Same(started) /\ started[i].start_time = time
      /\ Same(stopped) /\ ~stopped[i].running
      /\ Same(counting) /\ counting[i].start_time = time
  <2>1. ts[i].reload \in Counters
    BY DEF TimerSets, TimerRecords
  <2> DEFINE a == [set[i] EXCEPT !.counter = ts[i].reload, !.running = TRUE]
             r == [a EXCEPT !.start_time = time]
             d == [set[i] EXCEPT !.start_time = time]
  <2>a. set \in TimerSets /\ set[i] \in TimerRecords
    BY <1>2 DEF TimerSets
  <2>6. started = [set EXCEPT ![i] = r]
    BY <2>a DEF TimerSets
  <2>b. a \in TimerRecords
    BY <2>1, <2>a DEF TimerRecords
  <2> HIDE DEF a
  <2>5. r \in TimerRecords /\ r.start_time = time
    BY <2>b DEF TimerRecords
  <2>7. d \in TimerRecords /\ d.start_time = time /\ counting = [set EXCEPT ![i] = d]
    BY <2>a DEF TimerSets, TimerRecords
  <2> HIDE DEF r, d
  <2>2. Same(started) /\ started[i].start_time = time
    BY <1>2, <2>5, <2>6 DEF TimerSets
  <2>3. Same(stopped) /\ ~stopped[i].running
    BY <1>2 DEF TimerSets, TimerRecords
  <2>4. Same(counting) /\ counting[i].start_time = time
    BY <1>2, <2>7 DEF TimerSets
  <2> QED BY <2>2, <2>3, <2>4
<1> HIDE DEF started, stopped, counting
<1>5. CASE c.start /\ ~ts[i].running
  <2>1. w = started
    BY <1>5 DEF WithControl, started, set, synced
  <2>2. OverflowTime(w[i]) > time
    BY <1>4, <2>1, OverflowAhead DEF TimerSets
  <2> QED BY <1>4, <1>5, <2>1, <2>2
<1>6. CASE ~c.start
  <2>1. w = stopped
    BY <1>6 DEF WithControl, stopped, set, synced
  <2> QED BY <1>4, <2>1 DEF FreeRunning
<1>7. CASE c.start /\ ts[i].running /\ CountsUp(ts, i) /\ ~CountsUp(set, i)
  <2>1. w = counting
    BY <1>7 DEF WithControl, counting, set, synced
  <2>2. OverflowTime(w[i]) > time
    BY <1>4, <2>1, OverflowAhead DEF TimerSets
  <2> QED BY <1>4, <1>7, <2>1, <2>2
<1>8. CASE c.start /\ ts[i].running /\ ~(CountsUp(ts, i) /\ ~CountsUp(set, i))
  <2>1. w = set
    BY <1>8 DEF WithControl, set, synced
  <2>2. ASSUME FreeRunning(w, i), c.tick = ts[i].control.tick
        PROVE  OverflowTime(w[i]) >= OverflowTime(ts[i])
    <3>1. synced[i].control = ts[i].control
      BY SynchronizedType DEF synced
    <3>2. OverflowTime(set[i]) = OverflowTime(synced[i])
      BY <1>3, <2>2, <3>1 DEF OverflowTime
    <3> QED BY <2>1, <3>2, SynchronizedKeepsDeadline DEF synced
  <2>3. FreeRunning(w, i) => FreeRunning(ts, i)
    BY <1>8, <2>1 DEF FreeRunning
  <2> QED BY <1>2, <1>8, <2>1, <2>2, <2>3
<1> QED BY <1>5, <1>6, <1>7, <1>8

\* A timer that counts by itself never overflows with the one before it.
LEMMA CascadedCountUp ==
  ASSUME NEW ts \in TimerSets, NEW i \in TimerIds, FreeRunning(ts, i)
  PROVE  /\ i \in OverflowsWith(ts, i)
         /\ \A j \in OverflowsWith(ts, i) \ {i} : Cascades(ts, j)
<1>1. i \in OverflowsWith(ts, i)
  BY DEF OverflowsWith, TimerIds
<1>2. ASSUME NEW j \in OverflowsWith(ts, i), j # i PROVE Cascades(ts, j)
  BY <1>2 DEF OverflowsWith, TimerIds
<1> QED BY <1>1, <1>2

\* An overflow and its cascade leave timers: the timer ticked last was not at
\* its maximum.
LEMMA OverflowedType ==
  ASSUME NEW ts \in TimerSets, NEW i \in TimerIds, NEW time \in Nat
  PROVE  LET o == Overflowed(ts, i, time)
         IN  /\ o \in TimerSets
             /\ \A j \in TimerIds : /\ o[j].control = ts[j].control
                                   /\ o[j].running = ts[j].running
             /\ \A j \in OverflowsWith(ts, i) : o[j].start_time = time
             /\ \A j \in TimerIds : ~Cascades(ts, j) /\ j \notin OverflowsWith(ts, i)
                                   => o[j] = ts[j]
<1> DEFINE o == Overflowed(ts, i, time)
           run == OverflowsWith(ts, i)
<1>0. run \subseteq TimerIds
  BY DEF OverflowsWith
<1>1. ASSUME NEW j \in TimerIds
      PROVE  /\ o[j] \in TimerRecords
             /\ o[j].control = ts[j].control /\ o[j].running = ts[j].running
             /\ j \in run => o[j].start_time = time
             /\ ~Cascades(ts, j) /\ j \notin run => o[j] = ts[j]
  <2>1. ts[j] \in TimerRecords
    BY DEF TimerSets
  <2>2. CASE j \in run
    <3>1. o[j] = [ts[j] EXCEPT !.counter = ts[j].reload, !.start_time = time]
      BY <2>2 DEF Overflowed
    <3> QED BY <2>1, <2>2, <3>1 DEF TimerRecords
  <2>3. CASE j \notin run /\ (j - 1) \in run /\ Cascades(ts, j)
    <3>1. o[j] = [ts[j] EXCEPT !.counter = ts[j].counter + 1]
      BY <2>3 DEF Overflowed
    <3>2. ts[j].counter # Overflow - 1
      <4>1. SUFFICES ASSUME ts[j].counter = Overflow - 1 PROVE j \in run
        BY <2>3
      <4>2. j - 1 >= i /\ \A k \in TimerIds : i < k /\ k <= j - 1 =>
                            Cascades(ts, k) /\ ts[k].counter = Overflow - 1
        BY <2>3 DEF OverflowsWith
      <4>3. \A k \in TimerIds : i < k /\ k <= j => k <= j - 1 \/ k = j
        BY DEF TimerIds
      <4>4. j >= i
        BY <4>2 DEF TimerIds
      <4> QED BY <2>3, <4>1, <4>2, <4>3, <4>4 DEF OverflowsWith
    <3>3. ts[j].counter + 1 \in Counters
      BY <2>1, <3>2, TimerFields, TimersAssumption DEF Counters
    <3> QED BY <2>1, <2>3, <3>1, <3>3 DEF TimerRecords
  <2>4. CASE j \notin run /\ ~((j - 1) \in run /\ Cascades(ts, j))
    <3>1. o[j] = ts[j]
      BY <2>4 DEF Overflowed
    <3> QED BY <2>1, <2>4, <3>1
  <2> QED BY <2>2, <2>3, <2>4
<1>2. o \in TimerSets
  BY <1>1 DEF Overflowed, TimerSets
<1> QED BY <1>0, <1>1, <1>2

Deadline(ts, i) == IF FreeRunning(ts, i) THEN OverflowTime(ts[i]) ELSE Unscheduled

LEMMA ArmedDeadlines ==
  ASSUME NEW ts \in TimerSets, NEW i \in TimerIds, NEW s \in Schedulers
  PROVE  /\ Fresh(Armed(ts, i, s))
         /\ Armed(ts, i, s).now = s.now
         /\ Armed(ts, i, s).deadlines = [s.deadlines EXCEPT ![TimerEvent(i)] = Deadline(ts, i)]
<1>1. TimerEvent(i) \in Events
  BY EventNumbers
<1>2. CASE FreeRunning(ts, i)
  <2>1. ts[i] \in TimerRecords
    BY DEF TimerSets
  <2>2. OverflowTime(ts[i]) \in Nat
    BY <2>1, OverflowAhead
  <2> QED BY <1>1, <1>2, <2>2, ScheduledFresh DEF Armed, Deadline
<1>3. CASE ~FreeRunning(ts, i)
  BY <1>1, <1>3, CancelledFresh DEF Armed, Deadline
<1> QED BY <1>2, <1>3

LEMMA RearmedDeadlines ==
  ASSUME NEW ts \in TimerSets, NEW i \in TimerIds, NEW s \in Schedulers, NEW time \in Nat,
         NEW r, r = Rearmed(ts, i, time, s)
  PROVE  /\ Fresh(r)
         /\ r.now = s.now
         /\ \A e \in Events :
              r.deadlines[e] =
                IF e = TimerEvent(i) THEN OverflowTime(Overflowed(ts, i, time)[i])
                ELSE IF \E j \in OverflowsWith(ts, i) \ {i} : e = TimerEvent(j)
                THEN Unscheduled
                ELSE s.deadlines[e]
<1> DEFINE d == [e \in Events |->
                   IF e = TimerEvent(i) THEN OverflowTime(Overflowed(ts, i, time)[i])
                   ELSE IF \E j \in OverflowsWith(ts, i) \ {i} : e = TimerEvent(j)
                   THEN Unscheduled
                   ELSE s.deadlines[e]]
<1>1. OverflowTime(Overflowed(ts, i, time)[i]) \in Nat
  BY OverflowedType, OverflowAhead DEF TimerSets
<1>2. d \in Deadlines
  BY <1>1 DEF Deadlines, Schedulers
<1>3. r = Refreshed([s EXCEPT !.deadlines = d])
  BY DEF Rearmed
<1> QED BY <1>2, <1>3, RefreshedFresh

-----------------------------------------------------------------------------
(***************************************************************************)
(* The invariant of the timers and the scheduler.                          *)
(***************************************************************************)
Inv == Fresh(sched) /\ TypeOK /\ ArmedExactly

LEMMA InitInv == Init => Inv
<1> SUFFICES ASSUME Init PROVE Inv
  OBVIOUS
<1>1. IdleScheduler \in Schedulers /\ HBlankStart \in Events /\ LineCycles \in Nat
  BY IdleFresh, EventNumbers, UnitAssumption DEF Fresh
<1>2. /\ Fresh(sched)
      /\ sched.deadlines = [IdleScheduler.deadlines EXCEPT ![HBlankStart] = LineCycles]
  BY <1>1, ScheduledFresh DEF Init
<1>3. FreshTimer \in TimerRecords
  BY TimersAssumption DEF FreshTimer, TimerRecords, Controls, Counters
<1>4. TypeOK
  BY <1>2, <1>3 DEF Init, TypeOK, Fresh
<1>5. \A i \in TimerIds : ~FreeRunning(timers, i)
  BY DEF Init, FreeRunning, FreshTimer
<1>6. \A i \in TimerIds : sched.deadlines[TimerEvent(i)] = Unscheduled
  BY <1>2, EventNumbers DEF IdleScheduler
<1> QED BY <1>2, <1>4, <1>5, <1>6 DEF Inv, ArmedExactly

\* A control written by the CPU or by the DMA, with the scheduler s that the
\* write finds.
LEMMA ControlKeepsArmed ==
  ASSUME Inv, NEW i \in TimerIds, NEW c \in Controls, NEW s \in Schedulers,
         \A j \in TimerIds \ {i} : s.deadlines[TimerEvent(j)] = sched.deadlines[TimerEvent(j)]
  PROVE  LET w == WithControl(timers, i, c, sched.now)
         IN  /\ w \in TimerSets
             /\ \A j \in TimerIds :
                  Armed(w, i, s).deadlines[TimerEvent(j)] = Deadline(w, j)
<1> DEFINE w == WithControl(timers, i, c, sched.now)
<1>1. timers \in TimerSets /\ sched.now \in Nat
  BY DEF Inv, TypeOK, TimerSets, Schedulers
<1>2. w \in TimerSets /\ \A j \in TimerIds \ {i} : w[j] = timers[j]
  BY <1>1, ControlWritten
<1> HIDE DEF w
<1>3. Armed(w, i, s).deadlines = [s.deadlines EXCEPT ![TimerEvent(i)] = Deadline(w, i)]
  BY <1>2, ArmedDeadlines
<1>4. s.deadlines \in [Events -> Nat \cup {Unscheduled}]
  BY DEF Schedulers, Deadlines
<1>5. Armed(w, i, s).deadlines[TimerEvent(i)] = Deadline(w, i)
  BY <1>3, <1>4, EventNumbers
<1>6. ASSUME NEW j \in TimerIds, j # i
      PROVE  Armed(w, i, s).deadlines[TimerEvent(j)] = Deadline(w, j)
  <2>1. Armed(w, i, s).deadlines[TimerEvent(j)] = sched.deadlines[TimerEvent(j)]
    BY <1>3, <1>4, <1>6, EventNumbers
  <2>2. Deadline(w, j) = Deadline(timers, j)
    BY <1>2, <1>6 DEF Deadline, FreeRunning, CountsUp
  <2> QED BY <2>1, <2>2 DEF Inv, ArmedExactly, Deadline
<1> QED BY <1>2, <1>5, <1>6 DEF w

\* The event that is dispatched.
LEMMA DispatchedEvent ==
  ASSUME Inv, NEW e \in Events, Dispatching(e)
  PROVE  /\ sched \in Schedulers /\ sched.now \in Nat
         /\ sched.deadlines[e] \in Nat /\ sched.deadlines[e] <= sched.now
         /\ last_fired' = sched.deadlines[e]
         /\ \A f \in DueEvents(sched) : sched.deadlines[e] <= sched.deadlines[f]
<1>1. sched \in Schedulers /\ sched.now \in Nat /\ sched.deadlines \in Deadlines
  BY DEF Inv, Fresh, Schedulers
<1>2. e \in DueEvents(sched) /\ \A f \in DueEvents(sched) : Before(sched, e, f)
  BY <1>1, FirstDueIsFirst DEF Dispatching, HasDue
<1>3. \A f \in DueEvents(sched) : sched.deadlines[f] \in Nat /\ sched.deadlines[f] <= sched.now
  BY <1>1 DEF DueEvents, IsScheduled, Deadlines
<1> QED BY <1>1, <1>2, <1>3 DEF Before, Dispatching

\* What an overflow leaves in the scheduler.
LEMMA OverflowDeadlines ==
  ASSUME Inv, NEW i \in TimerIds, TimerOverflow(i)
  PROVE  /\ FreeRunning(timers, i)
         /\ Fresh(sched') /\ sched'.now = sched.now
         /\ timers' = Overflowed(timers, i, sched.deadlines[TimerEvent(i)])
         /\ timers' \in TimerSets
         /\ \A e \in Events :
              sched'.deadlines[e] =
                IF e = TimerEvent(i) THEN OverflowTime(timers'[i])
                ELSE IF \E j \in OverflowsWith(timers, i) \ {i} : e = TimerEvent(j)
                THEN Unscheduled
                ELSE sched.deadlines[e]
<1> DEFINE t == sched.deadlines[TimerEvent(i)]
           popped == Popped(sched, TimerEvent(i))
<1>1. TimerEvent(i) \in Events /\ Dispatching(TimerEvent(i))
  BY EventNumbers DEF TimerOverflow
<1>2. t \in Nat /\ sched \in Schedulers
  BY <1>1, DispatchedEvent
<1>3. FreeRunning(timers, i)
  BY <1>2 DEF Inv, ArmedExactly, Unscheduled
<1>4. timers \in TimerSets
  BY DEF Inv, TypeOK, TimerSets
<1>5. /\ popped \in Schedulers /\ popped.now = sched.now
      /\ popped.deadlines = [sched.deadlines EXCEPT ![TimerEvent(i)] = Unscheduled]
  BY <1>1, <1>2, CancelledFresh DEF Popped, Fresh
<1>6. timers' = Overflowed(timers, i, t) /\ sched' = Rearmed(timers, i, t, popped)
  BY <1>3 DEF TimerOverflow, TakesOverflow
<1>7. timers' \in TimerSets
  BY <1>2, <1>4, <1>6, OverflowedType
<1> HIDE DEF t, popped
<1>8. /\ Fresh(sched') /\ sched'.now = popped.now
      /\ \A e \in Events :
           sched'.deadlines[e] =
             IF e = TimerEvent(i) THEN OverflowTime(Overflowed(timers, i, t)[i])
             ELSE IF \E j \in OverflowsWith(timers, i) \ {i} : e = TimerEvent(j)
             THEN Unscheduled
             ELSE popped.deadlines[e]
  <2>1. sched' = Rearmed(timers, i, t, popped) /\ popped \in Schedulers /\ t \in Nat
    BY <1>2, <1>5, <1>6
  <2> QED BY <1>4, <2>1, RearmedDeadlines
<1>9. \A e \in Events : e # TimerEvent(i) => popped.deadlines[e] = sched.deadlines[e]
  BY <1>2, <1>5 DEF Schedulers, Deadlines
<1> QED BY <1>3, <1>5, <1>6, <1>7, <1>8, <1>9 DEF t

LEMMA OverflowKeepsArmed ==
  ASSUME Inv, NEW i \in TimerIds, TimerOverflow(i)
  PROVE  ArmedExactly'
<1> DEFINE run == OverflowsWith(timers, i)
<1>1. timers \in TimerSets /\ FreeRunning(timers, i)
  BY OverflowDeadlines DEF Inv, TypeOK, TimerSets
<1>2. sched.deadlines[TimerEvent(i)] \in Nat
  BY EventNumbers, DispatchedEvent DEF TimerOverflow
<1>3. \A j \in TimerIds : FreeRunning(timers', j) <=> FreeRunning(timers, j)
  BY <1>1, <1>2, OverflowDeadlines, OverflowedType, SMTT(30) DEF FreeRunning, CountsUp
<1>4. ASSUME NEW j \in TimerIds
      PROVE  sched'.deadlines[TimerEvent(j)] =
               IF FreeRunning(timers', j) THEN OverflowTime(timers'[j]) ELSE Unscheduled
  <2>0. TimerEvent(j) \in Events /\ \A k \in TimerIds : TimerEvent(j) = TimerEvent(k) => j = k
    BY EventNumbers
  <2>1. CASE j = i
    BY <1>1, <1>3, <2>0, <2>1, OverflowDeadlines
  <2>2. CASE j # i /\ j \in run
    <3>1. Cascades(timers, j)
      BY <1>1, <2>2, CascadedCountUp
    <3>2. ~FreeRunning(timers', j)
      BY <1>3, <3>1 DEF Cascades, FreeRunning
    <3>3. TimerEvent(j) # TimerEvent(i)
      BY <2>0, <2>2
    <3> QED BY <2>0, <2>2, <3>2, <3>3, OverflowDeadlines
  <2>3. CASE j # i /\ j \notin run
    <3>1. TimerEvent(j) # TimerEvent(i) /\ ~\E k \in run \ {i} : TimerEvent(j) = TimerEvent(k)
      BY <2>0, <2>3 DEF OverflowsWith
    <3>2. sched'.deadlines[TimerEvent(j)] = sched.deadlines[TimerEvent(j)]
      BY <2>0, <3>1, OverflowDeadlines
    <3>3. sched.deadlines[TimerEvent(j)] =
            IF FreeRunning(timers, j) THEN OverflowTime(timers[j]) ELSE Unscheduled
      BY DEF Inv, ArmedExactly
    <3>4. FreeRunning(timers, j) => timers'[j] = timers[j]
      BY <1>1, <1>2, <2>3, OverflowDeadlines, OverflowedType DEF FreeRunning, Cascades
    <3> QED BY <1>3, <3>2, <3>3, <3>4
  <2> QED BY <2>1, <2>2, <2>3
<1> QED BY <1>4 DEF ArmedExactly

LEMMA NextInv == Inv /\ [Next]_vars => Inv'
<1> SUFFICES ASSUME Inv, [Next]_vars PROVE Inv'
  OBVIOUS
<1> USE UnitAssumption
<1>0. /\ sched \in Schedulers /\ Fresh(sched) /\ sched.now \in Nat
      /\ timers \in TimerSets /\ stall \in Nat
  BY DEF Inv, TypeOK, TimerSets, Schedulers
<1>1. ASSUME NEW i \in TimerIds, NEW v \in Reloads, WriteReload(i, v) PROVE Inv'
  <2>1. /\ timers' \in TimerSets
        /\ \A j \in TimerIds : /\ timers'[j].control = timers[j].control
                              /\ timers'[j].running = timers[j].running
                              /\ timers'[j].counter = timers[j].counter
                              /\ timers'[j].start_time = timers[j].start_time
    <3>1. v \in Counters /\ timers[i] \in TimerRecords
      BY <1>0 DEF TimerSets
    <3> DEFINE t == [timers[i] EXCEPT !.reload = v]
    <3>2. t \in TimerRecords /\ t.control = timers[i].control /\ t.running = timers[i].running
          /\ t.counter = timers[i].counter /\ t.start_time = timers[i].start_time
      BY <3>1 DEF TimerRecords
    <3>3. timers' = [timers EXCEPT ![i] = t]
      BY <1>0, <1>1 DEF WriteReload, WithReload, TimerSets
    <3> HIDE DEF t
    <3> QED BY <1>0, <3>2, <3>3 DEF TimerSets
  <2>2. ArmedExactly'
    BY <1>1, <2>1 DEF WriteReload, Inv, ArmedExactly, FreeRunning, CountsUp, OverflowTime
  <2> QED BY <1>1, <2>1, <2>2 DEF WriteReload, Inv, TypeOK, TimerSets
<1>2. ASSUME NEW i \in TimerIds, NEW c \in Programs, WriteControl(i, c) PROVE Inv'
  <2>1. timers' = WithControl(timers, i, c, sched.now) /\ sched' = Armed(timers', i, sched)
    BY <1>2 DEF WriteControl
  <2>2. /\ timers' \in TimerSets
        /\ \A j \in TimerIds : sched'.deadlines[TimerEvent(j)] = Deadline(timers', j)
    BY <1>0, <2>1, ControlKeepsArmed
  <2>3. Fresh(sched')
    BY <1>0, <2>1, <2>2, ArmedDeadlines
  <2> QED BY <1>2, <2>2, <2>3
          DEF WriteControl, Inv, TypeOK, TimerSets, Fresh, ArmedExactly, Deadline
<1>3. ASSUME NEW i \in TimerIds, Acknowledge(i) PROVE Inv'
  BY <1>3 DEF Acknowledge, Inv, TypeOK, ArmedExactly
<1>4. ASSUME NEW c \in Cycles, Instruction(c) PROVE Inv'
  <2>1. Fresh(sched') /\ sched'.deadlines = sched.deadlines
    BY <1>0, <1>4, AdvancedFresh DEF Instruction, Advanced, Schedulers
  <2> QED BY <1>4, <2>1 DEF Instruction, Inv, TypeOK, Fresh, ArmedExactly
<1>5. ASSUME NEW i \in TimerIds, TimerOverflow(i) PROVE Inv'
  <2>1. last_fired' \in Nat
    BY <1>5, EventNumbers, DispatchedEvent DEF TimerOverflow
  <2>2. iflag' \subseteq TimerIds
    BY <1>5, OverflowDeadlines
       DEF TimerOverflow, TakesOverflow, Inv, TypeOK, OverflowRequests, OverflowsWith
  <2>3. stall' \in Nat
    <3>1. \A s, r \in Nat : s + r * DmaCycles \in Nat
      BY UnitAssumption
    <3>2. \E refills \in Nat : stall' = stall + refills * DmaCycles \/ stall' = stall
      BY <1>5, UnitAssumption DEF TimerOverflow, Refills
    <3> QED BY <1>0, <3>1, <3>2
  <2> QED BY <1>5, <2>1, <2>2, <2>3, OverflowDeadlines, OverflowKeepsArmed
          DEF TimerOverflow, Inv, TypeOK, TimerSets, Fresh
<1>6. ASSUME HBlank PROVE Inv'
  <2>1. HBlankStart \in Events /\ Dispatching(HBlankStart)
    BY <1>6, EventNumbers DEF HBlank
  <2>2. sched.deadlines[HBlankStart] + LineCycles \in Nat /\ last_fired' \in Nat
    BY <2>1, DispatchedEvent
  <2>3. /\ Popped(sched, HBlankStart) \in Schedulers
        /\ Popped(sched, HBlankStart).deadlines =
             [sched.deadlines EXCEPT ![HBlankStart] = Unscheduled]
    BY <1>0, <2>1, CancelledFresh DEF Popped, Fresh
  <2> DEFINE popped == Popped(sched, HBlankStart)
             next == sched.deadlines[HBlankStart] + LineCycles
  <2>5. sched' = ScheduledAt(popped, HBlankStart, next)
    BY <1>6 DEF HBlank
  <2>6. Fresh(sched') /\ sched'.deadlines = [popped.deadlines EXCEPT ![HBlankStart] = next]
    BY <2>1, <2>2, <2>3, <2>5, ScheduledFresh
  <2>4. /\ Fresh(sched')
        /\ \A i \in TimerIds : sched'.deadlines[TimerEvent(i)] = sched.deadlines[TimerEvent(i)]
    BY <1>0, <2>3, <2>6, EventNumbers DEF Schedulers, Deadlines
  <2> QED BY <1>6, <2>2, <2>4 DEF HBlank, Inv, TypeOK, Fresh, ArmedExactly
<1>7. ASSUME NEW i \in TimerIds, NEW c \in Programs, HBlankDma(i, c) PROVE Inv'
  <2> DEFINE popped == Popped(sched, HBlankStart)
             armed == Armed(timers', i, popped)
  <2>1. HBlankStart \in Events /\ Dispatching(HBlankStart)
    BY <1>7, EventNumbers DEF HBlankDma
  <2>2. sched.deadlines[HBlankStart] + LineCycles \in Nat /\ last_fired' \in Nat
    BY <2>1, DispatchedEvent
  <2>3. popped \in Schedulers
        /\ popped.deadlines = [sched.deadlines EXCEPT ![HBlankStart] = Unscheduled]
    BY <1>0, <2>1, CancelledFresh DEF Popped, Fresh
  <2>4. \A j \in TimerIds : popped.deadlines[TimerEvent(j)] = sched.deadlines[TimerEvent(j)]
    BY <1>0, <2>1, <2>3, EventNumbers DEF Schedulers, Deadlines
  <2> HIDE DEF popped
  <2>5. timers' = WithControl(timers, i, c, sched.now)
    BY <1>7 DEF HBlankDma
  <2>6. /\ timers' \in TimerSets
        /\ \A j \in TimerIds : armed.deadlines[TimerEvent(j)] = Deadline(timers', j)
    <3> DEFINE w == WithControl(timers, i, c, sched.now)
    <3>1. /\ w \in TimerSets
          /\ \A j \in TimerIds : Armed(w, i, popped).deadlines[TimerEvent(j)] = Deadline(w, j)
      <4>1. c \in Controls /\ \A j \in TimerIds \ {i} :
              popped.deadlines[TimerEvent(j)] = sched.deadlines[TimerEvent(j)]
        BY <2>4
      <4> QED BY ONLY Inv, <2>3, <4>1, i \in TimerIds, ControlKeepsArmed
    <3> HIDE DEF w
    <3>2. timers' = w
      BY <2>5 DEF w
    <3> QED BY <3>1, <3>2
  <2>7. armed \in Schedulers
    BY <2>3, <2>6, ArmedDeadlines DEF Fresh
  <2>8. sched' = ScheduledAt(armed, HBlankStart, sched.deadlines[HBlankStart] + LineCycles)
    BY <1>7 DEF HBlankDma, popped
  <2> HIDE DEF armed
  <2>9. /\ Fresh(sched')
        /\ \A j \in TimerIds : sched'.deadlines[TimerEvent(j)] = armed.deadlines[TimerEvent(j)]
    <3> DEFINE next == sched.deadlines[HBlankStart] + LineCycles
    <3>1. Fresh(sched') /\ sched'.deadlines = [armed.deadlines EXCEPT ![HBlankStart] = next]
      BY <2>1, <2>2, <2>7, <2>8, ScheduledFresh
    <3> QED BY <2>7, <3>1, EventNumbers DEF Schedulers, Deadlines
  <2>10. stall' \in Nat
    BY <1>0, <1>7 DEF HBlankDma
  <2> QED BY <1>7, <2>2, <2>6, <2>9, <2>10
          DEF HBlankDma, Inv, TypeOK, TimerSets, Fresh, ArmedExactly, Deadline
<1>8. ASSUME TakeStall PROVE Inv'
  <2>1. Fresh(sched') /\ sched'.deadlines = sched.deadlines
    BY <1>0, <1>8, AdvancedFresh DEF TakeStall, Advanced, Schedulers
  <2> QED BY <1>8, <2>1 DEF TakeStall, Inv, TypeOK, Fresh, ArmedExactly
<1>9. ASSUME Settle PROVE Inv'
  BY <1>9 DEF Settle, Inv, TypeOK, ArmedExactly
<1>10. ASSUME UNCHANGED vars PROVE Inv'
  BY <1>10 DEF vars, Inv, TypeOK, ArmedExactly
<1> QED BY <1>1, <1>2, <1>3, <1>4, <1>5, <1>6, <1>7, <1>8, <1>9, <1>10 DEF Next

(***************************************************************************)
(* Counters stay within their width and deadlines are times: a cascade     *)
(* never ticks a timer past its maximum.                                   *)
(***************************************************************************)
THEOREM TypeCorrect == Spec => []TypeOK
<1>1. Spec => []Inv
  BY InitInv, NextInv, PTL DEF Spec
<1>2. Inv => TypeOK
  BY DEF Inv
<1> QED BY <1>1, <1>2, PTL

(***************************************************************************)
(* The overflow events are exactly those the lazy counters call for.       *)
(***************************************************************************)
THEOREM AlwaysArmed == Spec => []ArmedExactly
<1>1. Spec => []Inv
  BY InitInv, NextInv, PTL DEF Spec
<1>2. Inv => ArmedExactly
  BY DEF Inv
<1> QED BY <1>1, <1>2, PTL

-----------------------------------------------------------------------------
(***************************************************************************)
(* The order of events.  Where programs keep the prescaler of a running    *)
(* timer, no deadline is ever before the event dispatched last, and none   *)
(* is due when an instruction starts.                                      *)
(***************************************************************************)
OrderInv ==
  /\ last_fired <= sched.now
  /\ \A e \in Events : IsScheduled(sched, e) => last_fired <= sched.deadlines[e]
  /\ phase = "execute" => \A e \in Events : IsScheduled(sched, e) => sched.now < sched.deadlines[e]

LEMMA InitOrder == Init => OrderInv
<1> SUFFICES ASSUME Init PROVE OrderInv
  OBVIOUS
<1>1. /\ sched.now = 0 /\ LineCycles \in Nat \ {0}
      /\ sched.deadlines = [IdleScheduler.deadlines EXCEPT ![HBlankStart] = LineCycles]
  <2>1. IdleScheduler \in Schedulers /\ HBlankStart \in Events /\ LineCycles \in Nat \ {0}
    BY IdleFresh, EventNumbers, UnitAssumption DEF Fresh
  <2>2. IdleScheduler.now = 0
    BY DEF IdleScheduler
  <2> QED BY <2>1, <2>2, ScheduledFresh DEF Init
<1>2. \A e \in Events : sched.deadlines[e] # Unscheduled => sched.deadlines[e] = LineCycles
  BY <1>1 DEF IdleScheduler
<1> QED BY <1>1, <1>2 DEF Init, OrderInv, IsScheduled

\* A control write that keeps the prescaler puts the timer's overflow into the
\* future, or no earlier than it was.
LEMMA ControlKeepsOrder ==
  ASSUME Inv, NEW i \in TimerIds, NEW c \in Controls, KeepsPrescaler(i, c),
         NEW w, w = WithControl(timers, i, c, sched.now), Deadline(w, i) # Unscheduled
  PROVE  \/ Deadline(w, i) > sched.now
         \/ /\ IsScheduled(sched, TimerEvent(i))
            /\ Deadline(w, i) >= sched.deadlines[TimerEvent(i)]
<1>1. timers \in TimerSets /\ sched.now \in Nat
  BY DEF Inv, TypeOK, TimerSets, Schedulers
<1>2. FreeRunning(w, i) /\ Deadline(w, i) = OverflowTime(w[i])
  BY DEF Deadline
<1>3. c.start /\ (\/ OverflowTime(w[i]) > sched.now
                  \/ /\ FreeRunning(timers, i)
                     /\ c.tick = timers[i].control.tick =>
                          OverflowTime(w[i]) >= OverflowTime(timers[i]))
  BY <1>1, <1>2, ControlWritten
<1>4. CASE OverflowTime(w[i]) > sched.now
  BY <1>2, <1>4
<1>5. CASE /\ FreeRunning(timers, i)
           /\ c.tick = timers[i].control.tick => OverflowTime(w[i]) >= OverflowTime(timers[i])
  <2>1. c.tick = timers[i].control.tick
    BY <1>3, <1>5 DEF KeepsPrescaler, FreeRunning
  <2>2. sched.deadlines[TimerEvent(i)] = OverflowTime(timers[i])
    BY <1>5 DEF Inv, ArmedExactly
  <2>3. OverflowTime(timers[i]) \in Nat
    BY <1>1, OverflowAhead DEF TimerSets
  <2> QED BY <1>2, <1>5, <2>1, <2>2, <2>3 DEF IsScheduled, Unscheduled
<1> QED BY <1>3, <1>4, <1>5

\* No deadline is before the event that is dispatched.
LEMMA NothingEarlier ==
  ASSUME Inv, NEW e \in Events, Dispatching(e)
  PROVE  /\ last_fired' <= sched.now
         /\ \A f \in Events : IsScheduled(sched, f) => last_fired' <= sched.deadlines[f]
<1>1. /\ sched.now \in Nat /\ last_fired' \in Nat /\ last_fired' <= sched.now
      /\ \A f \in DueEvents(sched) : last_fired' <= sched.deadlines[f]
  BY DispatchedEvent
<1>2. \A f \in Events : IsScheduled(sched, f) => sched.deadlines[f] \in Nat
  BY DEF Inv, Fresh, Schedulers, Deadlines, IsScheduled
<1>3. \A f \in Events : IsScheduled(sched, f) =>
        f \in DueEvents(sched) \/ sched.deadlines[f] > sched.now
  BY <1>1, <1>2 DEF DueEvents
<1> QED BY <1>1, <1>2, <1>3

LEMMA NextOrder ==
  ASSUME ~LivePrescaler, Inv, OrderInv, [Next]_vars
  PROVE  OrderInv' /\ (last_fired' >= last_fired)
<1> USE UnitAssumption
<1>0. /\ sched \in Schedulers /\ Fresh(sched) /\ sched.now \in Nat
      /\ sched.deadlines \in [Events -> Nat \cup {Unscheduled}]
      /\ timers \in TimerSets /\ stall \in Nat /\ last_fired \in Nat
  BY DEF Inv, TypeOK, TimerSets, Schedulers, Deadlines
<1> DEFINE Goal == OrderInv' /\ last_fired' >= last_fired
<1>1. ASSUME sched' = sched, last_fired' = last_fired, phase' = "execute" => phase = "execute"
      PROVE  Goal
  BY <1>0, <1>1 DEF OrderInv, IsScheduled
<1>2. ASSUME NEW i \in TimerIds, NEW c \in Programs, WriteControl(i, c) PROVE Goal
  <2>1. /\ timers' = WithControl(timers, i, c, sched.now)
        /\ sched' = Armed(timers', i, sched)
        /\ KeepsPrescaler(i, c) /\ phase = "execute" /\ last_fired' = last_fired
    BY <1>2 DEF WriteControl
  <2>2. timers' \in TimerSets
    BY <1>0, <2>1, ControlWritten
  <2>3. /\ sched'.now = sched.now
        /\ sched'.deadlines = [sched.deadlines EXCEPT ![TimerEvent(i)] = Deadline(timers', i)]
    BY <1>0, <2>1, <2>2, ArmedDeadlines
  <2>4. Deadline(timers', i) # Unscheduled => Deadline(timers', i) > sched.now
    <3>1. SUFFICES ASSUME Deadline(timers', i) # Unscheduled
                   PROVE  Deadline(timers', i) > sched.now
      OBVIOUS
    <3>2. \/ Deadline(timers', i) > sched.now
          \/ /\ IsScheduled(sched, TimerEvent(i))
             /\ Deadline(timers', i) >= sched.deadlines[TimerEvent(i)]
      BY <2>1, <3>1, ControlKeepsOrder
    <3>3. IsScheduled(sched, TimerEvent(i)) => sched.now < sched.deadlines[TimerEvent(i)]
      BY <2>1, EventNumbers DEF OrderInv
    <3>4. Deadline(timers', i) \in Nat
      BY <2>2, <3>1, OverflowAhead DEF Deadline, TimerSets
    <3>5. IsScheduled(sched, TimerEvent(i)) => sched.deadlines[TimerEvent(i)] \in Nat
      BY <1>0, EventNumbers DEF IsScheduled
    <3> QED BY <1>0, <3>2, <3>3, <3>4, <3>5
  <2>5. ASSUME NEW e \in Events, IsScheduled(sched', e) PROVE sched'.now < sched'.deadlines[e]
    <3>1. CASE e = TimerEvent(i)
      BY <1>0, <2>3, <2>4, <2>5, <3>1 DEF IsScheduled
    <3>2. CASE e # TimerEvent(i)
      BY <1>0, <2>1, <2>3, <2>5, <3>2 DEF OrderInv, IsScheduled
    <3> QED BY <3>1, <3>2
  <2>6. \A e \in Events : IsScheduled(sched', e) => sched'.deadlines[e] \in Nat
    <3>1. Fresh(sched')
      BY <1>0, <2>1, <2>2, ArmedDeadlines
    <3> QED BY <3>1 DEF Fresh, Schedulers, Deadlines, IsScheduled
  <2> QED BY <1>0, <2>1, <2>3, <2>5, <2>6 DEF OrderInv, IsScheduled
<1>3. ASSUME NEW c \in Cycles, Instruction(c) PROVE Goal
  <2>1. sched'.now = sched.now + c /\ sched'.deadlines = sched.deadlines
    BY <1>0, <1>3 DEF Instruction, Advanced, Schedulers
  <2> QED BY <1>0, <1>3, <2>1 DEF Instruction, OrderInv, IsScheduled
<1>4. ASSUME NEW i \in TimerIds, TimerOverflow(i) PROVE Goal
  <2> DEFINE t == sched.deadlines[TimerEvent(i)]
  <2>1. TimerEvent(i) \in Events /\ Dispatching(TimerEvent(i)) /\ phase' = "dispatch"
    BY <1>4, EventNumbers DEF TimerOverflow, Dispatching
  <2>2. /\ last_fired' = t /\ t \in Nat /\ t <= sched.now
        /\ \A e \in Events : IsScheduled(sched, e) => t <= sched.deadlines[e]
    BY <2>1, DispatchedEvent, NothingEarlier
  <2>3. last_fired <= t
    BY <2>1, <2>2 DEF OrderInv, IsScheduled, Unscheduled
  <2>4. t <= OverflowTime(timers'[i]) /\ OverflowTime(timers'[i]) \in Nat
    <3>1. timers' \in TimerSets /\ timers' = Overflowed(timers, i, t) /\ FreeRunning(timers, i)
      BY <1>4, OverflowDeadlines
    <3>2. timers'[i].start_time = t /\ timers'[i] \in TimerRecords
      BY <1>0, <2>2, <3>1, OverflowedType, CascadedCountUp DEF TimerSets
    <3>3. OverflowTime(timers'[i]) \in Nat /\ OverflowTime(timers'[i]) > timers'[i].start_time
      BY <3>2, OverflowAhead
    <3> HIDE DEF t
    <3> QED BY <2>2, <3>2, <3>3
  <2>5. \A e \in Events : IsScheduled(sched', e) =>
          IF e = TimerEvent(i) THEN sched'.deadlines[e] = OverflowTime(timers'[i])
          ELSE IsScheduled(sched, e) /\ sched'.deadlines[e] = sched.deadlines[e]
    BY <1>4, OverflowDeadlines DEF IsScheduled
  <2>6. sched'.now = sched.now
    BY <1>4, OverflowDeadlines
  <2> HIDE DEF t
  <2>7. \A e \in Events : IsScheduled(sched', e) => t <= sched'.deadlines[e]
    BY <2>2, <2>4, <2>5
  <2> QED BY <1>0, <2>1, <2>2, <2>3, <2>6, <2>7 DEF OrderInv, IsScheduled
<1>5. ASSUME HBlank PROVE Goal
  <2> DEFINE t == sched.deadlines[HBlankStart]
             popped == Popped(sched, HBlankStart)
  <2>1. HBlankStart \in Events /\ Dispatching(HBlankStart) /\ phase' = "dispatch"
    BY <1>5, EventNumbers DEF HBlank, Dispatching
  <2>2. /\ last_fired' = t /\ t \in Nat /\ t <= sched.now
        /\ \A e \in Events : IsScheduled(sched, e) => t <= sched.deadlines[e]
    BY <2>1, DispatchedEvent, NothingEarlier
  <2>3. last_fired <= t
    BY <2>1, <2>2 DEF OrderInv, IsScheduled, Unscheduled
  <2>4. /\ popped \in Schedulers /\ popped.now = sched.now
        /\ popped.deadlines = [sched.deadlines EXCEPT ![HBlankStart] = Unscheduled]
    BY <1>0, <2>1, CancelledFresh DEF Popped, Fresh
  <2>5. sched' = ScheduledAt(popped, HBlankStart, t + LineCycles) /\ t + LineCycles \in Nat
    BY <1>5, <2>2 DEF HBlank
  <2>6. /\ sched'.now = sched.now
        /\ sched'.deadlines = [popped.deadlines EXCEPT ![HBlankStart] = t + LineCycles]
    BY <2>1, <2>4, <2>5, ScheduledFresh
  <2> HIDE DEF popped
  <2>7. \A e \in Events : IF e = HBlankStart THEN sched'.deadlines[e] = t + LineCycles
                          ELSE sched'.deadlines[e] = sched.deadlines[e]
    BY <1>0, <2>4, <2>6 DEF Schedulers, Deadlines
  <2> HIDE DEF t
  <2>8. \A e \in Events : IsScheduled(sched', e) => t <= sched'.deadlines[e]
    BY <2>2, <2>7 DEF IsScheduled
  <2> QED BY <1>0, <2>1, <2>2, <2>3, <2>6, <2>8 DEF OrderInv, IsScheduled
<1>6. ASSUME NEW i \in TimerIds, NEW c \in Programs, HBlankDma(i, c) PROVE Goal
  <2> DEFINE t == sched.deadlines[HBlankStart]
             popped == Popped(sched, HBlankStart)
             armed == Armed(timers', i, popped)
  <2>1. HBlankStart \in Events /\ Dispatching(HBlankStart) /\ phase' = "dispatch"
    BY <1>6, EventNumbers DEF HBlankDma, Dispatching
  <2>2. /\ last_fired' = t /\ t \in Nat /\ t <= sched.now
        /\ \A e \in Events : IsScheduled(sched, e) => t <= sched.deadlines[e]
    BY <2>1, DispatchedEvent, NothingEarlier
  <2>3. last_fired <= t
    BY <2>1, <2>2 DEF OrderInv, IsScheduled, Unscheduled
  <2>4. /\ popped \in Schedulers /\ popped.now = sched.now
        /\ popped.deadlines = [sched.deadlines EXCEPT ![HBlankStart] = Unscheduled]
    BY <1>0, <2>1, CancelledFresh DEF Popped, Fresh
  <2>5. /\ timers' = WithControl(timers, i, c, sched.now) /\ KeepsPrescaler(i, c)
        /\ sched' = ScheduledAt(armed, HBlankStart, t + LineCycles) /\ t + LineCycles \in Nat
    BY <1>6, <2>2 DEF HBlankDma
  <2>6. timers' \in TimerSets
    BY <1>0, <2>5, ControlWritten
  <2> HIDE DEF popped
  <2>7. /\ armed \in Schedulers /\ armed.now = sched.now
        /\ armed.deadlines = [popped.deadlines EXCEPT ![TimerEvent(i)] = Deadline(timers', i)]
    BY <2>4, <2>6, ArmedDeadlines DEF Fresh
  <2> HIDE DEF armed
  <2>8. /\ sched'.now = sched.now
        /\ sched'.deadlines = [armed.deadlines EXCEPT ![HBlankStart] = t + LineCycles]
    BY <2>1, <2>5, <2>7, ScheduledFresh
  <2>9. \A e \in Events : IF e = HBlankStart THEN sched'.deadlines[e] = t + LineCycles
                          ELSE IF e = TimerEvent(i) THEN sched'.deadlines[e] = Deadline(timers', i)
                          ELSE sched'.deadlines[e] = sched.deadlines[e]
    BY <1>0, <2>4, <2>7, <2>8 DEF Schedulers, Deadlines
  <2>10. Deadline(timers', i) # Unscheduled => t <= Deadline(timers', i)
    <3>1. SUFFICES ASSUME Deadline(timers', i) # Unscheduled PROVE t <= Deadline(timers', i)
      OBVIOUS
    <3>2. \/ Deadline(timers', i) > sched.now
          \/ /\ IsScheduled(sched, TimerEvent(i))
             /\ Deadline(timers', i) >= sched.deadlines[TimerEvent(i)]
      BY <2>5, <3>1, ControlKeepsOrder
    <3>3. IsScheduled(sched, TimerEvent(i)) =>
            t <= sched.deadlines[TimerEvent(i)] /\ sched.deadlines[TimerEvent(i)] \in Nat
      BY <1>0, <2>2, EventNumbers DEF IsScheduled
    <3>4. Deadline(timers', i) \in Nat
      BY <2>6, <3>1, OverflowAhead DEF Deadline, TimerSets
    <3> HIDE DEF t
    <3> QED BY <1>0, <2>2, <3>2, <3>3, <3>4
  <2> HIDE DEF t
  <2>11. \A e \in Events : IsScheduled(sched', e) => t <= sched'.deadlines[e]
    BY <2>2, <2>9, <2>10 DEF IsScheduled
  <2> QED BY <1>0, <2>1, <2>2, <2>3, <2>8, <2>11 DEF OrderInv, IsScheduled
<1>7. ASSUME TakeStall PROVE Goal
  <2>1. sched'.now = sched.now + stall /\ sched'.deadlines = sched.deadlines
    BY <1>0, <1>7 DEF TakeStall, Advanced, Schedulers
  <2> QED BY <1>0, <1>7, <2>1 DEF TakeStall, OrderInv, IsScheduled
<1>8. ASSUME Settle PROVE Goal
  <2>1. DueEvents(sched) = {}
    BY <1>0, <1>8, DueIsNoticed DEF Settle
  <2>2. \A e \in Events : IsScheduled(sched, e) => sched.now < sched.deadlines[e]
    BY <1>0, <2>1 DEF DueEvents, IsScheduled
  <2> QED BY <1>0, <1>8, <2>2 DEF Settle, OrderInv, IsScheduled
<1>9. CASE \/ \E i \in TimerIds, v \in Reloads : WriteReload(i, v)
           \/ \E i \in TimerIds : Acknowledge(i)
           \/ UNCHANGED vars
  BY <1>1, <1>9 DEF WriteReload, Acknowledge, vars
<1> QED BY <1>2, <1>3, <1>4, <1>5, <1>6, <1>7, <1>8, <1>9 DEF Next

\* A counter that has not reached its overflow has not wrapped.
LEMMA NoWrapBeforeDeadline ==
  ASSUME Inv, OrderInv PROVE NoHiddenWrap
<1> SUFFICES ASSUME phase = "execute", NEW i \in TimerIds
             PROVE  timers[i].counter + Ticks(timers, i, sched.now) < Overflow
  BY DEF NoHiddenWrap
<1> DEFINE t == timers[i]
           q == Ticks(timers, i, sched.now)
           k == t.control.tick
           left == Overflow - t.counter
<1>1. timers \in TimerSets /\ t \in TimerRecords /\ sched.now \in Nat
  BY DEF Inv, TypeOK, TimerSets, Schedulers
<1>2. /\ q \in Nat /\ q * k \in Nat /\ k \in Nat \ {0} /\ t.counter \in Nat
      /\ t.counter < Overflow /\ t.start_time \in Nat /\ Overflow \in Nat /\ left \in Nat
  BY <1>1, WholeTicks, TimerFields, TimersAssumption
<1>3. CASE FreeRunning(timers, i) /\ sched.now > t.start_time
  <2>1. sched.deadlines[TimerEvent(i)] = OverflowTime(t) /\ OverflowTime(t) \in Nat
    BY <1>1, <1>3, OverflowAhead DEF Inv, ArmedExactly
  <2>2. sched.now < OverflowTime(t)
    <3>1. TimerEvent(i) \in Events /\ IsScheduled(sched, TimerEvent(i))
      BY <2>1, EventNumbers DEF IsScheduled, Unscheduled
    <3>2. sched.now < sched.deadlines[TimerEvent(i)]
      BY <3>1 DEF OrderInv
    <3> QED BY <2>1, <3>2
  <2>3. OverflowTime(t) = t.start_time + left * k
    BY DEF OverflowTime
  <2>4. q * k <= sched.now - t.start_time
    BY <1>1, <1>3, WholeTicks
  <2>5. left * k \in Nat
    BY <1>2, ProductNatural
  <2> HIDE DEF q, k, left, t
  <2>6. q * k < left * k
    BY <1>1, <1>2, <2>2, <2>3, <2>4, <2>5
  <2>7. q < left
    BY <1>2, <2>6, Cancellation
  <2> QED BY <1>2, <2>7 DEF q, left, t
<1>4. CASE ~(FreeRunning(timers, i) /\ sched.now > t.start_time)
  BY <1>2, <1>4 DEF Ticks
<1> QED BY <1>3, <1>4

(***************************************************************************)
(* Events fire in deadline order, whatever DMA and long instructions do,   *)
(* when programs keep the prescaler of a running timer.                    *)
(***************************************************************************)
THEOREM EventsInOrder ==
  ASSUME ~LivePrescaler
  PROVE  Spec => DeadlineOrder
<1>1. Init => Inv /\ OrderInv
  BY InitInv, InitOrder
<1>2. Inv /\ OrderInv /\ [Next]_vars => (Inv /\ OrderInv)' /\ (last_fired' >= last_fired)
  BY NextInv, NextOrder
<1>3. Inv /\ OrderInv /\ [Next]_vars => [last_fired' >= last_fired]_vars
  BY <1>2
<1> QED BY <1>1, <1>2, <1>3, PTL DEF Spec, DeadlineOrder

(***************************************************************************)
(* The counter an instruction reads has not wrapped.                       *)
(***************************************************************************)
THEOREM NeverWraps ==
  ASSUME ~LivePrescaler
  PROVE  Spec => []NoHiddenWrap
<1>1. Init => Inv /\ OrderInv
  BY InitInv, InitOrder
<1>2. Inv /\ OrderInv /\ [Next]_vars => (Inv /\ OrderInv)'
  BY NextInv, NextOrder
<1>3. Inv /\ OrderInv => NoHiddenWrap
  BY NoWrapBeforeDeadline
<1> QED BY <1>1, <1>2, <1>3, PTL DEF Spec

-----------------------------------------------------------------------------
(***************************************************************************)
(* The counters that count every cycle.  A lazy timer t that counts up to  *)
(* `time' stands for the counter h when p ticks and n overflows of h are   *)
(* not in t yet; the timer before it has `carried' such overflows.         *)
(***************************************************************************)
HwRecords == [reload : Counters, control : Controls, counter : Counters, elapsed : Nat,
              running : BOOLEAN]

Up(i, timer) == i > 0 /\ timer.control.count_up

SameSetting(timer, h) ==
  h.reload = timer.reload /\ h.control = timer.control /\ h.running = timer.running

Adds(t, h, n, p) == t.counter + p = h.counter + n * (Overflow - t.reload)

Beats(t, h, time, p) ==
  /\ h.elapsed < t.control.tick /\ t.start_time <= time
  /\ time - t.start_time = p * t.control.tick + h.elapsed

Tracks(i, t, h, time, n, p, carried) ==
  /\ SameSetting(t, h)
  /\ Adds(t, h, n, p)
  /\ n > 0 => h.counter >= t.reload
  /\ t.running /\ Up(i, t) => h.elapsed = 0 /\ p = carried
  /\ ~t.running => h.elapsed = 0 /\ p = 0
  /\ t.running /\ ~Up(i, t) => Beats(t, h, time, p)

\* What the arithmetic of a timer and its counter needs.
LEMMA BothFields ==
  ASSUME NEW t \in TimerRecords, NEW h \in HwRecords
  PROVE  /\ t.counter \in Nat /\ t.counter < Overflow /\ h.counter \in Nat /\ h.counter < Overflow
         /\ t.reload \in Nat /\ t.reload < Overflow /\ Overflow \in Nat
         /\ Overflow - t.reload \in Nat \ {0} /\ t.control.tick \in Nat \ {0}
         /\ t.start_time \in Nat /\ h.elapsed \in Nat
<1>1. h.counter \in Counters /\ h.elapsed \in Nat
  BY DEF HwRecords
<1>2. h.counter \in Nat /\ h.counter < Overflow
  BY <1>1, TimersAssumption DEF Counters
<1>3. t.reload \in Nat /\ t.reload < Overflow /\ Overflow \in Nat
  BY TimerFields, TimersAssumption
<1>4. Overflow - t.reload \in Nat \ {0}
  BY <1>3
<1> QED BY <1>1, <1>2, <1>3, <1>4, TimerFields

\* One cycle keeps a timer and its counter together.
LEMMA TracksTick ==
  ASSUME NEW i \in TimerIds, NEW t \in TimerRecords, NEW h \in HwRecords, NEW g \in HwRecords,
         NEW time \in Nat, NEW n \in Nat, NEW p \in Nat, NEW carried \in Nat,
         NEW b, b = time + 1, NEW m \in {n, n + 1}, NEW q \in {p, p + 1},
         NEW e \in {carried, carried + 1},
         Tracks(i, t, h, time, n, p, carried),
         SameSetting(t, g),
         t.running /\ Up(i, t) => (q # p <=> e # carried),
         ~t.running => q = p,
         t.running /\ ~Up(i, t) => (q # p <=> h.elapsed + 1 = t.control.tick),
         m # n <=> q # p /\ h.counter = Overflow - 1,
         m # n => g.counter = t.reload,
         m = n => g.counter = IF q = p THEN h.counter ELSE h.counter + 1,
         Up(i, t) \/ ~t.running \/ q # p => g.elapsed = 0,
         t.running /\ ~Up(i, t) /\ q = p => g.elapsed = h.elapsed + 1
  PROVE  Tracks(i, t, g, b, m, q, e)
<1> DEFINE d == Overflow - t.reload
           k == t.control.tick
           nd == n * d
           pk == p * k
           md == m * d
           qk == q * k
<1>0. /\ t.counter \in Nat /\ h.counter \in Nat /\ h.counter < Overflow
      /\ t.reload \in Nat /\ Overflow \in Nat
      /\ d \in Nat /\ k \in Nat \ {0} /\ t.start_time \in Nat /\ h.elapsed \in Nat
  BY BothFields
<1>1. /\ nd \in Nat /\ (m # n => md = nd + d) /\ (m = n => md = nd)
      /\ pk \in Nat /\ (q # p => qk = pk + k) /\ (q = p => qk = pk)
  <2>1. nd \in Nat /\ (n + 1) * d = nd + d
    BY <1>0, Successor, ProductNatural
  <2>2. pk \in Nat /\ (p + 1) * k = pk + k
    BY <1>0, Successor, ProductNatural
  <2>3. (m # n => m = n + 1) /\ (q # p => q = p + 1)
    OBVIOUS
  <2>4. m # n => md = nd + d
    BY <2>1, <2>3
  <2>5. q # p => qk = pk + k
    BY <2>2, <2>3
  <2> QED BY <2>1, <2>2, <2>4, <2>5
<1>2. d = Overflow - t.reload
  OBVIOUS
<1>3. t.counter + p = h.counter + nd /\ (n > 0 => h.counter >= t.reload)
  BY DEF Tracks, Adds
<1>4. t.running /\ ~Up(i, t) => /\ h.elapsed < k /\ t.start_time <= time
                                /\ time - t.start_time = pk + h.elapsed
  BY DEF Tracks, Beats
<1>5. /\ t.running /\ Up(i, t) => h.elapsed = 0 /\ p = carried
      /\ ~t.running => h.elapsed = 0 /\ p = 0
  BY DEF Tracks
<1>6. t.running /\ ~Up(i, t) => (q # p <=> h.elapsed + 1 = k)
  OBVIOUS
<1> HIDE DEF d, k, nd, pk, md, qk
<1>7. t.counter + q = g.counter + md
  BY <1>0, <1>1, <1>2, <1>3
<1>8. m > 0 => g.counter >= t.reload
  BY <1>0, <1>3
<1>9. ASSUME t.running, ~Up(i, t)
      PROVE  g.elapsed < k /\ t.start_time <= b /\ b - t.start_time = qk + g.elapsed
  BY <1>0, <1>1, <1>4, <1>6, <1>9
<1>10. Adds(t, g, m, q)
  BY <1>7 DEF md, d, Adds
<1>11. t.running /\ ~Up(i, t) => Beats(t, g, b, q)
  BY <1>9 DEF k, qk, Beats
<1>12. /\ t.running /\ Up(i, t) => g.elapsed = 0 /\ q = e
       /\ ~t.running => g.elapsed = 0 /\ q = 0
  BY <1>5
<1> QED BY <1>8, <1>10, <1>11, <1>12 DEF Tracks

\* A timer that counts by itself and is due has overflowed there, and its
\* handler takes one overflow in.
LEMMA TracksOverflow ==
  ASSUME NEW i \in TimerIds, NEW t \in TimerRecords, NEW h \in HwRecords, NEW u \in TimerRecords,
         NEW time \in Nat, NEW n \in Nat, NEW p \in Nat, NEW carried, NEW other,
         Tracks(i, t, h, time, n, p, carried), t.running, ~Up(i, t),
         OverflowTime(t) <= time,
         u.counter = t.reload, u.start_time = OverflowTime(t),
         u.reload = t.reload, u.control = t.control, u.running = t.running
  PROVE  /\ n - 1 \in Nat /\ p - (Overflow - t.counter) \in Nat
         /\ Tracks(i, u, h, time, n - 1, p - (Overflow - t.counter), other)
<1> DEFINE d == Overflow - t.reload
           k == t.control.tick
           left == Overflow - t.counter
           q == p - left
           m == n - 1
           s == t.start_time
<1>0. /\ t.counter \in Nat /\ h.counter \in Nat /\ h.counter < Overflow /\ t.counter < Overflow
      /\ t.reload \in Nat /\ Overflow \in Nat
      /\ d \in Nat /\ k \in Nat \ {0} /\ s \in Nat /\ h.elapsed \in Nat
  BY BothFields
<1>1. /\ h.elapsed < k /\ time - s = p * k + h.elapsed
      /\ t.counter + p = h.counter + n * d /\ (n > 0 => h.counter >= t.reload)
  BY DEF Tracks, Adds, Beats
<1>2. s + left * k <= time
  BY DEF OverflowTime
<1>3. left \in Nat /\ left = Overflow - t.counter /\ d = Overflow - t.reload
  BY <1>0
<1>g. SameSetting(t, h) /\ SameSetting(u, h)
  BY DEF Tracks, Adds, Beats, SameSetting
<1>u. ~Up(i, u) /\ u.running
  BY DEF Up
<1> HIDE DEF d, k, left, s
<1>4. left <= p
  <2>1. (p + 1) * k = p * k + k /\ p * k \in Nat /\ left * k \in Nat /\ p + 1 \in Nat
    BY <1>0, <1>3, Successor
  <2>2. left * k < (p + 1) * k
    BY <1>0, <1>1, <1>2, <2>1
  <2>3. left < p + 1
    BY <1>0, <1>3, <2>1, <2>2, Cancellation
  <2> QED BY <1>3, <2>3
<1>5. n # 0
  <2> SUFFICES ASSUME n = 0 PROVE FALSE
    OBVIOUS
  <2>1. n * d = 0
    BY <1>0
  <2> QED BY <1>0, <1>1, <1>3, <1>4, <2>1
<1>6. q \in Nat /\ m \in Nat /\ n = m + 1 /\ p = q + left
  BY <1>3, <1>4, <1>5
<1> HIDE DEF q, m
<1>7. n * d = m * d + d /\ m * d \in Nat
  BY <1>0, <1>6, Successor
<1>8. p * k = q * k + left * k /\ q * k \in Nat /\ left * k \in Nat
  BY <1>0, <1>3, <1>6
<1> DEFINE nd == n * d
           md == m * d
<1>9. u.counter + q = h.counter + m * d
  <2>1. t.counter + p = h.counter + nd /\ nd = md + d /\ md \in Nat
    BY <1>1, <1>7
  <2> HIDE DEF nd, md
  <2>2. u.counter = t.reload /\ d \in Nat
    BY <1>0
  <2>3. u.counter + q = h.counter + md
    BY ONLY <1>0, <1>3, <1>6, <2>1, <2>2
  <2> QED BY <2>3 DEF md
<1>10. h.counter >= t.reload
  BY <1>1, <1>5
<1>11. u.start_time = s + left * k
  BY DEF OverflowTime, s, left, k
<1>12. u.start_time <= time /\ time - u.start_time = q * k + h.elapsed
  BY <1>0, <1>1, <1>2, <1>8, <1>11
<1>13. Tracks(i, u, h, time, m, q, other)
  BY <1>g, <1>u, <1>1, <1>9, <1>10, <1>12 DEF Tracks, Adds, Beats, d, k
<1> QED BY <1>6, <1>13 DEF m, q, left

\* A cascaded timer at its maximum overflows with the one before it.
LEMMA TracksCascade ==
  ASSUME NEW i \in TimerIds, NEW t \in TimerRecords, NEW h \in HwRecords, NEW u \in TimerRecords,
         NEW time \in Nat, NEW n \in Nat, NEW p \in Nat, NEW carried \in Nat \ {0},
         Tracks(i, t, h, time, n, p, carried), t.running, Up(i, t),
         t.counter = Overflow - 1, u.counter = t.reload,
         u.reload = t.reload, u.control = t.control, u.running = t.running
  PROVE  n - 1 \in Nat /\ p - 1 \in Nat /\ Tracks(i, u, h, time, n - 1, p - 1, carried - 1)
<1> DEFINE d == Overflow - t.reload
           m == n - 1
<1>0. /\ t.counter \in Nat /\ h.counter \in Nat /\ h.counter < Overflow
      /\ t.reload \in Nat /\ Overflow \in Nat /\ d \in Nat
  BY BothFields
<1>1. /\ h.elapsed = 0 /\ p = carried
      /\ t.counter + p = h.counter + n * d /\ (n > 0 => h.counter >= t.reload)
  BY DEF Tracks, Adds, Beats
<1>2. d = Overflow - t.reload
  OBVIOUS
<1>g. SameSetting(u, h) /\ Up(i, u) /\ u.running
  BY DEF Tracks, Adds, Beats, SameSetting, Up
<1> HIDE DEF d
<1>3. n # 0
  <2> SUFFICES ASSUME n = 0 PROVE FALSE
    OBVIOUS
  <2>1. n * d = 0
    BY <1>0
  <2> QED BY <1>0, <1>1, <2>1
<1>4. m \in Nat /\ n = m + 1
  BY <1>3
<1> HIDE DEF m
<1>5. n * d = m * d + d /\ m * d \in Nat
  BY <1>0, <1>4, Successor
<1> DEFINE nd == n * d
           md == m * d
<1>6. u.counter + (p - 1) = h.counter + m * d
  <2>1. t.counter + p = h.counter + nd /\ nd = md + d /\ md \in Nat
    BY <1>1, <1>5
  <2> HIDE DEF nd, md
  <2>2. u.counter + (p - 1) = h.counter + md
    BY <1>0, <1>2, <2>1
  <2> QED BY <2>2 DEF md
<1>7. Tracks(i, u, h, time, m, p - 1, carried - 1)
  BY <1>g, <1>1, <1>3, <1>6 DEF Tracks, Adds, Beats, d
<1> QED BY <1>1, <1>4, <1>7 DEF m

\* One below its maximum takes the tick.
LEMMA TracksCarried ==
  ASSUME NEW i \in TimerIds, NEW t \in TimerRecords, NEW h \in HwRecords, NEW u \in TimerRecords,
         NEW time \in Nat, NEW n \in Nat, NEW p \in Nat, NEW carried \in Nat \ {0},
         Tracks(i, t, h, time, n, p, carried), t.running, Up(i, t),
         u.counter = t.counter + 1,
         u.reload = t.reload, u.control = t.control, u.running = t.running
  PROVE  p - 1 \in Nat /\ Tracks(i, u, h, time, n, p - 1, carried - 1)
<1> DEFINE d == Overflow - t.reload
           nd == n * d
<1>0. t.counter \in Nat /\ h.counter \in Nat /\ d \in Nat
  BY BothFields
<1>1. /\ h.elapsed = 0 /\ p = carried
      /\ t.counter + p = h.counter + nd /\ (n > 0 => h.counter >= t.reload)
  BY DEF Tracks, Adds, Beats
<1>2. nd \in Nat
  BY <1>0, ProductNatural
<1>g. SameSetting(u, h) /\ Up(i, u) /\ u.running
  BY DEF Tracks, Adds, Beats, SameSetting, Up
<1> HIDE DEF nd
<1>3. u.counter + (p - 1) = h.counter + nd
  BY <1>0, <1>1, <1>2
<1> QED BY <1>g, <1>1, <1>3 DEF Tracks, Adds, Beats, nd

\* A counter whose timer has no overflow to come before `time', of its own or
\* from the timer before it, has none that its timer does not show.
LEMMA TracksQuiet ==
  ASSUME NEW i \in TimerIds, NEW t \in TimerRecords, NEW h \in HwRecords,
         NEW time \in Nat, NEW n \in Nat, NEW p \in Nat, NEW carried,
         Tracks(i, t, h, time, n, p, carried),
         t.running /\ ~Up(i, t) => time < OverflowTime(t),
         t.running /\ Up(i, t) => carried = 0
  PROVE  n = 0
<1> DEFINE d == Overflow - t.reload
           k == t.control.tick
           left == Overflow - t.counter
           s == t.start_time
<1>0. /\ t.counter \in Nat /\ h.counter \in Nat /\ t.counter < Overflow
      /\ t.reload \in Nat /\ Overflow \in Nat
      /\ d \in Nat /\ k \in Nat \ {0} /\ s \in Nat /\ h.elapsed \in Nat
  BY BothFields
<1>1. left \in Nat /\ left = Overflow - t.counter /\ d = Overflow - t.reload
  BY <1>0
<1>2. t.counter + p = h.counter + n * d /\ (n > 0 => h.counter >= t.reload)
  BY DEF Tracks, Adds, Beats
<1>3. p < left
  <2>1. CASE t.running /\ ~Up(i, t)
    <3>1. time - s = p * k + h.elapsed
      BY <2>1 DEF Tracks, Adds, Beats
    <3>2. time < s + left * k
      BY <2>1 DEF OverflowTime
    <3> HIDE DEF k, left, s
    <3>3. p * k \in Nat /\ left * k \in Nat
      BY <1>0, <1>1
    <3>4. p * k < left * k
      BY <1>0, <3>1, <3>2, <3>3
    <3> QED BY <1>0, <1>1, <3>4, Cancellation
  <2>2. CASE ~(t.running /\ ~Up(i, t))
    <3>1. p = 0
      BY <2>2 DEF Tracks, Adds, Beats
    <3> QED BY <1>0, <3>1
  <2> QED BY <2>1, <2>2
<1> HIDE DEF d, left
<1>4. SUFFICES ASSUME n # 0 PROVE FALSE
  OBVIOUS
<1>5. n * d >= d
  <2>1. 1 * d <= n * d
    BY <1>0, <1>4, Monotone
  <2> QED BY <1>0, <2>1
<1>6. n * d \in Nat
  BY <1>0, ProductNatural
<1> QED BY <1>0, <1>1, <1>2, <1>3, <1>4, <1>5, <1>6

-----------------------------------------------------------------------------
(***************************************************************************)
(* One cycle of the counters.                                              *)
(***************************************************************************)
HwSets == [TimerIds -> HwRecords]

\* A counter overflows exactly when it ticks at its maximum.
LEMMA WrapsAtMaximum ==
  ASSUME NEW h \in HwSets, NEW i \in TimerIds
  PROVE  i \in HwWraps(h) <=> h[i].counter = Overflow - 1 /\ HwTicks(h, i)
<1> i \in Nat /\ i < TimerCount /\ TimerCount \in Nat
  BY TimerCountAssumption DEF TimerIds
<1>1. ASSUME i \in HwWraps(h) PROVE h[i].counter = Overflow - 1 /\ HwTicks(h, i)
  <2>1. PICK b \in 0 .. i :
          /\ HwBeats(h, b) /\ h[b].counter = Overflow - 1
          /\ \A k \in b + 1 .. i :
               h[k].running /\ HwCountsUp(h, k) /\ h[k].counter = Overflow - 1
    BY <1>1 DEF HwWraps
  <2>2. CASE b = i
    BY <2>1, <2>2 DEF HwTicks, HwBeats
  <2>3. CASE b # i
    <3>1. i \in b + 1 .. i /\ b \in 0 .. i - 1 /\ i - 1 \in TimerIds
      BY <2>3 DEF TimerIds
    <3>2. h[i].running /\ HwCountsUp(h, i) /\ h[i].counter = Overflow - 1
      BY <2>1, <3>1
    <3>3. \A k \in b + 1 .. i - 1 : k \in b + 1 .. i
      OBVIOUS
    <3>4. i - 1 \in HwWraps(h)
      BY <2>1, <3>1, <3>3 DEF HwWraps
    <3> QED BY <3>2, <3>4 DEF HwTicks
  <2> QED BY <2>2, <2>3
<1>2. ASSUME h[i].counter = Overflow - 1, HwTicks(h, i) PROVE i \in HwWraps(h)
  <2>1. CASE HwCountsUp(h, i)
    <3>1. h[i].running /\ i - 1 \in HwWraps(h)
      BY <1>2, <2>1 DEF HwTicks
    <3>2. PICK b \in 0 .. i - 1 :
            /\ HwBeats(h, b) /\ h[b].counter = Overflow - 1
            /\ \A k \in b + 1 .. i - 1 :
                 h[k].running /\ HwCountsUp(h, k) /\ h[k].counter = Overflow - 1
      BY <3>1 DEF HwWraps
    <3>3. \A k \in b + 1 .. i : k \in b + 1 .. i - 1 \/ k = i
      OBVIOUS
    <3>4. b \in 0 .. i
      OBVIOUS
    <3>5. \A k \in b + 1 .. i :
            h[k].running /\ HwCountsUp(h, k) /\ h[k].counter = Overflow - 1
      BY <1>2, <2>1, <3>1, <3>2, <3>3
    <3> QED BY <3>2, <3>4, <3>5 DEF HwWraps
  <2>2. CASE ~HwCountsUp(h, i)
    <3>1. HwBeats(h, i)
      BY <1>2, <2>2 DEF HwTicks
    <3>2. i \in 0 .. i /\ \A k \in i + 1 .. i : FALSE
      OBVIOUS
    <3> QED BY <1>2, <3>1, <3>2 DEF HwWraps
  <2> QED BY <2>1, <2>2
<1> QED BY <1>1, <1>2

\* What a cycle leaves of a counter.
LEMMA SteppedCounter ==
  ASSUME NEW h \in HwSets, NEW i \in TimerIds, NEW g, g = HwStep(h, i)
  PROVE  /\ g \in HwRecords
         /\ g.reload = h[i].reload /\ g.control = h[i].control /\ g.running = h[i].running
         /\ g.elapsed = IF HwCountsUp(h, i) \/ ~h[i].running \/ HwTicks(h, i)
                        THEN 0 ELSE h[i].elapsed + 1
         /\ g.counter = IF i \in HwWraps(h) THEN h[i].reload
                        ELSE IF HwTicks(h, i) THEN h[i].counter + 1 ELSE h[i].counter
<1> DEFINE e == IF HwCountsUp(h, i) \/ ~h[i].running \/ HwTicks(h, i)
                THEN 0 ELSE h[i].elapsed + 1
           c == IF i \in HwWraps(h) THEN h[i].reload
                ELSE IF HwTicks(h, i) THEN h[i].counter + 1 ELSE h[i].counter
<1>1. h[i] \in HwRecords
  BY DEF HwSets
<1>2. /\ h[i].reload \in Counters /\ h[i].counter \in Counters /\ h[i].elapsed \in Nat
  BY <1>1 DEF HwRecords
<1>3. e \in Nat
  BY <1>2
<1>4. c \in Counters
  <2>1. i \notin HwWraps(h) /\ HwTicks(h, i) => h[i].counter # Overflow - 1
    BY WrapsAtMaximum
  <2> QED BY <1>2, <2>1, TimersAssumption DEF Counters
<1>5. g = [h[i] EXCEPT !.elapsed = e, !.counter = c]
  BY DEF HwStep
<1> HIDE DEF e, c
<1> DEFINE f == [h[i] EXCEPT !.elapsed = e]
<1>6. /\ f \in HwRecords /\ f.reload = h[i].reload /\ f.control = h[i].control
      /\ f.running = h[i].running /\ f.elapsed = e
  BY <1>1, <1>3 DEF HwRecords
<1>7. g = [f EXCEPT !.counter = c]
  BY <1>5
<1> HIDE DEF f
<1>8. /\ g \in HwRecords /\ g.reload = h[i].reload /\ g.control = h[i].control
      /\ g.running = h[i].running /\ g.elapsed = e /\ g.counter = c
  BY <1>4, <1>6, <1>7 DEF HwRecords
<1> QED BY <1>8 DEF e, c

-----------------------------------------------------------------------------
(***************************************************************************)
(* A write of the control.                                                 *)
(***************************************************************************)
\* The fields of the timer written.
LEMMA ControlFields ==
  ASSUME NEW ts \in TimerSets, NEW i \in TimerIds, NEW c \in Controls, NEW time \in Nat,
         NEW u, u = WithControl(ts, i, c, time)[i]
  PROVE  /\ u \in TimerRecords /\ u.reload = ts[i].reload /\ u.control = c
         /\ u.running = c.start
         /\ u.counter = IF c.start /\ ~ts[i].running THEN ts[i].reload
                        ELSE Counter(ts, i, time)
         /\ u.start_time =
              IF c.start /\ (~ts[i].running \/ (CountsUp(ts, i) /\ ~(i > 0 /\ c.count_up)))
              THEN time
              ELSE ts[i].start_time + Ticks(ts, i, time) * ts[i].control.tick
<1> DEFINE yes == TRUE
           synced == Synchronized(ts, i, time)
           set == [synced EXCEPT ![i].control = c]
           started == [set EXCEPT ![i].counter = ts[i].reload,
                                  ![i].running = yes,
                                  ![i].start_time = time]
           stopped == [set EXCEPT ![i].running = FALSE]
           counting == [set EXCEPT ![i].start_time = time]
           ct == Counter(ts, i, time)
           st == ts[i].start_time + Ticks(ts, i, time) * ts[i].control.tick
           r == ts[i].running
           l == ts[i].reload
<1>1. /\ synced \in TimerSets /\ synced[i].counter = ct /\ synced[i].start_time = st
      /\ synced[i].running = r /\ synced[i].reload = l
  BY SynchronizedType
<1>2. l \in Counters /\ r \in BOOLEAN /\ c.start \in BOOLEAN
  BY DEF TimerSets, TimerRecords, Controls
<1>w. WithControl(ts, i, c, time) =
        IF c.start /\ ~r THEN started
        ELSE IF ~c.start THEN stopped
        ELSE IF CountsUp(ts, i) /\ ~CountsUp(set, i) THEN counting
        ELSE set
  BY DEF WithControl
<1>y. yes \in BOOLEAN /\ yes
  OBVIOUS
<1> HIDE DEF synced, ct, st, r, l, yes
<1> DEFINE v == [synced[i] EXCEPT !.control = c]
<1>3. set = [synced EXCEPT ![i] = v]
  BY <1>1 DEF TimerSets
<1>4. /\ v \in TimerRecords /\ v.control = c /\ v.counter = ct /\ v.start_time = st
      /\ v.running = r /\ v.reload = l
  BY <1>1 DEF TimerSets, TimerRecords
<1> HIDE DEF v
<1>5. set \in TimerSets /\ set[i] = v
  BY <1>1, <1>3, <1>4 DEF TimerSets
<1>6. CountsUp(set, i) <=> i > 0 /\ c.count_up
  BY <1>4, <1>5 DEF CountsUp
<1> HIDE DEF set
<1>7. CASE c.start /\ ~r
  <2> DEFINE a == [v EXCEPT !.counter = l]
             b == [a EXCEPT !.running = yes]
             d == [b EXCEPT !.start_time = time]
  <2>1. /\ a \in TimerRecords /\ a.control = c /\ a.counter = l /\ a.reload = l
    BY <1>2, <1>4 DEF TimerRecords
  <2>2. started = [set EXCEPT ![i] = d]
    BY <1>4, <1>5 DEF l, TimerSets, TimerRecords
  <2> HIDE DEF a
  <2>4. /\ b \in TimerRecords /\ b.control = c /\ b.counter = l /\ b.reload = l
        /\ b.running = yes
    BY <1>y, <2>1 DEF TimerRecords
  <2> HIDE DEF b
  <2>5. /\ d \in TimerRecords /\ d.control = c /\ d.counter = l /\ d.reload = l
        /\ d.start_time = time /\ d.running = yes
    BY <2>4 DEF TimerRecords
  <2> HIDE DEF d
  <2>6. u = d
    BY <1>5, <1>7, <1>w, <2>2 DEF TimerSets
  <2> QED BY <1>2, <1>7, <1>y, <2>5, <2>6 DEF l, r
<1>8. CASE ~c.start
  <2> DEFINE no == FALSE
             d == [v EXCEPT !.running = no]
  <2>1. stopped = [set EXCEPT ![i] = d]
    BY <1>5 DEF TimerSets
  <2>2. no \in BOOLEAN /\ ~no
    OBVIOUS
  <2> HIDE DEF no
  <2>3. /\ d \in TimerRecords /\ d.control = c /\ d.counter = ct /\ d.reload = l
        /\ d.start_time = st /\ d.running = no
    BY <1>4, <2>2 DEF TimerRecords
  <2> HIDE DEF d
  <2>4. u = d
    BY <1>5, <1>8, <1>w, <2>1 DEF TimerSets
  <2> QED BY <1>2, <1>8, <2>2, <2>3, <2>4 DEF ct, st, l, r
<1>9. CASE c.start /\ r /\ CountsUp(ts, i) /\ ~CountsUp(set, i)
  <2> DEFINE d == [v EXCEPT !.start_time = time]
  <2>1. counting = [set EXCEPT ![i] = d]
    BY <1>5 DEF TimerSets
  <2>2. /\ d \in TimerRecords /\ d.control = c /\ d.counter = ct /\ d.reload = l
        /\ d.start_time = time /\ d.running = r
    BY <1>4 DEF TimerRecords
  <2> HIDE DEF d
  <2>3. u = d
    BY <1>5, <1>9, <1>w, <2>1 DEF TimerSets
  <2> QED BY <1>2, <1>6, <1>9, <2>2, <2>3 DEF ct, l, r
<1>10. CASE c.start /\ r /\ ~(CountsUp(ts, i) /\ ~CountsUp(set, i))
  <2>1. u = v
    BY <1>5, <1>10, <1>w
  <2> QED BY <1>2, <1>4, <1>6, <1>10, <2>1 DEF ct, st, l, r
<1> QED BY <1>2, <1>7, <1>8, <1>9, <1>10

\* The same write on the counter.
LEMMA WrittenCounter ==
  ASSUME NEW h \in HwSets, NEW i \in TimerIds, NEW c \in Controls,
         NEW w, w = HwWritten(h, i, c)
  PROVE  /\ w \in HwSets
         /\ \A j \in TimerIds \ {i} : w[j] = h[j]
         /\ w[i].reload = h[i].reload /\ w[i].control = c /\ w[i].running = c.start
         /\ w[i].counter = IF c.start /\ ~h[i].running THEN h[i].reload ELSE h[i].counter
         /\ w[i].elapsed = IF h[i].running /\ ~HwCountsUp(h, i)
                              /\ c.start /\ ~(i > 0 /\ c.count_up)
                           THEN h[i].elapsed ELSE 0
<1> DEFINE x == IF c.start /\ ~h[i].running THEN h[i].reload ELSE h[i].counter
           e == IF h[i].running /\ ~HwCountsUp(h, i) /\ c.start /\ ~(i > 0 /\ c.count_up)
                THEN h[i].elapsed ELSE 0
           s == c.start
<1>1. h[i] \in HwRecords
  BY DEF HwSets
<1>2. x \in Counters /\ e \in Nat /\ s \in BOOLEAN
  BY <1>1 DEF HwRecords, Controls
<1> DEFINE a == [h[i] EXCEPT !.control = c]
           b == [a EXCEPT !.running = s]
           d == [b EXCEPT !.counter = x]
           f == [d EXCEPT !.elapsed = e]
<1>3. w = [h EXCEPT ![i] = f]
  BY <1>1 DEF HwWritten, HwSets, HwRecords
<1>4. a \in HwRecords /\ a.reload = h[i].reload /\ a.control = c
  BY <1>1 DEF HwRecords
<1> HIDE DEF x, e, s, a
<1>5. b \in HwRecords /\ b.reload = h[i].reload /\ b.control = c /\ b.running = s
  BY <1>2, <1>4 DEF HwRecords
<1> HIDE DEF b
<1>6. /\ d \in HwRecords /\ d.reload = h[i].reload /\ d.control = c /\ d.running = s
      /\ d.counter = x
  BY <1>2, <1>5 DEF HwRecords
<1> HIDE DEF d
<1>7. /\ f \in HwRecords /\ f.reload = h[i].reload /\ f.control = c /\ f.running = s
      /\ f.counter = x /\ f.elapsed = e
  BY <1>2, <1>6 DEF HwRecords
<1> HIDE DEF f
<1>8. w \in HwSets /\ (\A j \in TimerIds \ {i} : w[j] = h[j]) /\ w[i] = f
  BY <1>3, <1>7 DEF HwSets
<1> QED BY <1>7, <1>8 DEF x, e, s

\* A timer that lacks no overflow shows its counter, and has counted whole ticks.
LEMMA TracksCounter ==
  ASSUME NEW ts \in TimerSets, NEW h \in HwSets, NEW i \in TimerIds,
         NEW time \in Nat, NEW p \in Nat, Tracks(i, ts[i], h[i], time, 0, p, 0)
  PROVE  Ticks(ts, i, time) = p /\ Counter(ts, i, time) = h[i].counter
<1> DEFINE t == ts[i]
           hi == h[i]
           k == t.control.tick
           pk == p * k
           s == t.start_time
<1>1. t \in TimerRecords /\ hi \in HwRecords
  BY DEF TimerSets, HwSets
<1>2. /\ t.counter \in Nat /\ hi.counter \in Nat /\ hi.counter < Overflow
      /\ t.reload \in Nat /\ Overflow \in Nat \ {0} /\ Overflow - t.reload \in Nat
      /\ k \in Nat \ {0} /\ s \in Nat /\ hi.elapsed \in Nat /\ pk \in Nat
  BY <1>1, BothFields, ProductNatural, TimersAssumption
<1>3. /\ hi.reload = t.reload /\ hi.control = t.control /\ hi.running = t.running
      /\ HwCountsUp(h, i) = CountsUp(ts, i) /\ Up(i, t) = CountsUp(ts, i)
  BY DEF Tracks, SameSetting, HwCountsUp, CountsUp, Up
<1>4. t.counter + p = hi.counter
  <2>1. t.counter + p = hi.counter + 0 * (Overflow - t.reload)
    BY DEF Tracks, Adds
  <2> QED BY <1>2, <2>1
<1>5. /\ ~FreeRunning(ts, i) => p = 0 /\ hi.elapsed = 0
      /\ FreeRunning(ts, i) => hi.elapsed < k /\ s <= time /\ time - s = pk + hi.elapsed
  BY <1>3 DEF Tracks, Beats, FreeRunning
<1>6. Ticks(ts, i, time) = p
  <2>1. CASE FreeRunning(ts, i) /\ time > s
    <3>1. time - s \in Nat /\ pk <= time - s /\ time - s < pk + k
      BY <1>2, <1>5, <2>1
    <3>2. (p + 1) * k = pk + k
      BY <1>2, Successor
    <3> DEFINE a == time - s
               pk1 == (p + 1) * k
    <3>3. a \in Nat /\ p * k <= a /\ a < pk1
      <4>1. pk1 = pk + k
        BY <3>2
      <4> HIDE DEF pk1
      <4> QED BY <3>1, <4>1
    <3> HIDE DEF a, k
    <3>4. a \div k = p
      BY <1>2, <3>3, InInterval
    <3> QED BY <2>1, <3>4 DEF Ticks, a, k
  <2>2. CASE FreeRunning(ts, i) /\ ~(time > s)
    <3>1. pk = 0
      <4> HIDE DEF pk
      <4> QED BY <1>2, <1>5, <2>2
    <3>2. p = 0
      BY <1>2, <3>1, ProductNatural
    <3> QED BY <2>2, <3>2 DEF Ticks
  <2>3. CASE ~FreeRunning(ts, i)
    BY <1>5, <2>3 DEF Ticks
  <2> QED BY <2>1, <2>2, <2>3
<1>7. Counter(ts, i, time) = hi.counter
  BY <1>2, <1>4, <1>6, Modulo DEF Counter
<1> QED BY <1>6, <1>7

\* Between overflows, a write of the control that keeps the prescaler finds both
\* at the same count, and leaves them there.
LEMMA TracksControl ==
  ASSUME NEW ts \in TimerSets, NEW h \in HwSets, NEW i \in TimerIds, NEW c \in Controls,
         NEW time \in Nat, NEW p \in Nat,
         Tracks(i, ts[i], h[i], time, 0, p, 0),
         ts[i].running /\ c.start => c.tick = ts[i].control.tick,
         NEW u, u = WithControl(ts, i, c, time)[i],
         NEW g, g = HwWritten(h, i, c)[i]
  PROVE  Tracks(i, u, g, time, 0, 0, 0)
<1> DEFINE t == ts[i]
           hi == h[i]
           k == t.control.tick
           pk == p * k
           s == t.start_time
<1>1. t \in TimerRecords /\ hi \in HwRecords
  BY DEF TimerSets, HwSets
<1>2. /\ t.counter \in Nat /\ hi.counter \in Nat /\ hi.counter < Overflow
      /\ t.reload \in Nat /\ Overflow \in Nat \ {0} /\ Overflow - t.reload \in Nat
      /\ k \in Nat \ {0} /\ s \in Nat /\ hi.elapsed \in Nat /\ pk \in Nat
      /\ c.tick \in Nat \ {0} /\ c.start \in BOOLEAN /\ t.running \in BOOLEAN
  BY <1>1, BothFields, ProductNatural, TimersAssumption, TimerFields DEF Controls
<1>3. /\ hi.reload = t.reload /\ hi.control = t.control /\ hi.running = t.running
      /\ HwCountsUp(h, i) = CountsUp(ts, i) /\ Up(i, t) = CountsUp(ts, i)
  BY DEF Tracks, SameSetting, HwCountsUp, CountsUp, Up
<1>5. /\ ~FreeRunning(ts, i) => p = 0 /\ hi.elapsed = 0
      /\ FreeRunning(ts, i) => hi.elapsed < k /\ s <= time /\ time - s = pk + hi.elapsed
  BY <1>3 DEF Tracks, Beats, FreeRunning
<1>6. Ticks(ts, i, time) = p /\ Counter(ts, i, time) = hi.counter
  BY TracksCounter
<1>8. /\ u.reload = t.reload /\ u.control = c /\ u.running = c.start
      /\ u.counter = IF c.start /\ ~t.running THEN t.reload ELSE hi.counter
      /\ u.start_time = IF c.start /\ (~t.running \/ (CountsUp(ts, i) /\ ~(i > 0 /\ c.count_up)))
                        THEN time ELSE s + pk
  BY <1>6, ControlFields
<1>9. /\ g.reload = hi.reload /\ g.control = c /\ g.running = c.start
      /\ g.counter = IF c.start /\ ~hi.running THEN hi.reload ELSE hi.counter
      /\ g.elapsed = IF hi.running /\ ~HwCountsUp(h, i) /\ c.start /\ ~(i > 0 /\ c.count_up)
                     THEN hi.elapsed ELSE 0
  BY WrittenCounter
<1>10. SameSetting(u, g)
  BY <1>3, <1>8, <1>9 DEF SameSetting
<1>11. Up(i, u) <=> i > 0 /\ c.count_up
  BY <1>8 DEF Up
<1>12. Adds(u, g, 0, 0)
  <2>1. u.counter = g.counter /\ g.counter \in Nat /\ Overflow - u.reload \in Nat
    BY <1>2, <1>3, <1>8, <1>9
  <2> QED BY <2>1 DEF Adds
<1>13. ASSUME u.running, ~Up(i, u) PROVE Beats(u, g, time, 0)
  <2>1. c.start /\ ~(i > 0 /\ c.count_up)
    BY <1>8, <1>11, <1>13
  <2>2. CASE t.running /\ ~CountsUp(ts, i)
    <3>1. FreeRunning(ts, i) /\ c.tick = k
      BY <2>1, <2>2 DEF FreeRunning
    <3>2. u.start_time = s + pk /\ g.elapsed = hi.elapsed
      BY <1>3, <1>8, <1>9, <2>1, <2>2
    <3>3. /\ g.elapsed < u.control.tick /\ u.start_time <= time
          /\ time - u.start_time = g.elapsed
      <4> HIDE DEF pk, k, s
      <4> QED BY <1>2, <1>5, <1>8, <3>1, <3>2
    <3> QED BY <1>2, <1>8, <1>9, <3>2, <3>3 DEF Beats
  <2>3. CASE ~(t.running /\ ~CountsUp(ts, i))
    <3>1. u.start_time = time /\ g.elapsed = 0
      BY <1>3, <1>8, <1>9, <2>1, <2>3
    <3> QED BY <1>2, <1>8, <3>1 DEF Beats
  <2> QED BY <2>2, <2>3
<1>14. ~u.running \/ Up(i, u) => g.elapsed = 0
  BY <1>8, <1>9, <1>11
<1> QED BY <1>10, <1>12, <1>13, <1>14 DEF Tracks

-----------------------------------------------------------------------------
(***************************************************************************)
(* Every timer and its counter.  n and p are what the timers still lack.   *)
(***************************************************************************)
Debts == [TimerIds -> Nat]

Carried(n, i) == IF i = 0 THEN 0 ELSE n[i - 1]

AllTrack(ts, h, time, n, p) ==
  \A i \in TimerIds : Tracks(i, ts[i], h[i], time, n[i], p[i], Carried(n, i))

Charged(n) == {i \in TimerIds : n[i] > 0}

LEMMA CarriedNatural ==
  ASSUME NEW n \in Debts, NEW i \in TimerIds
  PROVE  Carried(n, i) \in Nat /\ (i # 0 => i - 1 \in TimerIds /\ Carried(n, i) = n[i - 1])
  BY TimerCountAssumption DEF Debts, Carried, TimerIds

\* When no timer is due, none lacks an overflow.
LEMMA QuietTracks ==
  ASSUME NEW ts \in TimerSets, NEW h \in HwSets, NEW time \in Nat,
         NEW n \in Debts, NEW p \in Debts, AllTrack(ts, h, time, n, p),
         \A i \in TimerIds : FreeRunning(ts, i) => time < OverflowTime(ts[i])
  PROVE  \A i \in TimerIds : n[i] = 0 /\ Carried(n, i) = 0
<1>1. Charged(n) = {}
  <2> SUFFICES ASSUME Charged(n) # {} PROVE FALSE
    OBVIOUS
  <2>1. Charged(n) \in SUBSET Nat
    BY DEF Charged, TimerIds
  <2>2. PICK i \in Charged(n) : \A j \in Charged(n) : i <= j
    BY <2>1, NatMinimum
  <2>3. i \in TimerIds /\ n[i] # 0 /\ n[i] \in Nat /\ p[i] \in Nat /\ i \in Nat
    BY DEF Charged, Debts, TimerIds
  <2>4. Carried(n, i) = 0
    <3>1. CASE i = 0
      BY <3>1 DEF Carried
    <3>2. CASE i # 0
      <4>1. i - 1 \in TimerIds /\ Carried(n, i) = n[i - 1] /\ n[i - 1] \in Nat
        BY <2>3, <3>2, CarriedNatural DEF Debts
      <4>2. i - 1 \notin Charged(n)
        BY <2>2, <2>3
      <4> QED BY <4>1, <4>2 DEF Charged
    <3> QED BY <3>1, <3>2
  <2>5. Tracks(i, ts[i], h[i], time, n[i], p[i], Carried(n, i))
    BY <2>3 DEF AllTrack
  <2>6. ts[i] \in TimerRecords /\ h[i] \in HwRecords
    BY <2>3 DEF TimerSets, HwSets
  <2>7. ts[i].running /\ ~Up(i, ts[i]) => time < OverflowTime(ts[i])
    BY <2>3 DEF FreeRunning, Up, CountsUp
  <2>8. n[i] = 0
    BY <2>3, <2>4, <2>5, <2>6, <2>7, TracksQuiet
  <2> QED BY <2>3, <2>8
<1>2. \A i \in TimerIds : n[i] = 0
  BY <1>1 DEF Charged, Debts
<1> QED BY <1>2, CarriedNatural DEF Carried

\* One cycle of every counter.
LEMMA TickTracks ==
  ASSUME NEW ts \in TimerSets, NEW h \in HwSets, NEW time \in Nat,
         NEW n \in Debts, NEW p \in Debts, AllTrack(ts, h, time, n, p),
         NEW g, g = [i \in TimerIds |-> HwStep(h, i)]
  PROVE  /\ g \in HwSets
         /\ \E m, q \in Debts : /\ AllTrack(ts, g, time + 1, m, q)
                                /\ Charged(m) = Charged(n) \cup HwWraps(h)
<1> DEFINE wrap(i) == IF i \in HwWraps(h) THEN 1 ELSE 0
           tick(i) == IF HwTicks(h, i) THEN 1 ELSE 0
           m == [i \in TimerIds |-> n[i] + wrap(i)]
           q == [i \in TimerIds |-> p[i] + tick(i)]
<1>1. ASSUME NEW i \in TimerIds PROVE g[i] = HwStep(h, i) /\ g[i] \in HwRecords
  BY SteppedCounter
<1>2. g \in HwSets
  BY <1>1 DEF HwSets
<1>3. m \in Debts /\ q \in Debts
  BY DEF Debts
<1>4. ASSUME NEW i \in TimerIds
      PROVE  Tracks(i, ts[i], g[i], time + 1, m[i], q[i], Carried(m, i))
  <2> DEFINE t == ts[i]
             hi == h[i]
             gi == g[i]
             ni == n[i]
             pi == p[i]
             mi == m[i]
             qi == q[i]
             before == Carried(n, i)
             after == Carried(m, i)
             next == time + 1
  <2>1. /\ t \in TimerRecords /\ hi \in HwRecords /\ gi \in HwRecords
        /\ ni \in Nat /\ pi \in Nat /\ before \in Nat /\ next = time + 1
    BY <1>1, CarriedNatural DEF TimerSets, HwSets, Debts
  <2>2. Tracks(i, t, hi, time, ni, pi, before)
    BY DEF AllTrack
  <2>3. /\ mi \in {ni, ni + 1} /\ (mi # ni <=> i \in HwWraps(h))
        /\ qi \in {pi, pi + 1} /\ (qi # pi <=> HwTicks(h, i))
    BY <2>1
  <2>4. after \in {before, before + 1} /\ (after # before <=> i # 0 /\ i - 1 \in HwWraps(h))
    <3>1. CASE i = 0
      BY <3>1 DEF Carried
    <3>2. CASE i # 0
      <4>1. i - 1 \in TimerIds /\ before = n[i - 1] /\ after = m[i - 1] /\ n[i - 1] \in Nat
        BY <1>3, <3>2, CarriedNatural DEF Debts
      <4> QED BY <3>2, <4>1
    <3> QED BY <3>1, <3>2
  <2>5. SameSetting(t, hi) /\ (HwCountsUp(h, i) <=> Up(i, t))
    BY <2>2 DEF Tracks, SameSetting, HwCountsUp, Up
  <2>6. /\ gi.reload = hi.reload /\ gi.control = hi.control /\ gi.running = hi.running
        /\ gi.elapsed = IF HwCountsUp(h, i) \/ ~hi.running \/ HwTicks(h, i)
                        THEN 0 ELSE hi.elapsed + 1
        /\ gi.counter = IF i \in HwWraps(h) THEN hi.reload
                        ELSE IF HwTicks(h, i) THEN hi.counter + 1 ELSE hi.counter
    BY <1>1, SteppedCounter
  <2>7. HwTicks(h, i) <=>
          IF HwCountsUp(h, i) THEN hi.running /\ i # 0 /\ i - 1 \in HwWraps(h)
          ELSE hi.running /\ hi.elapsed + 1 = hi.control.tick
    BY DEF HwTicks, HwBeats, HwCountsUp, TimerIds
  <2>8. i \in HwWraps(h) <=> hi.counter = Overflow - 1 /\ HwTicks(h, i)
    BY WrapsAtMaximum
  <2> HIDE DEF t, hi, gi, ni, pi, mi, qi, before, after, next, m, q
  <2>9. SameSetting(t, gi)
    BY <2>5, <2>6 DEF SameSetting
  <2>10. /\ t.running /\ Up(i, t) => (qi # pi <=> after # before)
         /\ ~t.running => qi = pi
         /\ t.running /\ ~Up(i, t) => (qi # pi <=> hi.elapsed + 1 = t.control.tick)
         /\ mi # ni <=> qi # pi /\ hi.counter = Overflow - 1
         /\ mi # ni => gi.counter = t.reload
         /\ mi = ni => gi.counter = IF qi = pi THEN hi.counter ELSE hi.counter + 1
         /\ Up(i, t) \/ ~t.running \/ qi # pi => gi.elapsed = 0
         /\ t.running /\ ~Up(i, t) /\ qi = pi => gi.elapsed = hi.elapsed + 1
    BY <2>3, <2>4, <2>5, <2>6, <2>7, <2>8 DEF SameSetting
  <2>11. Tracks(i, t, gi, next, mi, qi, after)
    BY ONLY i \in TimerIds, time \in Nat, <2>1, <2>2, <2>3, <2>4, <2>9, <2>10, TracksTick, SMTT(30)
  <2> QED BY <2>11 DEF t, gi, mi, qi, after, next
<1>5. AllTrack(ts, g, time + 1, m, q)
  BY <1>4 DEF AllTrack
<1>6. Charged(m) = Charged(n) \cup HwWraps(h)
  BY DEF Charged, Debts, HwWraps
<1> QED BY <1>2, <1>3, <1>5, <1>6

\* The timers that overflow with timer i have overflowed before `time'.
LEMMA RunWrapped ==
  ASSUME NEW ts \in TimerSets, NEW h \in HwSets, NEW time \in Nat,
         NEW n \in Debts, NEW p \in Debts, AllTrack(ts, h, time, n, p),
         NEW i \in TimerIds, FreeRunning(ts, i), OverflowTime(ts[i]) <= time
  PROVE  OverflowsWith(ts, i) \subseteq Charged(n)
<1> DEFINE left == {j \in OverflowsWith(ts, i) : n[j] = 0}
<1>1. SUFFICES ASSUME left # {} PROVE FALSE
  BY DEF Charged, Debts, OverflowsWith
<1>2. left \in SUBSET Nat
  BY DEF OverflowsWith, TimerIds
<1>3. PICK j \in left : \A k \in left : j <= k
  BY <1>1, <1>2, NatMinimum
<1>4. /\ j \in TimerIds /\ j \in Nat /\ i \in Nat /\ j >= i /\ n[j] = 0 /\ p[j] \in Nat
      /\ j \in OverflowsWith(ts, i)
      /\ ts[j] \in TimerRecords /\ h[j] \in HwRecords
  BY DEF OverflowsWith, TimerIds, TimerSets, HwSets, Debts
<1>5. Tracks(j, ts[j], h[j], time, n[j], p[j], Carried(n, j)) /\ Carried(n, j) \in Nat
  BY <1>4, CarriedNatural DEF AllTrack
<1> DEFINE t == ts[j]
           a == [t EXCEPT !.counter = t.reload]
           u == [a EXCEPT !.start_time = OverflowTime(t)]
<1>6. /\ a \in TimerRecords /\ a.counter = t.reload /\ a.reload = t.reload
      /\ a.control = t.control /\ a.running = t.running
  BY <1>4 DEF TimerRecords
<1>7. OverflowTime(t) \in Nat
  BY <1>4, OverflowAhead
<1>8. /\ u \in TimerRecords /\ u.counter = t.reload /\ u.reload = t.reload
      /\ u.control = t.control /\ u.running = t.running /\ u.start_time = OverflowTime(t)
  <2> HIDE DEF a, t
  <2> QED BY <1>6, <1>7 DEF TimerRecords
<1> DEFINE hj == h[j]
           nj == n[j]
           pj == p[j]
           carried == Carried(n, j)
<1>t. /\ t \in TimerRecords /\ hj \in HwRecords /\ nj \in Nat /\ pj \in Nat
      /\ nj = 0 /\ carried \in Nat /\ Tracks(j, t, hj, time, nj, pj, carried)
  BY <1>4, <1>5
<1> HIDE DEF a, u, hj, nj, pj
<1>9. CASE j = i
  <2>1. t.running /\ ~Up(j, t) /\ OverflowTime(t) <= time
    BY <1>9 DEF FreeRunning, CountsUp, Up
  <2> HIDE DEF t, carried
  <2>2. nj - 1 \in Nat
    BY ONLY <1>4, <1>8, <1>t, <2>1, time \in Nat, TracksOverflow
  <2> QED BY <1>t, <2>2
<1>10. CASE j # i
  <2>1. t.running /\ Up(j, t) /\ t.counter = Overflow - 1
    BY <1>4, <1>10 DEF OverflowsWith, Cascades, CountsUp, Up
  <2>2. j # 0 /\ j - 1 \in TimerIds /\ Carried(n, j) = n[j - 1]
    BY <1>4, <1>10, CarriedNatural
  <2>3. j - 1 \in OverflowsWith(ts, i)
    BY <1>4, <1>10, <2>2 DEF OverflowsWith, TimerIds
  <2>4. n[j - 1] # 0
    <3>1. j - 1 \notin left
      BY <1>2, <1>3, <1>4
    <3> QED BY <2>3, <3>1
  <2>5. carried \in Nat \ {0}
    BY <1>5, <2>2, <2>4
  <2> HIDE DEF t, carried
  <2>6. nj - 1 \in Nat
    BY ONLY <1>4, <1>8, <1>t, <2>1, <2>5, time \in Nat, TracksCascade
  <2> QED BY <1>t, <2>6
<1> QED BY <1>9, <1>10

\* An overflow, with its cascade, is taken into the timers.
LEMMA OverflowTracks ==
  ASSUME NEW ts \in TimerSets, NEW h \in HwSets, NEW time \in Nat,
         NEW n \in Debts, NEW p \in Debts, AllTrack(ts, h, time, n, p),
         NEW i \in TimerIds, FreeRunning(ts, i), OverflowTime(ts[i]) <= time,
         NEW ws, ws = Overflowed(ts, i, OverflowTime(ts[i]))
  PROVE  \E m, q \in Debts : /\ AllTrack(ws, h, time, m, q)
                             /\ Charged(n) = Charged(m) \cup OverflowsWith(ts, i)
<1> DEFINE run == OverflowsWith(ts, i)
           ticked(j) == j - 1 \in run /\ Cascades(ts, j)
           m == [j \in TimerIds |-> IF j \in run THEN n[j] - 1 ELSE n[j]]
           q == [j \in TimerIds |-> IF j = i THEN p[j] - (Overflow - ts[j].counter)
                                    ELSE IF ticked(j) THEN p[j] - 1 ELSE p[j]]
<1>1. run \subseteq Charged(n) /\ run \subseteq TimerIds /\ i \in run
  BY RunWrapped, CascadedCountUp DEF OverflowsWith
<1>2. ws \in TimerSets
  BY OverflowAhead, OverflowedType DEF TimerSets
<1>3. ASSUME NEW j \in TimerIds
      PROVE  /\ j \in run => n[j] \in Nat \ {0} /\ m[j] = n[j] - 1
             /\ j \notin run => n[j] \in Nat /\ m[j] = n[j]
  BY <1>1 DEF Charged, Debts
<1>4. m \in Debts
  <2>1. \A j \in TimerIds : m[j] \in Nat
    BY <1>3
  <2> QED BY <2>1 DEF Debts
<1>5. ASSUME NEW j \in TimerIds
      PROVE  q[j] \in Nat /\ Tracks(j, ws[j], h[j], time, m[j], q[j], Carried(m, j))
  <2> DEFINE t == ts[j]
             u == ws[j]
             hj == h[j]
             nj == n[j]
             pj == p[j]
             before == Carried(n, j)
             after == Carried(m, j)
  <2>1. /\ t \in TimerRecords /\ u \in TimerRecords /\ hj \in HwRecords
        /\ nj \in Nat /\ pj \in Nat /\ before \in Nat /\ after \in Nat
        /\ Tracks(j, t, hj, time, nj, pj, before)
    BY <1>2, <1>4, CarriedNatural DEF TimerSets, HwSets, Debts, AllTrack
  <2>2. u.control = t.control /\ u.running = t.running
    BY OverflowedType, OverflowAhead DEF TimerSets
  <2>3. (j - 1 \in run => before \in Nat \ {0} /\ after = before - 1 /\ j # 0)
        /\ (j - 1 \notin run => after = before)
    <3>1. CASE j = 0
      <4>1. j - 1 \notin run
        BY <1>1, <3>1 DEF TimerIds
      <4> QED BY <3>1, <4>1 DEF Carried
    <3>2. CASE j # 0
      <4>1. j - 1 \in TimerIds /\ before = n[j - 1] /\ after = m[j - 1]
        BY <1>4, <3>2, CarriedNatural
      <4>2. /\ j - 1 \in run => n[j - 1] \in Nat \ {0} /\ m[j - 1] = n[j - 1] - 1
            /\ j - 1 \notin run => m[j - 1] = n[j - 1]
        BY <1>3, <4>1
      <4> HIDE DEF m
      <4> QED BY <3>2, <4>1, <4>2
    <3> QED BY <3>1, <3>2
  <2>4. CASE j = i
    <3>1. u.counter = t.reload /\ u.start_time = OverflowTime(t) /\ u.reload = t.reload
      <4>1. u = [t EXCEPT !.counter = t.reload, !.start_time = OverflowTime(t)]
        BY <1>1, <2>4 DEF Overflowed
      <4> QED BY <2>1, <4>1 DEF TimerRecords
    <3>2. t.running /\ ~Up(j, t) /\ OverflowTime(t) <= time
      BY <2>4 DEF FreeRunning, CountsUp, Up
    <3>3. m[j] = nj - 1 /\ q[j] = pj - (Overflow - t.counter)
      BY <1>1, <1>3, <2>4
    <3> HIDE DEF t, u, hj, nj, pj, before, after, m, q
    <3>4. /\ pj - (Overflow - t.counter) \in Nat
          /\ Tracks(j, u, hj, time, nj - 1, pj - (Overflow - t.counter), after)
      BY ONLY j \in TimerIds, time \in Nat, <2>1, <2>2, <3>1, <3>2, TracksOverflow
    <3> QED BY <3>3, <3>4 DEF u, hj, after
  <2>5. CASE j # i /\ j \in run
    <3>1. Cascades(ts, j) /\ t.counter = Overflow - 1 /\ j - 1 \in run
      <4>1. j > i /\ i \in Nat /\ j \in Nat
        BY <2>5 DEF OverflowsWith, TimerIds
      <4>2. j - 1 \in TimerIds
        BY <4>1, CarriedNatural
      <4>3. Cascades(ts, j) /\ t.counter = Overflow - 1
        BY <2>5, <4>1 DEF OverflowsWith
      <4>4. j - 1 \in run
        BY <2>5, <4>1, <4>2 DEF OverflowsWith, TimerIds
      <4> QED BY <4>3, <4>4
    <3>2. u.counter = t.reload /\ u.reload = t.reload
      <4>1. u = [t EXCEPT !.counter = t.reload, !.start_time = OverflowTime(ts[i])]
        BY <2>5 DEF Overflowed
      <4> QED BY <2>1, <4>1 DEF TimerRecords
    <3>3. t.running /\ Up(j, t)
      BY <3>1 DEF Cascades, CountsUp, Up
    <3>4. m[j] = nj - 1 /\ q[j] = pj - 1 /\ before \in Nat \ {0} /\ after = before - 1
      BY <1>3, <2>3, <2>5, <3>1
    <3> HIDE DEF t, u, hj, nj, pj, before, after, m, q
    <3>5. pj - 1 \in Nat /\ Tracks(j, u, hj, time, nj - 1, pj - 1, before - 1)
      BY ONLY j \in TimerIds, time \in Nat, <2>1, <2>2, <3>1, <3>2, <3>3, <3>4, TracksCascade
    <3> QED BY <3>4, <3>5 DEF u, hj, after
  <2>6. CASE j \notin run /\ ticked(j)
    <3>1. u.counter = t.counter + 1 /\ u.reload = t.reload
      <4>1. u = [t EXCEPT !.counter = t.counter + 1]
        BY <2>6 DEF Overflowed
      <4> QED BY <2>1, <4>1 DEF TimerRecords
    <3>2. t.running /\ Up(j, t)
      BY <2>6 DEF Cascades, CountsUp, Up
    <3>3. m[j] = nj /\ q[j] = pj - 1 /\ before \in Nat \ {0} /\ after = before - 1
      BY <1>1, <1>3, <2>3, <2>6
    <3> HIDE DEF t, u, hj, nj, pj, before, after, m, q
    <3>4. pj - 1 \in Nat /\ Tracks(j, u, hj, time, nj, pj - 1, before - 1)
      BY ONLY j \in TimerIds, time \in Nat, <2>1, <2>2, <3>1, <3>2, <3>3, TracksCarried
    <3> QED BY <3>3, <3>4 DEF u, hj, after
  <2>7. CASE j \notin run /\ ~ticked(j)
    <3>1. u = t
      BY <2>7 DEF Overflowed
    <3>2. m[j] = nj /\ q[j] = pj
      BY <1>1, <1>3, <2>7
    <3>3. t.running /\ Up(j, t) => after = before
      BY <2>3, <2>7 DEF Cascades, CountsUp, Up
    <3> HIDE DEF t, u, hj, nj, pj, before, after, m, q
    <3>4. Tracks(j, u, hj, time, nj, pj, after)
      BY <2>1, <3>1, <3>3 DEF Tracks
    <3> QED BY <2>1, <3>2, <3>4 DEF u, hj, after
  <2> QED BY <2>4, <2>5, <2>6, <2>7
<1>6. q \in Debts
  <2>1. \A j \in TimerIds : q[j] \in Nat
    BY <1>5
  <2> QED BY <2>1 DEF Debts
<1>7. AllTrack(ws, h, time, m, q)
  <2> HIDE DEF m, q
  <2> QED BY <1>5 DEF AllTrack
<1>8. Charged(n) = Charged(m) \cup run
  <2>1. ASSUME NEW j \in TimerIds PROVE n[j] > 0 <=> m[j] > 0 \/ j \in run
    <3> HIDE DEF m, run
    <3> QED BY <1>3
  <2> HIDE DEF m, run
  <2> QED BY <1>1, <2>1 DEF Charged
<1> HIDE DEF m, q
<1> QED BY <1>4, <1>6, <1>7, <1>8

-----------------------------------------------------------------------------
(***************************************************************************)
(* The invariant of the two together: at the cycle the counters have       *)
(* reached, each timer lacks some overflows of its counter, and the        *)
(* interrupts the counters have requested are the timers' and theirs.      *)
(***************************************************************************)
Owed(ts, n) == {i \in Charged(n) : ts[i].control.irq}

LockInv ==
  /\ behind \in Nat /\ behind <= sched.now
  /\ behind > 0 => phase = "dispatch"
  /\ hw \in HwSets
  /\ \E n, p \in Debts : /\ AllTrack(timers, hw, sched.now - behind, n, p)
                         /\ hwflag = iflag \cup Owed(timers, n)

NoneDue == \A i \in TimerIds : FreeRunning(timers, i) => sched.now < OverflowTime(timers[i])

\* Nothing is lacking.
Level(ts, h, time, p) == \A i \in TimerIds : Tracks(i, ts[i], h[i], time, 0, p[i], 0)

LEMMA InvTypes ==
  ASSUME Inv
  PROVE  timers \in TimerSets /\ sched.now \in Nat /\ sched \in Schedulers
  BY DEF Inv, TypeOK, TimerSets, Schedulers

LEMMA QuietLevel ==
  ASSUME Inv, LockInv, behind = 0, NoneDue
  PROVE  hwflag = iflag /\ \E p \in Debts : Level(timers, hw, sched.now, p)
<1>1. PICK n, p \in Debts : /\ AllTrack(timers, hw, sched.now - behind, n, p)
                            /\ hwflag = iflag \cup Owed(timers, n)
  BY DEF LockInv
<1>2. AllTrack(timers, hw, sched.now, n, p)
  BY <1>1, InvTypes
<1>3. \A i \in TimerIds : n[i] = 0 /\ Carried(n, i) = 0
  BY <1>2, InvTypes, QuietTracks DEF LockInv, NoneDue
<1>4. Level(timers, hw, sched.now, p)
  BY <1>2, <1>3 DEF AllTrack, Level
<1>5. Owed(timers, n) = {}
  BY <1>3 DEF Owed, Charged
<1> QED BY <1>1, <1>4, <1>5

LEMMA LevelLocks ==
  ASSUME NEW ts, NEW h, NEW time, NEW p \in Debts, Level(ts, h, time, p)
  PROVE  \E n \in Debts : AllTrack(ts, h, time, n, p) /\ Owed(ts, n) = {}
<1> DEFINE none == [i \in TimerIds |-> 0]
<1>1. none \in Debts /\ \A i \in TimerIds : none[i] = 0
  BY DEF Debts
<1> HIDE DEF none
<1>2. \A i \in TimerIds : Carried(none, i) = 0
  BY <1>1, CarriedNatural DEF Carried
<1>3. AllTrack(ts, h, time, none, p)
  BY <1>1, <1>2 DEF AllTrack, Level
<1>4. Owed(ts, none) = {}
  BY <1>1 DEF Owed, Charged
<1> QED BY <1>1, <1>3, <1>4

LEMMA ControlLocks ==
  ASSUME Inv, LockInv, behind = 0, NoneDue, NEW i \in TimerIds, NEW c \in Controls,
         KeepsPrescaler(i, c), timers' = WithControl(timers, i, c, sched.now), HwWrite(i, c),
         sched'.now = sched.now, iflag' = iflag
  PROVE  LockInv'
<1>1. timers \in TimerSets /\ sched.now \in Nat /\ hw \in HwSets
  BY InvTypes DEF LockInv
<1>2. hwflag = iflag
  BY QuietLevel
<1>3. PICK p \in Debts : Level(timers, hw, sched.now, p)
  BY QuietLevel
<1>4. hw' = HwWritten(hw, i, c) /\ hwflag' = hwflag /\ behind' = behind
  BY DEF HwWrite
<1>5. hw' \in HwSets /\ \A j \in TimerIds \ {i} : hw'[j] = hw[j]
  BY <1>1, <1>4, WrittenCounter
<1>6. \A j \in TimerIds \ {i} : timers'[j] = timers[j]
  BY <1>1, ControlWritten
<1>7. Tracks(i, timers'[i], hw'[i], sched.now, 0, 0, 0)
  <2>1. p[i] \in Nat /\ Tracks(i, timers[i], hw[i], sched.now, 0, p[i], 0)
    BY <1>3 DEF Debts, Level
  <2>2. timers[i].running /\ c.start => c.tick = timers[i].control.tick
    BY DEF KeepsPrescaler
  <2> QED BY <1>1, <1>4, <2>1, <2>2, TracksControl
<1> DEFINE q == [p EXCEPT ![i] = 0]
<1>8. q \in Debts /\ q[i] = 0 /\ \A j \in TimerIds \ {i} : q[j] = p[j]
  BY DEF Debts
<1> HIDE DEF q
<1>9. Level(timers', hw', sched.now, q)
  <2>1. ASSUME NEW j \in TimerIds, j # i
        PROVE  Tracks(j, timers'[j], hw'[j], sched.now, 0, q[j], 0)
    BY <1>3, <1>5, <1>6, <1>8, <2>1 DEF Level
  <2> QED BY <1>7, <1>8, <2>1 DEF Level
<1>10. PICK n \in Debts : AllTrack(timers', hw', sched.now, n, q) /\ Owed(timers', n) = {}
  BY <1>8, <1>9, LevelLocks
<1>11. sched'.now - behind' = sched.now
  BY <1>1, <1>4
<1>12. hwflag' = iflag' \cup Owed(timers', n)
  BY <1>2, <1>4, <1>10
<1> QED BY <1>1, <1>4, <1>5, <1>8, <1>10, <1>11, <1>12 DEF LockInv

LEMMA LockInitInv == LockInit => LockInv
<1> SUFFICES ASSUME LockInit PROVE LockInv
  OBVIOUS
<1>1. Inv /\ timers = [i \in TimerIds |-> FreshTimer] /\ iflag = {} /\ sched.now \in Nat
  BY InitInv, InvTypes DEF LockInit, Init
<1>2. sched.now = 0
  <2>1. IdleScheduler \in Schedulers /\ HBlankStart \in Events /\ LineCycles \in Nat
    BY IdleFresh, EventNumbers, UnitAssumption DEF Fresh
  <2>2. sched.now = IdleScheduler.now
    BY <2>1, ScheduledFresh DEF LockInit, Init
  <2> QED BY <2>2 DEF IdleScheduler
<1>3. behind = 0 /\ hwflag = {} /\ hw = [i \in TimerIds |-> HwFresh(timers[i])]
  BY DEF LockInit
<1> DEFINE none == [i \in TimerIds |-> 0]
<1>4. none \in Debts /\ \A i \in TimerIds : none[i] = 0
  BY DEF Debts
<1> HIDE DEF none
<1>5. ASSUME NEW i \in TimerIds
      PROVE  hw[i] \in HwRecords /\ Tracks(i, timers[i], hw[i], sched.now, 0, none[i], 0)
  <2> DEFINE t == FreshTimer
             h == HwFresh(t)
             no == FALSE
  <2>1. t = [reload |-> 0, counter |-> 0, start_time |-> 0, running |-> no, control |-> t.control]
        /\ t.control \in Controls /\ 0 \in Counters /\ no \in BOOLEAN /\ ~no
    BY TimersAssumption DEF FreshTimer, Controls, Counters
  <2> HIDE DEF t, no
  <2>2. h = [reload |-> 0, control |-> t.control, counter |-> 0, elapsed |-> 0, running |-> no]
    BY <2>1 DEF HwFresh
  <2> HIDE DEF h
  <2>3. h \in HwRecords
    BY <2>1, <2>2 DEF HwRecords
  <2>4. SameSetting(t, h) /\ t.counter = 0 /\ h.counter = 0 /\ t.reload = 0 /\ h.elapsed = 0
        /\ ~t.running
    BY <2>1, <2>2 DEF SameSetting
  <2>5. Adds(t, h, 0, 0)
    BY <2>4, TimersAssumption DEF Adds
  <2>6. Tracks(i, t, h, sched.now, 0, 0, 0)
    BY <2>4, <2>5 DEF Tracks
  <2>7. timers[i] = t /\ hw[i] = h
    BY <1>1, <1>3 DEF t, h
  <2> QED BY <1>4, <2>3, <2>6, <2>7
<1>6. hw \in HwSets
  BY <1>3, <1>5 DEF HwSets
<1>7. PICK n \in Debts : AllTrack(timers, hw, sched.now, n, none) /\ Owed(timers, n) = {}
  <2>1. Level(timers, hw, sched.now, none)
    BY <1>5 DEF Level
  <2> QED BY <1>4, <2>1, LevelLocks
<1>8. sched.now - behind = sched.now
  BY <1>1, <1>3
<1> QED BY <1>1, <1>2, <1>3, <1>4, <1>6, <1>7, <1>8 DEF LockInv

\* Every step of the two together is a step of the timers.
LEMMA LockSteps == [LockNext]_lvars => [Next]_vars
  BY DEF LockNext, lvars, HwTick, Together, Next

\* The start of an instruction finds nothing due.
LEMMA ExecuteQuiet ==
  ASSUME Inv, OrderInv, phase = "execute" PROVE NoneDue
<1> SUFFICES ASSUME NEW i \in TimerIds, FreeRunning(timers, i)
             PROVE  sched.now < OverflowTime(timers[i])
  BY DEF NoneDue
<1>1. sched.deadlines[TimerEvent(i)] = OverflowTime(timers[i]) /\ OverflowTime(timers[i]) \in Nat
  BY InvTypes, OverflowAhead DEF Inv, ArmedExactly, TimerSets
<1>2. TimerEvent(i) \in Events /\ IsScheduled(sched, TimerEvent(i))
  BY <1>1, EventNumbers DEF IsScheduled, Unscheduled
<1> QED BY <1>1, <1>2 DEF OrderInv

LEMMA LockNextInv ==
  ASSUME ~LivePrescaler, ~DmaOverdue, Inv, OrderInv, LockInv, [LockNext]_lvars
  PROVE  LockInv'
<1> USE UnitAssumption
<1>0. /\ timers \in TimerSets /\ sched.now \in Nat /\ sched \in Schedulers
      /\ hw \in HwSets /\ behind \in Nat /\ stall \in Nat
  BY InvTypes DEF LockInv, Inv, TypeOK
<1> DEFINE Debt(n, p) == /\ AllTrack(timers, hw, sched.now - behind, n, p)
                         /\ hwflag = iflag \cup Owed(timers, n)
<1>n. PICK n \in Debts, p \in Debts : Debt(n, p)
  BY DEF LockInv
<1>1. ASSUME HwTick PROVE LockInv'
  <2>1. behind > 0 /\ behind' = behind - 1 /\ UNCHANGED vars
        /\ hw' = [i \in TimerIds |-> HwStep(hw, i)]
        /\ hwflag' = hwflag \cup {i \in HwWraps(hw) : hw[i].control.irq}
    BY <1>1 DEF HwTick
  <2> DEFINE time == sched.now - behind
  <2>2. time \in Nat /\ sched'.now - behind' = time + 1 /\ behind' \in Nat /\ behind' <= sched'.now
    BY <1>0, <2>1 DEF vars, LockInv
  <2>a. AllTrack(timers, hw, time, n, p)
    BY <1>n
  <2> HIDE DEF time
  <2>3. hw' \in HwSets /\ \E m, q \in Debts : /\ AllTrack(timers, hw', time + 1, m, q)
                                              /\ Charged(m) = Charged(n) \cup HwWraps(hw)
    BY <1>0, <2>1, <2>2, <2>a, TickTracks
  <2>4. PICK m \in Debts, q \in Debts : /\ AllTrack(timers, hw', time + 1, m, q)
                                        /\ Charged(m) = Charged(n) \cup HwWraps(hw)
    BY <2>3
  <2>5. \A i \in TimerIds : hw[i].control = timers[i].control
    BY <2>a DEF AllTrack, Tracks, SameSetting
  <2>6. Owed(timers, m) = Owed(timers, n) \cup {i \in HwWraps(hw) : hw[i].control.irq}
    BY <2>4, <2>5 DEF Owed, HwWraps
  <2>7. hwflag' = iflag \cup Owed(timers, m)
    BY <1>n, <2>1, <2>6
  <2>8. phase = "dispatch"
    BY <2>1 DEF LockInv
  <2> QED BY <2>1, <2>2, <2>3, <2>4, <2>7, <2>8 DEF vars, LockInv
<1>2. ASSUME behind = 0, phase = "execute"
      PROVE  NoneDue /\ hwflag = iflag /\ \E r \in Debts : Level(timers, hw, sched.now, r)
  BY <1>2, ExecuteQuiet, QuietLevel
<1>3. ASSUME behind = 0, NEW i \in TimerIds, NEW v \in Reloads, WriteReload(i, v), HwReload(i, v)
      PROVE  LockInv'
  <2>1. /\ timers' = WithReload(timers, i, v) /\ hw' = [hw EXCEPT ![i].reload = v]
        /\ phase = "execute" /\ sched' = sched /\ iflag' = iflag /\ hwflag' = hwflag
        /\ behind' = behind
    BY <1>3 DEF WriteReload, HwReload
  <2>2. PICK r \in Debts : Level(timers, hw, sched.now, r)
    BY <1>2, <1>3, <2>1
  <2>3. v \in Counters
    BY <1>3
  <2> DEFINE t == timers[i]
             h == hw[i]
             u == [t EXCEPT !.reload = v]
             g == [h EXCEPT !.reload = v]
  <2>4. t \in TimerRecords /\ h \in HwRecords
    BY <1>0 DEF TimerSets, HwSets
  <2>5. timers' = [timers EXCEPT ![i] = u] /\ hw' = [hw EXCEPT ![i] = g]
    BY <1>0, <2>1 DEF WithReload, TimerSets, HwSets
  <2>6. /\ u \in TimerRecords /\ u.reload = v /\ u.counter = t.counter /\ u.control = t.control
        /\ u.running = t.running /\ u.start_time = t.start_time
    BY <2>3, <2>4 DEF TimerRecords
  <2>7. /\ g \in HwRecords /\ g.reload = v /\ g.counter = h.counter /\ g.control = h.control
        /\ g.running = h.running /\ g.elapsed = h.elapsed
    BY <2>3, <2>4 DEF HwRecords
  <2> HIDE DEF u, g
  <2>8. /\ hw' \in HwSets /\ hw'[i] = g /\ timers'[i] = u
        /\ \A j \in TimerIds \ {i} : hw'[j] = hw[j] /\ timers'[j] = timers[j]
    BY <1>0, <2>5, <2>7 DEF TimerSets, HwSets
  <2>9. Tracks(i, u, g, sched.now, 0, r[i], 0)
    <3>1. Tracks(i, t, h, sched.now, 0, r[i], 0)
      BY <2>2 DEF Level
    <3> HIDE DEF t, h
    <3>2. SameSetting(u, g) /\ (Up(i, u) <=> Up(i, t))
      BY <2>6, <2>7, <3>1 DEF Tracks, SameSetting, Up
    <3>3. Beats(t, h, sched.now, r[i]) <=> Beats(u, g, sched.now, r[i])
      BY <2>6, <2>7 DEF Beats
    <3>4. Adds(u, g, 0, r[i])
      <4>1. 0 * (Overflow - t.reload) = 0 /\ 0 * (Overflow - u.reload) = 0
        BY <2>4, <2>6, BothFields
      <4>2. t.counter + r[i] = h.counter + 0 * (Overflow - t.reload)
        BY <3>1 DEF Tracks, Adds
      <4> QED BY <2>6, <2>7, <4>1, <4>2 DEF Adds
    <3> QED BY <2>6, <2>7, <3>1, <3>2, <3>3, <3>4 DEF Tracks
  <2>10. Level(timers', hw', sched.now, r)
    BY <2>2, <2>8, <2>9 DEF Level
  <2>a. hwflag' = iflag'
    BY <1>2, <1>3, <2>1
  <2>11. PICK m \in Debts : AllTrack(timers', hw', sched.now, m, r) /\ Owed(timers', m) = {}
    BY <2>10, LevelLocks
  <2>12. sched'.now - behind' = sched.now
    BY <1>0, <1>3, <2>1
  <2>13. hwflag' = iflag' \cup Owed(timers', m)
    BY <2>a, <2>11
  <2>14. behind' \in Nat /\ behind' <= sched'.now /\ ~(behind' > 0)
    BY <1>0, <1>3, <2>1
  <2> QED BY <2>8, <2>11, <2>12, <2>13, <2>14 DEF LockInv
<1>4. ASSUME behind = 0, NEW i \in TimerIds, NEW c \in Programs,
             WriteControl(i, c), HwWrite(i, c)
      PROVE  LockInv'
  <2>1. /\ timers' = WithControl(timers, i, c, sched.now) /\ sched' = Armed(timers', i, sched)
        /\ KeepsPrescaler(i, c) /\ phase = "execute" /\ iflag' = iflag /\ c \in Controls
    BY <1>4 DEF WriteControl
  <2>2. timers' \in TimerSets
    BY <1>0, <2>1, ControlWritten
  <2>3. sched'.now = sched.now
    <3>1. sched' = Armed(timers', i, sched) /\ sched \in Schedulers
      BY <1>0, <2>1
    <3> QED BY ONLY i \in TimerIds, <2>2, <3>1, ArmedDeadlines
  <2> QED BY <1>2, <1>4, <2>1, <2>3, ControlLocks
<1>5. ASSUME behind = 0, NEW i \in TimerIds, Acknowledge(i), HwAcknowledge(i) PROVE LockInv'
  <2>1. /\ phase = "execute" /\ UNCHANGED <<sched, timers, phase, hw, behind>>
        /\ iflag' = iflag \ {i} /\ hwflag' = hwflag \ {i}
    BY <1>5 DEF Acknowledge, HwAcknowledge
  <2>2. hwflag' = iflag'
    BY <1>2, <1>5, <2>1
  <2>3. PICK r \in Debts : Level(timers, hw, sched.now, r)
    BY <1>2, <1>5, <2>1
  <2>4. PICK m \in Debts : AllTrack(timers, hw, sched.now, m, r) /\ Owed(timers, m) = {}
    BY <2>3, LevelLocks
  <2>5. sched.now - behind = sched.now
    BY <1>0, <1>5
  <2> QED BY <1>0, <1>5, <2>1, <2>2, <2>4, <2>5 DEF LockInv
<1>6. ASSUME behind = 0, NEW c \in Nat, sched' = Advanced(sched, c), HwPass(c),
             phase' = "dispatch", UNCHANGED <<timers, iflag>>
      PROVE  LockInv'
  <2>1. sched'.now = sched.now + c
    BY <1>0, <1>6 DEF Advanced, Schedulers
  <2>2. behind' = c /\ hw' = hw /\ hwflag' = hwflag
    BY <1>0, <1>6 DEF HwPass
  <2>3. sched'.now - behind' = sched.now - behind /\ behind' <= sched'.now
    BY <1>0, <1>6, <2>1, <2>2
  <2> QED BY <1>0, <1>6, <2>2, <2>3, <1>n DEF LockInv
<1>7. ASSUME behind = 0, NEW i \in TimerIds, TimerOverflow(i), HwWaits PROVE LockInv'
  <2> DEFINE t == sched.deadlines[TimerEvent(i)]
  <2>1. /\ FreeRunning(timers, i) /\ sched'.now = sched.now
        /\ timers' = Overflowed(timers, i, t)
    BY <1>7, OverflowDeadlines
  <2>2. t = OverflowTime(timers[i]) /\ t <= sched.now
    <3>1. t <= sched.now
      BY <1>7, EventNumbers, DispatchedEvent DEF TimerOverflow
    <3> QED BY <2>1, <3>1 DEF Inv, ArmedExactly
  <2>3. iflag' = iflag \cup OverflowRequests(timers, i) /\ phase' = "dispatch"
    BY <1>7, <2>1 DEF TimerOverflow, TakesOverflow, Dispatching
  <2> HIDE DEF t
  <2>4. AllTrack(timers, hw, sched.now, n, p)
    BY <1>0, <1>7, <1>n
  <2>5. PICK m \in Debts, q \in Debts :
          /\ AllTrack(timers', hw, sched.now, m, q)
          /\ Charged(n) = Charged(m) \cup OverflowsWith(timers, i)
    BY <1>0, <2>1, <2>2, <2>4, OverflowTracks
  <2>6. \A j \in TimerIds : timers'[j].control = timers[j].control
    BY <1>0, <2>1, <2>2, OverflowAhead, OverflowedType DEF TimerSets
  <2>7. Owed(timers, n) = Owed(timers', m) \cup OverflowRequests(timers, i)
    BY <2>5, <2>6 DEF Owed, Charged, OverflowRequests, OverflowsWith
  <2>8. hwflag' = iflag' \cup Owed(timers', m)
    BY <1>7, <1>n, <2>3, <2>7 DEF HwWaits
  <2>9. sched'.now - behind' = sched.now
    BY <1>0, <1>7, <2>1 DEF HwWaits
  <2> QED BY <1>0, <1>7, <2>1, <2>3, <2>5, <2>8, <2>9 DEF LockInv, HwWaits
<1>8. ASSUME behind = 0, sched'.now = sched.now, UNCHANGED <<timers, iflag>>, HwWaits
      PROVE  LockInv'
  BY <1>0, <1>8, <1>n DEF LockInv, HwWaits
<1>9. ASSUME behind = 0, HBlank, HwWaits PROVE LockInv'
  <2> DEFINE popped == Popped(sched, HBlankStart)
             next == sched.deadlines[HBlankStart] + LineCycles
  <2>1. HBlankStart \in Events /\ Dispatching(HBlankStart)
    BY <1>9, EventNumbers DEF HBlank
  <2>2. popped \in Schedulers /\ popped.now = sched.now /\ next \in Nat
    <3>1. popped \in Schedulers /\ popped.now = sched.now
      BY <1>0, <2>1, CancelledFresh DEF Popped, Fresh
    <3>2. sched.deadlines[HBlankStart] \in Nat
      BY <2>1, DispatchedEvent
    <3> QED BY <3>1, <3>2
  <2>3. sched' = ScheduledAt(popped, HBlankStart, next)
    BY <1>9 DEF HBlank
  <2> HIDE DEF popped, next
  <2>4. sched'.now = sched.now
    BY ONLY <2>1, <2>2, <2>3, ScheduledFresh, ZenonT(60)
  <2> QED BY <1>8, <1>9, <2>4 DEF HBlank
<1>10. ASSUME behind = 0, NEW i \in TimerIds, NEW c \in Programs, HBlankDma(i, c), HwWrite(i, c)
       PROVE  LockInv'
  <2> DEFINE popped == Popped(sched, HBlankStart)
             next == sched.deadlines[HBlankStart] + LineCycles
             armed == Armed(timers', i, popped)
  <2>1. HBlankStart \in Events /\ Dispatching(HBlankStart)
    BY <1>10, EventNumbers DEF HBlankDma
  <2>2. popped \in Schedulers /\ popped.now = sched.now /\ next \in Nat
    <3>1. popped \in Schedulers /\ popped.now = sched.now
      BY <1>0, <2>1, CancelledFresh DEF Popped, Fresh
    <3>2. sched.deadlines[HBlankStart] \in Nat
      BY <2>1, DispatchedEvent
    <3> QED BY <3>1, <3>2
  <2>3. /\ timers' = WithControl(timers, i, c, sched.now) /\ KeepsPrescaler(i, c)
        /\ sched' = ScheduledAt(armed, HBlankStart, next) /\ iflag' = iflag /\ c \in Controls
    BY <1>10 DEF HBlankDma
  <2>4. timers' \in TimerSets
    BY <1>0, <2>3, ControlWritten
  <2> HIDE DEF popped, next
  <2>5. armed \in Schedulers /\ armed.now = sched.now
    BY ONLY i \in TimerIds, <2>2, <2>4, ArmedDeadlines DEF Fresh
  <2> HIDE DEF armed
  <2>6. sched'.now = sched.now
    BY ONLY <2>1, <2>2, <2>3, <2>5, ScheduledFresh
  <2>7. NoneDue
    <3> SUFFICES ASSUME NEW j \in TimerIds, FreeRunning(timers, j)
                 PROVE  sched.now < OverflowTime(timers[j])
      BY DEF NoneDue
    <3>1. /\ sched.deadlines[TimerEvent(j)] = OverflowTime(timers[j])
          /\ OverflowTime(timers[j]) \in Nat
      BY <1>0, OverflowAhead DEF Inv, ArmedExactly, TimerSets
    <3>2. TimerEvent(j) \in Events /\ TimerEvent(j) \notin DueEvents(sched)
      BY <1>10, EventNumbers DEF HBlankDma
    <3> QED BY <1>0, <3>1, <3>2 DEF DueEvents, IsScheduled, Unscheduled
  <2> QED BY <1>10, <2>3, <2>6, <2>7, ControlLocks
<1>11. ASSUME behind = 0, Settle, HwWaits PROVE LockInv'
  BY <1>8, <1>11 DEF Settle
<1>12. ASSUME behind = 0, NEW c \in Cycles, Instruction(c), HwPass(c) PROVE LockInv'
  BY <1>6, <1>12 DEF Instruction
<1>13. ASSUME behind = 0, TakeStall, HwPass(stall) PROVE LockInv'
  BY <1>0, <1>6, <1>13 DEF TakeStall
<1>14. ASSUME UNCHANGED lvars PROVE LockInv'
  BY <1>14, <1>n DEF lvars, vars, LockInv
<1> QED BY <1>1, <1>3, <1>4, <1>5, <1>7, <1>9, <1>10, <1>11, <1>12, <1>13, <1>14
        DEF LockNext, Together

\* What an instruction reads.
LEMMA LockReads ==
  ASSUME Inv, OrderInv, LockInv PROVE NeverDrifts
<1> SUFFICES ASSUME phase = "execute"
             PROVE  /\ \A i \in TimerIds : /\ Counter(timers, i, sched.now) = hw[i].counter
                                           /\ timers[i].running = hw[i].running
                    /\ iflag = hwflag
  BY DEF NeverDrifts
<1>1. behind = 0
  BY DEF LockInv
<1>2. iflag = hwflag
  BY <1>1, ExecuteQuiet, QuietLevel
<1>3. PICK p \in Debts : Level(timers, hw, sched.now, p)
  BY <1>1, ExecuteQuiet, QuietLevel
<1>4. ASSUME NEW i \in TimerIds
      PROVE  Counter(timers, i, sched.now) = hw[i].counter /\ timers[i].running = hw[i].running
  <2>1. /\ timers \in TimerSets /\ hw \in HwSets /\ sched.now \in Nat /\ p[i] \in Nat
        /\ Tracks(i, timers[i], hw[i], sched.now, 0, p[i], 0)
    BY <1>3, InvTypes DEF LockInv, Debts, Level
  <2>2. Counter(timers, i, sched.now) = hw[i].counter
    BY <2>1, TracksCounter
  <2> QED BY <2>1, <2>2 DEF Tracks, SameSetting
<1> QED BY <1>2, <1>4

(***************************************************************************)
(* A program reads the counters, and finds the interrupts, of timers that  *)
(* count every cycle, if it keeps the prescaler of a running timer and no  *)
(* HBlank DMA writes a control while an overflow is due.                   *)
(***************************************************************************)
THEOREM ReadsAreExact ==
  ASSUME ~LivePrescaler, ~DmaOverdue
  PROVE  LockSpec => []NeverDrifts
<1>1. LockInit => Inv /\ OrderInv /\ LockInv
  BY InitInv, InitOrder, LockInitInv DEF LockInit
<1>2. Inv /\ OrderInv /\ LockInv /\ [LockNext]_lvars => (Inv /\ OrderInv /\ LockInv)'
  BY LockSteps, NextInv, NextOrder, LockNextInv
<1>3. Inv /\ OrderInv /\ LockInv => NeverDrifts
  BY LockReads
<1> QED BY <1>1, <1>2, <1>3, PTL DEF LockSpec
================================================================================
