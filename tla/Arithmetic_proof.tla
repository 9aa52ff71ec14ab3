---------------------------- MODULE Arithmetic_proof ----------------------------
(***************************************************************************)
(* What the proofs need of the natural numbers: least elements, induction, *)
(* primitive recursion, products and divisions.                            *)
(*                                                                         *)
(* Induction and recursion are stated about sets and functions, not about  *)
(* operators, so that they can be cited for any formula.                   *)
(***************************************************************************)
EXTENDS Rounds, WellFoundedInduction, TLAPS

Less == {p \in Nat \X Nat : p[1] < p[2]}

\* The order of the natural numbers, as the relation WFMin wants.
LEMMA LessWellFounded == IsWellFoundedOn(Less, Nat)
  BY NatLessThanWellFounded DEF OpToRel, Less

\* Every nonempty set of times has a first one.
LEMMA NatMinimum ==
  ASSUME NEW T \in SUBSET Nat, T # {}
  PROVE  \E x \in T : \A y \in T : x <= y
<1>1. PICK x \in T : \A y \in T : ~(<<y, x>> \in Less)
  BY LessWellFounded, WFMin
<1>2. ASSUME NEW y \in T PROVE x <= y
  <2>1. ~(y < x)
    BY <1>1 DEF Less
  <2> QED BY <2>1
<1> QED BY <1>2

\* Induction: a set of numbers with 0 and every successor has them all.
LEMMA NatInduct ==
  ASSUME NEW T, 0 \in T, \A n \in Nat : n \in T => n + 1 \in T
  PROVE  Nat \subseteq T
<1>1. SUFFICES ASSUME NEW k \in Nat, k \notin T PROVE FALSE
  OBVIOUS
<1> DEFINE U == {n \in Nat : n \notin T}
<1>2. PICK x \in U : \A y \in U : x <= y
  BY <1>1, NatMinimum
<1>3. x \in Nat /\ x # 0
  OBVIOUS
<1>4. x - 1 \in Nat /\ x - 1 \notin U
  BY <1>2, <1>3
<1>5. (x - 1) + 1 \in T
  BY <1>4
<1> QED BY <1>3, <1>5

\* The same up to a bound.
LEMMA UpToInduct ==
  ASSUME NEW n \in Nat, NEW T, 0 \in T, \A k \in 0 .. n - 1 : k \in T => k + 1 \in T
  PROVE  0 .. n \subseteq T
<1> DEFINE U == {k \in Nat : k <= n => k \in T}
<1>1. 0 \in U
  OBVIOUS
<1>2. ASSUME NEW k \in Nat, k \in U PROVE k + 1 \in U
  <2>1. CASE k + 1 <= n
    BY <1>2, <2>1
  <2>2. CASE ~(k + 1 <= n)
    BY <2>2
  <2> QED BY <2>1, <2>2
<1> HIDE DEF U
<1>3. Nat \subseteq U
  BY <1>1, <1>2, NatInduct
<1> QED BY <1>3 DEF U

\* Primitive recursion: from a start in S, by a step given as a function.
Follows(h, start, step, n) ==
  /\ h[0] = start
  /\ \A i \in 0 .. n - 1 : h[i + 1] = step[<<i + 1, h[i]>>]

LEMMA Recursion ==
  ASSUME NEW S, NEW start \in S, NEW n \in Nat, NEW step \in [(1 .. n) \X S -> S]
  PROVE  \E h \in [0 .. n -> S] : Follows(h, start, step, n)
<1> DEFINE T == {k \in 0 .. n : \E h \in [0 .. k -> S] : Follows(h, start, step, k)}
<1>1. 0 \in T
  <2> DEFINE h == [i \in 0 .. 0 |-> start]
  <2>1. h \in [0 .. 0 -> S] /\ Follows(h, start, step, 0)
    BY DEF Follows
  <2> QED BY <2>1
<1>2. ASSUME NEW k \in 0 .. n - 1, k \in T PROVE k + 1 \in T
  <2>1. PICK h \in [0 .. k -> S] : Follows(h, start, step, k)
    BY <1>2
  <2>2. k \in Nat /\ h[k] \in S /\ k + 1 \in 1 .. n /\ <<k + 1, h[k]>> \in (1 .. n) \X S
    BY <2>1
  <2> DEFINE last == step[<<k + 1, h[k]>>]
             g == [i \in 0 .. (k + 1) |-> IF i = k + 1 THEN last ELSE h[i]]
  <2>3. last \in S
    BY <2>2
  <2>4. g \in [0 .. (k + 1) -> S]
    <3> HIDE DEF last
    <3> QED BY <2>2, <2>3
  <2>5. g[0] = start
    BY <2>1, <2>2 DEF Follows
  <2>6. ASSUME NEW i \in 0 .. k PROVE g[i + 1] = step[<<i + 1, g[i]>>]
    <3>1. g[i] = h[i]
      BY <2>2
    <3>2. CASE i = k
      <4>1. g[k + 1] = last
        BY <2>2
      <4>2. g[k] = h[k]
        BY <3>1, <3>2
      <4> HIDE DEF g
      <4> QED BY <3>2, <4>1, <4>2
    <3>3. CASE i # k
      <4>1. g[i + 1] = h[i + 1] /\ i \in 0 .. k - 1
        BY <2>2, <3>3
      <4> QED BY <2>1, <3>1, <4>1 DEF Follows
    <3> QED BY <3>2, <3>3
  <2>7. Follows(g, start, step, k + 1)
    <3> HIDE DEF g, last
    <3> QED BY <2>2, <2>5, <2>6 DEF Follows
  <2> HIDE DEF g
  <2>8. k + 1 \in 0 .. n
    BY <2>2
  <2> QED BY <2>4, <2>7, <2>8
<1> HIDE DEF T
<1>3. 0 .. n \subseteq T
  BY <1>1, <1>2, UpToInduct
<1>4. n \in T
  BY <1>3
<1> QED BY <1>4 DEF T

\* What follows from the start is what the loop computes.
LEMMA RoundsAre ==
  ASSUME NEW S, NEW n \in Nat, NEW start, NEW step, NEW h \in [0 .. n -> S],
         Follows(h, start, step, n)
  PROVE  Rounds(start, step, n) = h[n]
<1> DEFINE body(a, k) == IF k = 0 THEN start ELSE step[<<k, a[k - 1]>>]
           after == CHOOSE a : a = [k \in 0 .. n |-> body(a, k)]
<1>2. h = [k \in 0 .. n |-> body(h, k)]
  <2>1. ASSUME NEW k \in 0 .. n PROVE h[k] = body(h, k)
    <3>1. CASE k = 0
      BY <3>1 DEF Follows
    <3>2. CASE k # 0
      <4>1. k - 1 \in 0 .. n - 1 /\ (k - 1) + 1 = k
        BY <3>2
      <4> QED BY <3>2, <4>1 DEF Follows
    <3> QED BY <3>1, <3>2
  <2> HIDE DEF body
  <2> QED BY <2>1
<1>3. after = [k \in 0 .. n |-> body(after, k)]
  <2> HIDE DEF body
  <2> QED BY <1>2
<1>4. Rounds(start, step, n) = after[n]
  BY DEF Rounds
<1>5. \A k \in 0 .. n : after[k] = body(after, k)
  <2> HIDE DEF after, body
  <2> QED BY <1>3
<1> HIDE DEF after
<1>6. after[0] = start
  <2>1. 0 \in 0 .. n
    OBVIOUS
  <2>2. after[0] = body(after, 0)
    <3> HIDE DEF body
    <3> QED BY <1>5, <2>1
  <2> QED BY <2>2
<1>7. ASSUME NEW k \in 0 .. n - 1 PROVE after[k + 1] = step[<<k + 1, after[k]>>]
  <2>1. k + 1 \in 0 .. n /\ k + 1 # 0 /\ (k + 1) - 1 = k
    OBVIOUS
  <2> QED BY <1>5, <2>1
<1>8. \A k \in 0 .. n : after[k] = h[k]
  <2> DEFINE T == {k \in 0 .. n : after[k] = h[k]}
  <2>1. 0 \in T
    BY <1>6 DEF Follows
  <2>2. ASSUME NEW k \in 0 .. n - 1, k \in T PROVE k + 1 \in T
    <3>1. k + 1 \in 0 .. n /\ after[k] = h[k]
      BY <2>2
    <3> QED BY <1>7, <3>1 DEF Follows
  <2> HIDE DEF T
  <2>3. 0 .. n \subseteq T
    BY <2>1, <2>2, UpToInduct
  <2> QED BY <2>3 DEF T
<1> QED BY <1>4, <1>8

\* The states of a loop whose rounds stay in a set, round by round.
LEMMA RoundsWithin ==
  ASSUME NEW S, NEW start \in S, NEW n \in Nat, NEW step,
         \A k \in 1 .. n, s \in S : step[<<k, s>>] \in S
  PROVE  \E h \in [0 .. n -> S] : Rounds(start, step, n) = h[n] /\ Follows(h, start, step, n)
<1> DEFINE there == [p \in (1 .. n) \X S |-> step[<<p[1], p[2]>>]]
<1>1. there \in [(1 .. n) \X S -> S]
  OBVIOUS
<1>2. \A k \in 1 .. n, s \in S : there[<<k, s>>] = step[<<k, s>>]
  OBVIOUS
<1> HIDE DEF there
<1>3. PICK h \in [0 .. n -> S] : Follows(h, start, there, n)
  BY <1>1, Recursion
<1>4. ASSUME NEW i \in 0 .. n - 1 PROVE h[i + 1] = step[<<i + 1, h[i]>>]
  <2>1. h[i + 1] = there[<<i + 1, h[i]>>] /\ i + 1 \in 1 .. n /\ h[i] \in S
    BY <1>3 DEF Follows
  <2> QED BY <1>2, <2>1
<1>5. Follows(h, start, step, n)
  BY <1>3, <1>4 DEF Follows
<1> QED BY <1>5, RoundsAre

LEMMA RoundsStay ==
  ASSUME NEW S, NEW start \in S, NEW n \in Nat, NEW step,
         \A k \in 1 .. n, s \in S : step[<<k, s>>] \in S
  PROVE  Rounds(start, step, n) \in S
<1>1. PICK h \in [0 .. n -> S] : Rounds(start, step, n) = h[n] /\ Follows(h, start, step, n)
  BY RoundsWithin
<1> QED BY <1>1

LEMMA RoundsFollow ==
  ASSUME NEW S, NEW start \in S, NEW n \in Nat, NEW step \in [(1 .. n) \X S -> S]
  PROVE  \E h \in [0 .. n -> S] : Rounds(start, step, n) = h[n] /\ Follows(h, start, step, n)
<1>1. PICK h \in [0 .. n -> S] : Follows(h, start, step, n)
  BY Recursion
<1> QED BY <1>1, RoundsAre

\* What is so of the first k rounds, for every k, is so of all of them.
LEMMA RoundsCounted ==
  ASSUME NEW S, NEW start \in S, NEW n \in Nat, NEW step,
         \A k \in 1 .. n, s \in S : step[<<k, s>>] \in S,
         NEW T, <<0, start>> \in T,
         \A k \in 0 .. n - 1, s \in S : <<k, s>> \in T => <<k + 1, step[<<k + 1, s>>]>> \in T
  PROVE  Rounds(start, step, n) \in S /\ <<n, Rounds(start, step, n)>> \in T
<1>1. PICK h \in [0 .. n -> S] : Rounds(start, step, n) = h[n] /\ Follows(h, start, step, n)
  BY RoundsWithin
<1> DEFINE U == {k \in 0 .. n : <<k, h[k]>> \in T}
<1>2. 0 \in U
  BY <1>1 DEF Follows
<1>3. ASSUME NEW k \in 0 .. n - 1, k \in U PROVE k + 1 \in U
  <2>1. k + 1 \in 0 .. n /\ h[k] \in S /\ h[k + 1] = step[<<k + 1, h[k]>>]
    BY <1>1 DEF Follows
  <2> QED BY <1>3, <2>1
<1> HIDE DEF U
<1>4. 0 .. n \subseteq U
  BY <1>2, <1>3, UpToInduct
<1>5. n \in U
  BY <1>4
<1> QED BY <1>1, <1>5 DEF U

\* A loop does its first round, then the others.
LEMMA RoundsFirst ==
  ASSUME NEW S, NEW start \in S, NEW n \in Nat \ {0}, NEW step,
         \A k \in 1 .. n, s \in S : step[<<k, s>>] \in S,
         NEW rest, \A k \in 1 .. n - 1, s \in S : rest[<<k, s>>] = step[<<k + 1, s>>]
  PROVE  Rounds(start, step, n) = Rounds(step[<<1, start>>], rest, n - 1)
<1>1. PICK h \in [0 .. n -> S] : Rounds(start, step, n) = h[n] /\ Follows(h, start, step, n)
  BY RoundsWithin
<1> DEFINE g == [k \in 0 .. n - 1 |-> h[k + 1]]
<1>2. g \in [0 .. n - 1 -> S] /\ g[n - 1] = h[n]
  BY (n - 1) + 1 = n
<1>3. g[0] = step[<<1, start>>]
  BY <1>1 DEF Follows
<1>4. ASSUME NEW i \in 0 .. (n - 1) - 1 PROVE g[i + 1] = rest[<<i + 1, g[i]>>]
  <2>1. /\ i + 1 \in 0 .. n - 1 /\ i \in 0 .. n - 1 /\ i + 1 \in 1 .. n - 1
        /\ g[i + 1] = h[(i + 1) + 1] /\ g[i] = h[i + 1] /\ h[i + 1] \in S
    OBVIOUS
  <2>2. h[(i + 1) + 1] = step[<<(i + 1) + 1, h[i + 1]>>]
    BY <1>1, <2>1 DEF Follows
  <2> QED BY <2>1, <2>2
<1> HIDE DEF g
<1>5. Follows(g, step[<<1, start>>], rest, n - 1)
  BY <1>3, <1>4 DEF Follows
<1>6. PICK m \in Nat : m = n - 1
  OBVIOUS
<1>7. PICK f : f = step[<<1, start>>]
  OBVIOUS
<1>8. PICK later \in [0 .. m -> S] : later[m] = h[n] /\ Follows(later, f, rest, m)
  BY <1>2, <1>5, <1>6, <1>7
<1>9. Rounds(f, rest, m) = later[m]
  BY ONLY m \in Nat, later \in [0 .. m -> S], <1>8, RoundsAre
<1> QED BY <1>1, <1>6, <1>7, <1>8, <1>9

\* What every round keeps is so at the end.
LEMMA RoundsInvariant ==
  ASSUME NEW S, NEW start \in S, NEW n \in Nat, NEW step \in [(1 .. n) \X S -> S],
         NEW T, start \in T, \A k \in 1 .. n, s \in S : s \in T => step[<<k, s>>] \in T
  PROVE  Rounds(start, step, n) \in S /\ Rounds(start, step, n) \in T
<1>1. PICK h \in [0 .. n -> S] : Rounds(start, step, n) = h[n] /\ Follows(h, start, step, n)
  BY RoundsFollow
<1> DEFINE U == {k \in 0 .. n : h[k] \in T}
<1>2. 0 \in U
  BY <1>1 DEF Follows
<1>3. ASSUME NEW k \in 0 .. n - 1, k \in U PROVE k + 1 \in U
  <2>1. k + 1 \in 1 .. n /\ k + 1 \in 0 .. n /\ h[k] \in S /\ h[k + 1] = step[<<k + 1, h[k]>>]
    BY <1>1 DEF Follows
  <2> QED BY <1>3, <2>1
<1> HIDE DEF U
<1>4. 0 .. n \subseteq U
  BY <1>2, <1>3, UpToInduct
<1> QED BY <1>1, <1>4 DEF U

-----------------------------------------------------------------------------
(***************************************************************************)
(* Arithmetic.                                                             *)
(***************************************************************************)
LEMMA ProductNatural ==
  ASSUME NEW a \in Nat, NEW b \in Nat
  PROVE  a * b \in Nat /\ (a > 0 /\ b > 0 => a * b > 0)
  OBVIOUS

LEMMA Division ==
  ASSUME NEW a \in Nat, NEW b \in Nat \ {0}
  PROVE  a \div b \in Nat /\ (a \div b) * b <= a
  OBVIOUS

LEMMA Modulo ==
  ASSUME NEW a \in Nat, NEW b \in Nat \ {0}
  PROVE  a % b \in 0 .. (b - 1) /\ (a < b => a % b = a)
  OBVIOUS

LEMMA DifferenceTimes ==
  ASSUME NEW a \in Nat, NEW b \in Nat, NEW c \in Nat
  PROVE  (a - b) * c = a * c - b * c
  OBVIOUS

LEMMA Monotone ==
  ASSUME NEW a \in Nat, NEW b \in Nat, NEW c \in Nat, a <= b
  PROVE  a * c <= b * c
  OBVIOUS

LEMMA Cancellation ==
  ASSUME NEW a \in Nat, NEW b \in Nat, NEW c \in Nat, a * c < b * c
  PROVE  a < b
  OBVIOUS

LEMMA Successor ==
  ASSUME NEW k \in Nat, NEW b \in Nat
  PROVE  (k + 1) * b = k * b + b
  OBVIOUS

LEMMA Quotient ==
  ASSUME NEW a \in Nat, NEW b \in Nat \ {0}
  PROVE  /\ a \div b \in Nat /\ (a \div b) * b <= a /\ a < (a \div b + 1) * b
         /\ a % b = a - (a \div b) * b
  OBVIOUS

LEMMA NextProduct ==
  ASSUME NEW a \in Int, NEW k \in Nat
  PROVE  a * (k + 1) = a * k + a /\ a * k \in Int
  OBVIOUS

\* A number in the k-th interval of length b.
LEMMA InInterval ==
  ASSUME NEW a \in Nat, NEW b \in Nat \ {0}, NEW k \in Nat, k * b <= a, a < (k + 1) * b
  PROVE  a \div b = k /\ a % b = a - k * b
<1> DEFINE q == a \div b
<1>1. q \in Nat /\ q * b <= a /\ a < (q + 1) * b /\ a % b = a - q * b
  BY Quotient
<1> HIDE DEF q
<1>2. k * b < (q + 1) * b /\ q * b < (k + 1) * b
  <2>1. k * b \in Nat /\ q * b \in Nat /\ (k + 1) * b \in Nat /\ (q + 1) * b \in Nat
    BY <1>1
  <2> QED BY <1>1, <2>1
<1>3. k < q + 1 /\ q < k + 1
  BY <1>1, <1>2, Cancellation
<1>4. q = k
  BY <1>1, <1>3
<1> QED BY <1>1, <1>4 DEF q

LEMMA ModuloStep ==
  ASSUME NEW k \in Nat, NEW n \in Nat \ {0}
  PROVE  ((k % n) + 1) % n = (k + 1) % n
<1> DEFINE q == k \div n
           m == k % n
           p == q * n
           j == k + 1
           i == m + 1
           r == q + 1
<1>1. q \in Nat /\ m \in 0 .. (n - 1) /\ p \in Nat /\ k = p + m
  <2>1. q \in Nat /\ m = k - p /\ m \in 0 .. (n - 1)
    BY Quotient, Modulo
  <2> HIDE DEF q, m
  <2>2. p \in Nat
    BY <2>1
  <2> QED BY <2>1, <2>2
<1>2. r * n = p + n /\ (r + 1) * n = p + n + n /\ r \in Nat /\ j \in Nat /\ i \in Nat
  BY <1>1, Successor
<1>3. i = m + 1 /\ j = p + i /\ p = q * n /\ r = q + 1
  BY <1>1
<1> HIDE DEF q, m, p, i, j, r
<1>4. CASE i < n
  <2>1. q * n <= j /\ j < (q + 1) * n
    BY <1>1, <1>2, <1>3, <1>4
  <2>2. j % n = j - q * n
    BY <1>1, <1>2, <2>1, InInterval
  <2>3. i % n = i
    BY <1>2, <1>4, Modulo
  <2> QED BY <1>1, <1>2, <1>3, <2>2, <2>3 DEF i, j, m
<1>5. CASE i = n
  <2>1. r * n <= j /\ j < (r + 1) * n
    BY <1>1, <1>2, <1>3, <1>5
  <2>2. j % n = j - r * n
    BY <1>1, <1>2, <2>1, InInterval
  <2>3. n % n = 0
    OBVIOUS
  <2>4. j % n = i % n
    BY <1>1, <1>2, <1>3, <1>5, <2>2, <2>3
  <2> QED BY <2>4 DEF i, j, m
<1>6. i < n \/ i = n
  BY <1>1, <1>2, <1>3
<1> QED BY <1>4, <1>5, <1>6
=============================================================================
