---------------------------------- MODULE Arm ----------------------------------
(***************************************************************************)
(* The arithmetic of the processor (src/core/arm7tdmi.cpp): shifts, sums,  *)
(* conditions, the register banks and the status word.  A word has Width   *)
(* bits in place of 32; a byte is a quarter of it, so memory has the same  *)
(* lanes, and an address is a word.                                        *)
(***************************************************************************)
EXTENDS Integers, FiniteSetsExt, Rounds

CONSTANT Width      \* bits of a word: 32
ASSUME WidthAssumption == Width \in Nat /\ Width >= 12 /\ Width % 4 = 0

Size   == 2 ^ Width
Top    == 2 ^ (Width - 1)
Words  == 0 .. Size - 1
Octet  == 2 ^ (Width \div 4)            \* what a byte counts to

\* What powers are: the provers know nothing else of them.
ASSUME PowersAssumption ==
  /\ 2 ^ 0 = 1 /\ \A n \in 0 .. Width - 1 : 2 ^ (n + 1) = 2 * 2 ^ n
  /\ Octet ^ 0 = 1 /\ \A n \in 0 .. 3 : Octet ^ (n + 1) = Octet * Octet ^ n

Num(b) == IF b THEN 1 ELSE 0
Wrap(v)   == v % Size
Signed(v) == IF v < Top THEN v ELSE v - Size
Bit(v, n) == (v \div 2 ^ n) % 2 = 1
Bits(v)   == {n \in 0 .. Width - 1 : Bit(v, n)}

\* The word with these bits, from the highest down.
Word(S) ==
  Rounds(0, [p \in (1 .. Width) \X Nat |-> 2 * p[2] + Num(Width - p[1] \in S)], Width)

(* a value of the lowest n bytes, as a signed word *)
SignExtended(v, n) == IF v < Octet ^ n \div 2 THEN v ELSE Wrap(v - Octet ^ n)

RotatedRight(v, n) == v \div 2 ^ n + (v % 2 ^ n) * 2 ^ (Width - n)

Shift(v, c) == [value |-> v, carry |-> c]

ShiftTypes == {"LSL", "LSR", "ASR", "ROR"}

(***************************************************************************)
(* The two shifters differ in what an amount of zero means.                *)
(***************************************************************************)
ShiftByRegister(type, v, n, c) ==
  IF n = 0 THEN Shift(v, c) ELSE
  CASE type = "LSL" -> Shift(IF n < Width THEN Wrap(v * 2 ^ n) ELSE 0, n <= Width /\ Bit(v, Width - n))
    [] type = "LSR" -> Shift(IF n < Width THEN v \div 2 ^ n ELSE 0, n <= Width /\ Bit(v, n - 1))
    [] type = "ASR" -> Shift(Wrap(Signed(v) \div 2 ^ Min({n, Width - 1})), Bit(v, Min({n, Width}) - 1))
    [] type = "ROR" -> LET r == RotatedRight(v, n % Width) IN Shift(r, Bit(r, Width - 1))

ShiftByImmediateAsRegister(type, v, n, c) == ShiftByRegister(type, v, n, c)      \* mutant

ShiftByImmediate(type, v, n, c) ==
  CASE n = 0 /\ type \in {"LSR", "ASR"} -> ShiftByRegister(type, v, Width, c)
    [] n = 0 /\ type = "ROR"            -> Shift(Num(c) * Top + v \div 2, Bit(v, 0))
    [] OTHER                            -> ShiftByRegister(type, v, n, c)

Sum(a, b, c) ==
  [value    |-> Wrap(a + b + Num(c)),
   carry    |-> a + b + Num(c) >= Size,
   overflow |-> Signed(a) + Signed(b) + Num(c) \notin -Top .. Top - 1]

Difference(a, b, borrow) ==
  [value    |-> Wrap(a - b - Num(borrow)),
   carry    |-> a >= b + Num(borrow),
   overflow |-> Signed(a) - Signed(b) - Num(borrow) \notin -Top .. Top - 1]

(***************************************************************************)
(* Modes, the status word, and the bank each mode keeps a register in.     *)
(***************************************************************************)
ModeCodes == <<"usr", "fiq", "irq", "svc", "abt", "und", "sys">>
Modes     == {ModeCodes[k] : k \in 1 .. 7}
Excepted  == Modes \ {"usr", "sys"}     \* the modes that have an SPSR
Statuses  == [n : BOOLEAN, z : BOOLEAN, c : BOOLEAN, v : BOOLEAN,
              i : BOOLEAN, f : BOOLEAN, t : BOOLEAN, mode : Modes]

ModeCode(m) == CHOOSE k \in 1 .. 7 : ModeCodes[k] = m

(* The flags lead the word; I, F, T and the mode end it, as in the program *)
PsrWord(s) ==
  Word(UNION {IF s.n THEN {Width - 1} ELSE {}, IF s.z THEN {Width - 2} ELSE {},
              IF s.c THEN {Width - 3} ELSE {}, IF s.v THEN {Width - 4} ELSE {},
              IF s.i THEN {5} ELSE {}, IF s.f THEN {4} ELSE {}, IF s.t THEN {3} ELSE {},
              Bits(ModeCode(s.mode))})

(* "f", "c": the fields of the status word a transfer writes; T apart *)
PsrMerged(s, w, fields, thumb) ==
  LET Is(b, old, field) == IF field THEN Bit(w, b) ELSE old
  IN  [n |-> Is(Width - 1, s.n, "f" \in fields), z |-> Is(Width - 2, s.z, "f" \in fields),
       c |-> Is(Width - 3, s.c, "f" \in fields), v |-> Is(Width - 4, s.v, "f" \in fields),
       i |-> Is(5, s.i, "c" \in fields), f |-> Is(4, s.f, "c" \in fields), t |-> Is(3, s.t, thumb),
       mode |-> IF "c" \notin fields THEN s.mode
                ELSE IF w % 8 = 0 THEN "invalid" ELSE ModeCodes[w % 8]]

(* assign: a status of no mode leaves the old one *)
Assigned(old, new) == IF new.mode \in Modes THEN new ELSE old

Bank(m, r) ==
  CASE r < 8                        -> <<"usr", r>>
    [] r \in 8 .. 12 /\ m # "fiq"   -> <<"usr", r>>
    [] r \in 13 .. 14 /\ m = "sys"  -> <<"usr", r>>
    [] OTHER                        -> <<m, r>>

Passes(condition, s) ==
  CASE condition = "EQ" -> s.z                  [] condition = "NE" -> ~s.z
    [] condition = "CS" -> s.c                  [] condition = "CC" -> ~s.c
    [] condition = "MI" -> s.n                  [] condition = "PL" -> ~s.n
    [] condition = "VS" -> s.v                  [] condition = "VC" -> ~s.v
    [] condition = "HI" -> s.c /\ ~s.z          [] condition = "LS" -> ~s.c \/ s.z
    [] condition = "GE" -> s.n = s.v            [] condition = "LT" -> s.n # s.v
    [] condition = "GT" -> ~s.z /\ s.n = s.v    [] condition = "LE" -> s.z \/ s.n # s.v
    [] condition = "AL" -> TRUE

(***************************************************************************)
(* The ALU: value and flags of an operation on a and a shifted operand.    *)
(***************************************************************************)
Tests == {"TST", "TEQ", "CMP", "CMN"}
Operations == Tests \cup {"AND", "EOR", "SUB", "RSB", "ADD", "ADC", "SBC", "RSC", "ORR", "MOV", "BIC", "MVN"}

Alu(op, a, shifted, s) ==
  LET b == shifted.value
      Logical(v) == [value |-> v, carry |-> shifted.carry, overflow |-> s.v]
  IN  CASE op \in {"AND", "TST"} -> Logical(Word(Bits(a) \cap Bits(b)))
        [] op \in {"EOR", "TEQ"} -> Logical(Word((Bits(a) \cup Bits(b)) \ (Bits(a) \cap Bits(b))))
        [] op \in {"SUB", "CMP"} -> Difference(a, b, FALSE)
        [] op = "RSB"            -> Difference(b, a, FALSE)
        [] op \in {"ADD", "CMN"} -> Sum(a, b, FALSE)
        [] op = "ADC"            -> Sum(a, b, s.c)
        [] op = "SBC"            -> Difference(a, b, ~s.c)
        [] op = "RSC"            -> Difference(b, a, ~s.c)
        [] op = "ORR"            -> Logical(Word(Bits(a) \cup Bits(b)))
        [] op = "MOV"            -> Logical(b)
        [] op = "BIC"            -> Logical(Word(Bits(a) \ Bits(b)))
        [] op = "MVN"            -> Logical(Size - 1 - b)

WithNz(s, v)       == [s EXCEPT !.n = Bit(v, Width - 1), !.z = v = 0]
WithFlags(s, res)  == [WithNz(s, res.value) EXCEPT !.c = res.carry, !.v = res.overflow]

(***************************************************************************)
(* Exceptions: the mode, the vector, what the link register holds.         *)
(***************************************************************************)
Exceptions == {"und", "swi", "pabt", "dabt", "irq", "fiq"}

Handler(e) == CASE e = "swi"              -> "svc"
                [] e \in {"pabt", "dabt"} -> "abt"
                [] OTHER                  -> e

Vector(e) == CASE e = "und" -> 4  [] e = "swi" -> 8  [] e = "pabt" -> 12
               [] e = "dabt" -> 16 [] e = "irq" -> 24 [] e = "fiq" -> 28

Link(e, at, thumb) ==
  Wrap(at + CASE e \in {"und", "swi"} -> IF thumb THEN 2 ELSE 4
              [] e = "dabt"           -> 8
              [] OTHER                -> 4)
================================================================================
