------------------------------ MODULE MCProcessor ------------------------------
(***************************************************************************)
(* Programs of six kinds for TLC: shifts, sums of one and two words, mode  *)
(* changes with exceptions, transfers of one register and of several, and  *)
(* Thumb.                                                                  *)
(***************************************************************************)
EXTENDS Processor, Thumb

Start(mode, t, c, v0, v1, v2, v3) ==
  [mode |-> mode, t |-> t, c |-> c,
   values |-> [r \in Indexes |-> CASE r = 0 -> v0 [] r = 1 -> v1 [] r = 2 -> v2 [] r = 3 -> v3
                                   [] r = 8 -> 100 [] r = 13 -> 544 [] r = 14 -> 300]]

Types   == {"LSL", "LSR", "ASR", "ROR"}
Corners == {0, 1, Top - 1, Top, Size - 1}
Amounts == {0, 1, 2, Width - 1, Width, Width + 1, 2 * Width, 2 * Width + 1, Octet - 1}

Shifts ==
  {Data("MOV", TRUE, 0, 0, Shifting(1, type, n)) : type \in Types, n \in 0 .. Width - 1}
  \cup {Data("MOV", TRUE, 0, 0, ShiftingBy(1, type, 2)) : type \in Types}
  \cup {LowAlu(type, 1, 2) : type \in Types} \cup {ShiftImmediate("ASR", 0, 1, 0)}

Sums ==
  {Data(op, TRUE, 0, 0, Plain(1)) : op \in {"ADD", "SUB", "RSB", "CMP", "CMN", "AND", "EOR"}}
  \cup {Data(op, TRUE, 2, 2, Plain(3)) : op \in {"ADC", "SBC", "RSC", "TEQ", "BIC"}}
  \cup {If("HI", Data("MOV", FALSE, 0, 0, RotatedImmediate(Top))), Data("MVN", TRUE, 0, 0, Plain(0)),
        Data("ORR", TRUE, 0, 0, Plain(1)), Mul(0, 1, 2, TRUE, 3), Mull(0, 2, 1, 3, TRUE, TRUE)}

Statuses0 == {9, 2, 16, 6 + 2 ^ (Width - 1)}   \* for MSR: T in user mode, FIQ mode, no mode, N

ModeChanges ==
  {Swi, Bx(Lr), If("MI", Bx(1)), Mrs(0, TRUE), Mrs(1, FALSE),
   Data("MOV", TRUE, Pc, 0, Plain(Lr)), Data("SUB", TRUE, Pc, Lr, Immediate(4)),
   Data("SUB", TRUE, Pc, Lr, Immediate(8)), Data("TEQ", TRUE, Pc, 0, Immediate(0)),
   Data("MOV", FALSE, Lr, 0, Immediate(1)), Data("MOV", FALSE, 8, 0, Immediate(7)),
   Msr(TRUE, {"c"}, Immediate(10)), Msr(TRUE, {"c", "f"}, Plain(0))}
  \cup {Msr(FALSE, {"c", "f"}, Immediate(w)) : w \in Statuses0}

Lists == {{}, {13}, {0}, {0, 1}, {1, 13, 14}, {8, 14}, {0, Pc}}

Blocks ==
  {Block(load, base, list, pre, up, TRUE, FALSE)
     : load \in BOOLEAN, base \in {13}, list \in Lists, pre \in BOOLEAN, up \in BOOLEAN}
  \cup {Block(load, 13, list, pre, ~pre, FALSE, TRUE)
          : load \in BOOLEAN, list \in {{0, 1}, {13, 14}, {14, Pc}}, pre \in BOOLEAN}
  \cup {Data("ADD", FALSE, 13, 13, Immediate(2)), Push({0, 14}), Pop({0, 14}), Pop({0, Pc}), Push({1}), Pop({1})}
  \cup {Multiple(load, 1, list) : load \in BOOLEAN, list \in {{}, {0, 1}, {1, 2}}}

Singles ==
  {Transfer(kind, n, 0, 13, Immediate(o)) : kind \in {"load", "store"}, n \in {1, 2, 4}, o \in {0, 1, 2, 3}}
  \cup {Signed16(Transfer("load", 2, 1, 13, Immediate(o)), n) : n \in {1, 2}, o \in {0, 1}}
  \cup {WithWriteback(Downwards(Transfer("store", 4, Pc, 13, Immediate(4)))),
        PostIndexed(Transfer("load", 4, Pc, 13, Plain(2))),
        WithWriteback(Transfer("load", 4, 13, 13, Immediate(4))),
        PostIndexed(Transfer("load", 4, 0, Pc, Immediate(4))),
        Swp(4, 1, 0, 13), Swp(1, 1, 0, 13), Mul(Pc, 0, 1, FALSE, 0), Mull(0, Pc, 0, 1, TRUE, FALSE)}

Thumbs ==
  {AddSubtract("SUB", 0, 1, Plain(2)), WithImmediate("CMP", 0, 5), WithImmediate("MOV", 1, 7),
   LowAlu("NEG", 0, 1), LowAlu("MUL", 0, 1), LowAlu("BIC", 0, 1),
   HighAlu("MOV", 8, 0), HighAlu("ADD", Pc, 2), HighAlu("CMP", 0, Pc), Bx(1), Bx(Pc),
   LoadFromPc(0, 252), ByRegister("store", 2, FALSE, 0, 3, 2), ByRegister("load", 1, TRUE, 0, 3, 2),
   ByImmediate("store", 4, 0, 3, 4), Halfword("load", 1, 3, 1), FromSp("store", 0, 4),
   FormAddress(0, 16, 8), MoveSp("SUB", 8), BranchIf("NE", -6), LongBranch("high", 256),
   LongBranch("low", 20), B(TRUE, 8), Swi}

MCRepertoires == [idle |-> {}, shifts |-> Shifts, sums |-> Sums, modes |-> ModeChanges, blocks |-> Blocks,
                  singles |-> Singles, thumb |-> Thumbs]

MCStarts ==
  [idle    |-> {Start("sys", FALSE, FALSE, 0, 0, 0, 0)},
   shifts  |-> {Start("sys", t, c, 0, v, n, 0) : t \in BOOLEAN, c \in BOOLEAN,
                  v \in Corners \cup {5, 2730}, n \in Amounts},
   sums    |-> {Start("sys", FALSE, c, a, b, x, y) : c \in BOOLEAN, a \in Corners, b \in Corners,
                  x \in {0, 1, Top, Size - 1}, y \in {0, 1, Top - 1, Top}},
   modes   |-> {Start(m, t, FALSE, 10, 257, 0, 0) : m \in {"usr", "sys"}, t \in BOOLEAN},
   blocks  |-> {Start(m, t, FALSE, 300, 556, 7, 9) : m \in {"sys", "irq"}, t \in BOOLEAN},
   singles |-> {Start("sys", FALSE, c, v, 3, 512, 0) : c \in BOOLEAN, v \in {1, 2730}},
   thumb   |-> {Start("usr", TRUE, FALSE, v, 257, 3, 512) : v \in {1, 2730}}]

MCLengths == [idle |-> 0, shifts |-> 1, sums |-> 2, modes |-> 4, blocks |-> 3, singles |-> 2, thumb |-> 3]
MCRam     == 512 .. 655
================================================================================
