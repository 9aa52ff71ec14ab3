--------------------------------- MODULE Thumb ---------------------------------
(***************************************************************************)
(* The instructions of a program, decoded (src/core/arm7tdmi.cpp): the     *)
(* forms of the ARM set, and for each format of the Thumb set the form     *)
(* that does the same.  What a Thumb format does not choose (the flags are *)
(* set, the condition holds) is filled in.                                 *)
(***************************************************************************)
EXTENDS Integers

(* Operands *)
Immediate(v)          == [form |-> "immediate", value |-> v, rotated |-> FALSE]
RotatedImmediate(v)   == [form |-> "immediate", value |-> v, rotated |-> TRUE]
Shifting(r, type, n)  == [form |-> "register", reg |-> r, type |-> type, amount |-> n]
Plain(r)              == Shifting(r, "LSL", 0)
ShiftingBy(r, type, by) == [form |-> "shifted", reg |-> r, type |-> type, by |-> by]

(* Instructions, of the ARM set unless they say otherwise *)
Data(op, s, rd, rn, src) ==
  [set |-> "arm", cond |-> "AL", kind |-> "data", op |-> op, s |-> s, rd |-> rd, rn |-> rn, src |-> src]
Mul(rd, rm, rs, accumulate, rn) ==
  [set |-> "arm", cond |-> "AL", kind |-> "multiply", s |-> TRUE, rd |-> rd, rm |-> rm, rs |-> rs,
   accumulate |-> accumulate, rn |-> rn]
Mull(high, low, rm, rs, signed, accumulate) ==
  [set |-> "arm", cond |-> "AL", kind |-> "long", s |-> TRUE, high |-> high, low |-> low,
   rm |-> rm, rs |-> rs, signed |-> signed, accumulate |-> accumulate]
Transfer(kind, n, rd, base, src) ==     \* pre-indexed, upwards, no write-back
  [set |-> "arm", cond |-> "AL", kind |-> kind, size |-> n, signed |-> FALSE, rd |-> rd,
   base |-> base, src |-> src, pre |-> TRUE, up |-> TRUE, writeback |-> FALSE]
Swp(n, rd, rm, base) ==
  [set |-> "arm", cond |-> "AL", kind |-> "swap", size |-> n, rd |-> rd, rm |-> rm, base |-> base]
Block(load, base, list, pre, up, writeback, user) ==
  [set |-> "arm", cond |-> "AL", kind |-> "block", load |-> load, base |-> base, list |-> list,
   pre |-> pre, up |-> up, writeback |-> writeback, user |-> user]
Mrs(rd, saved) == [set |-> "arm", cond |-> "AL", kind |-> "mrs", rd |-> rd, saved |-> saved]
Msr(saved, fields, src) ==
  [set |-> "arm", cond |-> "AL", kind |-> "msr", saved |-> saved, fields |-> fields, src |-> src]
B(link, offset) == [set |-> "arm", cond |-> "AL", kind |-> "branch", link |-> link, offset |-> offset]
Bx(rm) == [set |-> "both", cond |-> "AL", kind |-> "exchange", rm |-> rm]
Swi    == [set |-> "both", cond |-> "AL", kind |-> "swi"]

If(condition, i) == [i EXCEPT !.cond = condition]
InThumb(i)       == [i EXCEPT !.set = "thumb"]
Signed16(i, n)   == [i EXCEPT !.signed = TRUE, !.size = n]
PostIndexed(i)   == [i EXCEPT !.pre = FALSE]
WithWriteback(i) == [i EXCEPT !.writeback = TRUE]
Downwards(i)     == [i EXCEPT !.up = FALSE]

(* The formats of the Thumb set *)
ShiftImmediate(type, rd, rs, n) == InThumb(Data("MOV", TRUE, rd, 0, Shifting(rs, type, n)))        \* 1
AddSubtract(op, rd, rs, src)    == InThumb(Data(op, TRUE, rd, rs, src))                             \* 2
WithImmediate(op, rd, v)        == InThumb(Data(op, TRUE, rd, rd, Immediate(v)))                    \* 3

LowAlu(op, rd, rs) ==                                                                               \* 4
  InThumb(CASE op \in {"LSL", "LSR", "ASR", "ROR"} -> Data("MOV", TRUE, rd, 0, ShiftingBy(rd, op, rs))
            [] op = "NEG"                          -> Data("RSB", TRUE, rd, rs, Immediate(0))
            [] op = "MUL"                          -> Mul(rd, rs, rd, FALSE, 0)
            [] OTHER                               -> Data(op, TRUE, rd, rd, Plain(rs)))

HighAlu(op, rd, rs) == InThumb(Data(op, op = "CMP", IF op = "CMP" THEN 0 ELSE rd, rd, Plain(rs)))   \* 5
LoadFromPc(rd, n)   == InThumb(Transfer("load", 4, rd, 16, Immediate(n)))                           \* 6
ByRegister(kind, n, signed, rd, base, ro) ==                                                        \* 7, 8
  InThumb([Transfer(kind, n, rd, base, Plain(ro)) EXCEPT !.signed = signed])
ByImmediate(kind, n, rd, base, o) == InThumb(Transfer(kind, n, rd, base, Immediate(o)))             \* 9
Halfword(kind, rd, base, o)  == InThumb(Transfer(kind, 2, rd, base, Immediate(o)))                  \* 10
FromSp(kind, rd, o)          == InThumb(Transfer(kind, 4, rd, 13, Immediate(o)))                    \* 11
FormAddress(rd, base, o)     == InThumb(Data("ADD", FALSE, rd, base, Immediate(o)))                 \* 12
MoveSp(op, o)                == InThumb(Data(op, FALSE, 13, 13, Immediate(o)))                      \* 13
Push(list)                   == InThumb(Block(FALSE, 13, list, TRUE, FALSE, TRUE, FALSE))           \* 14
Pop(list)                    == InThumb(Block(TRUE, 13, list, FALSE, TRUE, TRUE, FALSE))
Multiple(load, base, list)   == InThumb(Block(load, base, list, FALSE, TRUE, TRUE, FALSE))          \* 15
BranchIf(condition, o)       == If(condition, InThumb(B(FALSE, o)))                                 \* 16, 18
LongBranch(kind, o)          == [set |-> "thumb", cond |-> "AL", kind |-> kind, offset |-> o]       \* 19
================================================================================
