------------------------------- MODULE CheatCode -------------------------------
(***************************************************************************)
(* Cheat codes (src/core/cheats.cpp): how the lines of a code become a     *)
(* program, and what a program does to memory.                             *)
(*                                                                         *)
(* A line is the fields its digits decode to, with the names of the code   *)
(* types for their numbers; a line of 8 + 8 digits has the fields of both  *)
(* decryptions.  One width stands for 1, 2 and 4 bytes: a cell of memory   *)
(* holds a value below ValueLimit.                                         *)
(*                                                                         *)
(* A loop of the code is run for as many rounds as it can have; a round    *)
(* that has nothing left to do changes nothing.                            *)
(***************************************************************************)
EXTENDS Rounds, SequencesExt

CONSTANTS
  Cells,        \* addresses of work RAM
  RomCells,     \* addresses of cartridge halfwords
  ValueLimit,   \* 2^8, 2^16 or 2^32
  FillLimit,    \* kMaximumWriteCount
  BitAnd(_, _), BitOr(_, _)    \* of two values

Values   == 0 .. ValueLimit - 1
Memories == [Cells -> Values]

ASSUME CodeAssumption ==
  /\ Cells \subseteq Nat /\ RomCells \subseteq Nat
  /\ ValueLimit \in Nat \ {0} /\ FillLimit \in Nat \ {0}
  /\ \A a, b \in Values : BitAnd(a, b) \in Nat /\ BitOr(a, b) \in Nat

-----------------------------------------------------------------------------
(* What a line can be, and what becomes of it.                             *)

RawLines == [shape : {"raw"}, address : Nat, value : Nat]

ShortTypes ==
  {"id", "hook", "or", "and", "add", "write", "slide", "super", "eq", "ne", "gt", "lt", "test",
   "keys", "encrypted", "other button"}
ShortLines ==
  [shape : {"short"}, type : ShortTypes, address : Nat, value : Nat, count : Nat,
   value_step : Nat, address_step : Nat, data : [1 .. 6 -> Values]]

Fields(types) == [type : types, address : Nat, value : Nat, count : Nat, skip : Nat]
GameSharkTypes ==
  {"id", "hook", "write", "patch", "eq", "ne", "le", "ge", "seeds", "slot", "button", "other"}
ActionReplayTypes ==
  {"id", "hook", "end", "patch", "fill", "pointer", "add", "skip", "eq", "ne", "lts", "gts", "lt",
   "gt", "test", "seeds", "register", "other"}
LongLines == [shape : {"long"}, gs : Fields(GameSharkTypes), ar : Fields(ActionReplayTypes)]

CodeLines == RawLines \cup ShortLines \cup LongLines

Formats == {"auto", "raw", "codebreaker", "gameshark", "actionreplay"}

Kinds ==
  {"nop", "write", "bytes", "add", "or", "and", "pointer", "patch", "condition", "keys", "skip"}
Compares == {"eq", "ne", "lt", "gt", "le", "ge", "lts", "gts", "test"}

\* CheatOperation; only a mask of keys may be wider than a value.
Operations ==
  {op \in [kind : Kinds, compare : Compares, address : Nat, value : Nat, count : Nat,
           address_step : Nat, value_step : Nat, skip : Nat, data_offset : Nat] :
     op.kind # "keys" => op.value \in Values}

\* CheatProgram, while it is decoded and after.
CheatPrograms ==
  [format : Formats, operations : Seq(Operations), data : Seq(Values),
   line : Nat, score : Nat, failed : BOOLEAN]

-----------------------------------------------------------------------------
(* Decoding: p is the program so far, with the line it has got to.         *)

Nop == [kind |-> "nop", compare |-> "eq", address |-> 0, value |-> 0, count |-> 1,
        address_step |-> 0, value_step |-> 0, skip |-> 0, data_offset |-> 0]

MakeModify(kind, address, value) ==
  [Nop EXCEPT !.kind = kind, !.address = address, !.value = value % ValueLimit]

MakeWrite(address, value) == MakeModify("write", address, value)

MakeCondition(compare, address, value, skip) ==
  [MakeModify("condition", address, value) EXCEPT !.compare = compare, !.skip = skip]

Empty(format) ==
  [format |-> format, operations |-> <<>>, data |-> <<>>, line |-> 1, score |-> 0, failed |-> FALSE]

Emit(p, operation, lines) ==
  [p EXCEPT !.operations = Append(@, operation), !.line = @ + lines]

Scored(p, points) == [p EXCEPT !.score = @ + points]

Failed(p) == [p EXCEPT !.failed = TRUE]

DecodeRawLine(p, lines) ==
  LET l == lines[p.line] IN Emit(p, MakeWrite(l.address, l.value), 1)

Smaller(a, b) == IF a < b THEN a ELSE b

\* The data lines of a CodeBreaker super code hold six bytes each.
DataLines(count) == (count + 5) \div 6

SuperData(p, lines, count) ==
  [i \in 1 .. count |-> lines[p.line + 1 + (i - 1) \div 6].data[1 + ((i - 1) % 6)]]

\* Mutant: the last line of data counts whole.
SuperCodeWhole(p, lines, l) ==
  LET n == DataLines(l.count)
  IN  IF p.line + n > Len(lines) THEN Failed(p)
      ELSE [Emit(p, [Nop EXCEPT !.kind = "bytes", !.address = l.address, !.count = 6 * n,
                                !.data_offset = Len(p.data)], n + 1)
             EXCEPT !.data = @ \o SuperData(p, lines, l.count)]

SuperCode(p, lines, l) ==
  LET n == DataLines(l.count)
  IN  IF p.line + n > Len(lines) THEN Failed(p)
      ELSE [Emit(p, [Nop EXCEPT !.kind = "bytes", !.address = l.address, !.count = l.count,
                                !.data_offset = Len(p.data)], n + 1)
             EXCEPT !.data = @ \o SuperData(p, lines, l.count)]

\* A slide steps its address and value by what the second line says.
Slide(p, lines, l) ==
  IF p.line + 1 > Len(lines) THEN Failed(p)
  ELSE LET step == lines[p.line + 1]
       IN  Emit(p, [MakeWrite(l.address, l.value) EXCEPT
                      !.count = step.count, !.value_step = step.value_step,
                      !.address_step = step.address_step], 2)

DecodeCodeBreakerLine(p, lines) ==
  LET l == lines[p.line]
  IN  CASE l.type \in {"id", "hook"}                -> Emit(p, Nop, 1)
        [] l.type \in {"or", "and", "add"}          -> Emit(p, MakeModify(l.type, l.address, l.value), 1)
        [] l.type = "write"                         -> Emit(p, MakeWrite(l.address, l.value), 1)
        [] l.type = "slide"                         -> Slide(p, lines, l)
        [] l.type = "super"                         -> SuperCode(p, lines, l)
        [] l.type \in {"eq", "ne", "gt", "lt", "test"} ->
             Emit(p, MakeCondition(l.type, l.address, l.value, 1), 1)
        [] l.type = "keys"                          ->
             Emit(p, [Nop EXCEPT !.kind = "keys", !.value = l.value, !.skip = 1], 1)
        [] l.type \in {"encrypted", "other button"} -> Failed(p)

InWorkRam(address) == address \in Cells

DecodeGameSharkLine(p, lines) ==
  LET l == lines[p.line].gs
      points == IF InWorkRam(l.address) THEN 1 ELSE 0
  IN  CASE l.type = "id"    -> Emit(Scored(p, 4), Nop, 1)
        [] l.type = "hook"  -> Emit(Scored(p, 2), Nop, 1)
        [] l.type = "write" ->
             Emit(Scored(p, IF l.value < ValueLimit THEN points ELSE 0),
                  MakeWrite(l.address, l.value), 1)
        [] l.type = "patch" /\ l.address \in RomCells ->
             Emit(Scored(p, 1), MakeModify("patch", l.address, l.value), 1)
        [] l.type \in {"eq", "ne", "le", "ge"} ->      \* one code, or as many as it says
             Emit(Scored(p, points), MakeCondition(l.type, l.address, l.value, l.skip), 1)
        [] l.type = "patch" /\ l.address \notin RomCells -> Failed(p)
        [] l.type \in {"seeds", "slot", "button", "other"} -> Failed(p)

DecodeActionReplayLine(p, lines) ==
  LET l == lines[p.line].ar
      points == IF InWorkRam(l.address) THEN 1 ELSE 0
      q == Scored(p, points)
  IN  CASE l.type = "id"      -> Emit(Scored(p, 4), Nop, 1)
        [] l.type = "hook"    -> Emit(Scored(p, 2), Nop, 1)
        [] l.type = "end"     -> Emit(p, Nop, 1)
        [] l.type = "patch"   ->
             IF p.line + 1 > Len(lines) THEN Failed(p)
             ELSE Emit(Scored(p, 1), MakeModify("patch", l.address, lines[p.line + 1].ar.value), 2)
        [] l.type = "fill"    ->
             IF l.count > FillLimit THEN Failed(p)
             ELSE Emit(q, [MakeWrite(l.address, l.value) EXCEPT
                             !.count = l.count, !.address_step = 1], 1)
        [] l.type = "pointer" ->
             Emit(q, [MakeModify("pointer", l.address, l.value) EXCEPT !.address_step = l.count], 1)
        [] l.type = "add"     -> Emit(q, MakeModify("add", l.address, l.value), 1)
        [] l.type = "skip"    -> Emit(q, [Nop EXCEPT !.kind = "skip", !.skip = l.skip], 1)
        [] l.type \in {"eq", "ne", "lts", "gts", "lt", "gt", "test"} ->
             Emit(q, MakeCondition(l.type, l.address, l.value, l.skip), 1)
        [] l.type \in {"seeds", "register", "other"} -> Failed(p)

DecodeLine(p, lines) ==
  CASE p.format = "raw"          -> DecodeRawLine(p, lines)
    [] p.format = "codebreaker"  -> DecodeCodeBreakerLine(p, lines)
    [] p.format = "gameshark"    -> DecodeGameSharkLine(p, lines)
    [] p.format = "actionreplay" -> DecodeActionReplayLine(p, lines)

DecodeOn(p, lines) ==
  IF p.failed \/ p.line > Len(lines) THEN p ELSE DecodeLine(p, lines)

Decode(format, lines) ==
  Rounds(Empty(format),
         [r \in (1 .. Len(lines)) \X CheatPrograms |-> DecodeOn(r[2], lines)], Len(lines))

FormatsOf(shape) ==
  CASE shape = "raw"   -> {"auto", "raw"}
    [] shape = "short" -> {"auto", "codebreaker"}
    [] shape = "long"  -> {"auto", "gameshark", "actionreplay"}

\* Two devices share a shape: the one whose decryption looks like code is kept.
DecodeLong(format, lines) ==
  LET gs == Decode("gameshark", lines)
      ar == Decode("actionreplay", lines)
  IN  IF format # "auto" THEN Decode(format, lines)
      ELSE IF ~gs.failed /\ (ar.failed \/ gs.score >= ar.score) THEN gs
      ELSE ar

\* compile_cheat(): no program, or the one its lines decode to.
CompileCheat(lines, format) ==
  IF lines = <<>> \/ \E i \in DOMAIN lines : lines[i].shape # lines[1].shape
     \/ format \notin FormatsOf(lines[1].shape)
  THEN Failed(Empty(format))
  ELSE CASE lines[1].shape = "raw"   -> Decode("raw", lines)
         [] lines[1].shape = "short" -> Decode("codebreaker", lines)
         [] lines[1].shape = "long"  -> DecodeLong(format, lines)

-----------------------------------------------------------------------------
(* Running a program.                                                      *)

Peek(memory, address) == IF address \in DOMAIN memory THEN memory[address] ELSE 0

Poke(memory, address, value) ==
  IF address \in DOMAIN memory THEN [memory EXCEPT ![address] = value % ValueLimit] ELSE memory

Signed(v) == IF 2 * v >= ValueLimit THEN v - ValueLimit ELSE v

ConditionHolds(op, memory) ==
  LET m == Peek(memory, op.address)
      v == op.value
  IN  CASE op.compare = "eq"   -> m = v
        [] op.compare = "ne"   -> m # v
        [] op.compare = "lt"   -> m < v
        [] op.compare = "gt"   -> m > v
        [] op.compare = "le"   -> m <= v
        [] op.compare = "ge"   -> m >= v
        [] op.compare = "lts"  -> Signed(m) < Signed(v)
        [] op.compare = "gts"  -> Signed(m) > Signed(v)
        [] op.compare = "test" -> BitAnd(m, v) # 0

Written(memory, op) ==
  Rounds(memory,
         [r \in (1 .. op.count) \X Memories |->
            Poke(r[2], op.address + (r[1] - 1) * op.address_step,
                 op.value + (r[1] - 1) * op.value_step)], op.count)

BytesWritten(memory, op, data) ==
  Rounds(memory,
         [r \in (1 .. op.count) \X Memories |->
            Poke(r[2], op.address + r[1] - 1, data[op.data_offset + r[1]])], op.count)

\* What one operation leaves in memory.
Executed(memory, op, data) ==
  LET old == Peek(memory, op.address)
  IN  CASE op.kind = "write" -> Written(memory, op)
        [] op.kind = "bytes" -> BytesWritten(memory, op, data)
        [] op.kind = "add"   -> Poke(memory, op.address, old + op.value)
        [] op.kind = "or"    -> Poke(memory, op.address, BitOr(old, op.value))
        [] op.kind = "and"   -> Poke(memory, op.address, BitAnd(old, op.value))
        [] op.kind = "pointer" /\ InWorkRam(old) ->
             Poke(memory, old + op.address_step, op.value)
        [] OTHER             -> memory

\* How many of the operations behind it an operation jumps over.
SkippedBy(op, memory, keys) ==
  IF \/ op.kind = "condition" /\ ~ConditionHolds(op, memory)
     \/ op.kind = "keys" /\ BitAnd(keys, op.value) # op.value
     \/ op.kind = "skip"
  THEN op.skip ELSE 0

\* The index after an operation at index - 1: never past the end.
NextIndex(index, skip, length) == index + Smaller(skip, length + 1 - index)

Runnings == [index : Nat, memory : Memories]

RunOn(program, keys, at) ==
  IF at.index > Len(program.operations) THEN at
  ELSE LET op == program.operations[at.index]
       IN  [index  |-> NextIndex(at.index + 1, SkippedBy(op, at.memory, keys),
                                 Len(program.operations)),
            memory |-> Executed(at.memory, op, program.data)]

RunCheatProgram(program, memory, keys) ==
  LET n == Len(program.operations)
  IN  Rounds([index |-> 1, memory |-> memory],
             [r \in (1 .. n) \X Runnings |-> RunOn(program, keys, r[2])], n).memory
=============================================================================
