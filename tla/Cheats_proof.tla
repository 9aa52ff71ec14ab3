------------------------------ MODULE Cheats_proof -----------------------------
(***************************************************************************)
(* Cheats, for any codes, lists, games and files: a program that decodes   *)
(* stays within its data and skips whole codes, the cartridge holds the    *)
(* patches of the cheats that are on and can be put back to what it was,   *)
(* and the file beside the save gives the list back.                       *)
(***************************************************************************)
EXTENDS Cheats, Arithmetic_proof, SequenceTheorems, TLAPS

-----------------------------------------------------------------------------
(***************************************************************************)
(* Decoding: the program so far is of its format and within its data.      *)
(***************************************************************************)
Sound(format) ==
  {p \in CheatPrograms : p.format = format /\ p.line >= 1 /\ WithinData(p)}

LEMMA NopTyped == Nop \in Operations /\ Nop.kind = "nop"
  BY CodeAssumption DEF Nop, Operations, Kinds, Compares, Values

LEMMA Reduced == \A v \in Int : v % ValueLimit \in Values
<1> SUFFICES ASSUME NEW v \in Int PROVE v % ValueLimit \in Values
  OBVIOUS
<1>1. ValueLimit \in Nat /\ ValueLimit > 0
  BY CodeAssumption
<1> QED BY <1>1 DEF Values

LEMMA ModifyTyped ==
  ASSUME NEW kind \in Kinds, NEW address \in Nat, NEW value \in Nat
  PROVE  /\ MakeModify(kind, address, value) \in Operations
         /\ MakeModify(kind, address, value).kind = kind
<1>1. value % ValueLimit \in Values /\ value % ValueLimit \in Nat
  BY Reduced DEF Values
<1> QED BY <1>1 DEF MakeModify, Nop, Operations, Kinds, Compares, Values

LEMMA ConditionTyped ==
  ASSUME NEW compare \in Compares, NEW address \in Nat, NEW value \in Nat, NEW skip \in Nat
  PROVE  /\ MakeCondition(compare, address, value, skip) \in Operations
         /\ MakeCondition(compare, address, value, skip).kind = "condition"
<1>1. value % ValueLimit \in Values /\ value % ValueLimit \in Nat
  BY Reduced DEF Values
<1> QED BY <1>1 DEF MakeCondition, MakeModify, Nop, Operations, Kinds, Values

\* An operation without data of its own.
LEMMA EmitSound ==
  ASSUME NEW format, NEW p \in Sound(format), NEW op \in Operations, op.kind # "bytes",
         NEW lines \in Nat
  PROVE  Emit(p, op, lines) \in Sound(format)
<1> DEFINE q == Emit(p, op, lines)
           n == Len(p.operations)
<1>1. /\ q = [p EXCEPT !.operations = Append(p.operations, op), !.line = p.line + lines]
      /\ p \in CheatPrograms /\ WithinData(p) /\ p.line >= 1 /\ p.format = format
  BY DEF Emit, Sound
<1>2. q \in CheatPrograms /\ q.format = format /\ q.line >= 1 /\ q.data = p.data
      /\ q.operations = Append(p.operations, op)
  <2>1. Append(p.operations, op) \in Seq(Operations)
        /\ p.line + lines \in Nat /\ p.line + lines >= 1
    BY <1>1 DEF CheatPrograms
  <2> DEFINE ops == Append(p.operations, op)
             line == p.line + lines
  <2> HIDE DEF ops, line
  <2>2. ops \in Seq(Operations) /\ line \in Nat /\ line >= 1
    BY <2>1 DEF ops, line
  <2>3. q = [p EXCEPT !.operations = ops, !.line = line]
    BY <1>1 DEF ops, line
  <2> HIDE DEF q
  <2>4. q \in CheatPrograms /\ q.format = format /\ q.line = line /\ q.data = p.data
        /\ q.operations = ops
    BY <1>1, <2>2, <2>3 DEF CheatPrograms
  <2> QED BY <2>2, <2>4 DEF ops
<1>3. n \in Nat /\ Len(q.operations) = n + 1 /\ q.operations[n + 1] = op
      /\ \A j \in 1 .. n : q.operations[j] = p.operations[j]
  BY <1>1, <1>2 DEF CheatPrograms
<1> HIDE DEF q, n
<1>4. ASSUME NEW j \in DOMAIN q.operations, q.operations[j].kind = "bytes",
             NEW k \in 1 .. j - 1, q.operations[k].kind = "bytes"
      PROVE  End(q.operations[k]) <= q.operations[j].data_offset
  <2>1. j \in 1 .. n + 1
    BY <1>2, <1>3 DEF CheatPrograms
  <2>2. j # n + 1
    BY <1>3, <1>4
  <2>3. j \in DOMAIN p.operations /\ q.operations[j] = p.operations[j]
        /\ k \in 1 .. n /\ q.operations[k] = p.operations[k]
    BY <1>1, <1>3, <2>1, <2>2 DEF n, CheatPrograms
  <2> QED BY <1>1, <1>4, <2>3 DEF WithinData
<1>5. ASSUME NEW j \in DOMAIN q.operations, q.operations[j].kind = "bytes"
      PROVE  End(q.operations[j]) <= Len(q.data)
  <2>1. j \in 1 .. n + 1
    BY <1>2, <1>3 DEF CheatPrograms
  <2>2. j # n + 1
    BY <1>3, <1>5
  <2>3. j \in DOMAIN p.operations /\ q.operations[j] = p.operations[j]
    BY <1>1, <1>3, <2>1, <2>2 DEF n, CheatPrograms
  <2> QED BY <1>1, <1>2, <1>5, <2>3 DEF WithinData
<1>6. WithinData(q)
  BY <1>4, <1>5 DEF WithinData
<1> QED BY <1>2, <1>6 DEF Sound, q

LEMMA FailedSound ==
  ASSUME NEW format, NEW p \in Sound(format)
  PROVE  Failed(p) \in Sound(format) /\ Failed(p).failed
  BY DEF Failed, Sound, WithinData, CheatPrograms

LEMMA ScoredSound ==
  ASSUME NEW format, NEW p \in Sound(format), NEW points \in Nat
  PROVE  Scored(p, points) \in Sound(format)
<1> DEFINE q == Scored(p, points)
<1>1. p \in CheatPrograms /\ WithinData(p) /\ p.line >= 1 /\ p.format = format
  BY DEF Sound
<1>2. q \in CheatPrograms /\ q.format = p.format /\ q.line = p.line /\ q.data = p.data
      /\ q.operations = p.operations
  BY <1>1 DEF Scored, CheatPrograms
<1> HIDE DEF q
<1>3. WithinData(q)
  BY <1>1, <1>2 DEF WithinData
<1> QED BY <1>1, <1>2, <1>3 DEF Sound, q

LEMMA EmptySound ==
  ASSUME NEW format \in Formats
  PROVE  Empty(format) \in Sound(format)
<1>1. Empty(format) \in CheatPrograms
  BY DEF Empty, CheatPrograms
<1>2. WithinData(Empty(format))
  BY DEF Empty, WithinData
<1> QED BY <1>1, <1>2 DEF Empty, Sound

\* Six bytes a line: every byte of the data is on one of its lines.
LEMMA DataLinesEnough ==
  ASSUME NEW count \in Nat
  PROVE  /\ DataLines(count) \in Nat
         /\ \A i \in 1 .. count : /\ (i - 1) \div 6 \in 0 .. DataLines(count) - 1
                                  /\ (i - 1) % 6 \in 0 .. 5
  BY DEF DataLines

LEMMA SuperDataTyped ==
  ASSUME NEW p \in CheatPrograms, NEW lines \in Seq(ShortLines), NEW count \in Nat,
         p.line >= 1, p.line + DataLines(count) <= Len(lines)
  PROVE  SuperData(p, lines, count) \in Seq(Values) /\ Len(SuperData(p, lines, count)) = count
<1>1. p.line \in Nat
  BY DEF CheatPrograms
<1> DEFINE byte(i) == lines[p.line + 1 + (i - 1) \div 6].data[1 + ((i - 1) % 6)]
<1>2. ASSUME NEW i \in 1 .. count PROVE byte(i) \in Values
  <2> DEFINE j == p.line + 1 + (i - 1) \div 6
             m == 1 + ((i - 1) % 6)
  <2>1. /\ DataLines(count) \in Nat
        /\ (i - 1) \div 6 \in 0 .. DataLines(count) - 1 /\ (i - 1) % 6 \in 0 .. 5
    BY DataLinesEnough
  <2>2. j \in 1 .. Len(lines) /\ m \in 1 .. 6
    BY <1>1, <2>1
  <2> HIDE DEF j, m
  <2>3. lines[j] \in ShortLines
    BY <2>2
  <2> HIDE DEF byte
  <2>5. lines[j].data \in [1 .. 6 -> Values]
    BY <2>3 DEF ShortLines
  <2> USE DEF byte
  <2>4. lines[j].data[m] \in Values
    BY <2>2, <2>5
  <2> QED BY <2>4 DEF j, m
<1>3. SuperData(p, lines, count) = [i \in 1 .. count |-> byte(i)]
  BY DEF SuperData
<1> HIDE DEF byte
<1>4. [i \in 1 .. count |-> byte(i)] \in [1 .. count -> Values]
  BY <1>2
<1> QED BY <1>3, <1>4

\* The data of a super code is its own, and behind that of the codes before it.
LEMMA SuperCodeSound ==
  ASSUME NEW format, NEW p \in Sound(format), NEW lines \in Seq(ShortLines), NEW l \in ShortLines
  PROVE  SuperCode(p, lines, l) \in Sound(format)
<1> DEFINE more == SuperData(p, lines, l.count)
           op == [Nop EXCEPT !.kind = "bytes", !.address = l.address, !.count = l.count,
                             !.data_offset = Len(p.data)]
           steps == DataLines(l.count) + 1
           q == SuperCode(p, lines, l)
           n == Len(p.operations)
<1>1. p \in CheatPrograms /\ WithinData(p) /\ p.line >= 1 /\ p.format = format /\ l.count \in Nat
      /\ l.address \in Nat
  BY DEF Sound, ShortLines
<1>2. DataLines(l.count) \in Nat
  BY <1>1, DataLinesEnough
<1>3. CASE p.line + DataLines(l.count) > Len(lines)
  <2>1. q = Failed(p)
    BY <1>3 DEF SuperCode
  <2> QED BY <2>1, FailedSound
<1>4. CASE ~(p.line + DataLines(l.count) > Len(lines))
  <2>1. p.line \in Nat /\ Len(lines) \in Nat /\ p.data \in Seq(Values)
        /\ p.operations \in Seq(Operations)
    BY <1>1 DEF CheatPrograms
  <2>2. more \in Seq(Values) /\ Len(more) = l.count
    BY <1>1, <1>2, <1>4, <2>1, SuperDataTyped
  <2>3. op \in Operations /\ op.kind = "bytes" /\ End(op) = Len(p.data) + l.count
        /\ op.data_offset = Len(p.data)
    <3>1. Len(p.data) \in Nat
      BY <2>1
    <3> DEFINE length == Len(p.data)
    <3> HIDE DEF length
    <3>2. length \in Nat /\ 0 \in Values
      BY <3>1, CodeAssumption DEF length, Values
    <3>3. op = [Nop EXCEPT !.kind = "bytes", !.address = l.address, !.count = l.count,
                           !.data_offset = length]
      BY DEF length
    <3> HIDE DEF op
    <3>4. op \in Operations /\ op.kind = "bytes" /\ op.count = l.count /\ op.data_offset = length
      BY <1>1, <3>2, <3>3 DEF Operations, Nop, Kinds, Compares
    <3> QED BY <3>4 DEF End, length
  <2>4. q = [Emit(p, op, steps) EXCEPT !.data = p.data \o more]
    BY <1>1, <1>4 DEF SuperCode, Emit, CheatPrograms
  <2>5. q = [p EXCEPT !.operations = Append(p.operations, op), !.line = p.line + steps,
                      !.data = p.data \o more]
    BY <1>1, <2>4 DEF Emit, CheatPrograms
  <2> HIDE DEF q, op, more
  <2>6. steps \in Nat
    BY <1>2
  <2> HIDE DEF steps
  <2>7. /\ Append(p.operations, op) \in Seq(Operations) /\ p.data \o more \in Seq(Values)
        /\ p.line + steps \in Nat /\ p.line + steps >= 1
        /\ Len(p.data \o more) = Len(p.data) + l.count
    <3>1. Append(p.operations, op) \in Seq(Operations)
      BY <2>1, <2>3
    <3>2. p.data \o more \in Seq(Values) /\ Len(p.data \o more) = Len(p.data) + Len(more)
      BY <2>1, <2>2, ConcatProperties
    <3>3. p.line + steps \in Nat /\ p.line + steps >= 1
      BY <1>1, <2>1, <2>6
    <3> QED BY <2>2, <3>1, <3>2, <3>3
  <2>8. /\ q \in CheatPrograms /\ q.format = format /\ q.line >= 1
        /\ q.operations = Append(p.operations, op) /\ Len(q.data) = Len(p.data) + l.count
    <3> DEFINE ops == Append(p.operations, op)
               line == p.line + steps
               data == p.data \o more
    <3> HIDE DEF ops, line, data
    <3>1. ops \in Seq(Operations) /\ line \in Nat /\ line >= 1 /\ data \in Seq(Values)
      BY <2>7 DEF ops, line, data
    <3>2. q = [p EXCEPT !.operations = ops, !.line = line, !.data = data]
      BY <2>5 DEF ops, line, data
    <3>3. q \in CheatPrograms /\ q.format = format /\ q.line = line /\ q.data = data
          /\ q.operations = ops
      BY <1>1, <3>1, <3>2 DEF CheatPrograms
    <3> QED BY <2>7, <3>1, <3>3 DEF ops, data
  <2>9. n \in Nat /\ Len(q.operations) = n + 1 /\ q.operations[n + 1] = op
        /\ \A j \in 1 .. n : q.operations[j] = p.operations[j]
    BY <2>1, <2>3, <2>8
  <2>10. DOMAIN q.operations = 1 .. n + 1 /\ DOMAIN p.operations = 1 .. n
    BY <2>1, <2>8, <2>9 DEF CheatPrograms
  <2> HIDE DEF n
  <2>11. \A j \in 1 .. n : p.operations[j].kind = "bytes" => End(p.operations[j]) <= Len(p.data)
    BY <1>1, <2>10 DEF WithinData
  <2>12. \A j \in 1 .. n : p.operations[j] \in Operations /\ End(p.operations[j]) \in Nat
    <3> SUFFICES ASSUME NEW j \in 1 .. n
                 PROVE  p.operations[j] \in Operations /\ End(p.operations[j]) \in Nat
      OBVIOUS
    <3>1. p.operations[j] \in Operations
      BY <2>1 DEF n
    <3>2. \A o \in Operations : o.data_offset \in Nat /\ o.count \in Nat
      BY DEF Operations
    <3> QED BY <3>1, <3>2 DEF End
  <2>13. Len(p.data) \in Nat
    BY <2>1
  <2>14. ASSUME NEW j \in DOMAIN q.operations, q.operations[j].kind = "bytes"
         PROVE  End(q.operations[j]) <= Len(q.data)
    <3>1. j \in 1 .. n \/ j = n + 1
      BY <2>9, <2>10
    <3>2. CASE j \in 1 .. n
      <4>1. End(q.operations[j]) <= Len(p.data) /\ End(q.operations[j]) \in Nat
        BY <2>9, <2>11, <2>12, <2>14, <3>2
      <4> QED BY <1>1, <2>8, <2>13, <4>1
    <3>3. CASE j = n + 1
      BY <1>1, <2>3, <2>8, <2>9, <2>13, <3>3
    <3> QED BY <3>1, <3>2, <3>3
  <2>15. ASSUME NEW j \in DOMAIN q.operations, q.operations[j].kind = "bytes",
               NEW k \in 1 .. j - 1, q.operations[k].kind = "bytes"
         PROVE  End(q.operations[k]) <= q.operations[j].data_offset
    <3>1. (j \in 1 .. n \/ j = n + 1) /\ k \in 1 .. n
      BY <2>9, <2>10
    <3>2. CASE j \in 1 .. n
      <4>1. q.operations[j] = p.operations[j] /\ q.operations[k] = p.operations[k]
        BY <2>9, <3>1, <3>2
      <4> QED BY <1>1, <2>10, <2>15, <3>2, <4>1 DEF WithinData
    <3>3. CASE j = n + 1
      BY <2>3, <2>9, <2>11, <2>15, <3>1, <3>3
    <3> QED BY <3>1, <3>2, <3>3
  <2>16. WithinData(q)
    BY <2>14, <2>15 DEF WithinData
  <2> QED BY <2>8, <2>16 DEF Sound, q
<1> QED BY <1>3, <1>4

LEMMA KeysTyped ==
  ASSUME NEW value \in Nat
  PROVE  LET op == [Nop EXCEPT !.kind = "keys", !.value = value, !.skip = 1]
         IN  op \in Operations /\ op.kind = "keys"
  BY DEF Nop, Operations, Kinds, Compares

LEMMA SkipTyped ==
  ASSUME NEW skip \in Nat
  PROVE  LET op == [Nop EXCEPT !.kind = "skip", !.skip = skip]
         IN  op \in Operations /\ op.kind = "skip"
<1>1. 0 \in Values
  BY CodeAssumption DEF Values
<1> QED BY <1>1 DEF Nop, Operations, Kinds, Compares

LEMMA WriteTyped ==
  ASSUME NEW address \in Nat, NEW value \in Nat
  PROVE  MakeWrite(address, value) \in Operations /\ MakeWrite(address, value).kind = "write"
  BY ModifyTyped DEF MakeWrite, Kinds

LEMMA WriteSound ==
  ASSUME NEW format, NEW p \in Sound(format), NEW address \in Nat, NEW value \in Nat
  PROVE  Emit(p, MakeWrite(address, value), 1) \in Sound(format)
  BY WriteTyped, EmitSound

LEMMA ModifySound ==
  ASSUME NEW format, NEW p \in Sound(format), NEW address \in Nat, NEW value \in Nat,
         NEW kind \in Kinds \ {"bytes"}, NEW lines \in Nat
  PROVE  Emit(p, MakeModify(kind, address, value), lines) \in Sound(format)
<1>1. MakeModify(kind, address, value) \in Operations
      /\ MakeModify(kind, address, value).kind = kind
  BY ModifyTyped
<1> QED BY <1>1, EmitSound

LEMMA ConditionSound ==
  ASSUME NEW format, NEW p \in Sound(format), NEW compare \in Compares,
         NEW address \in Nat, NEW value \in Nat, NEW skip \in Nat
  PROVE  Emit(p, MakeCondition(compare, address, value, skip), 1) \in Sound(format)
  BY ConditionTyped, EmitSound

LEMMA NopSound ==
  ASSUME NEW format, NEW p \in Sound(format)
  PROVE  Emit(p, Nop, 1) \in Sound(format)
  BY NopTyped, EmitSound

LEMMA RawLineSound ==
  ASSUME NEW lines \in Seq(RawLines), NEW p \in Sound("raw"), p.line <= Len(lines)
  PROVE  DecodeRawLine(p, lines) \in Sound("raw")
<1> DEFINE l == lines[p.line]
<1>1. p.line \in 1 .. Len(lines)
  BY DEF Sound, CheatPrograms
<1>2. l \in RawLines
  BY <1>1
<1>3. l.address \in Nat /\ l.value \in Nat
  BY <1>2 DEF RawLines
<1>4. Emit(p, MakeWrite(l.address, l.value), 1) \in Sound("raw")
  BY <1>3, WriteSound
<1> QED BY <1>4 DEF DecodeRawLine

LEMMA SlideSound ==
  ASSUME NEW format, NEW lines \in Seq(ShortLines), NEW p \in Sound(format), NEW l \in ShortLines
  PROVE  Slide(p, lines, l) \in Sound(format)
<1>1. p.line \in Nat /\ p.line >= 1
  BY DEF Sound, CheatPrograms
<1>2. CASE p.line + 1 > Len(lines)
  BY <1>2, FailedSound DEF Slide
<1>3. CASE ~(p.line + 1 > Len(lines))
  <2> DEFINE step == lines[p.line + 1]
             write == MakeWrite(l.address, l.value)
             op == [write EXCEPT !.count = step.count, !.value_step = step.value_step,
                                 !.address_step = step.address_step]
  <2>1. p.line + 1 \in 1 .. Len(lines)
    BY <1>1, <1>3
  <2>2. step \in ShortLines
    BY <2>1
  <2>3. step.count \in Nat /\ step.value_step \in Nat /\ step.address_step \in Nat
        /\ l.address \in Nat /\ l.value \in Nat
    BY <2>2 DEF ShortLines
  <2>4. write \in Operations /\ write.kind = "write"
    BY <2>3, WriteTyped
  <2> HIDE DEF write, step
  <2>5. op \in Operations /\ op.kind = "write"
    BY <2>3, <2>4 DEF Operations
  <2>6. Slide(p, lines, l) = Emit(p, op, 2)
    BY <1>3 DEF Slide, write, step
  <2> HIDE DEF op
  <2> QED BY <2>5, <2>6, EmitSound
<1> QED BY <1>2, <1>3

LEMMA CodeBreakerLineSound ==
  ASSUME NEW lines \in Seq(ShortLines), NEW p \in Sound("codebreaker"), p.line <= Len(lines)
  PROVE  DecodeCodeBreakerLine(p, lines) \in Sound("codebreaker")
<1> DEFINE l == lines[p.line]
           q == DecodeCodeBreakerLine(p, lines)
<1>1. p.line \in 1 .. Len(lines)
  BY DEF Sound, CheatPrograms
<1>2. l \in ShortLines
  BY <1>1
<1>3. l.address \in Nat /\ l.value \in Nat /\ l.type \in ShortTypes
  BY <1>2 DEF ShortLines
<1> HIDE DEF l
<1>4. CASE l.type \in {"id", "hook"}
  <2>1. q = Emit(p, Nop, 1)
    BY <1>4 DEF DecodeCodeBreakerLine, l
  <2> QED BY <2>1, NopSound
<1>5. CASE l.type \in {"or", "and", "add"}
  <2>1. q = Emit(p, MakeModify(l.type, l.address, l.value), 1) /\ l.type \in Kinds \ {"bytes"}
    BY <1>5 DEF DecodeCodeBreakerLine, l, Kinds
  <2> QED BY <1>3, <2>1, ModifySound
<1>6. CASE l.type = "write"
  <2>1. q = Emit(p, MakeWrite(l.address, l.value), 1)
    BY <1>6 DEF DecodeCodeBreakerLine, l
  <2> QED BY <1>3, <2>1, WriteSound
<1>7. CASE l.type = "slide"
  <2>1. q = Slide(p, lines, l)
    BY <1>7 DEF DecodeCodeBreakerLine, l
  <2> QED BY <1>2, <2>1, SlideSound
<1>8. CASE l.type = "super"
  <2>1. q = SuperCode(p, lines, l)
    BY <1>8 DEF DecodeCodeBreakerLine, l
  <2> QED BY <1>2, <2>1, SuperCodeSound
<1>9. CASE l.type \in {"eq", "ne", "gt", "lt", "test"}
  <2>1. q = Emit(p, MakeCondition(l.type, l.address, l.value, 1), 1) /\ l.type \in Compares
    BY <1>9 DEF DecodeCodeBreakerLine, l, Compares
  <2> QED BY <1>3, <2>1, ConditionSound
<1>10. CASE l.type = "keys"
  <2> DEFINE op == [Nop EXCEPT !.kind = "keys", !.value = l.value, !.skip = 1]
  <2>1. q = Emit(p, op, 1)
    BY <1>10 DEF DecodeCodeBreakerLine, l
  <2>2. op \in Operations /\ op.kind = "keys"
    BY <1>3, KeysTyped
  <2> HIDE DEF op
  <2> QED BY <2>1, <2>2, EmitSound
<1>11. CASE l.type \in {"encrypted", "other button"}
  <2>1. q = Failed(p)
    BY <1>11 DEF DecodeCodeBreakerLine, l
  <2> QED BY <2>1, FailedSound
<1>12. \/ l.type \in {"id", "hook"} \/ l.type \in {"or", "and", "add"} \/ l.type = "write"
       \/ l.type = "slide" \/ l.type = "super" \/ l.type \in {"eq", "ne", "gt", "lt", "test"}
       \/ l.type = "keys" \/ l.type \in {"encrypted", "other button"}
  BY <1>3 DEF ShortTypes
<1> QED BY <1>4, <1>5, <1>6, <1>7, <1>8, <1>9, <1>10, <1>11, <1>12

LEMMA GameSharkLineSound ==
  ASSUME NEW lines \in Seq(LongLines), NEW p \in Sound("gameshark"), p.line <= Len(lines)
  PROVE  DecodeGameSharkLine(p, lines) \in Sound("gameshark")
<1> DEFINE l == lines[p.line].gs
           points == IF InWorkRam(l.address) THEN 1 ELSE 0
           some == IF l.value < ValueLimit THEN points ELSE 0
           q == DecodeGameSharkLine(p, lines)
<1>1. p.line \in 1 .. Len(lines)
  BY DEF Sound, CheatPrograms
<1>2. lines[p.line] \in LongLines
  BY <1>1
<1>3. l.address \in Nat /\ l.value \in Nat /\ l.skip \in Nat /\ l.type \in GameSharkTypes
  BY <1>2 DEF LongLines, Fields
<1>4. points \in Nat /\ some \in Nat
  OBVIOUS
<1>5. \A n \in Nat : Scored(p, n) \in Sound("gameshark")
  BY ScoredSound
<1> HIDE DEF l, points, some
<1>6. CASE l.type = "id"
  <2>1. q = Emit(Scored(p, 4), Nop, 1)
    BY <1>6 DEF DecodeGameSharkLine, l
  <2> QED BY <1>5, <2>1, NopSound
<1>7. CASE l.type = "hook"
  <2>1. q = Emit(Scored(p, 2), Nop, 1)
    BY <1>7 DEF DecodeGameSharkLine, l
  <2> QED BY <1>5, <2>1, NopSound
<1>8. CASE l.type = "write"
  <2>1. q = Emit(Scored(p, some), MakeWrite(l.address, l.value), 1)
    BY <1>8 DEF DecodeGameSharkLine, l, points, some
  <2> QED BY <1>3, <1>4, <1>5, <2>1, WriteSound
<1>9. CASE l.type = "patch" /\ l.address \in RomCells
  <2>1. q = Emit(Scored(p, 1), MakeModify("patch", l.address, l.value), 1)
    BY <1>9 DEF DecodeGameSharkLine, l
  <2>2. "patch" \in Kinds \ {"bytes"}
    BY DEF Kinds
  <2> QED BY <1>3, <1>5, <2>1, <2>2, ModifySound, SMTT(30)
<1>10. CASE l.type \in {"eq", "ne", "le", "ge"}
  <2>1. q = Emit(Scored(p, points), MakeCondition(l.type, l.address, l.value, l.skip), 1)
        /\ l.type \in Compares
    BY <1>10 DEF DecodeGameSharkLine, l, points, Compares
  <2> QED BY <1>3, <1>4, <1>5, <2>1, ConditionSound, SMTT(30)
<1>11. CASE l.type = "patch" /\ l.address \notin RomCells
  <2>1. q = Failed(p)
    BY <1>11 DEF DecodeGameSharkLine, l
  <2> QED BY <2>1, FailedSound
<1>12. CASE l.type \in {"seeds", "slot", "button", "other"}
  <2>1. q = Failed(p)
    BY <1>12 DEF DecodeGameSharkLine, l
  <2> QED BY <2>1, FailedSound
<1>13. \/ l.type = "id" \/ l.type = "hook" \/ l.type = "write" \/ l.type = "patch"
       \/ l.type \in {"eq", "ne", "le", "ge"} \/ l.type \in {"seeds", "slot", "button", "other"}
  BY <1>3 DEF GameSharkTypes
<1> QED BY <1>6, <1>7, <1>8, <1>9, <1>10, <1>11, <1>12, <1>13

LEMMA ActionReplayLineSound ==
  ASSUME NEW lines \in Seq(LongLines), NEW p \in Sound("actionreplay"), p.line <= Len(lines)
  PROVE  DecodeActionReplayLine(p, lines) \in Sound("actionreplay")
<1> DEFINE l == lines[p.line].ar
           points == IF InWorkRam(l.address) THEN 1 ELSE 0
           r == Scored(p, points)
           q == DecodeActionReplayLine(p, lines)
<1>1. p.line \in 1 .. Len(lines) /\ p.line \in Nat
  BY DEF Sound, CheatPrograms
<1>2. lines[p.line] \in LongLines
  BY <1>1
<1>3. l.address \in Nat /\ l.value \in Nat /\ l.count \in Nat /\ l.skip \in Nat
      /\ l.type \in ActionReplayTypes
  BY <1>2 DEF LongLines, Fields
<1>4. points \in Nat
  OBVIOUS
<1>5. \A n \in Nat : Scored(p, n) \in Sound("actionreplay")
  BY ScoredSound
<1>6. r \in Sound("actionreplay")
  BY <1>4, <1>5
<1> HIDE DEF l, points, r
<1>7. CASE l.type = "id"
  <2>1. q = Emit(Scored(p, 4), Nop, 1)
    BY <1>7 DEF DecodeActionReplayLine, l
  <2> QED BY <1>5, <2>1, NopSound
<1>8. CASE l.type = "hook"
  <2>1. q = Emit(Scored(p, 2), Nop, 1)
    BY <1>8 DEF DecodeActionReplayLine, l
  <2> QED BY <1>5, <2>1, NopSound
<1>9. CASE l.type = "end"
  <2>1. q = Emit(p, Nop, 1)
    BY <1>9 DEF DecodeActionReplayLine, l
  <2> QED BY <2>1, NopSound
<1>10. CASE l.type = "patch"
  <2>1. CASE p.line + 1 > Len(lines)
    <3>1. q = Failed(p)
      BY <1>10, <2>1 DEF DecodeActionReplayLine, l
    <3> QED BY <3>1, FailedSound
  <2>2. CASE ~(p.line + 1 > Len(lines))
    <3> DEFINE value == lines[p.line + 1].ar.value
    <3>1. q = Emit(Scored(p, 1), MakeModify("patch", l.address, value), 2)
      BY <1>10, <2>2 DEF DecodeActionReplayLine, l
    <3>2. p.line + 1 \in 1 .. Len(lines)
      BY <1>1, <2>2
    <3>3. lines[p.line + 1] \in LongLines
      BY <3>2
    <3>4. value \in Nat
      BY <3>3 DEF LongLines, Fields
    <3>5. "patch" \in Kinds \ {"bytes"}
      BY DEF Kinds
    <3> HIDE DEF value
    <3>6. Scored(p, 1) \in Sound("actionreplay") /\ 2 \in Nat
      BY <1>5
    <3>7. Emit(Scored(p, 1), MakeModify("patch", l.address, value), 2) \in Sound("actionreplay")
      BY <1>3, <3>4, <3>5, <3>6, ModifySound
    <3> QED BY <3>1, <3>7
  <2> QED BY <2>1, <2>2
<1>11. CASE l.type = "fill"
  <2>1. CASE l.count > FillLimit
    <3>1. q = Failed(p)
      BY <1>11, <2>1 DEF DecodeActionReplayLine, l
    <3> QED BY <3>1, FailedSound
  <2>2. CASE ~(l.count > FillLimit)
    <3> DEFINE write == MakeWrite(l.address, l.value)
               op == [write EXCEPT !.count = l.count, !.address_step = 1]
    <3>1. q = Emit(r, op, 1)
      BY <1>11, <2>2 DEF DecodeActionReplayLine, l, r, points
    <3>2. write \in Operations /\ write.kind = "write"
      BY <1>3, WriteTyped
    <3> HIDE DEF write
    <3>3. op \in Operations /\ op.kind = "write"
      BY <1>3, <3>2 DEF Operations
    <3> HIDE DEF op
    <3> QED BY <1>6, <3>1, <3>3, EmitSound
  <2> QED BY <2>1, <2>2
<1>12. CASE l.type = "pointer"
  <2> DEFINE write == MakeModify("pointer", l.address, l.value)
             op == [write EXCEPT !.address_step = l.count]
  <2>1. q = Emit(r, op, 1)
    BY <1>12 DEF DecodeActionReplayLine, l, r, points
  <2>2. "pointer" \in Kinds
    BY DEF Kinds
  <2>3. write \in Operations /\ write.kind = "pointer"
    BY <1>3, <2>2, ModifyTyped
  <2> HIDE DEF write
  <2>4. op \in Operations /\ op.kind = "pointer"
    BY <1>3, <2>3 DEF Operations
  <2> HIDE DEF op
  <2> QED BY <1>6, <2>1, <2>4, EmitSound
<1>13. CASE l.type = "add"
  <2>1. q = Emit(r, MakeModify("add", l.address, l.value), 1)
    BY <1>13 DEF DecodeActionReplayLine, l, r, points
  <2>2. "add" \in Kinds \ {"bytes"}
    BY DEF Kinds
  <2> QED BY <1>3, <1>6, <2>1, <2>2, ModifySound, SMTT(30)
<1>14. CASE l.type = "skip"
  <2> DEFINE op == [Nop EXCEPT !.kind = "skip", !.skip = l.skip]
  <2>1. q = Emit(r, op, 1)
    BY <1>14 DEF DecodeActionReplayLine, l, r, points
  <2>2. op \in Operations /\ op.kind = "skip"
    BY <1>3, SkipTyped
  <2> HIDE DEF op
  <2> QED BY <1>6, <2>1, <2>2, EmitSound
<1>15. CASE l.type \in {"eq", "ne", "lts", "gts", "lt", "gt", "test"}
  <2>1. q = Emit(r, MakeCondition(l.type, l.address, l.value, l.skip), 1) /\ l.type \in Compares
    BY <1>15 DEF DecodeActionReplayLine, l, r, points, Compares
  <2> QED BY <1>3, <1>6, <2>1, ConditionSound
<1>16. CASE l.type \in {"seeds", "register", "other"}
  <2>1. q = Failed(p)
    BY <1>16 DEF DecodeActionReplayLine, l
  <2> QED BY <2>1, FailedSound
<1>17. \/ l.type = "id" \/ l.type = "hook" \/ l.type = "end" \/ l.type = "patch"
       \/ l.type = "fill" \/ l.type = "pointer" \/ l.type = "add" \/ l.type = "skip"
       \/ l.type \in {"eq", "ne", "lts", "gts", "lt", "gt", "test"}
       \/ l.type \in {"seeds", "register", "other"}
  BY <1>3 DEF ActionReplayTypes
<1> QED BY <1>7, <1>8, <1>9, <1>10, <1>11, <1>12, <1>13, <1>14, <1>15, <1>16, <1>17

\* The lines a decoder takes.
LinesOf(format) ==
  CASE format = "raw"          -> RawLines
    [] format = "codebreaker"  -> ShortLines
    [] format = "gameshark"    -> LongLines
    [] format = "actionreplay" -> LongLines

LEMMA DecodeSound ==
  ASSUME NEW format \in Formats \ {"auto"}, NEW lines \in Seq(LinesOf(format))
  PROVE  Decode(format, lines) \in Sound(format)
<1> DEFINE n == Len(lines)
           step == [r \in (1 .. n) \X CheatPrograms |-> DecodeOn(r[2], lines)]
<1>1. ASSUME NEW p \in Sound(format) PROVE DecodeOn(p, lines) \in Sound(format)
  <2>1. CASE p.failed \/ p.line > Len(lines)
    BY <2>1 DEF DecodeOn
  <2>2. CASE ~(p.failed \/ p.line > Len(lines))
    <3>1. DecodeOn(p, lines) = DecodeLine(p, lines) /\ p.line <= Len(lines) /\ p.format = format
      BY <2>2 DEF DecodeOn, Sound, CheatPrograms
    <3>2. CASE format = "raw"
      BY <3>1, <3>2, RawLineSound DEF DecodeLine, LinesOf
    <3>3. CASE format = "codebreaker"
      BY <3>1, <3>3, CodeBreakerLineSound DEF DecodeLine, LinesOf
    <3>4. CASE format = "gameshark"
      BY <3>1, <3>4, GameSharkLineSound DEF DecodeLine, LinesOf
    <3>5. CASE format = "actionreplay"
      BY <3>1, <3>5, ActionReplayLineSound DEF DecodeLine, LinesOf
    <3> QED BY <3>2, <3>3, <3>4, <3>5 DEF Formats
  <2> QED BY <2>1, <2>2
<1>2. \A k \in 1 .. n, p \in Sound(format) : step[<<k, p>>] \in Sound(format)
  <2> SUFFICES ASSUME NEW k \in 1 .. n, NEW p \in Sound(format)
               PROVE  step[<<k, p>>] \in Sound(format)
    OBVIOUS
  <2>1. p \in CheatPrograms
    BY DEF Sound
  <2>2. step[<<k, p>>] = DecodeOn(p, lines)
    BY <2>1
  <2> QED BY <1>1, <2>2
<1>3. Empty(format) \in Sound(format) /\ n \in Nat
  BY EmptySound
<1>4. Decode(format, lines) = Rounds(Empty(format), step, n)
  BY DEF Decode
<1> HIDE DEF step, n
<1>5. Rounds(Empty(format), step, n) \in Sound(format)
  BY <1>2, <1>3, RoundsStay
<1> QED BY <1>4, <1>5

Sounds == {p \in CheatPrograms : WithinData(p)}

LEMMA FailedProgram ==
  ASSUME NEW format \in Formats
  PROVE  Failed(Empty(format)) \in Sounds
  BY EmptySound, FailedSound DEF Sound, Sounds

LEMMA DecodedProgram ==
  ASSUME NEW format \in Formats \ {"auto"}, NEW lines \in Seq(LinesOf(format))
  PROVE  Decode(format, lines) \in Sounds
  BY DecodeSound DEF Sound, Sounds

LEMMA CompiledProgram ==
  ASSUME NEW lines \in Seq(CodeLines), NEW format \in Formats
  PROVE  CompileCheat(lines, format) \in Sounds
<1> DEFINE bad == lines = <<>> \/ \E i \in DOMAIN lines : lines[i].shape # lines[1].shape
                  \/ format \notin FormatsOf(lines[1].shape)
           p == CompileCheat(lines, format)
<1>1. CASE bad
  <2>1. p = Failed(Empty(format))
    BY <1>1 DEF CompileCheat
  <2> QED BY <2>1, FailedProgram
<1>2. CASE ~bad
  <2>1. lines # <<>> /\ \A i \in DOMAIN lines : lines[i].shape = lines[1].shape
    BY <1>2
  <2>2. 1 \in 1 .. Len(lines) /\ DOMAIN lines = 1 .. Len(lines)
    BY <2>1
  <2>3. \A i \in 1 .. Len(lines) : lines[i] \in CodeLines
    OBVIOUS
  <2>4. format \in FormatsOf(lines[1].shape)
    BY <1>2
  <2>5. lines[1].shape \in {"raw", "short", "long"}
    BY <2>2, <2>3 DEF CodeLines, RawLines, ShortLines, LongLines
  <2>6. p = CASE lines[1].shape = "raw"   -> Decode("raw", lines)
              [] lines[1].shape = "short" -> Decode("codebreaker", lines)
              [] lines[1].shape = "long"  -> DecodeLong(format, lines)
    BY <1>2 DEF CompileCheat
  <2> HIDE DEF p, bad
  <2>7. CASE lines[1].shape = "raw"
    <3>1. p = Decode("raw", lines)
      BY <2>6, <2>7
    <3>2. \A i \in 1 .. Len(lines) : lines[i] \in RawLines
      BY <2>1, <2>2, <2>3, <2>7 DEF CodeLines, ShortLines, LongLines
    <3>3. lines \in Seq(RawLines)
      BY <3>2
    <3>4. "raw" \in Formats \ {"auto"} /\ LinesOf("raw") = RawLines
      BY DEF Formats, LinesOf
    <3> QED BY <3>1, <3>3, <3>4, DecodedProgram DEF p
  <2>8. CASE lines[1].shape = "short"
    <3>1. p = Decode("codebreaker", lines)
      BY <2>6, <2>8
    <3>2. \A i \in 1 .. Len(lines) : lines[i] \in ShortLines
      BY <2>1, <2>2, <2>3, <2>8 DEF CodeLines, RawLines, LongLines
    <3>3. lines \in Seq(ShortLines)
      BY <3>2
    <3>4. "codebreaker" \in Formats \ {"auto"} /\ LinesOf("codebreaker") = ShortLines
      BY DEF Formats, LinesOf
    <3> QED BY <3>1, <3>3, <3>4, DecodedProgram DEF p
  <2>9. CASE lines[1].shape = "long"
    <3>1. p = DecodeLong(format, lines)
      BY <2>6, <2>9
    <3>2. \A i \in 1 .. Len(lines) : lines[i] \in LongLines
      BY <2>1, <2>2, <2>3, <2>9 DEF CodeLines, RawLines, ShortLines
    <3>3. lines \in Seq(LongLines)
      BY <3>2
    <3>4. /\ {"gameshark", "actionreplay"} \subseteq Formats \ {"auto"}
          /\ LinesOf("gameshark") = LongLines /\ LinesOf("actionreplay") = LongLines
      BY DEF Formats, LinesOf
    <3>5. Decode("gameshark", lines) \in Sounds /\ Decode("actionreplay", lines) \in Sounds
      BY <3>3, <3>4, DecodedProgram
    <3>6. format \in {"auto", "gameshark", "actionreplay"}
      BY <2>4, <2>9 DEF FormatsOf
    <3> QED BY <3>1, <3>5, <3>6 DEF DecodeLong, p
  <2> QED BY <2>5, <2>7, <2>8, <2>9 DEF p
<1> QED BY <1>1, <1>2

\* The program of a text.
LEMMA ProgramSound ==
  ASSUME NEW text \in DOMAIN Texts
  PROVE  Programs[text] \in Sounds
<1>1. Programs[text] = CompileCheat(Texts[text].lines, Texts[text].format)
  BY DEF Programs
<1>2. Texts[text].lines \in Seq(CodeLines) /\ Texts[text].format \in Formats
  BY CheatsAssumption
<1> QED BY <1>1, <1>2, CompiledProgram

LEMMA EntryProgram ==
  ASSUME NEW entry \in Entries
  PROVE  Program(entry) \in Sounds
<1>1. entry.code \in DOMAIN Texts
  BY DEF Entries
<1> QED BY <1>1, ProgramSound DEF Program

-----------------------------------------------------------------------------
(***************************************************************************)
(* Running: memory keeps its type, and a jump over codes is as good as     *)
(* codes that do nothing.                                                  *)
(***************************************************************************)
LEMMA ValuesNatural == Values \subseteq Nat /\ 0 \in Values
  BY CodeAssumption DEF Values

LEMMA PeekTyped ==
  ASSUME NEW mem \in Memories, NEW address
  PROVE  Peek(mem, address) \in Values
  BY ValuesNatural DEF Peek, Memories

LEMMA PokeTyped ==
  ASSUME NEW mem \in Memories, NEW address, NEW value \in Int
  PROVE  Poke(mem, address, value) \in Memories
<1>1. value % ValueLimit \in Values
  BY Reduced
<1> QED BY <1>1 DEF Poke, Memories

LEMMA OperationFields ==
  ASSUME NEW op \in Operations
  PROVE  /\ op.kind \in Kinds /\ op.compare \in Compares /\ op.address \in Nat /\ op.value \in Nat
         /\ op.count \in Nat /\ op.address_step \in Nat /\ op.value_step \in Nat
         /\ op.skip \in Nat /\ op.data_offset \in Nat
         /\ op.kind # "keys" => op.value \in Values
  BY DEF Operations

LEMMA WrittenTyped ==
  ASSUME NEW mem \in Memories, NEW op \in Operations
  PROVE  Written(mem, op) \in Memories
<1> DEFINE n == op.count
           step == [r \in (1 .. n) \X Memories |->
                      Poke(r[2], op.address + (r[1] - 1) * op.address_step,
                           op.value + (r[1] - 1) * op.value_step)]
<1>1. n \in Nat /\ op.value \in Nat /\ op.value_step \in Nat
  BY OperationFields
<1>2. ASSUME NEW k \in 1 .. n, NEW m \in Memories PROVE step[<<k, m>>] \in Memories
  <2> DEFINE value == op.value + (k - 1) * op.value_step
             address == op.address + (k - 1) * op.address_step
  <2>1. step[<<k, m>>] = Poke(m, address, value)
    OBVIOUS
  <2>2. value \in Int
    BY <1>1
  <2> HIDE DEF value, address, step
  <2> QED BY <2>1, <2>2, PokeTyped
<1>3. Written(mem, op) = Rounds(mem, step, n)
  BY DEF Written
<1> HIDE DEF step, n
<1> QED BY <1>1, <1>2, <1>3, RoundsStay

LEMMA BytesTyped ==
  ASSUME NEW mem \in Memories, NEW op \in Operations, NEW data \in Seq(Values),
         End(op) <= Len(data)
  PROVE  BytesWritten(mem, op, data) \in Memories
<1> DEFINE n == op.count
           step == [r \in (1 .. n) \X Memories |->
                      Poke(r[2], op.address + r[1] - 1, data[op.data_offset + r[1]])]
<1>1. n \in Nat /\ op.data_offset \in Nat
  BY OperationFields
<1>2. ASSUME NEW k \in 1 .. n, NEW m \in Memories PROVE step[<<k, m>>] \in Memories
  <2> DEFINE i == op.data_offset + k
             address == op.address + k - 1
  <2>1. step[<<k, m>>] = Poke(m, address, data[i])
    OBVIOUS
  <2>2. i \in 1 .. Len(data)
    BY <1>1 DEF End
  <2> HIDE DEF i, address, step
  <2>3. data[i] \in Values
    BY <2>2
  <2>4. data[i] \in Int
    BY <2>3, CodeAssumption DEF Values
  <2> QED BY <2>1, <2>4, PokeTyped
<1>3. BytesWritten(mem, op, data) = Rounds(mem, step, n)
  BY DEF BytesWritten
<1> HIDE DEF step, n
<1> QED BY <1>1, <1>2, <1>3, RoundsStay

LEMMA ExecutedTyped ==
  ASSUME NEW mem \in Memories, NEW op \in Operations, NEW data \in Seq(Values),
         op.kind = "bytes" => End(op) <= Len(data)
  PROVE  Executed(mem, op, data) \in Memories
<1> DEFINE old == Peek(mem, op.address)
           x == Executed(mem, op, data)
<1>1. old \in Values /\ old \in Nat /\ op.kind \in Kinds /\ op.value \in Nat
      /\ (op.kind # "keys" => op.value \in Values)
  BY PeekTyped, OperationFields, ValuesNatural
<1>2. \A address : \A value \in Int : Poke(mem, address, value) \in Memories
  BY PokeTyped
<1>3. CASE op.kind = "write"
  <2>1. x = Written(mem, op)
    BY <1>3 DEF Executed
  <2> QED BY <2>1, WrittenTyped
<1>4. CASE op.kind = "bytes"
  <2>1. x = BytesWritten(mem, op, data)
    BY <1>4 DEF Executed
  <2> QED BY <1>4, <2>1, BytesTyped
<1>5. CASE op.kind = "add"
  <2>1. x = Poke(mem, op.address, old + op.value)
    BY <1>5 DEF Executed
  <2>2. old + op.value \in Int
    BY <1>1
  <2> QED BY <1>2, <2>1, <2>2
<1>6. CASE op.kind = "or"
  <2>1. x = Poke(mem, op.address, BitOr(old, op.value))
    BY <1>6 DEF Executed
  <2>2. BitOr(old, op.value) \in Int
    BY <1>1, <1>6, CodeAssumption
  <2> QED BY <1>2, <2>1, <2>2
<1>7. CASE op.kind = "and"
  <2>1. x = Poke(mem, op.address, BitAnd(old, op.value))
    BY <1>7 DEF Executed
  <2>2. BitAnd(old, op.value) \in Int
    BY <1>1, <1>7, CodeAssumption
  <2> QED BY <1>2, <2>1, <2>2
<1>8. CASE op.kind = "pointer"
  <2>1. x = IF InWorkRam(old) THEN Poke(mem, old + op.address_step, op.value) ELSE mem
    BY <1>8 DEF Executed
  <2>2. op.value \in Int
    BY <1>1
  <2> QED BY <1>2, <2>1, <2>2
<1>9. CASE op.kind \in {"nop", "patch", "condition", "keys", "skip"}
  <2>1. x = mem
    BY <1>9 DEF Executed
  <2> QED BY <2>1
<1> QED BY <1>1, <1>3, <1>4, <1>5, <1>6, <1>7, <1>8, <1>9 DEF Kinds

LEMMA SkippedTyped ==
  ASSUME NEW op \in Operations, NEW mem, NEW keys
  PROVE  SkippedBy(op, mem, keys) \in Nat
  BY OperationFields DEF SkippedBy

\* A round when nothing jumps, and its states.
Counts == [memory : Memories, skip : Nat]

CountRound(program, keys, acc, op) ==
  IF acc.skip > 0 THEN [acc EXCEPT !.skip = acc.skip - 1]
  ELSE [memory |-> Executed(acc.memory, op, program.data),
        skip   |-> SkippedBy(op, acc.memory, keys)]

Counting(h, program, keys, n) ==
  /\ h \in [0 .. n -> Counts]
  /\ \A i \in 0 .. n - 1 :
       h[i + 1] = CountRound(program, keys, h[i], program.operations[i + 1])

\* Programs execute with their own data.
LEMMA OperationExecutes ==
  ASSUME NEW program \in Sounds, NEW i \in 1 .. Len(program.operations), NEW mem \in Memories
  PROVE  /\ program.operations[i] \in Operations
         /\ Executed(mem, program.operations[i], program.data) \in Memories
<1>1. program.operations \in Seq(Operations) /\ program.data \in Seq(Values)
  BY DEF Sounds, CheatPrograms
<1>2. program.operations[i] \in Operations /\ i \in DOMAIN program.operations
  BY <1>1
<1>3. program.operations[i].kind = "bytes" =>
        End(program.operations[i]) <= Len(program.data)
  BY <1>2 DEF Sounds, WithinData
<1> QED BY <1>1, <1>2, <1>3, ExecutedTyped

LEMMA CountRoundTyped ==
  ASSUME NEW program \in Sounds, NEW i \in 1 .. Len(program.operations), NEW acc \in Counts,
         NEW keys
  PROVE  CountRound(program, keys, acc, program.operations[i]) \in Counts
<1>1. acc.memory \in Memories /\ acc.skip \in Nat
  BY DEF Counts
<1>2. CASE acc.skip > 0
  BY <1>1, <1>2 DEF CountRound, Counts
<1>3. CASE ~(acc.skip > 0)
  <2>1. /\ Executed(acc.memory, program.operations[i], program.data) \in Memories
        /\ SkippedBy(program.operations[i], acc.memory, keys) \in Nat
    BY <1>1, OperationExecutes, SkippedTyped
  <2> QED BY <1>3, <2>1 DEF CountRound, Counts
<1> QED BY <1>2, <1>3

LEMMA RemainingFollows ==
  ASSUME NEW program \in Sounds, NEW mem \in Memories, NEW keys
  PROVE  LET n == Len(program.operations)
         IN  \E h \in [0 .. n -> Counts] :
               /\ Remaining(program, mem, keys) = h[n]
               /\ h[0] = [memory |-> mem, skip |-> 0]
               /\ \A i \in 0 .. n - 1 :
                    h[i + 1] = CountRound(program, keys, h[i], program.operations[i + 1])
<1> DEFINE n == Len(program.operations)
           start == [memory |-> mem, skip |-> 0]
           step == [r \in (1 .. n) \X Counts |->
                      CountRound(program, keys, r[2], program.operations[r[1]])]
<1>1. n \in Nat /\ start \in Counts
  BY DEF Sounds, CheatPrograms, Counts
<1>2. \A k \in 1 .. n, s \in Counts :
        step[<<k, s>>] = CountRound(program, keys, s, program.operations[k])
  OBVIOUS
<1>3. \A k \in 1 .. n, s \in Counts : step[<<k, s>>] \in Counts
  BY <1>2, CountRoundTyped
<1>4. Remaining(program, mem, keys) = Rounds(start, step, n)
  BY DEF Remaining, CountRound, Counts
<1> HIDE DEF step, start, n
<1>5. PICK h \in [0 .. n -> Counts] : Rounds(start, step, n) = h[n] /\ Follows(h, start, step, n)
  BY <1>1, <1>3, RoundsWithin
<1>6. ASSUME NEW i \in 0 .. n - 1
      PROVE  h[i + 1] = CountRound(program, keys, h[i], program.operations[i + 1])
  <2>1. h[i + 1] = step[<<i + 1, h[i]>>] /\ h[i] \in Counts /\ i + 1 \in 1 .. n
    BY <1>1, <1>5 DEF Follows
  <2> QED BY <1>2, <2>1
<1>7. h[0] = start
  BY <1>5 DEF Follows
<1> QED BY <1>4, <1>5, <1>6, <1>7 DEF start, n

\* What is left to skip has no effect, one by one.
LEMMA Coasting ==
  ASSUME NEW program, NEW keys, NEW n \in Nat, NEW h, Counting(h, program, keys, n)
  PROVE  \A i \in 0 .. n, d \in Nat :
           i + d <= n /\ d <= h[i].skip =>
             h[i + d] = [memory |-> h[i].memory, skip |-> h[i].skip - d]
<1> SUFFICES ASSUME NEW i \in 0 .. n, NEW d \in Nat, i + d <= n, d <= h[i].skip
             PROVE  h[i + d] = [memory |-> h[i].memory, skip |-> h[i].skip - d]
  OBVIOUS
<1> DEFINE T == {e \in 0 .. d : h[i + e] = [memory |-> h[i].memory, skip |-> h[i].skip - e]}
<1>0. /\ h \in [0 .. n -> Counts]
      /\ \A j \in 0 .. n - 1 :
           h[j + 1] = CountRound(program, keys, h[j], program.operations[j + 1])
  BY DEF Counting
<1>1. h[i] \in Counts /\ h[i].skip \in Nat
  BY <1>0 DEF Counts
<1>2. 0 \in T
  <2>1. h[i] = [memory |-> h[i].memory, skip |-> h[i].skip]
    BY <1>1 DEF Counts
  <2> QED BY <1>1, <2>1
<1>3. ASSUME NEW e \in 0 .. d - 1, e \in T PROVE e + 1 \in T
  <2> DEFINE acc == h[i + e]
             s == h[i].skip
  <2>1. acc = [memory |-> h[i].memory, skip |-> s - e] /\ i + e \in 0 .. n - 1 /\ s - e > 0
        /\ s \in Nat
    BY <1>1, <1>3
  <2>2. h[(i + e) + 1] = CountRound(program, keys, acc, program.operations[(i + e) + 1])
    BY <1>0, <2>1
  <2> HIDE DEF acc, s
  <2>3. h[(i + e) + 1] = [acc EXCEPT !.skip = acc.skip - 1]
    BY <2>1, <2>2 DEF CountRound
  <2>4. h[(i + e) + 1] = [memory |-> h[i].memory, skip |-> (s - e) - 1]
    BY <2>1, <2>3
  <2>5. (i + e) + 1 = i + (e + 1) /\ (s - e) - 1 = s - (e + 1) /\ e + 1 \in 0 .. d
    BY <2>1
  <2> QED BY <2>4, <2>5 DEF s
<1> HIDE DEF T
<1>4. 0 .. d \subseteq T
  BY <1>2, <1>3, UpToInduct
<1>5. d \in T
  BY <1>4
<1> QED BY <1>5 DEF T

LEMMA NextIndexIs ==
  ASSUME NEW i \in Nat, NEW n \in Nat, i <= n, NEW s \in Nat
  PROVE  \E d \in Nat : /\ NextIndex(i + 1, s, n) = i + d + 1 /\ d <= s /\ i + d <= n
                        /\ d = s \/ i + d = n
<1> DEFINE d == IF s < n - i THEN s ELSE n - i
<1>1. d \in Nat /\ d <= s /\ i + d <= n /\ (d = s \/ i + d = n)
  OBVIOUS
<1>2. NextIndex(i + 1, s, n) = i + d + 1
  BY DEF NextIndex, Smaller
<1> QED BY <1>1, <1>2

\* Jumping gets to the same memory as counting down.
LEMMA JumpsSkipCodes ==
  ASSUME NEW program \in Sounds, NEW mem \in Memories, NEW keys
  PROVE  /\ RunCheatProgram(program, mem, keys) = Remaining(program, mem, keys).memory
         /\ RunCheatProgram(program, mem, keys) \in Memories
<1> DEFINE n == Len(program.operations)
           start == [index |-> 1, memory |-> mem]
           step == [r \in (1 .. n) \X Runnings |-> RunOn(program, keys, r[2])]
           S == {at \in Runnings : at.index \in 1 .. n + 1}
<1>1. n \in Nat /\ program.operations \in Seq(Operations)
  BY DEF Sounds, CheatPrograms
<1>2. PICK h \in [0 .. n -> Counts] :
        /\ Remaining(program, mem, keys) = h[n]
        /\ h[0] = [memory |-> mem, skip |-> 0]
        /\ \A i \in 0 .. n - 1 :
             h[i + 1] = CountRound(program, keys, h[i], program.operations[i + 1])
  BY RemainingFollows
<1>3. \A i \in 0 .. n, d \in Nat :
         i + d <= n /\ d <= h[i].skip =>
           h[i + d] = [memory |-> h[i].memory, skip |-> h[i].skip - d]
  <2> HIDE DEF n, start, step, S
  <2>1. Counting(h, program, keys, n)
    BY <1>2 DEF Counting
  <2> QED BY <1>1, <2>1, Coasting
<1> DEFINE At(at) == /\ at.memory = h[at.index - 1].memory
                     /\ at.index <= n => h[at.index - 1].skip = 0
           T == {p \in (0 .. n) \X S : (p[2].index = n + 1 \/ p[2].index >= p[1] + 1) /\ At(p[2])}
<1>4. start \in S /\ <<0, start>> \in T
  <2>1. start \in Runnings /\ start.index = 1 /\ start.memory = mem
    BY DEF Runnings
  <2>2. start \in S
    BY <1>1, <2>1
  <2>3. At(start)
    BY <1>2, <2>1
  <2> HIDE DEF start, S, At
  <2> QED BY <1>1, <2>1, <2>2, <2>3
<1>5. ASSUME NEW at \in S
      PROVE  /\ RunOn(program, keys, at) \in S
             /\ At(at) => At(RunOn(program, keys, at))
             /\ at.index <= n => RunOn(program, keys, at).index > at.index
             /\ at.index = n + 1 => RunOn(program, keys, at) = at
  <2>0. at.index \in 1 .. n + 1 /\ at.memory \in Memories
    BY DEF Runnings
  <2>1. CASE at.index > n
    <3>1. RunOn(program, keys, at) = at
      BY <2>1 DEF RunOn
    <3>2. ~(at.index <= n)
      BY <1>1, <2>0, <2>1
    <3> HIDE DEF S, At
    <3> QED BY <3>1, <3>2
  <2>2. CASE ~(at.index > n)
    <3> DEFINE i == at.index
               op == program.operations[i]
               s == SkippedBy(op, at.memory, keys)
               m == Executed(at.memory, op, program.data)
               to == RunOn(program, keys, at)
    <3>1. i \in 1 .. n /\ i <= n /\ i \in Nat
      BY <1>1, <2>0, <2>2
    <3>2. op \in Operations /\ m \in Memories
      BY <2>0, <3>1, OperationExecutes
    <3>3. s \in Nat
      BY <3>2, SkippedTyped
    <3>4. to = [index |-> NextIndex(i + 1, s, n), memory |-> m]
      BY <2>2 DEF RunOn
    <3> HIDE DEF op, s, m, to, n
    <3>5. PICK d \in Nat : /\ NextIndex(i + 1, s, n) = i + d + 1 /\ d <= s /\ i + d <= n
                           /\ d = s \/ i + d = n
      BY <1>1, <3>1, <3>3, NextIndexIs, ZenonT(60)
    <3>6. to.index = i + d + 1 /\ to.memory = m /\ to.index \in 1 .. n + 1 /\ to.index \in Nat
          /\ to.index > i /\ to.index - 1 = i + d
      BY <1>1, <3>1, <3>4, <3>5
    <3>7. to \in S
      BY <3>2, <3>4, <3>6 DEF Runnings
    <3>8. ASSUME At(at) PROVE At(to)
      <4>1. h[i - 1].memory = at.memory /\ h[i - 1].skip = 0
        BY <3>1, <3>8
      <4>2. i - 1 \in 0 .. n - 1 /\ (i - 1) + 1 = i
        BY <1>1, <3>1
      <4>3. h[(i - 1) + 1] = CountRound(program, keys, h[i - 1], program.operations[(i - 1) + 1])
        BY <1>2, <4>2 DEF n
      <4>4. h[i] = CountRound(program, keys, h[i - 1], op)
        BY <4>2, <4>3 DEF op
      <4>5. h[i] = [memory |-> m, skip |-> s]
        BY <4>1, <4>4 DEF CountRound, m, s
      <4>6. i \in 0 .. n /\ h[i].skip = s /\ h[i].memory = m
        BY <1>1, <3>1, <4>5
      <4>7. h[i + d] = [memory |-> m, skip |-> s - d]
        <5>1. i + d <= n /\ d <= h[i].skip
          BY <3>5, <4>6
        <5> HIDE DEF i, At, S
        <5>2. h[i + d] = [memory |-> h[i].memory, skip |-> h[i].skip - d]
          BY <1>3, <4>6, <5>1
        <5> QED BY <4>6, <5>2
      <4>8. h[to.index - 1].memory = m /\ h[to.index - 1].skip = s - d
        BY <3>6, <4>7
      <4>9. to.index <= n => s - d = 0
        BY <1>1, <3>1, <3>3, <3>5, <3>6
      <4> QED BY <3>6, <4>8, <4>9
    <3>9. at.index # n + 1
      BY <1>1, <3>1
    <3> HIDE DEF S, At
    <3> QED BY <3>6, <3>7, <3>8, <3>9 DEF to
  <2> QED BY <2>1, <2>2
<1>6. \A k \in 1 .. n, at \in S : step[<<k, at>>] = RunOn(program, keys, at)
  OBVIOUS
<1>7. \A k \in 1 .. n, at \in S : step[<<k, at>>] \in S
  BY <1>5, <1>6
<1>8. ASSUME NEW k \in 0 .. n - 1, NEW at \in S, <<k, at>> \in T
      PROVE  <<k + 1, step[<<k + 1, at>>]>> \in T
  <2> DEFINE to == RunOn(program, keys, at)
  <2>0. (at.index = n + 1 \/ at.index >= k + 1) /\ At(at) /\ at.index \in 1 .. n + 1
    BY <1>8
  <2>1. k + 1 \in 1 .. n /\ k + 1 \in 0 .. n
    BY <1>1
  <2>2. step[<<k + 1, at>>] = to
    BY <1>6, <2>1
  <2>3. to \in S /\ At(to) /\ to.index \in 1 .. n + 1
        /\ (at.index <= n => to.index > at.index) /\ (at.index = n + 1 => to = at)
    BY <1>5, <2>0
  <2> HIDE DEF to, step, At, S
  <2>4. to.index = n + 1 \/ to.index >= (k + 1) + 1
    BY <1>1, <2>0, <2>3
  <2>5. <<k + 1, to>> \in T
    BY <2>1, <2>3, <2>4
  <2> HIDE DEF T
  <2> QED BY <2>2, <2>5
<1>9. RunCheatProgram(program, mem, keys) = Rounds(start, step, n).memory
  BY DEF RunCheatProgram
<1> HIDE DEF start, step, S, T, At
<1>10. Rounds(start, step, n) \in S /\ <<n, Rounds(start, step, n)>> \in T
  <2> HIDE DEF n
  <2> QED BY <1>1, <1>4, <1>7, <1>8, RoundsCounted
<1> DEFINE end == Rounds(start, step, n)
<1>11. end \in Runnings /\ end.index = n + 1 /\ At(end)
  <2> HIDE DEF end
  <2>1. end \in S /\ <<n, end>> \in T
    BY <1>10 DEF end
  <2>2. end.index \in 1 .. n + 1 /\ end \in Runnings
    BY <2>1 DEF S
  <2>3. (end.index = n + 1 \/ end.index >= n + 1) /\ At(end)
    BY <2>1 DEF T
  <2> QED BY <1>1, <2>2, <2>3
<1>12. end.memory = h[n].memory /\ end.memory \in Memories
  <2> HIDE DEF end, n
  <2>1. end.index - 1 = n
    BY <1>1, <1>11
  <2>2. end.memory = h[end.index - 1].memory
    BY <1>11 DEF At
  <2>3. end.memory \in Memories
    BY <1>11 DEF Runnings
  <2> QED BY <2>1, <2>2, <2>3
<1> QED BY <1>2, <1>9, <1>12

-----------------------------------------------------------------------------
(***************************************************************************)
(* The patches of a list: for each halfword, the last one is that of the   *)
(* last place that patches it.                                             *)
(***************************************************************************)
Patches == {op \in Operations : op.kind = "patch"}

Silent(patches, offset) == \A j \in 1 .. Len(patches) : patches[j].address # offset

Says(patches, offset, value) ==
  \E j \in 1 .. Len(patches) :
    /\ patches[j].address = offset /\ patches[j].value = value
    /\ \A k \in j + 1 .. Len(patches) : patches[k].address # offset

\* The places of a halfword before the operation behind the m-th of the i-th cheat.
UpTo(list, offset, i, m) ==
  {p \in PatchPlaces(list, offset) : p[1] < i \/ (p[1] = i /\ p[2] <= m)}

\* Patches say of a halfword what the last of some places says.
Reflects(patches, list, offset, places) ==
  \/ places = {} /\ Silent(patches, offset)
  \/ \E last \in places : /\ \A p \in places : ~Behind(p, last)
                          /\ Says(patches, offset, OperationAt(list, last).value)

LEMMA PlaceIs ==
  ASSUME NEW list, NEW offset, NEW p
  PROVE  p \in PatchPlaces(list, offset) <=>
           \E i \in DOMAIN list :
             /\ Runs(list[i])
             /\ \E j \in DOMAIN Program(list[i]).operations :
                  /\ p = <<i, j>>
                  /\ Program(list[i]).operations[j].kind = "patch"
                  /\ Program(list[i]).operations[j].address = offset
  BY DEF PatchPlaces, PlacesIn, OperationAt

LEMMA SilentAppend ==
  ASSUME NEW patches \in Seq(Patches), NEW op \in Patches, NEW offset,
         op.address # offset, Silent(patches, offset)
  PROVE  Silent(Append(patches, op), offset)
<1> SUFFICES ASSUME NEW j \in 1 .. Len(Append(patches, op))
             PROVE  Append(patches, op)[j].address # offset
  BY DEF Silent
<1>1. Len(patches) \in Nat /\ Len(Append(patches, op)) = Len(patches) + 1
  OBVIOUS
<1>2. CASE j \in 1 .. Len(patches)
  BY <1>2 DEF Silent
<1>3. CASE j = Len(patches) + 1
  BY <1>3
<1> QED BY <1>1, <1>2, <1>3

LEMMA SaysAppend ==
  ASSUME NEW patches \in Seq(Patches), NEW op \in Patches, NEW offset, NEW value,
         op.address # offset, Says(patches, offset, value)
  PROVE  Says(Append(patches, op), offset, value)
<1> DEFINE more == Append(patches, op)
           n == Len(patches)
<1>1. n \in Nat /\ Len(more) = n + 1 /\ more[n + 1] = op /\ \A i \in 1 .. n : more[i] = patches[i]
  OBVIOUS
<1>2. PICK j \in 1 .. n : /\ patches[j].address = offset /\ patches[j].value = value
                          /\ \A k \in j + 1 .. n : patches[k].address # offset
  BY DEF Says
<1> HIDE DEF more, n
<1>3. j \in 1 .. Len(more) /\ more[j].address = offset /\ more[j].value = value
  BY <1>1, <1>2
<1>4. ASSUME NEW k \in j + 1 .. Len(more) PROVE more[k].address # offset
  <2>1. k = n + 1 \/ (k \in j + 1 .. n /\ k \in 1 .. n)
    BY <1>1, <1>2
  <2>2. CASE k = n + 1
    BY <1>1, <2>2
  <2>3. CASE k \in j + 1 .. n /\ k \in 1 .. n
    BY <1>1, <1>2, <2>3
  <2> QED BY <2>1, <2>2, <2>3
<1>5. Says(more, offset, value)
  BY <1>3, <1>4 DEF Says
<1> QED BY <1>5 DEF more

LEMMA SaysLast ==
  ASSUME NEW patches \in Seq(Patches), NEW op \in Patches
  PROVE  Says(Append(patches, op), op.address, op.value)
<1> DEFINE more == Append(patches, op)
           n == Len(patches)
<1>1. n \in Nat /\ Len(more) = n + 1 /\ more[n + 1] = op
  OBVIOUS
<1> HIDE DEF more, n
<1>2. n + 1 \in 1 .. Len(more) /\ \A k \in (n + 1) + 1 .. Len(more) : FALSE
  BY <1>1
<1>3. Says(more, op.address, op.value)
  BY <1>1, <1>2 DEF Says
<1> QED BY <1>3 DEF more

LEMMA EntryOperations ==
  ASSUME NEW entry \in Entries
  PROVE  Program(entry).operations \in Seq(Operations)
  BY EntryProgram DEF Sounds, CheatPrograms

\* One operation more.
LEMMA PatchReflects ==
  ASSUME NEW list \in Seq(Entries), NEW i \in 1 .. Len(list), Runs(list[i]),
         NEW m \in Nat, m + 1 <= Len(Program(list[i]).operations),
         NEW patches \in Seq(Patches), NEW offset,
         Reflects(patches, list, offset, UpTo(list, offset, i, m))
  PROVE  LET more == WithPatch(patches, Program(list[i]).operations[m + 1])
         IN  /\ more \in Seq(Patches)
             /\ Reflects(more, list, offset, UpTo(list, offset, i, m + 1))
<1> DEFINE operations == Program(list[i]).operations
           op == operations[m + 1]
           more == WithPatch(patches, op)
           before == UpTo(list, offset, i, m)
           after == UpTo(list, offset, i, m + 1)
           here == <<i, m + 1>>
<1>1. operations \in Seq(Operations) /\ m + 1 \in 1 .. Len(operations)
  BY EntryOperations
<1>2. op \in Operations /\ m + 1 \in DOMAIN operations /\ i \in DOMAIN list
  BY <1>1
<1>3. \A p \in PatchPlaces(list, offset) : p[1] \in Int /\ p[2] \in Int /\ p = <<p[1], p[2]>>
  <2> SUFFICES ASSUME NEW p \in PatchPlaces(list, offset)
               PROVE  p[1] \in Int /\ p[2] \in Int /\ p = <<p[1], p[2]>>
    OBVIOUS
  <2>1. PICK a \in DOMAIN list : \E b \in DOMAIN Program(list[a]).operations : p = <<a, b>>
    BY PlaceIs
  <2>2. a \in Int /\ list[a] \in Entries
    BY <2>1
  <2>3. DOMAIN Program(list[a]).operations \subseteq Int
    BY <2>2, EntryOperations
  <2> QED BY <2>1, <2>2, <2>3
<1>4. \A p \in after : p \in before \/ p = here
  <2> SUFFICES ASSUME NEW p \in after, p \notin before PROVE p = here
    OBVIOUS
  <2>1. p \in PatchPlaces(list, offset) /\ p[1] = i /\ p[2] <= m + 1 /\ ~(p[2] <= m)
    BY DEF UpTo
  <2>2. p[2] = m + 1
    BY <1>3, <2>1
  <2> QED BY <1>3, <2>1, <2>2
<1>5. before \subseteq after
  <2> SUFFICES ASSUME NEW p \in before PROVE p \in after
    OBVIOUS
  <2>1. p \in PatchPlaces(list, offset) /\ (p[1] < i \/ (p[1] = i /\ p[2] <= m))
    BY DEF UpTo
  <2>2. p[2] \in Int
    BY <1>3, <2>1
  <2>3. p[2] <= m => p[2] <= m + 1
    BY <2>2
  <2> QED BY <2>1, <2>3 DEF UpTo
<1>6. here \in after <=> op.kind = "patch" /\ op.address = offset
  <2>1. here \in after <=> here \in PatchPlaces(list, offset)
    BY DEF UpTo
  <2>2. here \in PatchPlaces(list, offset) <=> op.kind = "patch" /\ op.address = offset
    BY <1>2, PlaceIs
  <2> QED BY <2>1, <2>2
<1>7. CASE op.kind = "patch" /\ op.address = offset
  <2>1. op \in Patches /\ more = Append(patches, op)
    BY <1>2, <1>7 DEF Patches, WithPatch
  <2>2. here \in after /\ OperationAt(list, here) = op
    BY <1>6, <1>7 DEF OperationAt
  <2>3. Says(more, offset, op.value)
    BY <1>7, <2>1, SaysLast
  <2>4. ASSUME NEW p \in after PROVE ~Behind(p, here)
    <3>1. p = here \/ (p[1] < i \/ (p[1] = i /\ p[2] <= m))
      BY <1>4 DEF UpTo
    <3>2. p \in PatchPlaces(list, offset)
      BY DEF UpTo
    <3>3. p[1] \in Int /\ p[2] \in Int
      BY <1>3, <3>2
    <3> QED BY <3>1, <3>3 DEF Behind
  <2> HIDE DEF op, more, after, here
  <2>5. Reflects(more, list, offset, after)
    BY <2>2, <2>3, <2>4 DEF Reflects
  <2>6. more \in Seq(Patches)
    BY <2>1
  <2> QED BY <2>5, <2>6 DEF more, op, after
<1>8. CASE ~(op.kind = "patch" /\ op.address = offset)
  <2>1. after = before
    BY <1>4, <1>5, <1>6, <1>8
  <2>2. CASE op.kind = "patch"
    <3>1. op \in Patches /\ more = Append(patches, op) /\ op.address # offset
      BY <1>2, <1>8, <2>2 DEF Patches, WithPatch
    <3> HIDE DEF op, more, after, before
    <3>2. Silent(patches, offset) => Silent(more, offset)
      BY <3>1, SilentAppend
    <3>3. \A value : Says(patches, offset, value) => Says(more, offset, value)
      BY <3>1, SaysAppend
    <3>4. Reflects(patches, list, offset, before)
      BY DEF before
    <3>5. Reflects(more, list, offset, before)
      BY <3>2, <3>3, <3>4 DEF Reflects
    <3>6. more \in Seq(Patches)
      BY <3>1
    <3> QED BY <2>1, <3>5, <3>6 DEF more, op, after
  <2>3. CASE op.kind # "patch"
    <3>1. more = patches
      BY <2>3 DEF WithPatch
    <3> QED BY <2>1, <3>1
  <2> QED BY <2>2, <2>3
<1> QED BY <1>7, <1>8

\* The operations of a cheat, one after another.
LEMMA EntryReflects ==
  ASSUME NEW list \in Seq(Entries), NEW i \in 1 .. Len(list), NEW patches \in Seq(Patches),
         NEW offset, Reflects(patches, list, offset, UpTo(list, offset, i, 0))
  PROVE  /\ WithPatchesOf(patches, list[i]) \in Seq(Patches)
         /\ Reflects(WithPatchesOf(patches, list[i]), list, offset, UpTo(list, offset, i + 1, 0))
<1> DEFINE operations == Program(list[i]).operations
           n == Len(operations)
           more == WithPatchesOf(patches, list[i])
<1>1. list[i] \in Entries /\ i \in DOMAIN list /\ i \in Nat
  OBVIOUS
<1>2. operations \in Seq(Operations) /\ n \in Nat
  BY <1>1, EntryOperations
<1>3. \A p \in PatchPlaces(list, offset) :
        /\ p[1] \in Int /\ p[2] \in Int /\ p[2] >= 1
        /\ p[1] = i => Runs(list[i]) /\ p[2] <= n
  <2> SUFFICES ASSUME NEW p \in PatchPlaces(list, offset)
               PROVE  /\ p[1] \in Int /\ p[2] \in Int /\ p[2] >= 1
                      /\ p[1] = i => Runs(list[i]) /\ p[2] <= n
    OBVIOUS
  <2>1. PICK a \in DOMAIN list :
          /\ Runs(list[a])
          /\ \E b \in DOMAIN Program(list[a]).operations : p = <<a, b>>
    BY PlaceIs
  <2>2. a \in Int /\ list[a] \in Entries
    BY <2>1
  <2>3. DOMAIN Program(list[a]).operations = 1 .. Len(Program(list[a]).operations)
    BY <2>2, EntryOperations
  <2>4. Len(Program(list[a]).operations) \in Nat
    BY <2>2, EntryOperations
  <2>5. PICK b \in DOMAIN Program(list[a]).operations : p = <<a, b>>
    BY <2>1
  <2>6. p[1] = a /\ p[2] = b /\ b \in Int /\ b >= 1 /\ b <= Len(Program(list[a]).operations)
    BY <2>3, <2>4, <2>5
  <2> QED BY <2>1, <2>2, <2>6
<1>4. CASE ~Runs(list[i])
  <2>1. more = patches
    BY <1>4 DEF WithPatchesOf
  <2>2. UpTo(list, offset, i + 1, 0) = UpTo(list, offset, i, 0)
    <3>1. ASSUME NEW p \in PatchPlaces(list, offset)
          PROVE  (p[1] < i + 1 \/ (p[1] = i + 1 /\ p[2] <= 0)) <=>
                   (p[1] < i \/ (p[1] = i /\ p[2] <= 0))
      <4>1. p[1] \in Int /\ p[2] \in Int /\ p[2] >= 1 /\ p[1] # i
        BY <1>3, <1>4
      <4> QED BY <1>1, <4>1
    <3> QED BY <3>1 DEF UpTo
  <2> QED BY <2>1, <2>2
<1>5. CASE Runs(list[i])
  <2> DEFINE step == [r \in (1 .. n) \X Seq(Operations) |-> WithPatch(r[2], operations[r[1]])]
             T == {p \in (0 .. n) \X Seq(Patches) :
                     Reflects(p[2], list, offset, UpTo(list, offset, i, p[1]))}
             S == Seq(Patches)
  <2>1. more = Rounds(patches, step, n)
    BY <1>5 DEF WithPatchesOf
  <2>2. \A k \in 1 .. n, s \in S : step[<<k, s>>] = WithPatch(s, operations[k])
    <3>1. S \subseteq Seq(Operations)
      <4>1. Patches \subseteq Operations
        BY DEF Patches
      <4> QED BY <4>1, SeqMonotonic
    <3> QED BY <3>1
  <2>3. \A k \in 1 .. n, s \in S : WithPatch(s, operations[k]) \in S
    <3> SUFFICES ASSUME NEW k \in 1 .. n, NEW s \in S PROVE WithPatch(s, operations[k]) \in S
      OBVIOUS
    <3>1. operations[k] \in Operations
      BY <1>2
    <3> HIDE DEF operations
    <3> QED BY <3>1 DEF WithPatch, Patches
  <2>4. \A k \in 1 .. n, s \in S : step[<<k, s>>] \in S
    BY <2>2, <2>3
  <2>5. ASSUME NEW k \in 0 .. n - 1, NEW s \in S, <<k, s>> \in T
        PROVE  <<k + 1, step[<<k + 1, s>>]>> \in T
    <3>1. k + 1 \in 1 .. n /\ k + 1 \in 0 .. n /\ k \in Nat /\ k + 1 <= n
      BY <1>2
    <3>2. Reflects(s, list, offset, UpTo(list, offset, i, k))
      BY <2>5
    <3> DEFINE t == WithPatch(s, operations[k + 1])
    <3>3. /\ t \in Seq(Patches)
          /\ Reflects(t, list, offset, UpTo(list, offset, i, k + 1))
      <4> HIDE DEF step, T
      <4> QED BY <1>5, <3>1, <3>2, PatchReflects
    <3>4. step[<<k + 1, s>>] = t
      BY <2>2, <3>1
    <3> HIDE DEF t, step
    <3>5. <<k + 1, t>> \in T
      BY <3>1, <3>3
    <3> HIDE DEF T
    <3> QED BY <3>4, <3>5
  <2>6. <<0, patches>> \in T
    BY <1>2
  <2> HIDE DEF step, T, n, S
  <2>7. patches \in S
    BY DEF S
  <2>8. Rounds(patches, step, n) \in S /\ <<n, Rounds(patches, step, n)>> \in T
    BY <1>2, <2>4, <2>5, <2>6, <2>7, RoundsCounted
  <2> HIDE DEF more
  <2>9. more \in Seq(Patches) /\ Reflects(more, list, offset, UpTo(list, offset, i, n))
    BY <2>1, <2>8 DEF S, T
  <2>10. UpTo(list, offset, i + 1, 0) = UpTo(list, offset, i, n)
    <3>1. ASSUME NEW p \in PatchPlaces(list, offset)
          PROVE  (p[1] < i + 1 \/ (p[1] = i + 1 /\ p[2] <= 0)) <=>
                   (p[1] < i \/ (p[1] = i /\ p[2] <= n))
      <4>1. p[1] \in Int /\ p[2] \in Int /\ p[2] >= 1 /\ (p[1] = i => p[2] <= n)
        BY <1>3 DEF n
      <4> QED BY <1>1, <4>1
    <3> QED BY <3>1 DEF UpTo
  <2> QED BY <2>9, <2>10 DEF more
<1> QED BY <1>4, <1>5

LEMMA ListReflects ==
  ASSUME NEW list \in Seq(Entries), NEW offset
  PROVE  /\ RomPatches(list) \in Seq(Patches)
         /\ Reflects(RomPatches(list), list, offset, PatchPlaces(list, offset))
<1> DEFINE n == Len(list)
           S == Seq(Patches)
           start == <<>>
           step == [r \in (1 .. n) \X Seq(Operations) |-> WithPatchesOf(r[2], list[r[1]])]
           T == {p \in (0 .. n) \X S : Reflects(p[2], list, offset, UpTo(list, offset, p[1] + 1, 0))}
<1>1. n \in Nat
  OBVIOUS
<1>2. \A p \in PatchPlaces(list, offset) : p[1] \in 1 .. n /\ p[2] \in Int /\ p[2] >= 1
  <2> SUFFICES ASSUME NEW p \in PatchPlaces(list, offset)
               PROVE  p[1] \in 1 .. n /\ p[2] \in Int /\ p[2] >= 1
    OBVIOUS
  <2>1. PICK a \in DOMAIN list : \E b \in DOMAIN Program(list[a]).operations : p = <<a, b>>
    BY PlaceIs
  <2>2. a \in 1 .. n /\ list[a] \in Entries
    BY <2>1
  <2>3. DOMAIN Program(list[a]).operations = 1 .. Len(Program(list[a]).operations)
    BY <2>2, EntryOperations
  <2>4. PICK b \in 1 .. Len(Program(list[a]).operations) : p = <<a, b>>
    BY <2>1, <2>3
  <2> QED BY <2>2, <2>4
<1>3. \A k \in 1 .. n, s \in S : step[<<k, s>>] = WithPatchesOf(s, list[k])
  <2>1. S \subseteq Seq(Operations)
    <3>1. Patches \subseteq Operations
      BY DEF Patches
    <3> QED BY <3>1, SeqMonotonic
  <2> QED BY <2>1
<1>4. RomPatches(list) = Rounds(start, step, n)
  BY DEF RomPatches
<1>5. start \in S /\ <<0, start>> \in T
  <2>1. start \in S
    OBVIOUS
  <2>2. UpTo(list, offset, 1, 0) = {}
    <3>1. ASSUME NEW p \in PatchPlaces(list, offset)
          PROVE  ~(p[1] < 1 \/ (p[1] = 1 /\ p[2] <= 0))
      BY <1>1, <1>2
    <3> QED BY <3>1 DEF UpTo
  <2>3. Silent(start, offset)
    BY DEF Silent
  <2>4. Reflects(start, list, offset, UpTo(list, offset, 1, 0))
    BY <2>2, <2>3 DEF Reflects
  <2> HIDE DEF start, S
  <2> QED BY <1>1, <2>1, <2>4
<1>6. \A k \in 1 .. n, s \in S : WithPatchesOf(s, list[k]) \in S
  <2> SUFFICES ASSUME NEW k \in 1 .. n, NEW s \in S PROVE WithPatchesOf(s, list[k]) \in S
    OBVIOUS
  <2> DEFINE operations == Program(list[k]).operations
             m == Len(operations)
             inner == [r \in (1 .. m) \X Seq(Operations) |-> WithPatch(r[2], operations[r[1]])]
  <2>1. operations \in Seq(Operations) /\ m \in Nat
    BY EntryOperations
  <2>2. \A a \in 1 .. m, t \in S : inner[<<a, t>>] \in S
    <3> SUFFICES ASSUME NEW a \in 1 .. m, NEW t \in S PROVE inner[<<a, t>>] \in S
      OBVIOUS
    <3>1. operations[a] \in Operations
      BY <2>1
    <3>2. t \in Seq(Operations)
      <4>1. Patches \subseteq Operations
        BY DEF Patches
      <4> QED BY <4>1, SeqMonotonic
    <3>3. inner[<<a, t>>] = WithPatch(t, operations[a])
      BY <3>2
    <3> HIDE DEF operations, inner
    <3> QED BY <3>1, <3>3 DEF WithPatch, Patches
  <2>3. CASE Runs(list[k])
    <3>1. WithPatchesOf(s, list[k]) = Rounds(s, inner, m)
      BY <2>3 DEF WithPatchesOf
    <3> HIDE DEF inner, m, S
    <3> QED BY <2>1, <2>2, <3>1, RoundsStay
  <2>4. CASE ~Runs(list[k])
    BY <2>4 DEF WithPatchesOf
  <2> QED BY <2>3, <2>4
<1>7. \A k \in 1 .. n, s \in S : step[<<k, s>>] \in S
  BY <1>3, <1>6
<1>8. ASSUME NEW k \in 0 .. n - 1, NEW s \in S, <<k, s>> \in T
      PROVE  <<k + 1, step[<<k + 1, s>>]>> \in T
  <2> DEFINE t == WithPatchesOf(s, list[k + 1])
  <2>1. k + 1 \in 1 .. n /\ k + 1 \in 0 .. n
    BY <1>1
  <2>2. Reflects(s, list, offset, UpTo(list, offset, k + 1, 0))
    BY <1>8
  <2>3. t \in S /\ Reflects(t, list, offset, UpTo(list, offset, (k + 1) + 1, 0))
    <3> HIDE DEF step, T
    <3> QED BY <2>1, <2>2, EntryReflects
  <2>4. step[<<k + 1, s>>] = t
    BY <1>3, <2>1
  <2> HIDE DEF t, step, S
  <2>5. <<k + 1, t>> \in T
    BY <2>1, <2>3
  <2> HIDE DEF T
  <2> QED BY <2>4, <2>5
<1> HIDE DEF start, step, T, n, S
<1>9. Rounds(start, step, n) \in S /\ <<n, Rounds(start, step, n)>> \in T
  BY <1>1, <1>5, <1>7, <1>8, RoundsCounted
<1>10. UpTo(list, offset, n + 1, 0) = PatchPlaces(list, offset)
  <2>1. ASSUME NEW p \in PatchPlaces(list, offset) PROVE p[1] < n + 1
    BY <1>1, <1>2
  <2> QED BY <2>1 DEF UpTo
<1>11. Reflects(RomPatches(list), list, offset, UpTo(list, offset, n + 1, 0))
  BY <1>4, <1>9 DEF T
<1> QED BY <1>4, <1>9, <1>10, <1>11 DEF S

-----------------------------------------------------------------------------
(***************************************************************************)
(* The cartridge with the patches of a list, and undoing them.             *)
(***************************************************************************)
Images == [RomOffsets -> Values]

LEMMA UndoneTyped ==
  ASSUME NEW image \in Images, NEW undos \in Seq(Undos)
  PROVE  Undone(image, undos) \in Images
<1> DEFINE n == Len(undos)
           step == [r \in (1 .. n) \X Images |->
                      [r[2] EXCEPT ![undos[r[1]].offset] = undos[r[1]].original]]
<1>1. n \in Nat /\ \A k \in 1 .. n : undos[k] \in Undos
  OBVIOUS
<1>2. ASSUME NEW k \in 1 .. n, NEW s \in Images PROVE step[<<k, s>>] \in Images
  <2>1. undos[k].original \in Values
    BY <1>1 DEF Undos
  <2>2. step[<<k, s>>] = [s EXCEPT ![undos[k].offset] = undos[k].original]
    OBVIOUS
  <2> HIDE DEF step, n
  <2> QED BY <2>1, <2>2 DEF Images
<1>3. Undone(image, undos) = Rounds(image, step, n)
  BY DEF Undone, Images
<1> HIDE DEF step, n
<1> QED BY <1>1, <1>2, <1>3, RoundsStay

\* Undoing does the first, then the others.
LEMMA UndoneFirst ==
  ASSUME NEW image \in Images, NEW undo \in Undos, NEW undos \in Seq(Undos)
  PROVE  Undone(image, <<undo>> \o undos) =
           Undone([image EXCEPT ![undo.offset] = undo.original], undos)
<1> DEFINE all == <<undo>> \o undos
           n == Len(all)
           m == Len(undos)
           step == [r \in (1 .. n) \X Images |->
                      [r[2] EXCEPT ![all[r[1]].offset] = all[r[1]].original]]
           rest == [r \in (1 .. m) \X Images |->
                      [r[2] EXCEPT ![undos[r[1]].offset] = undos[r[1]].original]]
           once == [image EXCEPT ![undo.offset] = undo.original]
<1>1. /\ m \in Nat /\ n = m + 1 /\ all \in Seq(Undos) /\ all[1] = undo
      /\ \A k \in 1 .. m : all[k + 1] = undos[k]
  <2>1. <<undo>> \in Seq(Undos) /\ Len(<<undo>>) = 1 /\ <<undo>>[1] = undo
    OBVIOUS
  <2>2. m \in Nat
    OBVIOUS
  <2>3. /\ all \in Seq(Undos) /\ n = 1 + m
        /\ \A i \in 1 .. 1 + m : all[i] = IF i <= 1 THEN <<undo>>[i] ELSE undos[i - 1]
    BY <2>1, ConcatProperties
  <2> HIDE DEF all, m, n
  <2>4. all[1] = undo
    BY <2>1, <2>2, <2>3
  <2>5. \A k \in 1 .. m : k + 1 \in 1 .. 1 + m /\ ~(k + 1 <= 1) /\ (k + 1) - 1 = k
    BY <2>2
  <2>6. \A k \in 1 .. m : all[k + 1] = undos[k]
    BY <2>3, <2>5
  <2> QED BY <2>2, <2>3, <2>4, <2>6
<1>2. Undone(image, all) = Rounds(image, step, n) /\ Undone(once, undos) = Rounds(once, rest, m)
  BY DEF Undone, Images
<1> HIDE DEF all, n, m
<1>3. ASSUME NEW k \in 1 .. n, NEW s \in Images PROVE step[<<k, s>>] \in Images
  <2>1. all[k] \in Undos
    BY <1>1 DEF n
  <2>2. all[k].original \in Values
    BY <2>1 DEF Undos
  <2>3. step[<<k, s>>] = [s EXCEPT ![all[k].offset] = all[k].original]
    OBVIOUS
  <2> HIDE DEF step
  <2> QED BY <2>2, <2>3 DEF Images
<1>4. ASSUME NEW k \in 1 .. n - 1, NEW s \in Images PROVE rest[<<k, s>>] = step[<<k + 1, s>>]
  <2>1. k \in 1 .. m /\ k + 1 \in 1 .. n /\ all[k + 1] = undos[k]
    BY <1>1
  <2> QED BY <2>1
<1>5. step[<<1, image>>] = once
  <2>1. 1 \in 1 .. n
    BY <1>1
  <2> QED BY <1>1, <2>1
<1>6. n \in Nat \ {0} /\ n - 1 = m
  BY <1>1
<1> HIDE DEF step, rest, once
<1>7. Rounds(image, step, n) = Rounds(step[<<1, image>>], rest, n - 1)
  BY <1>3, <1>4, <1>6, RoundsFirst
<1>8. Undone(image, all) = Undone(once, undos)
  BY <1>2, <1>5, <1>6, <1>7
<1> QED BY <1>8 DEF all, once

LEMMA ReverseAppend ==
  ASSUME NEW undos \in Seq(Undos), NEW undo \in Undos
  PROVE  Reverse(undos) \in Seq(Undos) /\ Reverse(Append(undos, undo)) = <<undo>> \o Reverse(undos)
<1> DEFINE m == Len(undos)
           more == Append(undos, undo)
           back == Reverse(undos)
           all == <<undo>> \o back
<1>1. /\ m \in Nat /\ Len(more) = m + 1 /\ more[m + 1] = undo
      /\ \A k \in 1 .. m : more[k] = undos[k] /\ undos[k] \in Undos
  OBVIOUS
<1>2. back \in Seq(Undos) /\ Len(back) = m /\ \A k \in 1 .. m : back[k] = undos[(m - k) + 1]
  <2>1. \A k \in 1 .. m : undos[(m - k) + 1] \in Undos
    <3>1. \A k \in 1 .. m : (m - k) + 1 \in 1 .. m
      BY <1>1
    <3> QED BY <1>1, <3>1
  <2>2. back = [k \in 1 .. m |-> undos[(m - k) + 1]]
    BY DEF Reverse
  <2> HIDE DEF m, back
  <2> QED BY <1>1, <2>1, <2>2
<1>3. Reverse(more) = [k \in 1 .. m + 1 |-> more[((m + 1) - k) + 1]]
  BY <1>1 DEF Reverse
<1> HIDE DEF more, back, m
<1>4. /\ all \in Seq(Undos) /\ Len(all) = m + 1
      /\ \A k \in 1 .. 1 + m : all[k] = IF k <= 1 THEN <<undo>>[k] ELSE back[k - 1]
  <2>1. <<undo>> \in Seq(Undos) /\ Len(<<undo>>) = 1
    OBVIOUS
  <2>2. /\ all \in Seq(Undos) /\ Len(all) = 1 + m
        /\ \A k \in 1 .. 1 + m : all[k] = IF k <= 1 THEN <<undo>>[k] ELSE back[k - 1]
    BY <1>2, <2>1, ConcatProperties
  <2> QED BY <1>1, <2>2
<1>5. ASSUME NEW k \in 1 .. m + 1 PROVE more[((m + 1) - k) + 1] = all[k]
  <2>1. CASE k = 1
    <3>1. ((m + 1) - k) + 1 = m + 1 /\ k \in 1 .. 1 + m /\ k <= 1
      BY <1>1, <2>1
    <3>2. all[k] = undo
      BY <1>4, <2>1, <3>1
    <3> QED BY <1>1, <3>1, <3>2
  <2>2. CASE k # 1
    <3>1. /\ k - 1 \in 1 .. m /\ (m - (k - 1)) + 1 = ((m + 1) - k) + 1
          /\ ((m + 1) - k) + 1 \in 1 .. m /\ k \in 1 .. 1 + m /\ ~(k <= 1)
      BY <1>1, <2>2
    <3>2. all[k] = undos[((m + 1) - k) + 1]
      BY <1>2, <1>4, <3>1
    <3> QED BY <1>1, <3>1, <3>2
  <2> QED BY <2>1, <2>2
<1>6. all = [k \in 1 .. m + 1 |-> all[k]]
  <2> HIDE DEF all
  <2> QED BY <1>1, <1>4
<1> HIDE DEF all
<1>7. Reverse(more) = all
  BY <1>3, <1>5, <1>6
<1> QED BY <1>2, <1>7 DEF more, back, all

\* Undoing the last patch first gives back what there was before it.
LEMMA PatchUnwinds ==
  ASSUME NEW image \in Images, NEW undo \in Seq(Undos), NEW patch \in Patches,
         patch.address \in RomOffsets
  PROVE  Unwound([image EXCEPT ![patch.address] = patch.value],
                 Append(undo, [offset |-> patch.address, original |-> image[patch.address]]))
           = Unwound(image, undo)
<1> DEFINE a == patch.address
           u == [offset |-> a, original |-> image[a]]
           there == [image EXCEPT ![a] = patch.value]
<1>1. a \in RomOffsets /\ patch.value \in Values /\ image[a] \in Values
  BY DEF Patches, Operations, Images
<1>2. u \in Undos /\ u.offset = a /\ u.original = image[a]
  BY <1>1 DEF Undos
<1>3. there \in Images /\ [there EXCEPT ![a] = image[a]] = image
  BY <1>1 DEF Images
<1> HIDE DEF u, there, a
<1>4. Reverse(undo) \in Seq(Undos) /\ Reverse(Append(undo, u)) = <<u>> \o Reverse(undo)
  BY <1>2, ReverseAppend
<1>5. Undone(there, <<u>> \o Reverse(undo)) =
        Undone([there EXCEPT ![u.offset] = u.original], Reverse(undo))
  BY <1>2, <1>3, <1>4, UndoneFirst
<1>6. [there EXCEPT ![u.offset] = u.original] = image
  BY <1>2, <1>3
<1>7. Unwound(there, Append(undo, u)) = Unwound(image, undo)
  BY <1>4, <1>5, <1>6 DEF Unwound
<1> QED BY <1>7 DEF u, there, a

\* What the first k patches make a halfword hold that was read with base.
Holds(patches, k, offset, base, value) ==
  \/ value = base /\ \A j \in 1 .. k : patches[j].address # offset
  \/ \E j \in 1 .. k : /\ patches[j].address = offset /\ patches[j].value = value
                       /\ \A i \in j + 1 .. k : patches[i].address # offset

LEMMA HoldsOther ==
  ASSUME NEW patches, NEW k \in Nat, NEW offset, NEW base, NEW value,
         patches[k + 1].address # offset, Holds(patches, k, offset, base, value)
  PROVE  Holds(patches, k + 1, offset, base, value)
<1>1. \A j \in 1 .. k + 1 : j = k + 1 \/ j \in 1 .. k
  OBVIOUS
<1>2. CASE value = base /\ \A j \in 1 .. k : patches[j].address # offset
  BY <1>1, <1>2 DEF Holds
<1>3. CASE \E j \in 1 .. k : /\ patches[j].address = offset /\ patches[j].value = value
                             /\ \A i \in j + 1 .. k : patches[i].address # offset
  <2>1. PICK j \in 1 .. k : /\ patches[j].address = offset /\ patches[j].value = value
                            /\ \A i \in j + 1 .. k : patches[i].address # offset
    BY <1>3
  <2>2. j \in 1 .. k + 1 /\ \A i \in j + 1 .. k + 1 : i = k + 1 \/ i \in j + 1 .. k
    OBVIOUS
  <2>3. \A i \in j + 1 .. k + 1 : patches[i].address # offset
    BY <2>1, <2>2
  <2> QED BY <2>1, <2>2, <2>3 DEF Holds
<1> QED BY <1>2, <1>3 DEF Holds

LEMMA HoldsLast ==
  ASSUME NEW patches, NEW k \in Nat, NEW base
  PROVE  Holds(patches, k + 1, patches[k + 1].address, base, patches[k + 1].value)
<1>1. k + 1 \in 1 .. k + 1 /\ \A i \in (k + 1) + 1 .. k + 1 : FALSE
  OBVIOUS
<1> QED BY <1>1 DEF Holds

\* An overlay of an image by the first k patches.
OverlaysOf(image, patches, k) ==
  {s \in Overlays :
     /\ \A offset \in RomOffsets : Holds(patches, k, offset, image[offset], s.image[offset])
     /\ Unwound(s.image, s.undo) = image}

LEMMA PatchedOverlays ==
  ASSUME NEW image \in Images, NEW patches, NEW k \in Nat, patches[k + 1] \in Patches,
         NEW s \in OverlaysOf(image, patches, k)
  PROVE  Patched(s, patches[k + 1]) \in OverlaysOf(image, patches, k + 1)
<1> DEFINE patch == patches[k + 1]
           t == Patched(s, patch)
           a == patch.address
<1>1. /\ s \in Overlays /\ s.image \in Images /\ s.undo \in Seq(Undos)
      /\ \A offset \in RomOffsets : Holds(patches, k, offset, image[offset], s.image[offset])
      /\ Unwound(s.image, s.undo) = image
  BY DEF OverlaysOf, Overlays, Images
<1>2. patch \in Patches /\ patch.value \in Values
  BY DEF Patches, Operations
<1>3. CASE a \notin RomOffsets
  <2>1. t = s
    BY <1>3 DEF Patched
  <2>2. \A offset \in RomOffsets : Holds(patches, k + 1, offset, image[offset], s.image[offset])
    BY <1>1, <1>3, HoldsOther
  <2> QED BY <1>1, <2>1, <2>2 DEF OverlaysOf
<1>4. CASE a \in RomOffsets
  <2> DEFINE there == [s.image EXCEPT ![a] = patch.value]
             u == [offset |-> a, original |-> s.image[a]]
             undo == Append(s.undo, u)
  <2>1. t = [image |-> there, undo |-> undo]
    BY <1>4 DEF Patched
  <2>2. Unwound(there, undo) = image
    BY <1>1, <1>2, <1>4, PatchUnwinds
  <2>3. there \in Images /\ there[a] = patch.value
        /\ \A offset \in RomOffsets : offset # a => there[offset] = s.image[offset]
    BY <1>1, <1>2, <1>4 DEF Images
  <2>4. undo \in Seq(Undos)
    <3>1. s.image[a] \in Values
      BY <1>1, <1>4 DEF Images
    <3>2. u \in Undos
      BY <1>4, <3>1 DEF Undos
    <3> HIDE DEF u
    <3> QED BY <1>1, <3>2
  <2>5. ASSUME NEW offset \in RomOffsets
        PROVE  Holds(patches, k + 1, offset, image[offset], there[offset])
    <3>1. CASE offset = a
      BY <2>3, <3>1, HoldsLast
    <3>2. CASE offset # a
      BY <1>1, <2>3, <3>2, HoldsOther
    <3> QED BY <3>1, <3>2
  <2> HIDE DEF there, undo, t
  <2>6. t \in Overlays /\ t.image = there /\ t.undo = undo
    BY <2>1, <2>3, <2>4 DEF Overlays, Images
  <2> QED BY <2>2, <2>5, <2>6 DEF OverlaysOf, t
<1> QED BY <1>3, <1>4

\* The cartridge with a list's patches.
LEMMA OverlaidIs ==
  ASSUME NEW image \in Images, NEW list \in Seq(Entries)
  PROVE  LET patches == RomPatches(list)
         IN  /\ patches \in Seq(Patches) /\ Len(patches) \in Nat
             /\ Overlaid(image, list) \in OverlaysOf(image, patches, Len(patches))
<1> DEFINE patches == RomPatches(list)
           n == Len(patches)
           start == [image |-> image, undo |-> <<>>]
           step == [r \in (1 .. n) \X Overlays |-> Patched(r[2], patches[r[1]])]
           T == {p \in (0 .. n) \X Overlays : p[2] \in OverlaysOf(image, patches, p[1])}
<1>1. patches \in Seq(Patches)
  BY ListReflects
<1>2. n \in Nat /\ \A k \in 1 .. n : patches[k] \in Patches
  BY <1>1
<1>3. Overlaid(image, list) = Rounds(start, step, n)
  BY DEF Overlaid
<1> HIDE DEF patches, n
<1>4. \A k \in 1 .. n, s \in Overlays : step[<<k, s>>] = Patched(s, patches[k])
  OBVIOUS
<1>5. ASSUME NEW k \in 1 .. n, NEW s \in Overlays PROVE Patched(s, patches[k]) \in Overlays
  <2> DEFINE a == patches[k].address
             there == [s.image EXCEPT ![a] = patches[k].value]
             u == [offset |-> a, original |-> s.image[a]]
             undo == Append(s.undo, u)
  <2>1. patches[k].value \in Values
    BY <1>2 DEF Patches, Operations
  <2>2. s.image \in Images /\ s.undo \in Seq(Undos)
    BY DEF Overlays, Images
  <2>3. CASE a \notin RomOffsets
    BY <2>3 DEF Patched
  <2>4. CASE a \in RomOffsets
    <3>1. Patched(s, patches[k]) = [image |-> there, undo |-> undo]
      BY <2>4 DEF Patched
    <3>2. there \in Images
      BY <2>1, <2>2, <2>4 DEF Images
    <3>3. u \in Undos
      <4>1. s.image[a] \in Values
        BY <2>2, <2>4 DEF Images
      <4> QED BY <2>4, <4>1 DEF Undos
    <3> HIDE DEF u, there
    <3>4. undo \in Seq(Undos)
      BY <2>2, <3>3
    <3> HIDE DEF undo
    <3> QED BY <3>1, <3>2, <3>4 DEF Overlays, Images
  <2> QED BY <2>3, <2>4
<1>6. \A k \in 1 .. n, s \in Overlays : step[<<k, s>>] \in Overlays
  BY <1>4, <1>5
<1>7. start \in Overlays /\ <<0, start>> \in T
  <2>1. start \in Overlays
    BY DEF Overlays, Images
  <2>2. start.image = image /\ start.undo = <<>>
    OBVIOUS
  <2>3. \A offset \in RomOffsets : Holds(patches, 0, offset, image[offset], image[offset])
    BY DEF Holds
  <2>4. Unwound(image, <<>>) = image
    <3>1. Reverse(<<>>) = <<>> /\ <<>> \in Seq(Undos) /\ Len(<<>>) = 0
      BY DEF Reverse
    <3> DEFINE none == <<>>
               still == [r \in (1 .. Len(none)) \X Images |->
                           [r[2] EXCEPT ![none[r[1]].offset] = none[r[1]].original]]
    <3>2. Undone(image, none) = Rounds(image, still, 0)
      BY DEF Undone, Images
    <3>3. \A k \in 1 .. 0, s \in {image} : still[<<k, s>>] \in {image}
      OBVIOUS
    <3> HIDE DEF still
    <3>4. Rounds(image, still, 0) \in {image}
      BY <3>3, RoundsStay
    <3> QED BY <3>1, <3>2, <3>4 DEF Unwound
  <2> HIDE DEF start
  <2>5. start \in OverlaysOf(image, patches, 0)
    BY <2>1, <2>2, <2>3, <2>4 DEF OverlaysOf
  <2> QED BY <1>2, <2>1, <2>5
<1>8. ASSUME NEW k \in 0 .. n - 1, NEW s \in Overlays, <<k, s>> \in T
      PROVE  <<k + 1, step[<<k + 1, s>>]>> \in T
  <2> DEFINE t == Patched(s, patches[k + 1])
  <2>1. k \in Nat /\ k + 1 \in 1 .. n /\ k + 1 \in 0 .. n
    BY <1>2
  <2>2. s \in OverlaysOf(image, patches, k)
    BY <1>8
  <2>3. t \in OverlaysOf(image, patches, k + 1)
    BY <1>2, <2>1, <2>2, PatchedOverlays
  <2>4. step[<<k + 1, s>>] = t /\ t \in Overlays
    BY <1>4, <1>5, <2>1
  <2> HIDE DEF t, step
  <2>5. <<k + 1, t>> \in T
    BY <2>1, <2>3, <2>4
  <2> HIDE DEF T
  <2> QED BY <2>4, <2>5
<1> HIDE DEF start, step, T
<1>9. Rounds(start, step, n) \in Overlays /\ <<n, Rounds(start, step, n)>> \in T
  BY <1>2, <1>6, <1>7, <1>8, RoundsCounted
<1>10. Overlaid(image, list) \in OverlaysOf(image, patches, n)
  BY <1>3, <1>9 DEF T
<1> QED BY <1>1, <1>2, <1>10 DEF patches, n

\* A loop of no rounds.
LEMMA NoRounds ==
  ASSUME NEW start, NEW step
  PROVE  Rounds(start, step, 0) = start
<1>1. \A k \in 1 .. 0, s \in {start} : step[<<k, s>>] \in {start}
  OBVIOUS
<1>2. Rounds(start, step, 0) \in {start}
  BY <1>1, RoundsStay
<1> QED BY <1>2

LEMMA NothingOverlaid ==
  ASSUME NEW image
  PROVE  Overlaid(image, <<>>) = [image |-> image, undo |-> <<>>]
<1> DEFINE none == <<>>
           list == [r \in (1 .. Len(none)) \X Seq(Operations) |-> WithPatchesOf(r[2], none[r[1]])]
           start == [image |-> image, undo |-> <<>>]
           step == [r \in (1 .. Len(none)) \X Overlays |-> Patched(r[2], none[r[1]])]
<1>1. Len(none) = 0
  OBVIOUS
<1>2. RomPatches(none) = Rounds(<<>>, list, 0)
  BY <1>1 DEF RomPatches
<1>3. Rounds(<<>>, list, 0) = <<>>
  <2> HIDE DEF list, none
  <2> QED BY NoRounds
<1>4. RomPatches(none) = none
  BY <1>2, <1>3
<1>5. Overlaid(image, none) = Rounds(start, step, 0)
  BY <1>1, <1>4 DEF Overlaid
<1>6. Rounds(start, step, 0) = start
  <2> HIDE DEF start, step, none
  <2> QED BY NoRounds
<1> QED BY <1>5, <1>6

\* The cartridge holds the patches of the list.
LEMMA OverlaidFollows ==
  ASSUME NEW image \in Images, NEW list \in Seq(Entries), NEW offset \in RomOffsets
  PROVE  LET places == PatchPlaces(list, offset)
         IN  IF places = {} THEN Overlaid(image, list).image[offset] = image[offset]
             ELSE \E last \in places :
                    /\ \A place \in places : ~Behind(place, last)
                    /\ Overlaid(image, list).image[offset] = OperationAt(list, last).value
<1> DEFINE patches == RomPatches(list)
           n == Len(patches)
           places == PatchPlaces(list, offset)
           value == Overlaid(image, list).image[offset]
<1>1. patches \in Seq(Patches) /\ n \in Nat /\ Holds(patches, n, offset, image[offset], value)
  BY OverlaidIs DEF OverlaysOf
<1>2. Reflects(patches, list, offset, places)
  BY ListReflects
<1> HIDE DEF patches, value, places
<1>3. CASE places = {}
  <2>1. Silent(patches, offset)
    BY <1>2, <1>3 DEF Reflects
  <2>2. value = image[offset]
    BY <1>1, <2>1 DEF Silent, Holds, n
  <2> QED BY <1>3, <2>2 DEF value, places
<1>4. CASE places # {}
  <2>1. PICK last \in places : /\ \A p \in places : ~Behind(p, last)
                               /\ Says(patches, offset, OperationAt(list, last).value)
    BY <1>2, <1>4 DEF Reflects
  <2>2. PICK j \in 1 .. n : /\ patches[j].address = offset
                            /\ patches[j].value = OperationAt(list, last).value
                            /\ \A k \in j + 1 .. n : patches[k].address # offset
    BY <2>1 DEF Says
  <2> HIDE DEF n
  <2>3. PICK i \in 1 .. n : /\ patches[i].address = offset /\ patches[i].value = value
                            /\ \A k \in i + 1 .. n : patches[k].address # offset
    BY <1>1, <2>2 DEF Holds
  <2>4. ~(j > i) /\ ~(i > j)
    <3>1. j > i => j \in i + 1 .. n
      BY <1>1
    <3>2. i > j => i \in j + 1 .. n
      BY <1>1
    <3> QED BY <2>2, <2>3, <3>1, <3>2
  <2>5. i = j
    BY <1>1, <2>4
  <2>6. value = OperationAt(list, last).value
    BY <2>2, <2>3, <2>5
  <2> QED BY <1>4, <2>1, <2>6 DEF value, places
<1> QED BY <1>3, <1>4

-----------------------------------------------------------------------------
(***************************************************************************)
(* Files: what is saved is what is loaded.  Only a cheat that decodes is   *)
(* ever on.                                                                *)
(***************************************************************************)
Settled == {entry \in Entries : entry.enabled => ~Program(entry).failed}

Saved == [description : Names, code : {<<>>} \cup {<<text>> : text \in DOMAIN Texts},
          enabled : BOOLEAN]

\* The list with the names a file gives back.
QuotedList(list) == [i \in DOMAIN list |-> [list[i] EXCEPT !.description = Quoted(@)]]

LEMMA SettledEntries ==
  ASSUME NEW list \in Seq(Settled)
  PROVE  list \in Seq(Entries)
<1>1. Settled \subseteq Entries
  BY DEF Settled
<1> QED BY <1>1, SeqMonotonic

LEMMA ReadSettled ==
  ASSUME NEW cheat \in Saved, cheat.code # <<>>
  PROVE  Read(cheat) \in Settled
<1> DEFINE e == Entry(cheat.description, cheat.code[1], cheat.enabled)
           on == cheat.enabled /\ ~Program(e).failed
<1>1. PICK text \in DOMAIN Texts : cheat.code = <<text>>
  BY DEF Saved
<1>2. e \in Entries /\ e.code = text /\ e.enabled = cheat.enabled
  BY <1>1 DEF Entry, Entries, Saved
<1>3. Programs[text] \in Sounds
  BY ProgramSound
<1>4. Program(e) = Programs[text] /\ Program(e).failed \in BOOLEAN
  BY <1>2, <1>3 DEF Program, Sounds, CheatPrograms
<1>5. Read(cheat) = [e EXCEPT !.enabled = on]
  BY <1>2 DEF Read
<1>6. on \in BOOLEAN /\ (on => ~Program(e).failed)
  OBVIOUS
<1> HIDE DEF e, on
<1>7. /\ Read(cheat) \in Entries /\ Read(cheat).code = e.code /\ Read(cheat).enabled = on
  BY <1>2, <1>5, <1>6 DEF Entries
<1>8. Program(Read(cheat)) = Program(e)
  BY <1>7 DEF Program
<1> QED BY <1>6, <1>7, <1>8 DEF Settled

LEMMA FewerSaved ==
  ASSUME NEW m \in Nat
  PROVE  Smaller(m, FileLimit) \in 0 .. m /\ (m <= FileLimit => Smaller(m, FileLimit) = m)
  BY CheatsAssumption DEF Smaller

LEMMA LoadedSettled ==
  ASSUME NEW file \in CheatFiles
  PROVE  Loaded(file) \in Seq(Settled)
<1> DEFINE n == Smaller(Len(file.cheats), FileLimit)
           Found(list, cheat) == IF cheat.code = <<>> THEN list ELSE Append(list, Read(cheat))
           step == [r \in (1 .. n) \X Seq(Entries) |-> Found(r[2], file.cheats[r[1]])]
           S == Seq(Settled)
<1>1. <<>> \in S
  OBVIOUS
<1>2. file.cheats \in Seq(Saved)
  BY DEF CheatFiles, Saved
<1>3. n \in Nat /\ \A k \in 1 .. n : file.cheats[k] \in Saved
  <2>1. Len(file.cheats) \in Nat /\ \A k \in 1 .. Len(file.cheats) : file.cheats[k] \in Saved
    BY <1>2
  <2>2. n \in 0 .. Len(file.cheats)
    BY <2>1, FewerSaved
  <2> QED BY <2>1, <2>2
<1>4. LoadText(file) = Rounds(<<>>, step, n)
  BY DEF LoadText
<1>5. ASSUME NEW k \in 1 .. n, NEW s \in S PROVE step[<<k, s>>] \in S
  <2>1. s \in Seq(Entries)
    BY SettledEntries
  <2>2. step[<<k, s>>] = Found(s, file.cheats[k])
    BY <2>1
  <2>3. file.cheats[k].code # <<>> => Read(file.cheats[k]) \in Settled
    BY <1>3, ReadSettled
  <2>4. Found(s, file.cheats[k]) \in S
    BY <2>3
  <2> HIDE DEF step, S, Found
  <2> QED BY <2>2, <2>4
<1>6. Rounds(<<>>, step, n) \in S
  <2> HIDE DEF step, n, S
  <2> QED BY <1>1, <1>3, <1>5, RoundsStay
<1> QED BY <1>1, <1>4, <1>6 DEF Loaded

LEMMA ToTextTyped ==
  ASSUME NEW list \in Seq(Settled)
  PROVE  ToText(list) \in CheatFiles /\ NoFile \in CheatFiles
<1>1. DOMAIN list = 1 .. Len(list) /\ Len(list) \in Nat
  OBVIOUS
<1>2. ASSUME NEW i \in DOMAIN list
      PROVE  [description |-> Quoted(list[i].description), code |-> <<list[i].code>>,
              enabled |-> list[i].enabled] \in Saved
  <2>1. list[i] \in Entries
    BY SettledEntries
  <2>2. /\ Quoted(list[i].description) \in Names /\ list[i].code \in DOMAIN Texts
        /\ list[i].enabled \in BOOLEAN
    BY <2>1, CheatsAssumption DEF Entries
  <2> QED BY <2>2 DEF Saved
<1> DEFINE saved == [i \in DOMAIN list |->
                       [description |-> Quoted(list[i].description), code |-> <<list[i].code>>,
                        enabled |-> list[i].enabled]]
<1>3. saved \in [1 .. Len(list) -> Saved]
  BY <1>1, <1>2
<1>4. ToText(list) = [recognized |-> TRUE, cheats |-> saved]
  BY DEF ToText
<1> HIDE DEF saved
<1>5. saved \in Seq(Saved)
  BY <1>1, <1>3
<1>6. ToText(list) \in CheatFiles
  BY <1>4, <1>5 DEF CheatFiles, Saved
<1>7. <<>> \in Seq(Saved)
  OBVIOUS
<1>8. NoFile \in CheatFiles
  BY <1>7 DEF CheatFiles, Saved, NoFile
<1> QED BY <1>6, <1>8

LEMMA SavedIsLoaded ==
  ASSUME NEW list \in Seq(Settled), Len(list) <= FileLimit
  PROVE  Loaded(ToText(list)) = QuotedList(list)
<1> DEFINE file == ToText(list)
           n == Len(list)
           back == QuotedList(list)
           Found(found, cheat) == IF cheat.code = <<>> THEN found ELSE Append(found, Read(cheat))
           step == [r \in (1 .. n) \X Seq(Entries) |-> Found(r[2], file.cheats[r[1]])]
           S == Seq(Settled)
           T == {p \in (0 .. n) \X S : Len(p[2]) = p[1] /\ \A i \in 1 .. p[1] : p[2][i] = back[i]}
<1>1. n \in Nat /\ DOMAIN list = 1 .. n
  OBVIOUS
<1>2. /\ file \in CheatFiles /\ file.recognized /\ Len(file.cheats) = n
      /\ \A k \in 1 .. n :
           file.cheats[k] = [description |-> Quoted(list[k].description),
                             code |-> <<list[k].code>>, enabled |-> list[k].enabled]
  BY <1>1, ToTextTyped DEF ToText
<1>3. Smaller(n, FileLimit) = n
  BY <1>1, FewerSaved
<1>4. Loaded(file) = Rounds(<<>>, step, n)
  BY <1>2, <1>3 DEF Loaded, LoadText
<1>5. ASSUME NEW k \in 1 .. n
      PROVE  /\ file.cheats[k] \in Saved /\ file.cheats[k].code # <<>>
             /\ Read(file.cheats[k]) = back[k]
  <2> DEFINE cheat == file.cheats[k]
             e == Entry(cheat.description, cheat.code[1], cheat.enabled)
  <2>1. list[k] \in Settled
    OBVIOUS
  <2>2. list[k] \in Entries /\ (list[k].enabled => ~Program(list[k]).failed)
    BY <2>1 DEF Settled
  <2>3. /\ cheat.description = Quoted(list[k].description) /\ cheat.code = <<list[k].code>>
        /\ cheat.enabled = list[k].enabled
    <3> HIDE DEF file, n, back, step
    <3>1. cheat = [description |-> Quoted(list[k].description), code |-> <<list[k].code>>,
                   enabled |-> list[k].enabled]
      BY <1>2
    <3> HIDE DEF cheat, e
    <3> QED BY <3>1
  <2>4. cheat.code # <<>> /\ cheat.code[1] = list[k].code
    BY <2>3
  <2>5. cheat \in Saved
    <3>1. file.cheats \in Seq(Saved)
      BY <1>2 DEF CheatFiles, Saved
    <3> HIDE DEF file
    <3> QED BY <1>2, <3>1
  <2> HIDE DEF cheat, back
  <2>6. e = [description |-> Quoted(list[k].description), code |-> list[k].code,
             enabled |-> list[k].enabled]
    BY <2>3, <2>4 DEF Entry
  <2>7. Program(e) = Program(list[k])
    BY <2>6 DEF Program
  <2>8. Read(cheat) = [e EXCEPT !.enabled = e.enabled /\ ~Program(e).failed]
    BY <2>6, <2>3 DEF Read
  <2>9. list[k].enabled \in BOOLEAN /\ e.enabled = list[k].enabled
    BY <2>2, <2>6 DEF Entries
  <2>10. (e.enabled /\ ~Program(e).failed) = e.enabled
    BY <2>2, <2>7, <2>9
  <2> HIDE DEF e
  <2>11. Read(cheat) = [e EXCEPT !.enabled = e.enabled]
    BY <2>8, <2>10
  <2>12. Read(cheat) = e
    BY <2>6, <2>11
  <2>13. back[k] = [list[k] EXCEPT !.description = Quoted(@)]
    BY <1>1 DEF back, QuotedList
  <2>14. back[k] = e
    BY <2>2, <2>6, <2>13 DEF Entries
  <2> QED BY <2>4, <2>5, <2>12, <2>14 DEF cheat
<1>6. ASSUME NEW k \in 1 .. n, NEW s \in S
      PROVE  step[<<k, s>>] = Append(s, back[k]) /\ back[k] \in Settled
  <2>1. s \in Seq(Entries)
    BY SettledEntries
  <2>2. step[<<k, s>>] = Found(s, file.cheats[k])
    BY <2>1
  <2> HIDE DEF step, file, back, n
  <2>3. Read(file.cheats[k]) \in Settled
    BY <1>5, ReadSettled
  <2> QED BY <1>5, <2>2, <2>3
<1> HIDE DEF file, n, back, step
<1>7. <<>> \in S /\ <<0, <<>>>> \in T
  <2>1. <<>> \in S /\ Len(<<>>) = 0 /\ 0 \in 0 .. n
    BY <1>1
  <2>2. \A i \in 1 .. 0 : <<>>[i] = back[i]
    OBVIOUS
  <2> HIDE DEF S
  <2> QED BY <2>1, <2>2
<1>8. ASSUME NEW k \in 1 .. n, NEW s \in S PROVE step[<<k, s>>] \in S
  <2>1. step[<<k, s>>] = Append(s, back[k]) /\ back[k] \in Settled
    BY <1>6
  <2>2. Append(s, back[k]) \in S
    BY <2>1
  <2> QED BY <2>1, <2>2
<1>9. ASSUME NEW k \in 0 .. n - 1, NEW s \in S, <<k, s>> \in T
      PROVE  <<k + 1, step[<<k + 1, s>>]>> \in T
  <2> DEFINE t == Append(s, back[k + 1])
  <2>1. k + 1 \in 1 .. n /\ k + 1 \in 0 .. n /\ k \in Nat
    BY <1>1
  <2>2. Len(s) = k /\ \A i \in 1 .. k : s[i] = back[i]
    BY <1>9
  <2>3. step[<<k + 1, s>>] = t /\ back[k + 1] \in Settled
    BY <1>6, <2>1
  <2>4. t \in S /\ Len(t) = k + 1 /\ t[k + 1] = back[k + 1] /\ \A i \in 1 .. k : t[i] = s[i]
    BY <2>2, <2>3
  <2> HIDE DEF t, S
  <2>5. \A i \in 1 .. k + 1 : t[i] = back[i]
    <3>1. \A i \in 1 .. k + 1 : i = k + 1 \/ i \in 1 .. k
      BY <2>1
    <3> QED BY <2>2, <2>4, <3>1
  <2>6. <<k + 1, t>> \in T
    BY <2>1, <2>4, <2>5
  <2> HIDE DEF T
  <2> QED BY <2>3, <2>6
<1> HIDE DEF S, T
<1>10. Rounds(<<>>, step, n) \in S /\ <<n, Rounds(<<>>, step, n)>> \in T
  BY <1>1, <1>7, <1>8, <1>9, RoundsCounted
<1>11. back = [i \in 1 .. n |-> back[i]]
  BY <1>1 DEF back, QuotedList
<1> DEFINE loaded == Rounds(<<>>, step, n)
<1>12. loaded \in S /\ Len(loaded) = n /\ \A i \in 1 .. n : loaded[i] = back[i]
  BY <1>10 DEF T
<1> HIDE DEF loaded
<1>13. loaded = [i \in 1 .. n |-> loaded[i]]
  BY <1>12 DEF S
<1>14. loaded = back
  BY <1>11, <1>12, <1>13
<1>15. Loaded(file) = back
  BY <1>4, <1>14 DEF loaded
<1> QED BY <1>15 DEF file, back

-----------------------------------------------------------------------------
(***************************************************************************)
(* The invariant.  The patches in the cartridge are those of the list the  *)
(* last frame started with; they can be out of date only when the emulator *)
(* knows it, since every change of the list raises the revision.           *)
(***************************************************************************)
InStep == [image |-> rom, undo |-> applied] = Overlaid(OriginalRom, framed)

CheatsInv ==
  /\ TypeOK /\ cheats \in Seq(Settled) /\ synced <= revision
  /\ InStep /\ ChangesNoticed /\ FileKeepsCheats

LEMMA OriginalTyped == OriginalRom \in Images /\ EmptyMemory \in Memories /\ 0 \in 0 .. MaxEdits
<1>1. 0 \in Values
  BY ValuesNatural
<1>2. 0 \in 0 .. MaxEdits
  BY CheatsAssumption
<1> QED BY <1>1, <1>2 DEF OriginalRom, EmptyMemory, Images, Memories

LEMMA AppliedTyped ==
  ASSUME NEW mem \in Memories, cheats \in Seq(Entries), NEW keys
  PROVE  Applied(mem, keys) \in Memories
<1> DEFINE n == Len(cheats)
           After(m, entry) ==
             IF Runs(entry) THEN RunCheatProgram(Program(entry), m, keys) ELSE m
           step == [r \in (1 .. n) \X Memories |-> After(r[2], cheats[r[1]])]
<1>1. n \in Nat /\ \A k \in 1 .. n : cheats[k] \in Entries
  OBVIOUS
<1>2. ASSUME NEW k \in 1 .. n, NEW m \in Memories PROVE step[<<k, m>>] \in Memories
  <2>1. step[<<k, m>>] = After(m, cheats[k])
    OBVIOUS
  <2>2. Program(cheats[k]) \in Sounds
    BY <1>1, EntryProgram
  <2>3. RunCheatProgram(Program(cheats[k]), m, keys) \in Memories
    BY <2>2, JumpsSkipCodes
  <2> HIDE DEF step
  <2> QED BY <2>1, <2>3
<1>3. Applied(mem, keys) = Rounds(mem, step, n)
  BY DEF Applied
<1> HIDE DEF step, n
<1> QED BY <1>1, <1>2, <1>3, RoundsStay

\* The initial state.
LEMMA CheatsInit == Init => CheatsInv
<1> SUFFICES ASSUME Init PROVE CheatsInv
  OBVIOUS
<1>1. <<>> \in Seq(Entries) /\ <<>> \in Seq(Settled) /\ <<>> \in Seq(Undos)
  OBVIOUS
<1>2. files \in [Games -> CheatFiles]
  BY CheatsAssumption DEF Init
<1>3. TypeOK
  BY <1>1, <1>2, OriginalTyped DEF Init, TypeOK, Images
<1>4. InStep
  BY NothingOverlaid DEF Init, InStep
<1>5. synced <= revision /\ ChangesNoticed /\ FileKeepsCheats
  BY DEF Init, ChangesNoticed, FileKeepsCheats
<1>6. cheats \in Seq(Settled)
  BY <1>1 DEF Init
<1> QED BY <1>3, <1>4, <1>5, <1>6 DEF CheatsInv

\* A change of the list.
LEMMA EditedKeeps ==
  ASSUME CheatsInv, NEW list \in Seq(Settled), Edited(list)
  PROVE  CheatsInv'
<1>1. /\ TypeOK /\ synced <= revision /\ InStep
  BY DEF CheatsInv
<1>2. /\ game # None /\ revision < MaxEdits /\ cheats' = list /\ revision' = revision + 1
      /\ SaveCheats(list)
      /\ game' = game /\ synced' = synced /\ stale' = stale /\ applied' = applied
      /\ rom' = rom /\ memory' = memory /\ framed' = framed
  BY DEF Edited
<1>3. list \in Seq(Entries)
  BY SettledEntries
<1>4. revision' \in 0 .. MaxEdits /\ synced' <= revision' /\ synced' # revision'
  BY <1>1, <1>2, CheatsAssumption DEF TypeOK
<1>5. ToText(list) \in CheatFiles /\ NoFile \in CheatFiles
  BY ToTextTyped
<1>6. game \in Games /\ files \in [Games -> CheatFiles]
  BY <1>1, <1>2 DEF TypeOK
<1>7. kept' \in BOOLEAN /\ files' \in [Games -> CheatFiles]
  BY <1>2, <1>5, <1>6 DEF SaveCheats
<1>8. TypeOK'
  BY <1>1, <1>2, <1>3, <1>4, <1>7 DEF TypeOK
<1>9. InStep'
  BY <1>1, <1>2 DEF InStep
<1>10. ChangesNoticed'
  BY <1>2, <1>4 DEF ChangesNoticed, OutOfDate
<1>11. FileKeepsCheats'
  <2> SUFFICES ASSUME kept', Len(list) <= FileLimit
               PROVE  Loaded(files'[game]) \in {list, QuotedList(list)}
    BY <1>2 DEF FileKeepsCheats, QuotedList
  <2>1. files'[game] = IF list = <<>> THEN NoFile ELSE ToText(list)
    BY <1>2, <1>6 DEF SaveCheats
  <2>2. CASE list = <<>>
    BY <2>1, <2>2 DEF Loaded, NoFile
  <2>3. CASE list # <<>>
    BY <2>1, <2>3, SavedIsLoaded
  <2> QED BY <2>2, <2>3
<1> QED BY <1>2, <1>4, <1>8, <1>9, <1>10, <1>11 DEF CheatsInv

LEMMA ExceptSettled ==
  ASSUME NEW list \in Seq(Settled), NEW i \in DOMAIN list, NEW entry \in Settled
  PROVE  [list EXCEPT ![i] = entry] \in Seq(Settled)
  OBVIOUS

LEMMA EntrySettled ==
  ASSUME NEW d \in Names, NEW c \in DOMAIN Texts, NEW on \in BOOLEAN, ~Programs[c].failed
  PROVE  Entry(d, c, on) \in Settled
  BY DEF Entry, Entries, Settled, Program

LEMMA ChangesKeep ==
  ASSUME CheatsInv, Add \/ Replace \/ RemoveCheat \/ SetEnabled
  PROVE  CheatsInv'
<1>1. cheats \in Seq(Settled) /\ DOMAIN cheats = 1 .. Len(cheats) /\ Len(cheats) \in Nat
      /\ \A i \in DOMAIN cheats : cheats[i] \in Settled
  BY DEF CheatsInv
<1>2. \A i \in DOMAIN cheats : cheats[i] \in Entries /\ cheats[i].enabled \in BOOLEAN
  BY <1>1 DEF Settled, Entries
<1>3. CASE Add
  <2>1. PICK d \in Descriptions, c \in Typed :
          ~Programs[c].failed /\ Edited(Append(cheats, Entry(d, c, TRUE)))
    BY <1>3 DEF Add
  <2>2. Entry(d, c, TRUE) \in Settled
    BY <2>1, CheatsAssumption, EntrySettled
  <2>3. PICK entry \in Settled : entry = Entry(d, c, TRUE)
    BY <2>2
  <2>4. Append(cheats, entry) \in Seq(Settled)
    BY <1>1
  <2> QED BY <2>1, <2>3, <2>4, EditedKeeps
<1>4. CASE Replace
  <2>1. PICK i \in DOMAIN cheats, d \in Descriptions, c \in Typed :
          /\ ~Programs[c].failed
          /\ Edited([cheats EXCEPT ![i] = Entry(d, c, @.enabled \/ Program(@).failed)])
    BY <1>4 DEF Replace
  <2> DEFINE on == cheats[i].enabled \/ Program(cheats[i]).failed
  <2>2. on \in BOOLEAN
    OBVIOUS
  <2> HIDE DEF on
  <2>3. Entry(d, c, on) \in Settled
    BY <2>1, <2>2, CheatsAssumption, EntrySettled
  <2>4. Edited([cheats EXCEPT ![i] = Entry(d, c, on)])
    BY <2>1 DEF on
  <2> QED BY <1>1, <2>3, <2>4, ExceptSettled, EditedKeeps
<1>5. CASE RemoveCheat
  <2>1. PICK i \in DOMAIN cheats : Edited(RemoveAt(cheats, i))
    BY <1>5 DEF RemoveCheat
  <2>2. /\ SubSeq(cheats, 1, i - 1) \in Seq(Settled)
        /\ SubSeq(cheats, i + 1, Len(cheats)) \in Seq(Settled)
    <3>1. /\ \A j \in 1 .. i - 1 : cheats[j] \in Settled
          /\ \A j \in i + 1 .. Len(cheats) : cheats[j] \in Settled
      BY <1>1
    <3>2. i - 1 \in Int /\ i + 1 \in Int
      BY <1>1
    <3> QED BY <1>1, <3>1, <3>2, SubSeqProperties
  <2>3. RemoveAt(cheats, i) \in Seq(Settled)
    BY <2>2, ConcatProperties DEF RemoveAt
  <2> QED BY <2>1, <2>3, EditedKeeps
<1>6. CASE SetEnabled
  <2>1. PICK i \in DOMAIN cheats : /\ ~Program(cheats[i]).failed
                                   /\ Edited([cheats EXCEPT ![i].enabled = ~@])
    BY <1>6 DEF SetEnabled
  <2> DEFINE on == ~cheats[i].enabled
             entry == [cheats[i] EXCEPT !.enabled = on]
  <2>2. entry \in Entries /\ entry.code = cheats[i].code
    <3>1. on \in BOOLEAN
      OBVIOUS
    <3> HIDE DEF on
    <3> QED BY <1>2, <3>1 DEF Entries
  <2>3. entry \in Settled
    BY <2>1, <2>2 DEF Settled, Program
  <2>4. [cheats EXCEPT ![i].enabled = ~@] = [cheats EXCEPT ![i] = entry]
    OBVIOUS
  <2> HIDE DEF entry
  <2> QED BY <1>1, <2>1, <2>3, <2>4, ExceptSettled, EditedKeeps
<1> QED BY <1>3, <1>4, <1>5, <1>6

\* A cartridge goes in or out.
LEMMA LoadKeeps ==
  ASSUME CheatsInv, LoadRom \/ UnloadRom
  PROVE  CheatsInv'
<1>1. TypeOK /\ synced <= revision
  BY DEF CheatsInv
<1>2. /\ revision < MaxEdits /\ revision' = revision + 1 /\ stale' = TRUE /\ applied' = <<>>
      /\ rom' = OriginalRom /\ memory' = EmptyMemory /\ framed' = <<>> /\ kept' = TRUE
      /\ synced' = synced /\ files' = files
  BY DEF LoadRom, UnloadRom
<1>3. \/ \E g \in Games : game' = g /\ cheats' = Loaded(files[g])
      \/ game' = None /\ cheats' = <<>>
  BY DEF LoadRom, UnloadRom
<1>4. cheats' \in Seq(Settled) /\ game' \in Games \cup {None}
      /\ (game' # None => cheats' = Loaded(files'[game']))
  <2>1. CASE \E g \in Games : game' = g /\ cheats' = Loaded(files[g])
    <3>1. PICK g \in Games : game' = g /\ cheats' = Loaded(files[g])
      BY <2>1
    <3>2. files[g] \in CheatFiles
      BY <1>1 DEF TypeOK
    <3> QED BY <1>2, <3>1, <3>2, LoadedSettled
  <2>2. CASE game' = None /\ cheats' = <<>>
    BY <2>2
  <2> QED BY <1>3, <2>1, <2>2
<1>5. cheats' \in Seq(Entries)
  BY <1>4, SettledEntries
<1>6. revision' \in 0 .. MaxEdits /\ synced' <= revision'
  BY <1>1, <1>2, CheatsAssumption DEF TypeOK
<1>7. <<>> \in Seq(Entries) /\ <<>> \in Seq(Undos)
  OBVIOUS
<1>8. TypeOK'
  BY <1>1, <1>2, <1>4, <1>5, <1>6, <1>7, OriginalTyped DEF TypeOK, Images
<1>9. InStep'
  BY <1>2, NothingOverlaid DEF InStep
<1>10. ChangesNoticed'
  BY <1>2 DEF ChangesNoticed, OutOfDate
<1>11. FileKeepsCheats'
  BY <1>4 DEF FileKeepsCheats
<1> QED BY <1>4, <1>6, <1>8, <1>9, <1>10, <1>11 DEF CheatsInv

\* The cartridge in memory can always be put back to what was read.
LEMMA RomUnwinds ==
  ASSUME TypeOK, InStep
  PROVE  Unwound(rom, applied) = OriginalRom
<1>1. framed \in Seq(Entries)
  BY DEF TypeOK
<1>2. \E k : Overlaid(OriginalRom, framed) \in OverlaysOf(OriginalRom, RomPatches(framed), k)
  BY <1>1, OriginalTyped, OverlaidIs
<1>3. Overlaid(OriginalRom, framed).image = rom /\ Overlaid(OriginalRom, framed).undo = applied
  BY DEF InStep
<1> QED BY <1>2, <1>3 DEF OverlaysOf

\* A frame starts with the patches of the list, whether or not it has to apply them.
LEMMA FrameKeeps ==
  ASSUME CheatsInv, RunFrame
  PROVE  CheatsInv'
<1>1. TypeOK /\ synced <= revision /\ InStep /\ ChangesNoticed /\ cheats \in Seq(Settled)
  BY DEF CheatsInv
<1>2. /\ game # None /\ rom' = Synchronized.image /\ applied' = Synchronized.undo
      /\ stale' = FALSE /\ synced' = revision /\ framed' = cheats
      /\ game' = game /\ cheats' = cheats /\ revision' = revision /\ files' = files
      /\ kept' = kept /\ \E keys \in Keys : memory' = Applied(memory, keys)
  BY DEF RunFrame
<1>3. Synchronized = Overlaid(OriginalRom, cheats)
  <2>1. CASE OutOfDate
    BY <1>1, <2>1, RomUnwinds DEF Synchronized
  <2>2. CASE ~OutOfDate
    <3>1. framed = cheats
      BY <1>1, <1>2, <2>2 DEF ChangesNoticed
    <3> QED BY <1>1, <2>2, <3>1 DEF Synchronized, InStep
  <2> QED BY <2>1, <2>2
<1>4. Overlaid(OriginalRom, cheats) \in Overlays
  <2>1. cheats \in Seq(Entries)
    BY <1>1 DEF TypeOK
  <2> QED BY <2>1, OriginalTyped, OverlaidIs DEF OverlaysOf
<1>5. /\ [image |-> rom', undo |-> applied'] = Overlaid(OriginalRom, cheats)
      /\ rom' \in [RomOffsets -> Values] /\ applied' \in Seq(Undos)
  BY <1>2, <1>3, <1>4 DEF Overlays
<1>6. memory' \in Memories
  <2>1. PICK keys \in Keys : memory' = Applied(memory, keys)
    BY <1>2
  <2>2. memory \in Memories /\ cheats \in Seq(Entries)
    BY <1>1 DEF TypeOK
  <2> QED BY <2>1, <2>2, AppliedTyped
<1>7. TypeOK'
  BY <1>1, <1>2, <1>5, <1>6 DEF TypeOK
<1>8. InStep'
  BY <1>2, <1>5 DEF InStep
<1>9. ChangesNoticed' /\ FileKeepsCheats'
  BY <1>2 DEF CheatsInv, ChangesNoticed, FileKeepsCheats
<1>10. synced' <= revision' /\ cheats' \in Seq(Settled)
  BY <1>1, <1>2 DEF TypeOK
<1> QED BY <1>7, <1>8, <1>9, <1>10 DEF CheatsInv

LEMMA GameKeeps ==
  ASSUME CheatsInv, GameStores
  PROVE  CheatsInv'
<1>1. PICK v \in GameValues : memory' = [cell \in Cells |-> v]
  BY DEF GameStores
<1>2. memory' \in Memories
  BY <1>1, CheatsAssumption DEF Memories
<1> QED BY <1>2 DEF CheatsInv, GameStores, TypeOK, InStep, ChangesNoticed, OutOfDate,
                    FileKeepsCheats

LEMMA CheatsStep == CheatsInv /\ [Next]_vars => CheatsInv'
<1> SUFFICES ASSUME CheatsInv, [Next]_vars PROVE CheatsInv'
  OBVIOUS
<1>1. CASE Add \/ Replace \/ RemoveCheat \/ SetEnabled
  BY <1>1, ChangesKeep
<1>2. CASE LoadRom \/ UnloadRom
  BY <1>2, LoadKeeps
<1>3. CASE RunFrame
  BY <1>3, FrameKeeps
<1>4. CASE GameStores
  BY <1>4, GameKeeps
<1>5. CASE UNCHANGED vars
  BY <1>5 DEF vars, CheatsInv, TypeOK, InStep, ChangesNoticed, OutOfDate, FileKeepsCheats
<1> QED BY <1>1, <1>2, <1>3, <1>4, <1>5 DEF Next

LEMMA CheatsInvariant == Spec => []CheatsInv
  BY CheatsInit, CheatsStep, PTL DEF Spec

-----------------------------------------------------------------------------
(***************************************************************************)
(* What the invariant gives.                                               *)
(***************************************************************************)
LEMMA InvPatches == CheatsInv => PatchesFollowCheats
<1> SUFFICES ASSUME CheatsInv PROVE PatchesFollowCheats
  OBVIOUS
<1>1. TypeOK /\ InStep /\ ChangesNoticed
  BY DEF CheatsInv
<1>2. UnwindsToOriginal
  BY <1>1, RomUnwinds DEF UnwindsToOriginal
<1>3. framed \in Seq(Entries) /\ Overlaid(OriginalRom, framed).image = rom
  BY <1>1 DEF TypeOK, InStep
<1>4. RomFollowsList
  BY <1>3, OriginalTyped, OverlaidFollows DEF RomFollowsList
<1> QED BY <1>1, <1>2, <1>4 DEF PatchesFollowCheats

LEMMA InvPrograms == CheatsInv => ProgramsSound
<1> SUFFICES ASSUME CheatsInv PROVE ProgramsSound
  OBVIOUS
<1>1. cheats \in Seq(Entries) /\ memory \in Memories
  BY DEF CheatsInv, TypeOK
<1>2. \A i \in DOMAIN cheats : Program(cheats[i]) \in Sounds
  BY <1>1, EntryProgram
<1>3. DataInBounds
  BY <1>2 DEF DataInBounds, Sounds
<1>4. ConditionsSkipCodes
  BY <1>1, <1>2, JumpsSkipCodes DEF ConditionsSkipCodes
<1> QED BY <1>3, <1>4 DEF ProgramsSound

\* "ROM patches follow the list automatically" (sync_rom_patches() in emulator.cpp): for
\* any codes and any edits of the list, a halfword of the cartridge holds what the last
\* patch of it says among the cheats that were on when the frame started, or what was
\* read where there is none; undoing the patches gives back what was read; and when the
\* revisions agree the patches are those of the list.
THEOREM PatchesAlwaysFollowCheats == Spec => []PatchesFollowCheats
  BY CheatsInvariant, InvPatches, PTL

\* Every program that decodes (cheats.cpp reads a program's data without a check of its
\* own) stays within its data, no two operations share any, and running it with jumps
\* gives the memory that passing over the codes one by one would: for any lines of any
\* format, any memory and any keys held.
THEOREM ProgramsAlwaysSound == Spec => []ProgramsSound
  BY CheatsInvariant, InvPrograms, PTL

\* A list whose file was written is what the next start of the game loads from it, up to
\* the quotes in the names: the codes that do not decode stay in it and stay off, as
\* load_text() keeps them.
THEOREM FileAlwaysKeepsCheats == Spec => []FileKeepsCheats
<1>1. CheatsInv => FileKeepsCheats
  BY DEF CheatsInv
<1> QED BY <1>1, CheatsInvariant, PTL
=============================================================================
