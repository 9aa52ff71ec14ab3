------------------------------- MODULE Processor -------------------------------
(***************************************************************************)
(* The processor (src/core/arm7tdmi.cpp): what one instruction, exception  *)
(* or interrupt does to the registers of every mode, the status words, the *)
(* prefetched opcodes and memory.                                          *)
(*                                                                         *)
(* An instruction is decoded: a record of its fields.  ARM and Thumb       *)
(* formats that do the same are one action; module Thumb says what each    *)
(* Thumb format stands for.  A repertoire is the instructions a program of *)
(* some kind uses.  The bus is the plain memory that programs transfer to; *)
(* module Bus has the rest of it.                                          *)
(***************************************************************************)
EXTENDS Arm, Sequences

CONSTANTS
  Indexes,       \* bound: the registers in use, of 0 .. 14
  Ram,           \* bound: the addresses of the bytes that are transferred
  Repertoires,   \* name of a repertoire -> its instructions
  Starts,        \* name of a repertoire -> [mode, t, c, values] it starts in
  Lengths,       \* bound: name of a repertoire -> instructions executed
  Origin         \* where programs start

ASSUME IndexesAssumption == Indexes \subseteq 0 .. 14 /\ 14 \in Indexes
ASSUME RamAssumption ==
  Ram \subseteq Words /\ \A a \in Ram, k \in 0 .. 3 : a - (a % 4) + k \in Ram
ASSUME OriginAssumption == Origin \in Words /\ Origin % 4 = 0
ASSUME StartsAssumption ==
  \A r \in DOMAIN Repertoires : \A s \in Starts[r] :
    s.mode \in Modes /\ {s.t, s.c} \subseteq BOOLEAN /\ \A x \in Indexes : s.values[x] \in Int

VARIABLES
  repertoire,
  regs,          \* <<bank, register>> -> word
  pc,
  cpsr,
  spsr,          \* mode -> status
  mem,           \* address -> byte
  pipe,          \* what step() has prefetched
  steps,
  seen,          \* history: what the last instruction was
  entered        \* history: mode -> its last exception, if any

cpuVars == <<repertoire, regs, pc, cpsr, spsr, mem, pipe, steps, seen, entered>>

Pc == 15         \* kProgramCounter
PcWord == 16     \* the program counter of Thumb loads, a word address
Sp == 13
Lr == 14

Physicals == {Bank(m, r) : m \in Modes, r \in Indexes}

Quiet   == [did |-> "none", sum |-> {}, shift |-> {}, block |-> {}, target |-> 0]
Flushed == [valid |-> FALSE, mixed |-> FALSE, at |-> 0, slots |-> << >>]
PlainStatus(m) == [n |-> FALSE, z |-> FALSE, c |-> FALSE, v |-> FALSE,
                   i |-> FALSE, f |-> FALSE, t |-> FALSE, mode |-> m]

(***************************************************************************)
(* What the decoder gives: the fields of each kind of instruction.  An     *)
(* operand may be r15.  bound: not so where the processor leaves it        *)
(* unpredictable, as a multiplicand, a shift amount, in a swap, or as the  *)
(* base of a block transfer; the program refuses the last three.           *)
(***************************************************************************)
Operands == Indexes \cup {Pc, PcWord}
Results  == Indexes \cup {Pc}

IsSource(src) ==
  \/ src.form = "immediate" /\ src.value \in Words /\ src.rotated \in BOOLEAN
  \/ src.form = "register"  /\ src.reg \in Operands /\ src.type \in ShiftTypes
                            /\ src.amount \in 0 .. Width - 1
  \/ src.form = "shifted"   /\ src.reg \in Operands /\ src.type \in ShiftTypes /\ src.by \in Indexes

\* Tests of Thumb name no result.
Decoded(i) ==
  CASE i.kind = "data"     -> /\ i.op \in Operations /\ i.s \in BOOLEAN /\ i.rd \in Results
                              /\ i.rn \in Operands /\ IsSource(i.src)
                              /\ i.op \in Tests /\ i.rd = Pc => i.set = "arm"
    [] i.kind = "multiply" -> i.rd \in Results /\ {i.rm, i.rs, i.rn} \subseteq Indexes
    [] i.kind = "long"     -> {i.high, i.low} \subseteq Results /\ {i.rm, i.rs} \subseteq Indexes
    [] i.kind \in {"load", "store"} ->
         i.rd \in Results /\ i.base \in Operands /\ i.size \in {1, 2, 4}
         /\ i.signed \in BOOLEAN /\ IsSource(i.src)
    [] i.kind = "swap"     -> {i.rd, i.rm, i.base} \subseteq Indexes /\ i.size \in {1, 4}
    [] i.kind = "block"    -> i.base \in Indexes /\ i.list \subseteq Results
    [] i.kind = "msr"      -> IsSource(i.src)
    [] i.kind = "exchange" -> i.rm \in Operands
    [] i.kind \in {"branch", "high", "low"} -> i.offset \in Int
    [] OTHER               -> TRUE

ASSUME RepertoiresAssumption == \A r \in DOMAIN Repertoires : \A i \in Repertoires[r] : Decoded(i)

(* Some way into the program: every bank has a value of its own *)
CpuInit ==
  /\ repertoire \in DOMAIN Repertoires
  /\ \E s \in Starts[repertoire] :
        /\ regs = [p \in Physicals |-> Wrap(s.values[p[2]] + 8 * (ModeCode(p[1]) - 1))]
        /\ cpsr = [PlainStatus(s.mode) EXCEPT !.t = s.t, !.c = s.c]
  /\ pc = Origin
  /\ spsr = [m \in Excepted |-> PlainStatus("usr")]
  /\ mem = [a \in Ram |-> 0]
  /\ pipe = Flushed
  /\ steps = 0 /\ seen = Quiet
  /\ entered = [m \in Excepted |-> {}]

--------------------------------------------------------------------------------
(* Registers, operands and where the next instruction is *)

Aligned(a, n)   == a - (a % n)
InstructionSize == IF cpsr.t THEN 2 ELSE 4
Value(r) == regs[Bank(cpsr.mode, r)]

Operand(r, shiftsByRegister) ==
  CASE r = Pc     -> IF cpsr.t THEN Wrap(pc + 4)
                               ELSE Wrap(pc + IF shiftsByRegister THEN 12 ELSE 8)
    [] r = PcWord -> Wrap(4 * ((pc + 4) \div 4))
    [] OTHER      -> Value(r)

Stored(r) == IF r = Pc THEN Wrap(pc + 12) ELSE Value(r)

With(file, r, v) == [file EXCEPT ![Bank(cpsr.mode, r)] = v]

HasSpsr  == cpsr.mode \in Excepted
Restored == IF HasSpsr THEN Assigned(cpsr, spsr[cpsr.mode]) ELSE cpsr

Token(a) == [at |-> Wrap(a), thumb |-> cpsr.t]

(* step(): two opcodes ahead; refilled when they are not of this address *)
Fetched ==
  LET kept == pipe.valid /\ pipe.at = pc
      next == IF kept THEN pipe.slots[2] ELSE Token(pc + InstructionSize)
  IN  [valid |-> TRUE, mixed |-> kept /\ pipe.mixed, at |-> Wrap(pc + InstructionSize),
       slots |-> <<next, Token(pc + 2 * InstructionSize)>>]

Advance == pc' = Wrap(pc + InstructionSize) /\ pipe' = Fetched

BranchTo(status, target) ==
  /\ pc' = Aligned(target, IF status.t THEN 2 ELSE 4)
  /\ pipe' = Flushed

Executes(i, kind) == i.kind = kind /\ Passes(i.cond, cpsr)

Sees(what) == steps' = steps + 1 /\ seen' = what /\ UNCHANGED repertoire

--------------------------------------------------------------------------------
(* Data processing *)

Source(src) ==
  CASE src.form = "immediate" ->
         Shift(src.value, IF src.rotated THEN Bit(src.value, Width - 1) ELSE cpsr.c)
    [] src.form = "register"  ->
         ShiftByImmediate(src.type, Operand(src.reg, FALSE), src.amount, cpsr.c)
    [] src.form = "shifted"   ->
         ShiftByRegister(src.type, Operand(src.reg, TRUE), Value(src.by) % Octet, cpsr.c)

Result(i) == Alu(i.op, Operand(i.rn, i.src.form = "shifted"), Source(i.src), cpsr)

Double(high, low) == high * Size + low

(* history: the sum or difference computed, carried on from the one before *)
Summed(i) ==
  LET a == Operand(i.rn, i.src.form = "shifted")
      b == Source(i.src).value
      r == Result(i).value
      one == [words |-> 1, add |-> i.op \in {"ADD", "CMN"}, a |-> a, b |-> b, r |-> r]
  IN  CASE i.op \in {"ADD", "CMN", "SUB", "CMP"} -> {one}
        [] i.op = "RSB" -> {[one EXCEPT !.a = b, !.b = a]}
        [] i.op \in {"ADC", "SBC", "RSC"} ->
             {[words |-> 2, add |-> low.add, r |-> Double(r, low.r),
               a |-> Double(IF i.op = "RSC" THEN b ELSE a, low.a),
               b |-> Double(IF i.op = "RSC" THEN a ELSE b, low.b)]
                : low \in {l \in seen.sum : l.words = 1 /\ l.add = (i.op = "ADC")}}
        [] OTHER -> {}

Shifted(i) ==
  IF i.src.form = "immediate" THEN {}
  ELSE {[byRegister |-> i.src.form = "shifted", type |-> i.src.type, c |-> cpsr.c,
         value  |-> Operand(i.src.reg, i.src.form = "shifted"),
         amount |-> IF i.src.form = "shifted" THEN Value(i.src.by) % Octet ELSE i.src.amount,
         result |-> Source(i.src)]}

Seen(i) == [Quiet EXCEPT !.did = "data", !.sum = IF i.s THEN Summed(i) ELSE {}, !.shift = Shifted(i)]

(* A test of Rd = 15 restores the status and keeps the prefetched opcodes *)
Test(i) ==
  /\ Executes(i, "data") /\ i.op \in Tests
  /\ cpsr' = IF i.rd = Pc /\ HasSpsr THEN Restored ELSE WithFlags(cpsr, Result(i))
  /\ pc' = Wrap(pc + InstructionSize)
  /\ pipe' = [Fetched EXCEPT !.mixed = @ \/ cpsr'.t # cpsr.t]
  /\ Sees(IF i.rd = Pc /\ HasSpsr THEN Quiet ELSE Seen(i))
  /\ UNCHANGED <<regs, spsr, mem, entered>>

Compute(i) ==
  /\ Executes(i, "data") /\ i.op \notin Tests /\ i.rd # Pc
  /\ regs' = With(regs, i.rd, Result(i).value)
  /\ cpsr' = IF i.s THEN WithFlags(cpsr, Result(i)) ELSE cpsr
  /\ Advance
  /\ Sees(Seen(i))
  /\ UNCHANGED <<spsr, mem, entered>>

(* With S the status comes back first, and says how the target is aligned *)
ComputePc(i) ==
  /\ Executes(i, "data") /\ i.op \notin Tests /\ i.rd = Pc /\ (i.s => HasSpsr)
  /\ cpsr' = IF i.s THEN Restored ELSE cpsr
  /\ BranchTo(cpsr', Result(i).value)
  /\ Sees([Quiet EXCEPT !.did = IF i.s THEN "return" ELSE "branch", !.target = Result(i).value])
  /\ UNCHANGED <<regs, spsr, mem, entered>>

Multiply(i) ==
  /\ Executes(i, "multiply") /\ i.rd # Pc
  /\ LET r == Wrap(Value(i.rm) * Value(i.rs) + IF i.accumulate THEN Value(i.rn) ELSE 0)
     IN  /\ regs' = With(regs, i.rd, r)
         /\ cpsr' = IF i.s THEN WithNz(cpsr, r) ELSE cpsr
  /\ Advance
  /\ Sees(Quiet)
  /\ UNCHANGED <<spsr, mem, entered>>

Product(i) ==
  (  (IF i.signed THEN Signed(Value(i.rm)) * Signed(Value(i.rs)) ELSE Value(i.rm) * Value(i.rs))
   + (IF i.accumulate THEN Value(i.high) * Size + Value(i.low) ELSE 0)) % (Size * Size)

LongMultiply(i) ==
  /\ Executes(i, "long") /\ Pc \notin {i.high, i.low}
  /\ LET r == Product(i)
     IN  /\ regs' = With(With(regs, i.low, r % Size), i.high, r \div Size)
         /\ cpsr' = IF i.s THEN [cpsr EXCEPT !.n = r \div Size >= Top, !.z = r = 0] ELSE cpsr
  /\ Advance
  /\ Sees(Quiet)
  /\ UNCHANGED <<spsr, mem, entered>>

--------------------------------------------------------------------------------
(* Memory, byte by byte; the bus aligns an access and rotates what it reads *)

Lane(w, k)    == (w \div Octet ^ k) % Octet
Piece(a, n)   == LET w == Aligned(a, n)
                 IN  Rounds(0, [p \in (1 .. n) \X Nat |-> p[2] * Octet + mem[w + n - p[1]]], n)
LoadedWord(a) == RotatedRight(Piece(a, 4), (a % 4) * (Width \div 4))
Holding(m, a, n, v) ==
  [x \in Ram |-> IF Aligned(x, n) = Aligned(a, n) THEN Lane(v, x % n) ELSE m[x]]

LoadedHalf(a, signed) ==
  CASE signed /\ a % 2 = 1  -> SignExtended(Piece(a, 1), 1)
    [] signed /\ a % 2 = 0  -> SignExtended(Piece(a, 2), 2)
    [] ~signed              -> RotatedRight(Piece(a, 2), (a % 2) * (Width \div 4))

Loaded(a, n, signed) ==
  CASE n = 4 -> LoadedWord(a)
    [] n = 2 -> LoadedHalf(a, signed)
    [] n = 1 -> IF signed THEN SignExtended(Piece(a, 1), 1) ELSE Piece(a, 1)

(* One register: pre- or post-indexed, up or down, the base written back or not *)
Offset(src)   == IF src.form = "immediate" THEN src.value ELSE Source(src).value
Adjusted(i)   == Wrap(Operand(i.base, FALSE) + (IF i.up THEN 1 ELSE -1) * Offset(i.src))
AddressOf(i)  == IF i.pre THEN Adjusted(i) ELSE Operand(i.base, FALSE)
WritesBack(i) == i.writeback \/ ~i.pre
BasedOn(i)    == IF WritesBack(i) THEN With(regs, i.base, Adjusted(i)) ELSE regs
Reachable(i)  == Aligned(AddressOf(i), 4) \in Ram

Load(i) ==
  /\ Executes(i, "load") /\ Reachable(i) /\ ~(WritesBack(i) /\ i.base \in {Pc, PcWord})
  /\ LET v == Loaded(AddressOf(i), i.size, i.signed)
     IN  IF i.rd = Pc
         THEN regs' = BasedOn(i) /\ BranchTo(cpsr, v)
         ELSE regs' = With(BasedOn(i), i.rd, v) /\ Advance
  /\ Sees([Quiet EXCEPT !.did = "load"])
  /\ UNCHANGED <<cpsr, spsr, mem, entered>>

Store(i) ==
  /\ Executes(i, "store") /\ Reachable(i) /\ ~(WritesBack(i) /\ i.base \in {Pc, PcWord})
  /\ mem' = Holding(mem, AddressOf(i), i.size, Stored(i.rd))
  /\ regs' = BasedOn(i)
  /\ Advance
  /\ Sees([Quiet EXCEPT !.did = "store"])
  /\ UNCHANGED <<cpsr, spsr, entered>>

Swap(i) ==
  /\ Executes(i, "swap") /\ Aligned(Value(i.base), 4) \in Ram
  /\ regs' = With(regs, i.rd, Loaded(Value(i.base), i.size, FALSE))
  /\ mem'  = Holding(mem, Value(i.base), i.size, Value(i.rm))
  /\ Advance
  /\ Sees([Quiet EXCEPT !.did = "swap"])
  /\ UNCHANGED <<cpsr, spsr, entered>>

--------------------------------------------------------------------------------
(* Several registers, from the lowest at the lowest address upwards.  An   *)
(* empty list transfers r15 and moves the base by sixteen words.           *)

Count(i)   == IF i.list = {} THEN 16 ELSE Cardinality(i.list)
Moved(i)   == IF i.list = {} THEN {Pc} ELSE i.list
Base(i)    == Value(i.base)
Updated(i) == Wrap(Base(i) + (IF i.up THEN 4 ELSE -4) * Count(i))
FirstLow(i) == IF i.up THEN Base(i) + (IF i.pre THEN 4 ELSE 0)     \* mutant
                       ELSE Base(i) - 4 * Count(i)
First(i)   == IF i.up THEN Base(i) + (IF i.pre THEN 4 ELSE 0)
                      ELSE Base(i) - 4 * Count(i) + (IF i.pre THEN 0 ELSE 4)
Place(i, r) == Wrap(First(i) + 4 * Cardinality({q \in Moved(i) : q < r}))
Places(i)   == {Aligned(Place(i, r), 4) : r \in Moved(i)}

UserBank(i) == i.user /\ ~(i.load /\ Pc \in i.list)
BlockModeByS(i) == IF i.user /\ i.list # {} THEN "usr" ELSE cpsr.mode    \* mutant
BlockMode(i) == IF UserBank(i) /\ i.list # {} THEN "usr" ELSE cpsr.mode

(* The base is stored as it was only when it is the first register stored *)
StoredWord(i, r) ==
  CASE r = Pc -> Wrap(pc + IF cpsr.t THEN 6 ELSE 12)
    [] r # Pc /\ r = i.base /\ i.writeback /\ r # Min(i.list) -> Updated(i)
    [] OTHER  -> regs[Bank(BlockMode(i), r)]

(* Thumb leaves an unaligned address to the bus, which rotates the word *)
LoadedAt(i, r) ==
  IF cpsr.t /\ i.list # {} THEN LoadedWord(Place(i, r)) ELSE Piece(Place(i, r), 4)

WithBase(i, file) == IF i.writeback /\ (i.load => i.base \notin i.list)
                     THEN With(file, i.base, Updated(i)) ELSE file

BlockSeen(i) == [Quiet EXCEPT !.did = IF i.load THEN "loaded" ELSE "stored",
                              !.block = {[i |-> i, before |-> regs]}]

StoreMany(i) ==
  /\ Executes(i, "block") /\ ~i.load /\ Places(i) \subseteq Ram
  /\ mem' = [x \in Ram |-> IF Aligned(x, 4) \in Places(i)
                           THEN LET r == CHOOSE q \in Moved(i) : Aligned(Place(i, q), 4) = Aligned(x, 4)
                                IN  Lane(StoredWord(i, r), x % 4)
                           ELSE mem[x]]
  /\ regs' = WithBase(i, regs)
  /\ Advance
  /\ Sees(BlockSeen(i))
  /\ UNCHANGED <<cpsr, spsr, entered>>

FilledFrom(i) ==
  [p \in Physicals |-> IF p[2] \in Moved(i) /\ p = Bank(BlockMode(i), p[2])
                       THEN LoadedAt(i, p[2]) ELSE regs[p]]

(* The base first: a register loaded into it wins *)
LoadMany(i) ==
  /\ Executes(i, "block") /\ i.load /\ Places(i) \subseteq Ram
  /\ Pc \notin Moved(i)
  /\ regs' = WithBase(i, FilledFrom(i))
  /\ Advance
  /\ Sees(BlockSeen(i))
  /\ UNCHANGED <<cpsr, spsr, mem, entered>>

LoadManyAndPc(i) ==
  /\ Executes(i, "block") /\ i.load /\ Places(i) \subseteq Ram
  /\ Pc \in Moved(i)
  /\ LET restores == i.user /\ i.list # {}
     IN  /\ restores => HasSpsr
         /\ cpsr' = IF restores THEN Restored ELSE cpsr
         /\ BranchTo(cpsr', LoadedAt(i, Pc))
         /\ Sees([BlockSeen(i) EXCEPT !.target = LoadedAt(i, Pc),
                                      !.did = IF restores THEN "return" ELSE "loaded"])
  /\ regs' = WithBase(i, FilledFrom(i))
  /\ UNCHANGED <<spsr, mem, entered>>

--------------------------------------------------------------------------------
(* Status words *)

ReadStatus(i) ==
  /\ Executes(i, "mrs")
  /\ regs' = With(regs, i.rd, PsrWord(IF i.saved /\ HasSpsr THEN spsr[cpsr.mode] ELSE cpsr))
  /\ Advance
  /\ Sees(Quiet)
  /\ UNCHANGED <<cpsr, spsr, mem, entered>>

(* A user program writes the flags only; T is never written this way *)
Fields(i) == IF cpsr.mode = "usr" THEN i.fields \ {"c"} ELSE i.fields

WriteStatus(i) ==
  /\ Executes(i, "msr") /\ ~i.saved
  /\ cpsr' = Assigned(cpsr, PsrMerged(cpsr, Source(i.src).value, Fields(i), FALSE))
  /\ Advance
  /\ Sees(Quiet)
  /\ UNCHANGED <<regs, spsr, mem, entered>>

WriteSaved(i) ==
  /\ Executes(i, "msr") /\ i.saved
  /\ spsr' = IF ~HasSpsr THEN spsr
             ELSE [spsr EXCEPT ![cpsr.mode] =
                     Assigned(@, PsrMerged(@, Source(i.src).value, i.fields, "c" \in i.fields))]
  /\ Advance
  /\ Sees(Quiet)
  /\ UNCHANGED <<regs, cpsr, mem, entered>>

--------------------------------------------------------------------------------
(* Branches *)

Branch(i) ==
  /\ Executes(i, "branch")
  /\ regs' = IF i.link THEN With(regs, Lr, Wrap(pc + 4)) ELSE regs
  /\ BranchTo(cpsr, Wrap(pc + 2 * InstructionSize + i.offset))
  /\ Sees([Quiet EXCEPT !.did = "branch"])
  /\ UNCHANGED <<cpsr, spsr, mem, entered>>

BranchExchange(i) ==
  /\ Executes(i, "exchange")
  /\ cpsr' = [cpsr EXCEPT !.t = Operand(i.rm, FALSE) % 2 = 1]
  /\ BranchTo(cpsr', Operand(i.rm, FALSE))
  /\ Sees([Quiet EXCEPT !.did = "branch"])
  /\ UNCHANGED <<regs, spsr, mem, entered>>

(* The long branch of Thumb: two instructions *)
LinkHigh(i) ==
  /\ Executes(i, "high")
  /\ regs' = With(regs, Lr, Wrap(pc + 4 + i.offset))
  /\ Advance
  /\ Sees(Quiet)
  /\ UNCHANGED <<cpsr, spsr, mem, entered>>

LinkLow(i) ==
  /\ Executes(i, "low")
  /\ regs' = With(regs, Lr, Wrap(pc + 3))
  /\ BranchTo(cpsr, Wrap(Value(Lr) + i.offset))
  /\ Sees([Quiet EXCEPT !.did = "branch"])
  /\ UNCHANGED <<cpsr, spsr, mem, entered>>

SkipInstruction(i) ==
  /\ ~Passes(i.cond, cpsr)
  /\ Advance
  /\ Sees(Quiet)
  /\ UNCHANGED <<regs, cpsr, spsr, mem, entered>>

(* What no processor of this kind does stops the program *)
Refused(i) ==
  \/ i.kind = "data" /\ i.op \notin Tests /\ i.rd = Pc /\ i.s /\ ~HasSpsr
  \/ i.kind \in {"load", "store"} /\ WritesBack(i) /\ i.base = Pc
  \/ i.kind = "block" /\ i.load /\ i.user /\ Pc \in i.list /\ ~HasSpsr
  \/ i.kind = "multiply" /\ i.rd = Pc
  \/ i.kind = "long" /\ Pc \in {i.high, i.low}

Refuse(i) ==
  /\ Passes(i.cond, cpsr) /\ Refused(i)
  /\ pipe' = Flushed
  /\ Sees([Quiet EXCEPT !.did = "refused"])
  /\ UNCHANGED <<regs, pc, cpsr, spsr, mem, entered>>

--------------------------------------------------------------------------------
(* Exceptions and interrupts, and the return of a system call *)

ResumesAt(e) == IF e \in {"und", "swi"} THEN Wrap(pc + InstructionSize) ELSE pc

TakeException(e) ==
  LET m    == Handler(e)
      link == Link(e, pc, cpsr.t)
  IN  /\ spsr' = [spsr EXCEPT ![m] = cpsr]
      /\ cpsr' = [cpsr EXCEPT !.mode = m, !.t = FALSE, !.i = TRUE, !.f = @ \/ e = "fiq"]
      /\ regs' = [regs EXCEPT ![Bank(m, Lr)] = link]
      /\ BranchTo(cpsr', Vector(e))
      /\ entered' = [entered EXCEPT ![m] = {[kind |-> e, status |-> cpsr, link |-> link,
                                             resume |-> ResumesAt(e)]}]
      /\ Sees([Quiet EXCEPT !.did = "exception"])
      /\ UNCHANGED mem

SoftwareInterrupt(i) == Executes(i, "swi") /\ TakeException("swi")

Interrupt(e) ==
  /\ e \in {"irq", "fiq"}
  /\ IF e = "irq" THEN ~cpsr.i ELSE ~cpsr.f
  /\ TakeException(e)

Fault(e) == e \in {"und", "pabt", "dabt"} /\ TakeException(e)

ReturnFromException ==
  /\ cpsr' = Restored
  /\ BranchTo(cpsr', Value(Lr))
  /\ Sees([Quiet EXCEPT !.did = "return", !.target = Value(Lr)])
  /\ UNCHANGED <<regs, spsr, mem, entered>>

Reset ==
  /\ regs' = [p \in Physicals |-> 0]
  /\ pc' = 0
  /\ cpsr' = [PlainStatus("svc") EXCEPT !.i = TRUE, !.f = TRUE]
  /\ spsr' = [m \in Excepted |-> PlainStatus("usr")]
  /\ pipe' = Flushed
  /\ entered' = [m \in Excepted |-> {}]
  /\ Sees([Quiet EXCEPT !.did = "reset"])
  /\ UNCHANGED mem

--------------------------------------------------------------------------------

Execute(i) ==
  \/ Test(i) \/ Compute(i) \/ ComputePc(i) \/ Multiply(i) \/ LongMultiply(i)
  \/ Load(i) \/ Store(i) \/ Swap(i) \/ StoreMany(i) \/ LoadMany(i) \/ LoadManyAndPc(i)
  \/ ReadStatus(i) \/ WriteStatus(i) \/ WriteSaved(i)
  \/ Branch(i) \/ BranchExchange(i) \/ LinkHigh(i) \/ LinkLow(i)
  \/ SoftwareInterrupt(i) \/ SkipInstruction(i) \/ Refuse(i)

(* bound: exceptions come only to programs that are about them *)
CpuNext ==
  /\ steps < Lengths[repertoire]
  /\ \/ \E i \in Repertoires[repertoire] : (i.set = "both" \/ cpsr.t = (i.set = "thumb")) /\ Execute(i)
     \/ /\ repertoire = "modes"
        /\ \/ \E e \in Exceptions : Interrupt(e) \/ Fault(e)
           \/ ReturnFromException
           \/ Reset

CpuSpec == CpuInit /\ [][CpuNext]_cpuVars

--------------------------------------------------------------------------------

(* The registers, status words and memory hold what the types of the code  *)
(* allow; every status word names a mode, so assign() never refuses one    *)
(* that was saved.                                                         *)
CpuTypeOK ==
  /\ regs \in [Physicals -> Words] /\ pc \in Words
  /\ cpsr \in Statuses /\ spsr \in [Excepted -> Statuses]
  /\ mem \in [Ram -> 0 .. Octet - 1]
  /\ pc % InstructionSize = 0

(***************************************************************************)
(* Flags tell the truth about the numbers: a sum or a difference, of one   *)
(* word or of two words carried from the first to the second, is exact;    *)
(* after a comparison each condition holds exactly when its order does,    *)
(* signed or not, at every boundary (add and subtract, arm7tdmi.cpp:476).  *)
(***************************************************************************)
Limit(words)   == IF words = 1 THEN Size ELSE Size * Size
SignedIn(v, n) == IF v < n \div 2 THEN v ELSE v - n

\* What the conditions say of a sum or difference s, under the status f.
SumTold(s, f) ==
  LET n == Limit(s.words)
      a == SignedIn(s.a, n)
      b == SignedIn(s.b, n)
  IN  IF s.add
      THEN /\ s.r = (s.a + s.b) % n
           /\ Passes("CS", f) = (s.a + s.b >= n)
           /\ Passes("VS", f) = (a + b \notin -(n \div 2) .. (n \div 2) - 1)
      ELSE /\ s.r = (s.a - s.b) % n
           /\ Passes("CS", f) = (s.a >= s.b)
           /\ Passes("GE", f) = (a >= b) /\ Passes("LT", f) = (a < b)
           /\ s.words = 1 => /\ Passes("HI", f) = (s.a > s.b) /\ Passes("LS", f) = (s.a <= s.b)
                             /\ Passes("GT", f) = (a > b)     /\ Passes("LE", f) = (a <= b)
                             /\ Passes("EQ", f) = (a = b)

ArithmeticExact == \A s \in seen.sum : SumTold(s, cpsr)

(***************************************************************************)
(* A shift of any amount, past the width of a word too, gives the value    *)
(* and the carry that shifting bit by bit gives; an immediate amount of    *)
(* zero means a whole word, or a rotation through the carry                *)
(* (arm7tdmi.cpp:98-191).                                                  *)
(***************************************************************************)
BitByBit(type, s) ==
  CASE type = "LSL" -> Shift(Wrap(2 * s.value), s.value >= Top)
    [] type = "LSR" -> Shift(s.value \div 2, Bit(s.value, 0))
    [] type = "ASR" -> Shift(s.value \div 2 + Num(s.value >= Top) * Top, Bit(s.value, 0))
    [] type = "ROR" -> Shift(s.value \div 2 + Num(Bit(s.value, 0)) * Top, Bit(s.value, 0))
    [] type = "RRX" -> Shift(s.value \div 2 + Num(s.carry) * Top, Bit(s.value, 0))

Steps(type, v, c, n) ==
  Rounds(Shift(v, c), [p \in (1 .. n) \X [value : Words, carry : BOOLEAN] |-> BitByBit(type, p[2])], n)

ShiftTold(h) ==
  LET whole == ~h.byRegister /\ h.amount = 0
  IN  h.result = CASE whole /\ h.type = "ROR"            -> Steps("RRX", h.value, h.c, 1)
                   [] whole /\ h.type \in {"LSR", "ASR"} -> Steps(h.type, h.value, h.c, Width)
                   [] OTHER                              -> Steps(h.type, h.value, h.c, h.amount)

ShiftsExact == \A h \in seen.shift : ShiftTold(h)

(***************************************************************************)
(* What runs next was fetched where it runs and for the instruction set it *)
(* runs in: nothing that moves the program counter or changes the set      *)
(* leaves opcodes behind (step, arm7tdmi.cpp:1014), but the tests that     *)
(* restore a status "without flushing" (arm7tdmi.cpp:1243).                *)
(***************************************************************************)
RunsWhatItFetched ==
  pipe.valid => /\ pipe.at = pc
                /\ ~pipe.mixed => pipe.slots = <<Token(pc), Token(pc + InstructionSize)>>

(* Code in one mode leaves the registers of the others alone: only an      *)
(* exception, the link register of its handler, and the transfers that say *)
(* so, the user bank (register_value, arm7tdmi.cpp:316-384, 971-996).      *)
BanksStep ==
  seen'.did # "reset" =>
    \A p \in Physicals : regs'[p] # regs[p] =>
      \/ p = Bank(cpsr.mode, p[2])
      \/ seen'.did = "exception" /\ p = Bank(cpsr'.mode, Lr)
      \/ p = Bank("usr", p[2]) /\ \E b \in seen'.block : UserBank(b.i)

BanksKept == [][BanksStep]_cpuVars

(* No instruction takes a user program out of user mode, or changes which  *)
(* interrupts it can be stopped by (arm7tdmi.cpp:942, 957).                *)
UserStep ==
  cpsr.mode = "usr" /\ seen'.did \notin {"exception", "reset"} =>
    cpsr'.mode = "usr" /\ cpsr'.i = cpsr.i /\ cpsr'.f = cpsr.f

UserStaysUser == [][UserStep]_cpuVars

(***************************************************************************)
(* A handler that returns the way its exception is returned from, with the *)
(* status and link it was given, goes back to what was interrupted: the    *)
(* next instruction after a call, the same one after an interrupt, in the  *)
(* same mode and instruction set, whatever else was taken and returned     *)
(* from meanwhile (take_exception, arm7tdmi.cpp:1845-1904).                *)
(***************************************************************************)
Back(e) == CASE e \in {"und", "swi"} -> 0 [] e = "dabt" -> 8 [] OTHER -> 4

LeadsBack ==
  seen'.did = "return" /\ HasSpsr =>
    \A e \in entered[cpsr.mode] :
      spsr[cpsr.mode] = e.status /\ seen'.target = Wrap(e.link - Back(e.kind)) =>
        cpsr' = e.status /\ pc' = e.resume

ReturnsWhereItLeft == [][LeadsBack]_cpuVars

(***************************************************************************)
(* Storing registers and loading the same ones the opposite way puts every *)
(* register of every mode back, the base too, for all four directions, the *)
(* user bank, and the empty list (arm7tdmi.cpp:683-806, 1535-1661); in     *)
(* Thumb, from an aligned base.                                            *)
(***************************************************************************)
Opposite(s, l) ==
  /\ s.base = l.base /\ s.list = l.list /\ s.user = l.user /\ s.writeback = l.writeback
  /\ s.base \notin s.list
  /\ IF s.writeback THEN s.up # l.up /\ s.pre # l.pre ELSE s.up = l.up /\ s.pre = l.pre

InverseTransfers ==
  [][seen.did = "stored" /\ seen'.did = "loaded" =>
       \A s \in seen.block, l \in seen'.block :
         Opposite(s.i, l.i) /\ (cpsr.t => Base(l.i) % 4 = 0) => regs' = s.before]_cpuVars

\* Every instruction leaves words, bytes and modes, and runs from where it was fetched.
FlowExact == CpuTypeOK /\ RunsWhatItFetched

\* What flows through the processor is exact: opcodes, sums with their flags, shifts.
DataPathExact == FlowExact /\ ArithmeticExact /\ ShiftsExact

\* Modes are kept apart: their registers, what user mode may not change, and the ways back.
ModesKept == BanksKept /\ UserStaysUser /\ ReturnsWhereItLeft
================================================================================
