---------------------------------- MODULE Bus ----------------------------------
(***************************************************************************)
(* The bus (src/core/gba_bus.cpp): which memory or register an address is, *)
(* what accesses of one, two and four bytes do to it, what the other parts *)
(* of the machine write into the registers, and what an access costs.      *)
(*                                                                         *)
(* Addresses and bytes are the machine's own; a value on the bus is the    *)
(* sequence of its bytes, the lowest first.  Only the cells that the       *)
(* addresses of a family reach are kept.  The registers of sound, DMA and  *)
(* timers are in modules Apu, Dma and Timers, the save chips in Backup:    *)
(* here the save memory is plain.                                          *)
(***************************************************************************)
EXTENDS Integers, SequencesExt

CONSTANTS
  Families,     \* bound: name -> the addresses a program uses together
  Values,       \* bound: name -> the words it stores
  Limits,       \* bound: name -> how many steps are taken
  RomSize,      \* bytes in the cartridge
  Rom(_), Bios(_)       \* their contents

VARIABLES
  family,
  bus,          \* the state of GbaBus
  accesses,
  did           \* history: who did what last

busVars == <<family, bus, accesses, did>>

Lanes(n)      == 0 .. n - 1
AlignedTo(a, n) == a - (a % n)

--------------------------------------------------------------------------------
(* The memory map *)

BiosSize == 16384
IoStart  == 67108864          \* 0x04000000
IoSize   == 1024

RegionOf(a) ==
  LET top == a \div (2 ^ 24)
  IN  CASE top = 0 -> IF a < BiosSize THEN "bios" ELSE "unmapped"
        [] top = 2 -> "ewram"
        [] top = 3 -> "iwram"
        [] top = 4 -> IF a - IoStart < IoSize \/ (a % 65536) \in 2048 .. 2051 THEN "io" ELSE "unmapped"
        [] top = 5 -> "palette"
        [] top = 6 -> "vram"
        [] top = 7 -> "oam"
        [] top \in 8 .. 9   -> "rom0"
        [] top \in 10 .. 11 -> "rom1"
        [] top \in 12 .. 13 -> "rom2"
        [] top \in 14 .. 15 -> "sram"
        [] OTHER            -> "unmapped"

Roms == {"rom0", "rom1", "rom2"}
Fast == {"ewram", "iwram", "palette", "vram", "oam"}     \* written whole

(* 96 KiB in a window of 128: the last quarter repeats the third *)
VramOffset(a) == LET o == a % 131072 IN IF o >= 98304 THEN o - 32768 ELSE o

RegionOffset(a) ==
  CASE RegionOf(a) = "ewram"            -> a % 262144
    [] RegionOf(a) = "iwram"            -> a % 32768
    [] RegionOf(a) \in {"palette", "oam"} -> a % 1024
    [] RegionOf(a) = "vram"             -> VramOffset(a)
    [] RegionOf(a) = "sram"             -> a % 65536
    [] RegionOf(a) \in Roms             -> a % 33554432

Cell(a) == <<RegionOf(a), RegionOffset(a)>>

(* The registers with a meaning of their own here *)
DisplayStatus == 4
VCount        == 6
KeyInput      == 304
KeyControl    == 306
InterruptEnable == 512
InterruptFlags  == 514
WaitControl     == 516
InterruptMaster == 520
PostBoot        == 768
HaltControl     == 769

Words0 == {AlignedTo(a, 4) + k : a \in UNION {Families[f] : f \in DOMAIN Families}, k \in Lanes(4)}
Cells0 == {Cell(a) : a \in {x \in Words0 : RegionOf(x) \in Fast \cup {"sram"}}}
IoCells == {a - IoStart : a \in {x \in Words0 : RegionOf(x) = "io" /\ x - IoStart < IoSize}}
           \cup {0, 1, DisplayStatus, VCount, VCount + 1, KeyControl, KeyControl + 1,
                 InterruptEnable, InterruptEnable + 1, InterruptFlags, InterruptFlags + 1,
                 InterruptMaster, PostBoot}

--------------------------------------------------------------------------------
(* Bits of a byte, and a number of several bytes *)

BitsOf(v)      == {n \in 0 .. 7 : (v \div (2 ^ n)) % 2 = 1}
ByteOf(S)      == FoldSet(LAMBDA n, v : v + 2 ^ n, 0, S)
Only(v, S)     == ByteOf(BitsOf(v) \cap S)
HalfBits(lo, hi) == BitsOf(lo) \cup {n + 8 : n \in BitsOf(hi)}
LowByte(S)     == ByteOf({n \in S : n < 8})
HighByte(S)    == ByteOf({n - 8 : n \in {k \in S : k >= 8}})
InterruptBits  == 0 .. 13
Keypad         == 12
Keys           == 0 .. 9

Flags(b)    == HalfBits(b.io[InterruptFlags], b.io[InterruptFlags + 1])
RequestedInstead(b, kinds) ==                                           \* mutant
  [b EXCEPT !.io[InterruptFlags] = LowByte(kinds), !.io[InterruptFlags + 1] = HighByte(kinds \cap InterruptBits)]

Requested(b, kinds) ==
  LET all == Flags(b) \cup (kinds \cap InterruptBits)
  IN  [b EXCEPT !.io[InterruptFlags] = LowByte(all), !.io[InterruptFlags + 1] = HighByte(all)]

(* update_keypad_interrupt *)
Selects(lo, hi, pressed) ==
  LET control == HalfBits(lo, hi)
      chosen  == control \cap Keys
  IN  14 \in control /\ IF 15 \in control THEN chosen # {} /\ chosen \subseteq pressed
                                          ELSE chosen \cap pressed # {}
KeypadCondition(b) == Selects(b.io[KeyControl], b.io[KeyControl + 1], b.pressed)
KeypadUpdated(b)   == IF KeypadCondition(b) THEN Requested(b, {Keypad}) ELSE b

--------------------------------------------------------------------------------
(* Reading.  A read has a value and leaves it on the bus. *)

Rotated(v, n)  == SubSeq(v, n + 1, Len(v)) \o SubSeq(v, 1, n)
OpenBus(b, a, n) == SubSeq(Rotated(b.open, a % 4), 1, n)
Repeated(v)    == CASE Len(v) = 1 -> v \o v \o v \o v [] Len(v) = 2 -> v \o v [] Len(v) = 4 -> v
Latched(b, v)  == [b EXCEPT !.open = Repeated(v)]

ReadIo(b, a) ==
  LET o == a - IoStart
  IN  CASE a % 65536 \in 2048 .. 2051                 -> b.internal[(a % 4) + 1]
        [] o \in {WaitControl, WaitControl + 1}       -> b.wait[o - WaitControl + 1]
        [] o = KeyInput                               -> LowByte(Keys \ b.pressed)
        [] o = KeyInput + 1                           -> HighByte(Keys \ b.pressed)
        [] OTHER                                      -> b.io[o]

RomByte(a) == IF RegionOffset(a) < RomSize THEN Rom(RegionOffset(a))
              ELSE LET address == (a \div 2) % 65536
                   IN  IF a % 2 = 0 THEN address % 256 ELSE address \div 256

(* inside: an opcode fetch, or a load by code in the system ROM *)
ReadByte(b, a, inside) ==
  CASE RegionOf(a) = "bios"                -> IF inside THEN Bios(a) ELSE b.latch[(a % 4) + 1]
    [] RegionOf(a) \in Fast \cup {"sram"}  -> b.mem[Cell(a)]
    [] RegionOf(a) = "io"                  -> ReadIo(b, a)
    [] RegionOf(a) \in Roms                -> RomByte(a)

ReadsFastToTheEnd(a, n) == RegionOf(a) \in Fast \/ (RegionOf(a) \in Roms /\ RegionOffset(a) < RomSize)  \* mutant

(* The wide path: the bytes from one place on, no register in between *)
ReadsFast(a, n) == RegionOf(a) \in Fast \/ (RegionOf(a) \in Roms /\ RegionOffset(a) + n <= RomSize)
FastByte(b, a, k) == IF RegionOf(a) \in Roms THEN Rom(RegionOffset(a) + k)
                     ELSE b.mem[<<RegionOf(a), RegionOffset(a) + k>>]

Bytes(b, a, n, inside) ==
  LET w == AlignedTo(a, n)
      At(k) == IF n > 1 /\ ReadsFast(w, n) THEN FastByte(b, w, k) ELSE ReadByte(b, w + k, inside)
  IN  Rotated([k \in 1 .. n |-> At(k - 1)], a % n)

Mapped(a, n) == \A k \in Lanes(n) : RegionOf(AlignedTo(a, n) + k) # "unmapped"

ReadValue(b, a, n, inside) ==
  CASE ~Mapped(a, n)                   -> OpenBus(b, a, n)
    [] Mapped(a, n) /\ RegionOf(a) = "sram" -> [k \in 1 .. n |-> b.mem[Cell(a)]]
    [] OTHER                           -> Bytes(b, a, n, inside)

(* A fetch from the system ROM stays readable when its code is left *)
Read(b, a, n, inside, fetch) ==
  LET v == ReadValue(b, a, n, inside)
      kept == IF fetch /\ a < BiosSize THEN [b EXCEPT !.latch = Repeated(v)] ELSE b
  IN  IF Mapped(a, n) THEN Latched(kept, v) ELSE b

(* peek: memory and the registers as stored, no effect *)
Peek(b, a, n) ==
  LET w == AlignedTo(a, n)
  IN  [k \in 1 .. n |-> CASE ReadsFast(w, n) -> FastByte(b, w, k - 1)
                          [] RegionOf(w) = "io" /\ w - IoStart + n <= IoSize -> b.io[w - IoStart + k - 1]
                          [] OTHER -> 0]

--------------------------------------------------------------------------------
(* Writing *)

ReadOnly == {VCount, VCount + 1, KeyInput, KeyInput + 1, InterruptMaster + 1}

WriteIo(b, a, v) ==
  LET o == a - IoStart
      reloaded == CASE o \in 40 .. 47 -> [b EXCEPT !.affine[1] = TRUE]
                    [] o \in 56 .. 63 -> [b EXCEPT !.affine[2] = TRUE]
                    [] OTHER          -> b
  IN  CASE a % 65536 \in 2048 .. 2051 -> [b EXCEPT !.internal[(a % 4) + 1] = v]
        [] o = WaitControl            -> [b EXCEPT !.wait[1] = v]
        [] o = WaitControl + 1        -> [b EXCEPT !.wait[2] = Only(v, {0, 1, 2, 3, 4, 6})]
        [] o = DisplayStatus          -> [b EXCEPT !.io[o] = ByteOf((BitsOf(@) \cap {0, 1, 2})
                                                             \cup (BitsOf(v) \cap {3, 4, 5}))]
        [] o \in ReadOnly               -> b
        [] o = KeyControl             -> KeypadUpdated([b EXCEPT !.io[o] = v])
        [] o = KeyControl + 1         -> KeypadUpdated([b EXCEPT !.io[o] = Only(v, {0, 1, 6, 7})])
        [] o = InterruptEnable + 1    -> [b EXCEPT !.io[o] = Only(v, 0 .. 5)]
        [] o \in {InterruptFlags, InterruptFlags + 1} ->
             [b EXCEPT !.io[o] = ByteOf(BitsOf(@) \ BitsOf(v))]
        [] o \in {InterruptMaster, PostBoot} -> [b EXCEPT !.io[o] = v % 2]
        [] o = HaltControl            -> [b EXCEPT !.io[o] = v, !.halt = TRUE]
        [] OTHER                      -> [reloaded EXCEPT !.io[o] = v]

(* Video memory takes a byte on both lanes; objects take none *)
ObjectBoundary(b) == IF b.io[0] % 8 >= 3 THEN 81920 ELSE 65536
Doubled(b, a, v) ==
  LET c == <<RegionOf(a), AlignedTo(RegionOffset(a), 2)>>
  IN  [b EXCEPT !.mem[c] = v, !.mem[<<c[1], c[2] + 1>>] = v]

(* A byte of an access of n bytes *)
WriteByte(b, a, v, n) ==
  CASE RegionOf(a) \in {"ewram", "iwram", "sram"}       -> [b EXCEPT !.mem[Cell(a)] = v]
    [] RegionOf(a) = "io"                               -> WriteIo(b, a, v)
    [] RegionOf(a) = "palette" /\ n = 1                 -> Doubled(b, a, v)
    [] RegionOf(a) = "vram" /\ n = 1                    ->
         IF RegionOffset(a) >= ObjectBoundary(b) THEN b ELSE Doubled(b, a, v)
    [] RegionOf(a) \in {"palette", "vram", "oam"} /\ n > 1 -> [b EXCEPT !.mem[Cell(a)] = v]
    [] OTHER                                            -> b

WriteBytes(b, a, v) ==
  FoldLeft(LAMBDA s, k : WriteByte(s, AlignedTo(a, Len(v)) + k, v[k + 1], Len(v)), b,
           [k \in 1 .. Len(v) |-> k - 1])

WriteFast(b, a, v) ==
  LET first == Cell(AlignedTo(a, Len(v)))
      At(c) == c[1] = first[1] /\ c[2] \in first[2] .. first[2] + Len(v) - 1
  IN  [b EXCEPT !.mem = [c \in DOMAIN @ |-> IF At(c) THEN v[c[2] - first[2] + 1] ELSE @[c]]]

(* The save chip takes the one lane the address names *)
Written(b, a, v) ==
  CASE Len(v) > 1 /\ RegionOf(a) \in Fast  -> WriteFast(b, a, v)
    [] Len(v) > 1 /\ RegionOf(a) = "sram"  -> [b EXCEPT !.mem[Cell(a)] = v[(a % Len(v)) + 1]]
    [] OTHER                               -> WriteBytes(b, a, v)

Write(b, a, v) == Latched(Written(b, a, v), v)

(* poke: the same places, nothing left on the bus; the save chip is not reached *)
Poked(b, a, v) ==
  CASE RegionOf(a) \in Fast                  -> WriteFast(b, a, v)
    [] RegionOf(AlignedTo(a, Len(v))) = "io"   -> WriteBytes(b, a, v)
    [] OTHER                                 -> b

--------------------------------------------------------------------------------
(* Wait states *)

WaitBits(b, from, count) == ((b.wait[1] + 256 * b.wait[2]) \div (2 ^ from)) % (2 ^ count)
FirstWait(k)   == <<4, 3, 2, 8>>[k + 1]
Window(a)      == CASE RegionOf(a) = "rom0" -> 0 [] RegionOf(a) = "rom1" -> 1 [] RegionOf(a) = "rom2" -> 2
NonSequential(b, a) == 1 + FirstWait(WaitBits(b, 2 + 3 * Window(a), 2))
Sequential(b, a)    == 1 + IF WaitBits(b, 4 + 3 * Window(a), 1) = 1 THEN 1
                           ELSE <<2, 4, 8>>[Window(a) + 1]

(* A sequence starts again at every 128 KiB of the cartridge *)
RomCycles(b, a, n, sequential) ==
  LET w == AlignedTo(a, IF n = 4 THEN 4 ELSE 2)
      Half(at, goesOn) == IF goesOn /\ at % 131072 # 0 THEN Sequential(b, a) ELSE NonSequential(b, a)
  IN  Half(w, sequential) + IF n = 4 THEN Half(w + 2, TRUE) ELSE 0

AccessCycles(b, a, n, sequential) ==
  CASE RegionOf(a) = "ewram"                -> IF n = 4 THEN 6 ELSE 3
    [] RegionOf(a) \in {"palette", "vram"}  -> IF n = 4 THEN 2 ELSE 1
    [] RegionOf(a) \in Roms                 -> RomCycles(b, a, n, sequential)
    [] RegionOf(a) = "sram"                 -> 1 + FirstWait(WaitBits(b, 0, 2))
    [] OTHER                                -> 1

(* Opcodes in sequence come from the prefetch buffer, but for a refill *)
FetchCycles(b, a, n, sequential, refill) ==
  IF RegionOf(a) \in Roms /\ WaitBits(b, 14, 1) = 1 /\ sequential /\ ~refill
  THEN IF n = 4 THEN 2 ELSE 1
  ELSE AccessCycles(b, a, n, sequential)

--------------------------------------------------------------------------------
(* The machine around it *)

Fresh ==
  [mem |-> [c \in Cells0 |-> 0], io |-> [o \in IoCells |-> 0], wait |-> <<0, 0>>,
   internal |-> <<32, 0, 0, 13>>, latch |-> <<0, 0, 0, 0>>, open |-> <<0, 0, 0, 0>>,
   pressed |-> {}, halt |-> FALSE, affine |-> <<TRUE, TRUE>>]

(* initialize_post_bios: forced blank, and the boot's last opcode *)
PostBios(b) == [b EXCEPT !.io[0] = 128, !.io[1] = 0, !.io[PostBoot] = 1, !.latch = <<0, 240, 41, 225>>]

Nothing == [by |-> "none", a |-> 0, v |-> << >>]

BusInit ==
  /\ family \in DOMAIN Families
  /\ bus = PostBios(Fresh)
  /\ accesses = 0
  /\ did = Nothing

Did(who) == accesses' = accesses + 1 /\ did' = [Nothing EXCEPT !.by = who] /\ UNCHANGED family

(* Stores, loads and fetches of a program, or of a DMA channel *)
BusStore(a, v) ==
  /\ bus' = Write(bus, a, v)
  /\ accesses' = accesses + 1 /\ did' = [by |-> "program", a |-> a, v |-> v] /\ UNCHANGED family

BusLoad(a, n)  == bus' = Read(bus, a, n, FALSE, FALSE) /\ Did("load")
Fetch(a, n) == n > 1 /\ bus' = Read(bus, a, n, TRUE, TRUE) /\ Did("load")

(* A cheat *)
Poke(a, v) ==
  /\ bus' = Poked(bus, a, v)
  /\ accesses' = accesses + 1 /\ did' = [by |-> "cheat", a |-> a, v |-> v] /\ UNCHANGED family

SetPressedKeys(pressed) ==
  /\ pressed # bus.pressed
  /\ bus' = KeypadUpdated([bus EXCEPT !.pressed = pressed])
  /\ Did("keys")

RequestInterrupts(kinds) == bus' = Requested(bus, kinds) /\ Did("device")

SetDisplayStatusFlags(flags) ==
  /\ bus' = [bus EXCEPT !.io[DisplayStatus] = ByteOf((BitsOf(@) \ {0, 1, 2}) \cup (flags \cap {0, 1, 2}))]
  /\ Did("video")

SetVcount(line) ==
  /\ bus' = [bus EXCEPT !.io[VCount] = line, !.io[VCount + 1] = 0]
  /\ Did("video")

TakeHaltRequest     == bus.halt /\ bus' = [bus EXCEPT !.halt = FALSE] /\ Did("machine")
TakeAffineReload(k) == bus.affine[k] /\ bus' = [bus EXCEPT !.affine[k] = FALSE] /\ Did("video")

BusReset ==
  /\ bus' = [Fresh EXCEPT !.mem = [c \in Cells0 |-> IF c[1] = "sram" THEN bus.mem[c] ELSE 0]]
  /\ Did("machine")

Prefix(v, n) == SubSeq(v, 1, n)

BusNext ==
  /\ accesses < Limits[family]
  /\ \/ \E a \in Families[family], n \in {1, 2, 4} :
          \/ \E v \in Values[family] : BusStore(a, Prefix(v, n)) \/ Poke(a, Prefix(v, n))
          \/ BusLoad(a, n)
          \/ Fetch(a, n)
     \/ family = "keys" /\ \E pressed \in SUBSET {0, 8} : SetPressedKeys(pressed)
     \/ family = "interrupts" /\ \E kinds \in {{0}, {Keypad}, {3, 15}} : RequestInterrupts(kinds)
     \/ family = "video" /\ \/ \E flags \in {{0}, {1, 2, 3}} : SetDisplayStatusFlags(flags)
                            \/ \E line \in {0, 160} : SetVcount(line)
                            \/ \E k \in 1 .. 2 : TakeAffineReload(k)
     \/ TakeHaltRequest
     \/ BusReset

BusSpec == BusInit /\ [][BusNext]_busVars

--------------------------------------------------------------------------------
(* Properties *)

Bytes8 == 0 .. 255
Stores == {"program", "cheat"}

(* Bytes are bytes, and the bits nobody can set are clear: those of WAITCNT, *)
(* DISPSTAT, KEYCNT, IE and IF that write_byte masks.                        *)
BusTypeOK ==
  /\ family \in DOMAIN Families /\ accesses \in 0 .. Limits[family]
  /\ bus.mem \in [Cells0 -> Bytes8] /\ bus.io \in [IoCells -> Bytes8]
  /\ {bus.internal, bus.latch, bus.open} \subseteq [1 .. 4 -> Bytes8]
  /\ bus.pressed \subseteq Keys /\ bus.halt \in BOOLEAN /\ bus.affine \in [1 .. 2 -> BOOLEAN]
  /\ BitsOf(bus.wait[2]) \cap {5, 7} = {}
  /\ BitsOf(bus.io[DisplayStatus]) \cap {6, 7} = {}
  /\ BitsOf(bus.io[KeyControl + 1]) \cap (2 .. 5) = {}
  /\ (BitsOf(bus.io[InterruptEnable + 1]) \cup BitsOf(bus.io[InterruptFlags + 1])) \cap {6, 7} = {}

(* A wide read is the bytes the narrow ones give, through mirrors and at the *)
(* cartridge's end, and peek sees the same: the pointer of                   *)
(* fast_read_pointer leaves no region and skips no mirror.                   *)
PlainMemory(a) == RegionOf(a) \in Fast \cup Roms
ReadsAgree ==
  \A a \in {x \in Families[family] : PlainMemory(x)}, n \in {2, 4} :
    LET w == AlignedTo(a, n)
        narrow == [k \in 1 .. n |-> ReadValue(bus, w + k - 1, 1, FALSE)[1]]
    IN  /\ ReadValue(bus, w, n, FALSE) = narrow
        /\ RegionOf(a) \in Fast \/ RegionOffset(w) + n <= RomSize => Peek(bus, w, n) = narrow

(* A word costs its two halves wherever the bus is 16 bits wide, the second  *)
(* in sequence with the first, under every setting of WAITCNT; and the       *)
(* prefetch buffer never makes a fetch dearer.                               *)
CostsAdd ==
  \A a \in {x \in Families[family] : PlainMemory(x) /\ RegionOf(x) \notin {"iwram", "oam"}}, s \in BOOLEAN :
    LET w == AlignedTo(a, 4)
    IN  /\ AccessCycles(bus, w, 4, s) = AccessCycles(bus, w, 2, s) + AccessCycles(bus, w + 2, 2, TRUE)
        /\ \A n \in {2, 4}, refill \in BOOLEAN :
             FetchCycles(bus, a, n, s, refill) <= AccessCycles(bus, a, n, s)

(* A store changes memory only inside the bytes it names, or the pair a byte *)
(* is doubled to; loads, keys and devices change none.                       *)
Span(who, a, n) ==
  LET w == AlignedTo(a, n)
      named == CASE RegionOf(a) = "sram" \/ (who = "cheat" /\ n = 1) -> {a}
                 [] RegionOf(a) = "oam" /\ n = 1 -> {}
                 [] n = 1 /\ RegionOf(a) \in {"palette", "vram"} -> AlignedTo(a, 2) .. AlignedTo(a, 2) + 1
                 [] OTHER -> w .. w + n - 1
  IN  {Cell(x) : x \in {y \in named : RegionOf(y) \in Fast \cup {"sram"}}}
StoresStayInSpan ==
  [][did'.by # "machine" =>
       {c \in Cells0 : bus'.mem[c] # bus.mem[c]} \subseteq
         (IF did'.by \in Stores THEN Span(did'.by, did'.a, Len(did'.v)) ELSE {})]_busVars

(* The keypad interrupt is requested when KEYCNT's condition comes to hold,  *)
(* and not otherwise: but a wide store of KEYCNT arrives byte by byte, and   *)
(* the mixture of its new low and old high byte counts as well.              *)
Mixture(b, new) == Selects(new.io[KeyControl], b.io[KeyControl + 1], b.pressed)
KeypadExact ==
  [][LET was == Keypad \in Flags(bus)
         is  == Keypad \in Flags(bus')
         changed == bus'.pressed # bus.pressed \/ \E k \in 0 .. 1 : bus'.io[KeyControl + k] # bus.io[KeyControl + k]
         caused == \/ KeypadCondition(bus')
                   \/ did'.by = "device"
                   \/ did'.by \in Stores /\ Len(did'.v) > 1 /\ Mixture(bus, bus')
     IN  /\ (is /\ ~was) => caused
         /\ (changed /\ KeypadCondition(bus')) => is]_busVars

(* "AND mode: both Start and Select" (tests/interrupt_keypad_tests.cpp:60):  *)
(* a store of KEYCNT requests the interrupt only when the keys that are held *)
(* meet the condition that it stored.                                        *)
KeypadOnCondition ==
  [][did'.by = "program" /\ Keypad \in Flags(bus') \ Flags(bus) => KeypadCondition(bus')]_busVars

(* A request is lost only by writing 1 to it: a store to the registers next  *)
(* to IF, or a device's request, acknowledges nothing.                       *)
Acknowledged(a, v) ==
  LET At(o) == {k \in 1 .. Len(v) : AlignedTo(a, Len(v)) + k - 1 = IoStart + o}
      Ones(o) == UNION {BitsOf(v[k]) : k \in At(o)}
  IN  Ones(InterruptFlags) \cup {n + 8 : n \in Ones(InterruptFlags + 1)}
RequestsSurvive ==
  [][did'.by # "machine" =>
       Flags(bus) \ Flags(bus') =
         Flags(bus) \cap (IF did'.by \in Stores THEN Acknowledged(did'.a, did'.v) ELSE {})]_busVars

(* The picture's flags and line belong to the PPU and the keys to the user:  *)
(* no store, of whatever width, and no cheat changes them.                   *)
Owned(b) == <<BitsOf(b.io[DisplayStatus]) \cap {0, 1, 2}, b.io[VCount], b.io[VCount + 1], b.pressed>>
OwnersKept == [][did'.by \in Stores \cup {"load", "device"} => Owned(bus') = Owned(bus)]_busVars

(* A shortcut gives what the long way gives: wide reads, their cost, and the *)
(* fetches from the prefetch buffer.                                         *)
FastPathsAgree == BusTypeOK /\ ReadsAgree /\ CostsAdd

(* A store does what it says and nothing beside it: in memory, in IF, at the *)
(* keypad, and in the registers that others own.                             *)
StoresExact == StoresStayInSpan /\ KeypadExact /\ RequestsSurvive /\ OwnersKept
================================================================================
