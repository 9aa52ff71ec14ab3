-------------------------------- MODULE Backup --------------------------------
(***************************************************************************)
(* The save chip of a cartridge (src/core/backup.cpp): SRAM, flash with    *)
(* its command sequences, and EEPROM with its serial protocol and a size   *)
(* that must be guessed.  The game is the environment: any program for the *)
(* first two, and for an EEPROM a program that sends whole commands of the *)
(* chip it was made for, through DMA or one bit at a time.                 *)
(*                                                                         *)
(* Flash offsets and command bytes are those of the code; an EEPROM is     *)
(* scaled (address widths, bits of a word, leading dummy bits).            *)
(***************************************************************************)
EXTENDS Integers, Sequences, SequencesExt

CONSTANTS
  Roms,         \* the ROM images a run loads, as the sequences of their words
  Offsets,      \* the flash and SRAM offsets the game uses
  Stores,       \* the <<offset, byte>> writes of the game
  SmallBits, LargeBits,       \* address widths of the two EEPROMs: 6 and 14
  SmallBlocks, LargeBlocks,   \* their words: 64 and 1024
  WordBits, DummyBits,        \* 64 and 4
  MaxWrites     \* bound: writes that change the chip

ASSUME BackupAssumption ==
  /\ SmallBits \in Nat \ {0} /\ LargeBits \in Nat /\ SmallBits < LargeBits
  /\ SmallBlocks \in 1 .. 2 ^ SmallBits /\ LargeBlocks \in SmallBlocks + 1 .. 2 ^ LargeBits
  /\ WordBits \in Nat \ {0} /\ DummyBits \in Nat
  /\ WordBits # LargeBits - SmallBits      \* the four request lengths differ
  /\ MaxWrites \in Nat
  /\ Stores \subseteq Offsets \X (0 .. 255)

Tags == [FLASH1M_V |-> "Flash128K", FLASH512_V |-> "Flash64K", FLASH_V |-> "Flash64K",
         EEPROM_V |-> "Eeprom", SRAM_F_V |-> "Sram", SRAM_V |-> "Sram"]

\* The first tag that is followed by the room the longest one needs decides.
DetectSaveType(rom) ==
  LET found == {i \in 1 .. Len(rom) - 2 : rom[i] \in DOMAIN Tags}
  IN  IF found = {} THEN "Sram"
      ELSE Tags[rom[CHOOSE i \in found : \A j \in found : i <= j]]

Banks      == {0, 1}
Erased     == 255
Unlock1    == <<21845, 170>>    \* 0xAA at 0x5555
Unlock2    == <<10922, 85>>     \* 0x55 at 0x2AAA
Sector(o)  == o \div 4096
Word       == [1 .. WordBits -> {0, 1}]
ErasedWord == [i \in 1 .. WordBits |-> 1]
BlocksOf(width) == IF width = LargeBits THEN LargeBlocks ELSE SmallBlocks

VARIABLES
  type,
  data,        \* bytes of a flash or SRAM, words of an EEPROM
  generation, dirty,
  flash,       \* the flash command machine
  width,       \* eeprom_address_bits_, 0 until the chip has been sized
  stream,      \* eeprom_bits_
  answer,      \* what is left to read: eeprom_read_buffer_ from eeprom_read_position_
  game,        \* the address width of the EEPROM the game was made for
  sending,     \* the bits left of the command the game sends
  sender,      \* what sends them: the CPU, or a DMA that nothing interrupts
  command,     \* what they ask: <<n>> for word n, <<n, w>> to store w in it
  saved,       \* history: the content when it was last loaded or saved
  recent       \* history: the last writes to a flash chip, bank numbers left out

chip == <<data, generation, dirty>>
eeprom == <<width, stream, answer>>
vars == <<type, chip, flash, eeprom, game, sending, sender, command, saved, recent>>

IsFlash == type \in {"Flash64K", "Flash128K"}
ChipBanks == IF type = "Flash128K" THEN Banks ELSE {0}

\* set_eeprom_size: what was there stays, the rest reads as erased.
Resized(d, w) ==
  [b \in 0 .. BlocksOf(w) - 1 |-> IF b \in DOMAIN d THEN d[b] ELSE ErasedWord]

ReadyFlash == [state |-> "Ready", id |-> FALSE, erase |-> FALSE, write |-> FALSE,
               switch |-> FALSE, bank |-> 0]

Init ==
  /\ \E rom \in Roms : type = DetectSaveType(rom)
  /\ game \in IF type = "Eeprom" THEN {SmallBits, LargeBits} ELSE {0}
  \* configure, and then load for a save file of the game's own size
  /\ \/ type # "Eeprom" /\ data = [a \in ChipBanks \X Offsets |-> Erased] /\ width = 0
     \/ type = "Eeprom" /\ data = <<>> /\ width = 0
     \/ /\ type = "Eeprom" /\ width = game
        /\ data \in {Resized([b \in {0} |-> w], game) : w \in Word}
  /\ generation = 0 /\ dirty = FALSE
  /\ flash = ReadyFlash
  /\ stream = <<>> /\ answer = <<>> /\ sending = <<>> /\ sender = "CPU" /\ command = <<>>
  /\ saved = data /\ recent = <<>>

-----------------------------------------------------------------------------
(* Bytes: SRAM and flash *)

MarkWritten == generation' = generation + 1 /\ dirty' = TRUE
Put(a, v)   == data' = [data EXCEPT ![a] = v] /\ MarkWritten
\* Mutant: an erase is not a write.
EraseUnmarked(As) ==
  /\ data' = [a \in DOMAIN data |-> IF a \in As THEN Erased ELSE data[a]]
  /\ UNCHANGED <<generation, dirty>>

Erase(As)   == data' = [a \in DOMAIN data |-> IF a \in As THEN Erased ELSE data[a]] /\ MarkWritten
Keep        == UNCHANGED chip

SramWrite(o, v) ==
  /\ type = "Sram"
  /\ IF data[<<0, o>>] # v THEN Put(<<0, o>>, v) ELSE Keep
  /\ UNCHANGED <<flash, recent>>

ProgramByte(o, v) ==
  /\ flash.write
  /\ Put(<<flash.bank, o>>, v)
  /\ flash' = [flash EXCEPT !.write = FALSE]

SwitchesBank(o) == ~flash.write /\ flash.switch /\ o = 0

SwitchBank(o, v) ==
  /\ SwitchesBank(o)
  /\ flash' = [flash EXCEPT !.switch = FALSE,
                            !.bank = IF type = "Flash128K" THEN v % 2 ELSE 0]
  /\ Keep

AtReady(o, v) ==
  /\ flash.state = "Ready"
  /\ flash' = IF <<o, v>> = Unlock1 THEN [flash EXCEPT !.state = "FirstUnlock"]
              ELSE IF v = 240 THEN [flash EXCEPT !.id = FALSE]
              ELSE flash
  /\ Keep

\* Mutant: any second write goes on with the sequence.
AtFirstUnlockAny(o, v) ==
  flash.state = "FirstUnlock" /\ flash' = [flash EXCEPT !.state = "SecondUnlock"] /\ Keep

AtFirstUnlock(o, v) ==
  /\ flash.state = "FirstUnlock"
  /\ flash' = [flash EXCEPT !.state = IF <<o, v>> = Unlock2 THEN "SecondUnlock" ELSE "Ready"]
  /\ Keep

\* The byte of a command, at the address of the first unlock write.
Commanded(v) ==
  LET f == [flash EXCEPT !.state = "Ready"] IN
  CASE v = 144 -> [f EXCEPT !.id = TRUE]                      \* 0x90
    [] v = 240 -> [f EXCEPT !.id = FALSE]                     \* 0xF0
    [] v = 128 -> [f EXCEPT !.erase = TRUE]                   \* 0x80
    [] v = 16  -> [f EXCEPT !.erase = FALSE]                  \* 0x10
    [] v = 160 -> [f EXCEPT !.write = TRUE]                   \* 0xA0
    [] v = 176 -> [f EXCEPT !.switch = type = "Flash128K"]    \* 0xB0
    [] OTHER   -> f

AtSecondUnlock(o, v) ==
  /\ flash.state = "SecondUnlock"
  /\ IF o = Unlock1[1]
     THEN /\ flash' = Commanded(v)
          /\ IF v = 16 /\ flash.erase THEN Erase(DOMAIN data) ELSE Keep
     ELSE IF v = 48 /\ flash.erase
     THEN /\ flash' = [flash EXCEPT !.state = "Ready", !.erase = FALSE]
          /\ Erase({a \in DOMAIN data : a[1] = flash.bank /\ Sector(a[2]) = Sector(o)})
     ELSE flash' = [flash EXCEPT !.state = "Ready"] /\ Keep

FlashWrite(o, v) ==
  /\ IsFlash
  /\ \/ ProgramByte(o, v)
     \/ SwitchBank(o, v)
     \/ /\ ~flash.write /\ ~SwitchesBank(o)
        /\ AtReady(o, v) \/ AtFirstUnlock(o, v) \/ AtSecondUnlock(o, v)
  /\ recent' = LET r == Append(recent, <<o, v>>)
               IN  IF SwitchesBank(o) THEN recent
                   ELSE IF Len(r) > 3 THEN Tail(r) ELSE r

Write8 ==
  /\ generation < MaxWrites
  /\ \E s \in Stores : SramWrite(s[1], s[2]) \/ FlashWrite(s[1], s[2])
  /\ UNCHANGED <<type, eeprom, game, sending, sender, command, saved>>

-----------------------------------------------------------------------------
(* Bits: EEPROM.  A value of the chip is a record e with its data, width,  *)
(* stream and answer, and `wrote', whether a word was written.             *)

Sized(e, w) == [e EXCEPT !.width = w, !.data = Resized(e.data, w)]

Bits(n, count) == [i \in 1 .. count |-> (n \div 2 ^ (count - i)) % 2]

\* Numbers that an address can hold differ in its bits: arithmetic that the
\* provers, for whom `^' has no meaning, cannot supply.
ASSUME BitsTellNumbers ==
  \A w \in {SmallBits, LargeBits} : \A m, n \in 0 .. 2 ^ w - 1 :
    Bits(m, w) = Bits(n, w) => m = n

\* The number these are the bits of, the highest first.
ToNumber(bits) == CHOOSE n \in 0 .. 2 ^ Len(bits) - 1 : Bits(n, Len(bits)) = bits

\* Mutant: the stop bit is not waited for.
NeededNoStop(e) == 2 + e.width + (IF e.stream[2] = 1 THEN 0 ELSE WordBits)

Needed(e) == 2 + e.width + (IF e.stream[2] = 1 THEN 0 ELSE WordBits) + 1

FinishCommand(e) ==
  LET block == ToNumber(SubSeq(e.stream, 3, 2 + e.width)) % BlocksOf(e.width)
      word  == SubSeq(e.stream, 3 + e.width, 2 + e.width + WordBits)
      done  == [e EXCEPT !.stream = <<>>]
  IN  IF e.stream[2] = 1
      THEN [done EXCEPT !.answer = [i \in 1 .. DummyBits |-> 0] \o e.data[block]]
      ELSE [done EXCEPT !.data[block] = word, !.answer = <<>>, !.wrote = TRUE]

\* eeprom_write: one bit arrives.
Received(e, bit) ==
  LET known == IF e.width = 0 THEN Sized(e, SmallBits) ELSE e
      fed   == [known EXCEPT !.stream = Append(@, bit)]
  IN  IF Len(fed.stream) = 2 /\ fed.stream[1] = 0 THEN [fed EXCEPT !.stream = <<>>]
      ELSE IF Len(fed.stream) >= 2 /\ Len(fed.stream) >= Needed(fed) THEN FinishCommand(fed)
      ELSE fed

\* prepare_eeprom_transfer: the length of a request tells the width.
Prepared(e, halfwords) ==
  IF e.width # 0 THEN e
  ELSE IF halfwords \in {2 + SmallBits + 1, 2 + SmallBits + WordBits + 1}
  THEN Sized(e, SmallBits)
  ELSE IF halfwords \in {2 + LargeBits + 1, 2 + LargeBits + WordBits + 1}
  THEN Sized(e, LargeBits)
  ELSE e

Eeprom == [data |-> data, width |-> width, stream |-> stream, answer |-> answer, wrote |-> FALSE]

Becomes(e) ==
  /\ data' = e.data /\ width' = e.width /\ stream' = e.stream /\ answer' = e.answer
  /\ IF e.wrote THEN MarkWritten ELSE UNCHANGED <<generation, dirty>>

\* The commands of the game, and the bits they are sent as; the address bits
\* beyond its chip's size are ignored.
Commands == {<<n>> : n \in 0 .. 2 ^ game - 1}
              \cup {<<n, w>> : n \in 0 .. 2 ^ game - 1, w \in Word}

ReadCommand(n)     == <<1, 1>> \o Bits(n, game) \o <<0>>
WriteCommand(n, w) == <<1, 0>> \o Bits(n, game) \o w \o <<0>>
BitsOf(c) == IF Len(c) = 1 THEN ReadCommand(c[1]) ELSE WriteCommand(c[1], c[2])

\* A command through DMA: the chip is told its length first.
SendByDma ==
  /\ type = "Eeprom" /\ sending = <<>> /\ generation < MaxWrites
  /\ command' \in Commands /\ sending' = BitsOf(command') /\ sender' = "DMA"
  /\ Becomes(Prepared(Eeprom, Len(sending')))
  /\ UNCHANGED <<type, flash, game, saved, recent>>

\* The CPU sends a command itself; the chip then takes its size for small.
StartSending ==
  /\ type = "Eeprom" /\ sending = <<>> /\ generation < MaxWrites
  /\ game = SmallBits \/ width # 0
  /\ command' \in Commands /\ sending' = BitsOf(command') /\ sender' = "CPU"
  /\ UNCHANGED <<type, chip, flash, eeprom, game, saved, recent>>

SendBit ==
  /\ sending # <<>>
  /\ Becomes(Received(Eeprom, Head(sending)))
  /\ sending' = Tail(sending)
  /\ command' = IF sending' = <<>> THEN <<>> ELSE command
  /\ UNCHANGED <<type, flash, game, sender, saved, recent>>

\* eeprom_read, by the CPU or by a DMA; with nothing left it reads "ready".
ReadBit ==
  /\ type = "Eeprom" /\ sending = <<>>
  /\ answer # <<>> /\ answer' = Tail(answer)
  /\ UNCHANGED <<type, chip, flash, width, stream, game, sending, sender, command, saved, recent>>

-----------------------------------------------------------------------------

\* The emulator has written data() to the save file.
MarkClean ==
  /\ sending = <<>> \/ sender = "CPU"
  /\ dirty /\ dirty' = FALSE
  /\ saved' = data
  /\ UNCHANGED <<type, data, generation, flash, eeprom, game, sending, sender, command, recent>>

Next == Write8 \/ SendByDma \/ StartSending \/ SendBit \/ ReadBit \/ MarkClean

Spec == Init /\ [][Next]_vars

-----------------------------------------------------------------------------

\* The state of the chip is one the code can hold: the content has the shape
\* of the media, and an EEPROM command never outgrows its own length.
TypeOK ==
  /\ data \in IF type # "Eeprom" THEN [ChipBanks \X Offsets -> 0 .. 255]
              ELSE IF width = 0 THEN {<<>>} ELSE [0 .. BlocksOf(width) - 1 -> Word]
  /\ generation \in 0 .. MaxWrites + 1 /\ dirty \in BOOLEAN
  /\ flash.bank \in ChipBanks
  /\ width \in {0, game}
  /\ Len(stream) < 2 + LargeBits + WordBits + 1
  /\ Len(answer) <= DummyBits + WordBits
  /\ Len(recent) <= 3

\* What a flash chip may do to its content on the write s, said over the
\* writes before it: a byte is programmed by the write right after AA 55 A0,
\* a sector goes by AA 55 30, the whole chip by AA 55 10.
After(prefix) == IsSuffix(prefix, recent)

Programs(s) ==
  /\ After(<<Unlock1, Unlock2, <<Unlock1[1], 160>>>>)
  /\ data' = [data EXCEPT ![<<flash.bank, s[1]>>] = s[2]]

ErasesSector(s) ==
  /\ After(<<Unlock1, Unlock2>>) /\ s[2] = 48
  /\ \A a \in DOMAIN data :
       data'[a] = IF a[1] = flash.bank /\ Sector(a[2]) = Sector(s[1]) THEN Erased ELSE data[a]

ErasesChip(s) ==
  /\ After(<<Unlock1, Unlock2>>) /\ s = <<Unlock1[1], 16>>
  /\ \A a \in DOMAIN data : data'[a] = Erased

\* A save in flash changes only by a complete command, and only where that
\* command says: a sequence broken in the middle, in any order of commands,
\* leaves nothing behind that turns a later write into a program or an erase
\* (backup.cpp:145).
FlashChangesByCommand ==
  [][IsFlash /\ data' # data =>
       LET s == Last(recent') IN Programs(s) \/ ErasesSector(s) \/ ErasesChip(s)]_vars

\* The mark that autosave and flush rely on: whatever the content has become
\* since it was last on disk, the chip is dirty (backup.cpp:372).
NothingUnmarked ==
  dirty \/ data = saved \/ (saved = <<>> /\ data = Resized(<<>>, width))

\* The command under way, as a request to a chip of the game's size.
Request ==
  CASE command = <<>>   -> <<>>
    [] Len(command) = 1 -> <<command[1] % BlocksOf(game)>>
    [] Len(command) = 2 -> <<command[1] % BlocksOf(game), command[2]>>

Promise == INSTANCE SerialChip WITH
  Sizes <- {0, SmallBlocks, LargeBlocks}, Words <- Word,
  Prefix <- [i \in 1 .. DummyBits |-> 0],
  memory <- IF type = "Eeprom" THEN Resized(data, game) ELSE <<>>,
  request <- Request

\* A game that sends whole commands sees a chip of the size it was made for,
\* from its first command, that does what each command asks once its last bit
\* has come: the guess of the size, the ignored address bits and the assembly
\* of bits do not show (backup.cpp:207, 227, 252).
ImplementsSerialChip == Promise!Spec

\* The chip keeps to its types, and no write goes unmarked.
WritesMarked == TypeOK /\ NothingUnmarked
=============================================================================
