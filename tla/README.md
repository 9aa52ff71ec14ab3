# SRGBA in TLA+

SRGBA is a Game Boy Advance emulator. This directory models the parts of it that are hard to
test: what happens between components that share one clock, one interrupt register and one save
file, and the long sequences of legal calls that no unit test walks. Every definition is
translated from the C++ under `src/SRGBA`; `PROJECT.json` gives the lines each one stands for, and
the hazards line by line, with the property that would catch each.

## The system

One thread runs the machine. `Emulator::run_frame` calls `step_instruction` until a frame is over.
A step executes one instruction (or, halted, jumps to the next event), advances the master clock,
dispatches every event that has become due, and then looks at the interrupt registers. Components
call each other directly: an instruction's bus access may write a timer, which reschedules an
event; an event handler may start a DMA, which accesses the bus again, while other events are
overdue. Hazards come from those orders, not from threads. The only other thread scans the ROM
library.

| Component | State | Operations | Correct when | Module |
|---|---|---|---|---|
| Scheduler | now, a deadline per event, cached minimum | advance, skip, schedule, cancel, pop | earliest event first, cache never stale | SchedulerUse |
| Timers | reload, control, counter, start time, running | register writes, reads, overflow | as if they counted every cycle | TimerLockstep |
| PPU timing | VCOUNT, HBlank, DISPSTAT flags | HBlank start, scanline end | the picture follows the clock | Machine |
| DMA | four channels, stall cycles | control write, trigger, run | each transfer whole, paid once | Dma |
| Bus | memories, IE, IF, IME, HALTCNT, KEYCNT, DISPSTAT | reads, byte writes, requests, timing | wide accesses agree with narrow ones, no request lost | Bus |
| CPU | registers of each mode, status words, pipeline | instructions, exceptions, returns | arithmetic exact, banks kept, returns exact | Processor |
| System ROM | stack, BIOS flags in RAM | interrupt dispatcher, IntrWait | a wait returns for its cause | IntrWait |
| HLE BIOS | none | SWI calls | pure functions | (IntrWait only) |
| Emulator loop | run state, frame counter, halted | frame, advance, pause, reset | frames end on time | Machine |
| Save chip | content, command state, dirty mark | flash, EEPROM, load, restore | changes only by complete commands, each marked | Backup |
| Battery saves | generation seen, quiet frames, files | autosave, flush, load, unload | no torn or stale file | BatterySave |
| Save states, rewind | snapshots, differences | save, load, push, pop, evict | a state is restored whole | Session |
| APU | channels, FIFOs, buffers | samples, sequencer, FIFO refill | playable channels, exact samples | Apu, Dma |
| Cheats | list, programs, patches applied | add, edit, enable, apply, patch, save | patches follow the list and unwind | Cheats |
| ROM library | entries, cache, revision | scan, stop, publish, copy | the window sees the last scan | Library |
| Application | windows, pacing, settings | events, frames | (user interface) | (its calls, in Session and Library) |

## Modules

    Scheduler ----- the scheduler as operators on a record
      SchedulerUse -- its member functions in any order  --implements--> Agenda
      Timers -------- the timers as operators
        TimerUnit ---- timers, HBlank DMA and FIFO refills in the loop
          TimerLockstep -- beside counters that count every cycle
      Machine ------- frames, lines, DMA, HALT and interrupts in the loop
    IntrWait -------- the system ROM's wait, against interrupts
    Fifo ------------ a Direct Sound ring as operators
      Dma ----------- four channels, nested transfers, the rings they refill
      Apu ----------- one voice, the sequencer and the samples made of them
    Backup ---------- SRAM, flash and EEPROM protocols  --implements--> SerialChip (EEPROM)
    BatterySave ----- chip, autosave, files, states  --implements--> SaveStore
    CheatCode ------- decoders and programs as operators
      Cheats -------- the list, the file and the ROM patches
    Rewind ---------- the rewind buffer as operators
      Session ------- frames, rewinding, slots, ROM changes  --implements--> History
    Library --------- the scanning thread and the application's thread
    Rounds ---------- the loops of apu.cpp, rewind.cpp, cheats.cpp and of words: so many rounds of a step
    Arm, Thumb ------ arithmetic and formats as operators
      Processor ----- one instruction or exception
    Bus ------------- the memory map, the registers, the access times

`Scheduler`, `Timers`, `Fifo`, `Rewind`, `CheatCode`, `Arm` and `Thumb` are libraries: one operator
per member function, from a value to the value it leaves. A component that uses them gives them
state. Where theorems about two components are in one module their definitions have a prefix:
`UseNext` of SchedulerUse, `WaitTypeOK` of IntrWait, `SaveSpec` of BatterySave, `ApuInit` of Apu.
`MC*` modules define the constants of an instance for TLC, `*_proof` modules hold the theorems. Five MC
modules put components that share no state at this level of abstraction into one run: MCHardware
(SchedulerUse, IntrWait and Backup), MCSound (Dma and Apu), MCKept (BatterySave and Cheats),
MCFrontend (Session and Library) and MCConsole (Processor and Bus). A behaviour
exercises one of them and leaves the others as they began.

**Scheduler, SchedulerUse, Agenda** (`scheduler.hpp`). A record of `now`, `deadlines`, `next`. The
code's "unscheduled" is the largest 64-bit time, which the clock does not reach; here it is a
separate value. `Agenda` is the promise: a set of appointments and a clock, no cache and no array.
Reading and writing a save state of the scheduler are left out.

**Timers, TimerUnit, TimerLockstep** (`timers.cpp`, the loop of `emulator.cpp`). A counter is its
value at `start_time`. The action order is that of the code: an instruction accesses registers at
its start, then time passes, then the due events are dispatched one by one (`phase`), then the
cycles of DMA pass and may make more due. An HBlank DMA may write the control of a timer from inside the handler.
A register is written whole, not byte by byte; the interrupt request of an overflow is a member of
`iflag`. Which FIFO asks for a refill is the APU's affair and is left open (`Refills`).
`TimerLockstep` adds counters that move every cycle, and prescalers that count it; they catch up
(`HwTick`) before anything else happens.

**Machine** (`emulator.cpp`, `ppu.cpp`, with the interrupt registers of `gba_bus.cpp` and one DMA channel
of `dma.cpp`). What an instruction computes is not modelled: an instruction takes some cycles
and may write one register; the program is free to write any. The user presses keys, pauses,
advances and resets between frames. Frame boundaries, the exception entry that runs events again,
faults that pause the machine and the HALT that only an enabled request ends are as in the code.
The cycles of an immediate DMA pass with the instruction that started it; after a BIOS call they
wait for the events of that step.

**IntrWait** (`system_bios.cpp`). The labels are addresses of the ROM image. Steps are split where
memory is shared with the game's interrupt handler: the flags at 0x03007FF8 are read at 0x5C and
0x74, and written at 0x64 and 0x80. The game's handler is external: it acknowledges IF and
records the bits in the BIOS flags, as the calling convention of IntrWait requires. An interrupt
is taken at every boundary that allows it.

**BatterySave, SaveStore** (`backup.cpp`, `emulator.cpp`, `save_file.cpp`). The chip's content is a number,
new with each write. A flush is three file operations, any of which may fail or be the
last thing the process does. `Unsized` is an EEPROM before its first transfer, which has no bytes.
Files survive a crash. A crash is the death of the process: the code does not sync the
disk, so a power failure is outside the model. `SaveStore` says what all this promises: a file
changes in one step, to the content of the game it belongs to.

**Dma, Fifo** (`dma.cpp`, the FIFOs of `apu.cpp`). A transfer moves unit by unit. A unit that lands in
the registers may carry any value of the program's choice, so it can enable another channel, whose
transfer then runs inside the first: `running` is the stack of unfinished transfers. A trigger looks
at the channels in order and leaves the rest in `todo`, so that what it decided before a transfer is
used after it, as in the code. The bytes moved are left out, except samples.

**Apu** (`apu.cpp`). A voice at a time, since voices share only the master switch, the sequencer and
the sample clock: register writes with their triggers, sweep, length and envelope steps, and the
generators that integrate runs of constant output. A ghost counts the same cycles one by one.
Mixing, output volumes and the contents of wave RAM are left out. A noise channel whose width is
switched to narrow while it plays can lose its last set bit and go silent; `WidthSwitches = FALSE`
keeps such programs out of the run.

**Backup, SerialChip** (`backup.cpp`). The flash machine takes any byte at any of its offsets; an EEPROM
is driven by whole commands of the chip a game expects, sent bit by bit: by a DMA, which hints the
width first and during which nothing is saved, or by the CPU. Some effects look odd and are as in the code: an armed erase stays armed across other
commands; the byte that names a bank is not taken for part of an unlock sequence; a save file of
the other EEPROM's size settles the width. `SerialChip` is what the game expects: one request
at a time for a block, answered or stored as asked, and blocks that hold what was last written.

**Cheats, CheatCode** (`cheats.cpp`, `emulator.cpp`). A line of a code is the fields its digits decode to.
The device encryptions are bijections: codes are given decrypted. Cells of memory stand
for accesses of every width. The cartridge's patches, their undo list and the file beside the save
are state; a condition on KEYINPUT reads what the bus's `peek` gives.

**Session, Rewind, History** (`emulator.cpp`, `rewind.cpp`, `application.cpp`). A machine is a sequence of
bytes, the first its frame counter; it grows when an EEPROM learns its size. The buffer keeps
differences and evicts by bytes, as the code does. A slot's file is missing, whole, damaged, or of
another game. `History` promises a bounded sequence of moments, cut only at the old end. One fact met on
the way: every second frame is captured, so the frame shown after a step back has an odd number and
never captures: `suppress_rewind_capture_` decides nothing.

**Library** (`library.cpp`, `application.cpp`). The thread's steps are split at the lock and at the
atomics: reading a directory entry, looking at the cache, publishing, counting the revision. The
window's thread stops (and joins), starts, and copies. A stamp stands for a content and for its
time and size, so a file that changes without changing those is outside the model.

**Processor, Arm, Thumb** (`arm7tdmi.cpp`). Words have `Width` bits. An instruction is a record of its
fields; each Thumb format is translated to the ARM form that does the same, and keeps its own
differences (PC alignment, flags, the two halves of BL). Register banks, SPSRs, the two prefetched
opcodes with the state they were fetched in, and memory are state. Encodings and cycle counts
are left out; `Decoded` says what the decoder gives in their place.

**Bus** (`gba_bus.cpp`). Addresses and bytes are the real ones. The one-byte path and the wide
paths are separate operators, as in the code. Two facts met on the way: `second_boundary` in
`game_pak_cycles` can never be true, and `peek` of KEYINPUT reads the stored zero, not the keys.

## Runs

| Run | What it shows | Bounds |
|---|---|---|
| MCTimerLockstep | lazy = counted every cycle; armed exactly, no hidden overflow, deadline order | 2 timers, counters of 3 values, ticks 1 and 2, a line of 4 cycles, clock to 6: several overflows in one instruction, cascades, DMA, refills |
| MCMachine | ClockFollowed, FrameBounded, NoRequestMissed, FrameReturns | a frame of 4 lines of 4 cycles, one visible; instructions of 1 and 5 cycles, 2 frames |
| MCHardware, the scheduler | CacheFresh, ImplementsAgenda | 3 of 5 events, delays 0 and 2, clock to 4: ties, overdue, reached and future deadlines |
| MCHardware, the wait | ReturnsForCause, SleepsInterruptible, RecurringWaitEnds | 2 interrupts, all sets of them |
| MCHardware, the save chips | WritesMarked, FlashChangesByCommand, ImplementsSerialChip | five cartridges; flash command bytes and strays at 4 offsets; EEPROMs of 2 and 4 blocks of 2 bits, addresses of 1 and 4 bits; 2 marked writes |
| MCSound, DMA | TransfersWhole, SoundBuffersFeed, BusComesBack | channels 1 to 3, 4 addresses, rings of 4 refilled by 2, 6 steps from outside, nesting to 4 |
| MCSound, the APU | ChannelsPlayable, SamplesExact | four voices; 2-bit frequencies, lengths and volumes of 2, a 4-bit noise register, samples of 3 cycles, 4 writes |
| MCKept, battery saves | SavIntact, CleanOnDisk, LeavesNothingUnsaved, ImplementsStore, Autosaved | a flash and an EEPROM game, 2 writes, 1 state load, 1 failure, 1 crash |
| MCKept, cheats | PatchesFollowCheats, ProgramsSound, FileKeepsCheats | 10 codes of all formats, 2 cells, a ROM of 2 halfwords, 2 cheats, 4 edits |
| MCFrontend | MomentsKept, LoadedWholeOrNot, ImplementsHistory, ReachesOldest; LibraryExact, PublishedIsShown | 2 games, 1 slot, machines of 2 and 3 bytes, limits of 6 and 14 bytes, 6 frames, 4 choices; 2 files in 2 folders that share one, 2 stamps, 3 rescans |
| MCConsole | DataPathExact, ModesKept, InverseTransfers; FastPathsAgree, StoresExact | words of 12 bits, 7 register indexes, programs of 1 to 4 instructions in 6 repertoires; 6 families of addresses, 2 or 3 accesses each |
| MCTimerLockstepDma | NeverDrifts violated: see below | 1 timer, clock to 8 |
| MCTimerLockstepRetune | DeadlineOrder violated: see below | 1 timer, prescalers 1 and 4, clock to 8 |
| MCMachineOverrun | FrameBounded violated: see below | 4 lines of 4 cycles, three visible; HBlank transfers of 7 cycles |
| MCKeptSwitch | LossReported violated: see below | as MCKept |
| MCConsoleKeypad | KeypadOnCondition violated: see below | as MCConsole |

Scaling is by ratios, not absolute sizes: an instruction longer than a tick, a line, and a
line's end, is what makes several events overdue at once; a refill of half a ring, a rewind limit
that holds some of the moments, a shift amount beyond the word, are what the other instances keep.
The small numbers meet the boundaries more often than the real ones. `Horizon`, `Max*`, `Limits` and
`Lengths` bound counters and behaviours only. Where such a bound stops every actor the run does not
look for deadlock. MCMachine has no such bound and is checked for it. SchedulerUse, IntrWait,
BatterySave and Apu cannot stop either, but share a run with a component that can.

Invariants that belong together are one formula with named parts, so that a counterexample can be
read part by part: ClockFollowed is TypeOK, VideoFollowsClock and FramesFollowClock; TransfersWhole is
TypeOK, PaidInFull and SourceContinues; SoundBuffersFeed is RingIsQueue, RefillFits and StaysFed;
ChannelsPlayable is ApuTypeOK, ActiveCanPlay and NoiseNeverStuck; SamplesExact is RunLengthExact and
DirectSoundExact; PatchesFollowCheats is TypeOK, UnwindsToOriginal, RomFollowsList and ChangesNoticed;
DataPathExact is FlowExact (CpuTypeOK and RunsWhatItFetched), ArithmeticExact and ShiftsExact; ModesKept is
BanksKept, UserStaysUser and ReturnsWhereItLeft; and so on.

### Where the code and what is said of it part

Five runs fail, and each counterexample is a behaviour of the code:

- MCTimerLockstepDma: "timing never drifts" (ARCHITECTURE.md:78), but an HBlank DMA that rewrites the
  control of a timer whose overflow is due synchronizes past the overflow. MCTimerLockstep assumes
  `DmaOverdue = FALSE`.
- MCTimerLockstepRetune: "Events fire in deadline order" (ARCHITECTURE.md:77), but a shorter prescaler
  written to a running timer puts its overflow in the past (timers.cpp:123), behind an event that has
  already been dispatched. MCTimerLockstep assumes `LivePrescaler = FALSE`.
- MCMachineOverrun: a frame runs "until the next frame boundary" (emulator.hpp:100), but when the
  HBlank transfers of a frame take longer than the frame, the loop that dispatches events
  (emulator.cpp:696) keeps catching up, past the end of the next frame. MCMachine assumes `StepsFit`.
- MCKeptSwitch: opening a game is to "keep the previous game's progress" (emulator.cpp:41), and
  a flush that fails is reported by `save_error()` (emulator.hpp:56), but `load_battery_save` clears the
  report (emulator.cpp:423) before `load_rom` returns. In MCKept, LeavesNothingUnsaved is about the
  flush only: when it did not fail, nothing unsaved is left behind.
- MCConsoleKeypad: KEYCNT's condition is meant as a whole (interrupt_keypad_tests.cpp:60), but a 16-bit
  store arrives as two bytes, and the first is judged with the second still old (gba_bus.cpp:788). StoresExact
  in MCConsole allows that mixture and nothing else.

Other disagreements are visible in the models, and the properties are stated so as to leave them out:

- IntrWait waits "until the game's handler sets a requested bit" (system_bios.cpp:27): an interrupt
  between the check and the halt (line 48) is slept through until the next. `RecurringWaitEnds` is
  what the routine does guarantee: a lost wake-up costs one period. "Discard stale requests" (line
  38): the write of line 40 also discards what came after the read.
- A damaged state "leaves the game untouched" (emulator.hpp:64): undoing the load marks the chip as
  written (backup.cpp:402). LoadedWholeOrNot is about the machine, not the mark.
- ".sav layout shared with other emulators" (backup.hpp:56): an EEPROM of unknown size is saved as a
  file of zero bytes.
- Removing the last folder clears the window's copy (application.cpp:1372), but a revision that the
  stopped scan had just published brings the old entries back. LibraryExact allows both.

## Fairness

- Machine: `WF_vars(Emulate)`. `run_frame` is one call on one thread; nothing outside it is needed
  for its loop to go on. The user is under no fairness.
- IntrWait: the emulator keeps executing (`SF` on the routine, because each interrupt disables its
  step until it has been handled; interrupts do not come faster than their handler), pending
  interrupts are taken (`WF`), and only the recurring interrupts are assumed to come again.
- BatterySave: frames keep ending while a game runs (it is not paused), and a flush, which is one
  call, goes on. Nothing is assumed of the user, the game or the disk.
- Dma: a transfer, its end, and the look at the next channel are steps of one call, which goes on.
- Session: while the key is held the application calls `rewind_step` each frame, and the restored
  frame is shown. Nothing is assumed of the user.
- Library: both threads run, and a join ends when the thread it waits for has. Nothing is assumed of
  the disk or of the user's choices.

## Proofs

TLAPS checks every theorem for all values of the constants.

- `Arithmetic_proof`: what the other proofs need of numbers and loops. Quotients and remainders;
  and recursion on the naturals, whose equation is proved by taking the least number where it would
  fail, so that no operator has to be a parameter. Hence the states of a loop (`Rounds`) follow from
  one another, what each round keeps the loop keeps (also when it depends on the round's number),
  and a loop does its first round and then the others.
- `Scheduler_proof`: the cached minimum is the least deadline (an argument by well-founded order on
  naturals), each operator keeps it fresh, and then the fast path of `pop_due` misses nothing.
- `Hardware_proof`, the scheduler: UseTypeOK, CacheFresh, and the refinement of Agenda. The inductive
  invariant is "typed and fresh": freshness alone is what makes HasDue equal to "something is due".
  The wait: WaitTypeOK, ReturnsForCause and SleepsInterruptible. The invariant says, for each
  address, what the flags hold relative to what the handler recorded, and whether interrupts are on.
  The save chips: FlashChangesByCommand, WritesMarked, and the refinement of SerialChip. For a flash
  chip the invariant (`Armed`) says which writes came last in each state of the command machine; what
  is remembered is three writes, and a command needs no more. For an EEPROM, the bits taken in and
  the bits to come are one command of the game's chip (`Underway`), and the chip's width is the game's,
  or unknown with a command of recognizable length or the small chip ahead. So the last bit, and no
  earlier one, completes the command, and the chip does what was asked. That the four lengths of
  commands differ is an assumption (`BackupAssumption`): 9, 73, 17 and 81 bits in the code. A second
  one, `BitsTellNumbers`, is arithmetic: numbers below 2^w differ in their w bits.
- `Core_proof`, the processor: DataPathExact and ModesKept with all their parts, for
  words of any width from 12 bits, any memory and any repertoires of decoded instructions. The invariant
  (`CpuInv`): state is typed, what is prefetched is what runs next, and what a handler was
  entered with leads back to what it interrupted (`EnteredOK`). Each instruction is shown to keep it and to keep the
  modes apart in one lemma (`Kept`). For sums the invariant (`SumInv`) says of the one remembered that the
  flags tell what the numbers do, so that the carry into the second word is known to be the one out
  of the first; a comparison of two words is then about numbers below the square of `Size` (`SumOfTwo`,
  `DifferenceOfTwo`). A shift by one more bit is one more step of shifting bit by bit, for each of the four
  types and past the width (`OneStep`). Of powers only that each is the base times the one before is assumed
  (`PowersAssumption`). The proofs found two errors of the model: the cases of a shift by a register
  overlapped at zero, and the history of sums read r15 without the extra word that a shift by a register costs.
- `Core_proof`, the timers: TypeOK, ArmedExactly; and, when programs do not change the prescaler of a
  running timer, DeadlineOrder and NoHiddenWrap. The invariant adds that outside dispatching no
  deadline is in the past, and that no pending deadline precedes the last event dispatched. And
  NeverDrifts of `LockSpec`, also without a DMA that writes a control while an overflow is due
  (`~DmaOverdue`). Its invariant (`LockInv`) gives every timer two debts, the ticks and the overflows
  that its counter has had and it has not: they connect the two counts, the prescaler's phase
  is the rest, a cascaded timer owes as many ticks as the timer before it owes overflows,
  and the interrupts owed are those of timers that owe an overflow. An overflow event pays one
  overflow of each timer of its cascade, because all of them have wrapped there; when no event
  is due no overflow is owed, first for timers that count by themselves, then along the cascade.
- `Machine_proof`: VideoFollowsClock with TypeOK, NoRequestMissed; and, under `StepsFit`, ClockFollowed
  and FrameBounded. The invariant counts scanlines from power on: of line k one of the two video
  events is pending, at the cycle the line's number gives, and whichever it is says what HBlank and
  VCOUNT are. While events are dispatched the pending one may be overdue, which is why the
  invariant speaks of its deadline and not of the clock. For NoRequestMissed it says that the check
  at the end of a step sees what the step's events and its exception entry requested. `StepsFit`
  says that a transfer fits in a line, and an instruction with its exception entry and the
  transfers of one frame in a frame: without it frames do fall behind (see above). Real programs
  meet it by far, and TLC evaluates it in MCMachine.
- `Frontend_proof`: SavIntact, CleanOnDisk, LeavesNothingUnsaved and the refinement of SaveStore. The
  invariant ties the temporary file to the stage of the flush, so that what is renamed is the whole
  content of the chip. And LibraryExact: the invariant relates each cached entry to the stamps a
  file has had, the worker's place between publishing and counting to the two counters, and the
  stamps a scan has read to those on the disk now. For rewinding, MomentsKept, LoadedWholeOrNot and the
  refinement of History: a difference brings back the snapshot it was taken from, whatever the
  two lengths (`EncodeExact`; of XOR only x ^ (x ^ y) = y is used), so
  the differences of a buffer determine a chain of moments (`ChainUnique`) to which push adds, from
  which pop takes the last, and which eviction cuts at the old end. The invariant has one such chain
  that ends in the machine on the screen while the user steps back.
- `Sound_proof`: for rings of every depth, a sample pushed waits behind the others, the one popped was in
  front, and clearing leaves none; hence the order of samples through any nesting of transfers.
  SoundBuffersFeed without conditions: between the request for a refill and the end of the transfer
  that serves it, the invariant (`Served`) adds up what is in the ring, what the transfer on the
  stack still carries, and what channels still in `todo` will bring. TransfersWhole where no
  transfer writes the control of a channel whose own transfer is unfinished (`~SelfWrites`): then the stack holds each channel at most once (`Nested`),
  its depth is bounded by their number, and what is paid, what is still on the stack and what
  was moved add up. With such writes the code itself nests without a bound. ChannelsPlayable where
  no noise channel changes its width while it plays (`~WidthSwitches`), and SamplesExact without that
  condition: a run of constant output, cut by the sample clock anywhere, leaves the generator where
  as many single cycles leave it (`RunsAgree`), because until its timer ends its output does not depend
  on the timer (`OutputTimeless`).
- `Cheats_proof`: ProgramsSound. Through any lines a decoder keeps that the data of each operation ends
  within the program's and that no operation's begins before the end of an earlier one's (`Sound`);
  running by jumps is followed state by state beside the count of the codes still to be passed over
  (`Coasting`). PatchesFollowCheats: of each halfword, the patches collected so far say what the last
  place so far says (`Reflects`), the cartridge holds what the last patch so far says, and undoing
  them in reverse gives back what was read (`OverlaysOf`). The invariant (`CheatsInv`): the cartridge and
  the undo list are what the patches of the last frame's list make of the ROM (`InStep`), only a cheat
  that decodes is on, and the revision the emulator has seen is not ahead of the list's, so that a
  change always makes them differ. FileKeepsCheats: reading back what was written takes one cheat
  after another and drops none (`SavedIsLoaded`). Of AND and OR only that they give naturals is
  assumed; TLC uses the real ones.

The theorems assume the ASSUMEs of the modules (sizes are positive, programs write legal
values, the lengths of commands differ), which TLC evaluates in each run that has the module, and the conditions named
above where a theorem states them. Where the type invariant is a theorem of its own (SchedulerUse,
TimerUnit, IntrWait) no run repeats it.

Model-checked only:

- All liveness properties, and those about fairness: FrameReturns, RecurringWaitEnds, Autosaved,
  BusComesBack, ReachesOldest, PublishedIsShown.
- InverseTransfers: what two block transfers after each other do to a list of registers of any length.
- FastPathsAgree and StoresExact of the Bus, which is the code's table of real addresses and bytes: TLC
  compares its wide and its one-byte paths at the borders of the regions.

## Not modelled

- PPU rendering, the display filter, mixing of samples, HLE BIOS calculations and decompression,
  header parsing: functions of their inputs with no state between calls; the repository's tests
  compare their results.
- Input and settings, dialogs, pacing against the platform's clock, the homebrew tools.
- The byte layout of a save state: a state is the machine it restores, and whether it is whole.
- Cycle counts of instructions and the encodings of opcodes. Machine lets an instruction take any
  number of its set of cycles.
- A DMA transfer that writes the control of a channel whose own transfer is unfinished (`SelfWrites =
  FALSE` in MCSound): `run` calls itself then, and nothing in the code bounds it.
- DISPSTAT rewritten by a DMA inside the PPU's handler (ppu.cpp:158): Machine's DMA does not write
  it, and in Bus it changes between accesses only.
- A save file that cannot be read starts the game erased (emulator.cpp:433). BatterySave has the
  step; no document says otherwise, so no property is about it. Autosave counts frames, so a paused
  game has nothing new on disk until it goes on or is closed; that is the fairness of Autosaved.

What could be added: DISPSTAT written by DMA, and reference definitions for
the BIOS arithmetic.
