------------------------------- MODULE Machine -------------------------------
(***************************************************************************)
(* The machine's loop: Emulator::run_frame, step_instruction,              *)
(* process_events and service_interrupts (src/core/emulator.cpp), with the *)
(* video timing of src/core/ppu.cpp, one DMA channel of src/core/dma.cpp   *)
(* and the interrupt and HALT registers of src/core/gba_bus.cpp.  The      *)
(* timers have TimerUnit; here their events are never scheduled.           *)
(*                                                                         *)
(* phase is where run_frame stands: outside ("idle"), at its loop test     *)
(* ("loop"), in process_events ("events", or "entry" when it was called by *)
(* the exception entry), before service_interrupts ("service").  Register  *)
(* writes are what the program may do; the rest is the emulator.           *)
(***************************************************************************)
EXTENDS Scheduler

CONSTANTS HDrawCycles,      \* 1006
          LineCycles,       \* 1232
          VisibleLines,     \* 160
          LinesPerFrame,    \* 228
          SampleCycles,     \* Apu::kCyclesPerSample
          SequencerCycles,  \* Apu::kCyclesPerSequencerStep
          DmaCycles,        \* cycles of one transfer
          Cycles,           \* what Arm7Tdmi::step and HleBios return
          EnableWrites,     \* the values programs write to IE
          StatusWrites,     \* the interrupt enables programs write to DISPSTAT
          AckWrites,        \* the sets of bits programs acknowledge in IF
          ChannelWrites,    \* the DMA controls programs write
          TargetLine,       \* the line of DISPSTAT's VCount match
          MaxFrames         \* bound: frames run in one behaviour

FrameCycles    == LineCycles * LinesPerFrame
IrqEntryCycles == 3

VideoKinds == {"VBlank", "HBlank", "VCount"}
Kinds      == VideoKinds \cup {"Dma", "Keypad"}
Timings    == {"Immediate", "VBlank", "HBlank"}
Channels   == [enabled : BOOLEAN, timing : Timings, repeat : BOOLEAN, irq : BOOLEAN]

ASSUME MachineAssumption ==
  /\ HDrawCycles \in Nat \ {0} /\ LineCycles \in Nat /\ HDrawCycles < LineCycles
  /\ VisibleLines \in Nat \ {0} /\ LinesPerFrame \in Nat /\ VisibleLines < LinesPerFrame
  /\ SampleCycles \in Nat \ {0} /\ SequencerCycles \in Nat \ {0}
  /\ DmaCycles \in Nat \ {0} /\ Cycles \subseteq Nat
  /\ EnableWrites \subseteq SUBSET Kinds /\ StatusWrites \subseteq SUBSET VideoKinds
  /\ AckWrites \subseteq SUBSET Kinds /\ ChannelWrites \subseteq Channels
  /\ TargetLine \in 0 .. (LinesPerFrame - 1) /\ MaxFrames \in Nat

VARIABLES state,          \* RunState: "Running" or "Paused" (a game is loaded)
          single,         \* run_frame was called by advance_frame
          phase,
          sched,
          frame_end, frame_counter,
          halted,
          vcount, hblank,
          status,         \* the interrupt enables of DISPSTAT
          ie, iflag, ime, \* IE, IF, IME
          irq_disabled,   \* CPSR.I
          dma, stall

control == <<state, single, frame_end, frame_counter>>
video   == <<vcount, hblank>>
irqs    == <<ie, iflag, ime, irq_disabled, status>>
vars    == <<control, phase, sched, halted, video, irqs, dma, stall>>

-----------------------------------------------------------------------------
IdleChannel == [enabled |-> FALSE, timing |-> "Immediate", repeat |-> FALSE, irq |-> FALSE]

\* Ppu::reset and the APU's events, as reset_machine schedules them.
PoweredScheduler ==
  LET line  == ScheduledAfter(ScheduledAfter(IdleScheduler, HBlankStart, HDrawCycles),
                              ScanlineEnd, LineCycles)
  IN  ScheduledAfter(ScheduledAfter(line, ApuSample, SampleCycles),
                     ApuSequencer, SequencerCycles)

\* reset_machine with a direct boot.
Init ==
  /\ state = "Running"
  /\ phase = "idle" /\ single = FALSE
  /\ sched = PoweredScheduler
  /\ frame_end = 0 /\ frame_counter = 0
  /\ halted = FALSE
  /\ vcount = 0 /\ hblank = FALSE
  /\ status = {} /\ ie = {} /\ iflag = {} /\ ime = FALSE /\ irq_disabled = FALSE
  /\ dma = IdleChannel /\ stall = 0

-----------------------------------------------------------------------------
(***************************************************************************)
(* The user, between frames.                                               *)
(***************************************************************************)
Reset ==
  /\ phase = "idle"
  /\ state' = "Running"
  /\ sched' = PoweredScheduler
  /\ frame_counter' = 0
  /\ halted' = FALSE
  /\ vcount' = 0 /\ hblank' = FALSE
  /\ status' = {} /\ ie' = {} /\ iflag' = {} /\ ime' = FALSE /\ irq_disabled' = FALSE
  /\ dma' = IdleChannel /\ stall' = 0
  /\ UNCHANGED <<single, frame_end, phase>>

SetPaused ==
  /\ phase = "idle"
  /\ \E s \in {"Running", "Paused"} : state' = s
  /\ UNCHANGED <<single, frame_end, frame_counter, phase, sched, halted, video, irqs, dma, stall>>

\* Keys that KEYCNT selects request the keypad interrupt at once.
PressKeys ==
  /\ phase = "idle"
  /\ iflag' = iflag \cup {"Keypad"}
  /\ UNCHANGED <<control, phase, sched, halted, video, ie, ime, irq_disabled, status, dma, stall>>

\* run_frame, or advance_frame of a paused machine.
\* Mutant: a frame is a fixed time from wherever the last one stopped.
FrameEndFromNow == sched.now + FrameCycles

FrameEnd == (sched.now \div FrameCycles + 1) * FrameCycles

StartFrame ==
  /\ phase = "idle"
  /\ frame_counter < MaxFrames
  /\ phase' = "loop"
  /\ frame_end' = FrameEnd
  /\ single' = (state = "Paused")
  /\ state' = "Running"
  /\ UNCHANGED <<frame_counter, sched, halted, video, irqs, dma, stall>>

EndFrame ==
  /\ phase = "loop"
  /\ state # "Running" \/ sched.now >= frame_end
  /\ phase' = "idle"
  /\ frame_counter' = IF sched.now >= frame_end THEN frame_counter + 1 ELSE frame_counter
  /\ state' = IF single THEN "Paused" ELSE state
  /\ single' = FALSE
  /\ UNCHANGED <<frame_end, sched, halted, video, irqs, dma, stall>>

-----------------------------------------------------------------------------
(***************************************************************************)
(* One instruction.  Its bus accesses happen at the present time, then its *)
(* cycles and those of an immediate DMA pass.                              *)
(***************************************************************************)
\* Mutant: the loop stops for a pause only.
MayAlwaysStep == phase = "loop" /\ state = "Running"

MayStep == phase = "loop" /\ state = "Running" /\ sched.now < frame_end

AtLeastOne(c) == IF c = 0 THEN 1 ELSE c

\* A BIOS call leaves the cycles of a DMA it started to process_events.
Executes(c, transfer) ==
  /\ MayStep /\ ~halted
  /\ \/ sched' = Advanced(sched, AtLeastOne(c) + stall + transfer) /\ stall' = 0
     \/ c > 0 /\ sched' = Advanced(sched, c) /\ stall' = stall + transfer
  /\ phase' = "events"
  /\ UNCHANGED <<control, video>>

Compute(c) ==
  /\ Executes(c, 0)
  /\ UNCHANGED <<halted, irqs, dma>>

WriteInterruptEnable(c, value) ==
  /\ Executes(c, 0)
  /\ ie' = value
  /\ UNCHANGED <<halted, iflag, ime, irq_disabled, status, dma>>

\* Writing 1 to a bit of IF clears it.
AcknowledgeInterrupts(c, bits) ==
  /\ Executes(c, 0)
  /\ iflag' = iflag \ bits
  /\ UNCHANGED <<halted, ie, ime, irq_disabled, status, dma>>

\* IME, or CPSR.I by MSR or an exception return.
WriteMasks(c, master, disabled) ==
  /\ Executes(c, 0)
  /\ ime' = master /\ irq_disabled' = disabled
  /\ UNCHANGED <<halted, ie, iflag, status, dma>>

WriteDisplayStatus(c, value) ==
  /\ Executes(c, 0)
  /\ status' = value
  /\ UNCHANGED <<halted, ie, iflag, ime, irq_disabled, dma>>

\* HALTCNT; take_halt_request follows the advance.
WriteHalt(c) ==
  /\ Executes(c, 0)
  /\ halted' = TRUE
  /\ UNCHANGED <<irqs, dma>>

Transferred(channel) ==
  [channel EXCEPT !.enabled = channel.repeat /\ channel.timing # "Immediate"]

DmaRequest(channel) == IF channel.irq THEN {"Dma"} ELSE {}

\* The control's enable edge starts an immediate transfer at once.
WriteDma(c, channel) ==
  LET runs == ~dma.enabled /\ channel.enabled /\ channel.timing = "Immediate"
  IN  /\ Executes(c, IF runs THEN DmaCycles ELSE 0)
      /\ dma' = IF runs THEN Transferred(channel) ELSE channel
      /\ iflag' = IF runs THEN iflag \cup DmaRequest(channel) ELSE iflag
      /\ UNCHANGED <<halted, ie, ime, irq_disabled, status>>

\* An instruction the CPU does not know pauses the machine: no time passes.
Fault ==
  /\ MayStep /\ ~halted
  /\ state' = "Paused"
  /\ UNCHANGED <<single, frame_end, frame_counter, phase, sched, halted, video, irqs, dma, stall>>

\* While halted, time goes to the next event.
SkipHalted ==
  /\ MayStep /\ halted
  /\ sched' = IF CanSkip(sched) THEN SkippedToNext(sched) ELSE sched
  /\ phase' = "events"
  /\ UNCHANGED <<control, halted, video, irqs, dma, stall>>

-----------------------------------------------------------------------------
(***************************************************************************)
(* process_events: everything due is dispatched, earliest first; a DMA     *)
(* that ran meanwhile stalls the CPU, and its cycles can make more due.    *)
(***************************************************************************)
Dispatching(e) ==
  /\ phase \in {"events", "entry"}
  /\ HasDue(sched)
  /\ e = FirstDue(sched)

\* Mutant: the event is not scheduled again.
RepeatedOnce(e, period)    == sched' = Popped(sched, e)

Repeated(e, period) ==
  sched' = ScheduledAt(Popped(sched, e), e, sched.deadlines[e] + period)

Triggered(timing) == dma.enabled /\ dma.timing = timing

Transfers(runs) ==
  /\ dma' = IF runs THEN Transferred(dma) ELSE dma
  /\ stall' = IF runs THEN stall + DmaCycles ELSE stall

OnHBlankStart ==
  LET runs == vcount < VisibleLines /\ Triggered("HBlank")
  IN  /\ Dispatching(HBlankStart)
      /\ hblank' = TRUE
      /\ iflag' = iflag \cup (status \cap {"HBlank"})
                         \cup (IF runs THEN DmaRequest(dma) ELSE {})
      /\ Transfers(runs)
      /\ Repeated(HBlankStart, LineCycles)
      /\ UNCHANGED <<control, phase, halted, vcount, ie, ime, irq_disabled, status>>

NextLine == (vcount + 1) % LinesPerFrame

OnScanlineEnd ==
  LET line   == NextLine
      blank  == line = VisibleLines
      runs   == blank /\ Triggered("VBlank")
  IN  /\ Dispatching(ScanlineEnd)
      /\ hblank' = FALSE
      /\ vcount' = line
      /\ iflag' = iflag \cup (IF blank THEN status \cap {"VBlank"} ELSE {})
                         \cup (IF runs THEN DmaRequest(dma) ELSE {})
                         \cup (IF line = TargetLine THEN status \cap {"VCount"} ELSE {})
      /\ Transfers(runs)
      /\ Repeated(ScanlineEnd, LineCycles)
      /\ UNCHANGED <<control, phase, halted, ie, ime, irq_disabled, status>>

OnSound ==
  /\ \/ Dispatching(ApuSample) /\ Repeated(ApuSample, SampleCycles)
     \/ Dispatching(ApuSequencer) /\ Repeated(ApuSequencer, SequencerCycles)
  /\ UNCHANGED <<control, phase, halted, video, irqs, dma, stall>>

Settled == phase \in {"events", "entry"} /\ ~HasDue(sched)

TakeStall ==
  /\ Settled /\ stall > 0
  /\ sched' = Advanced(sched, stall)
  /\ stall' = 0
  /\ UNCHANGED <<control, phase, halted, video, irqs, dma>>

EventsDone ==
  /\ Settled /\ stall = 0
  /\ phase' = IF phase = "events" THEN "service" ELSE "loop"
  /\ UNCHANGED <<control, sched, halted, video, irqs, dma, stall>>

(***************************************************************************)
(* service_interrupts: an enabled request ends HALT whatever the masks;    *)
(* the exception is taken only when IME and CPSR.I let it through, and its *)
(* entry takes cycles of its own.                                          *)
(***************************************************************************)
Pending == ie \cap iflag # {}

\* Mutant: only an interrupt that will be taken ends HALT.
SleepsOnMasked == halted /\ ~(Pending /\ ime /\ ~irq_disabled)

SleepsOn == halted /\ ~Pending

ServiceInterrupts ==
  LET takes == Pending /\ ime /\ ~irq_disabled
  IN  /\ phase = "service"
      /\ halted' = SleepsOn
      /\ irq_disabled' = (irq_disabled \/ takes)
      /\ sched' = IF takes THEN Advanced(sched, IrqEntryCycles) ELSE sched
      /\ phase' = IF takes THEN "entry" ELSE "loop"
      /\ UNCHANGED <<control, video, ie, iflag, ime, status, dma, stall>>

-----------------------------------------------------------------------------
Program ==
  \E c \in Cycles :
    \/ Compute(c)
    \/ \E value \in EnableWrites : WriteInterruptEnable(c, value)
    \/ \E bits \in AckWrites : AcknowledgeInterrupts(c, bits)
    \/ \E master, disabled \in BOOLEAN : WriteMasks(c, master, disabled)
    \/ \E value \in StatusWrites : WriteDisplayStatus(c, value)
    \/ WriteHalt(c)
    \/ \E channel \in ChannelWrites : WriteDma(c, channel)

Emulate ==
  \/ EndFrame
  \/ Program \/ Fault \/ SkipHalted
  \/ OnHBlankStart \/ OnScanlineEnd \/ OnSound
  \/ TakeStall \/ EventsDone \/ ServiceInterrupts

Next == Reset \/ SetPaused \/ PressKeys \/ StartFrame \/ Emulate

(***************************************************************************)
(* run_frame is one call on one thread: once begun, its loop keeps going.  *)
(***************************************************************************)
Spec == Init /\ [][Next]_vars /\ WF_vars(Emulate)

-----------------------------------------------------------------------------
(***************************************************************************)
(* The types of the machine's state.                                       *)
(***************************************************************************)
TypeOK ==
  /\ state \in {"Running", "Paused"} /\ single \in BOOLEAN
  /\ phase \in {"idle", "loop", "events", "entry", "service"}
  /\ sched \in Schedulers
  /\ frame_end \in Nat /\ frame_counter \in Nat
  /\ halted \in BOOLEAN
  /\ vcount \in 0 .. (LinesPerFrame - 1) /\ hblank \in BOOLEAN
  /\ status \subseteq VideoKinds
  /\ ie \subseteq Kinds /\ iflag \subseteq Kinds
  /\ ime \in BOOLEAN /\ irq_disabled \in BOOLEAN
  /\ dma \in Channels /\ stall \in Nat

(***************************************************************************)
(* What a program sees of the picture is a function of the clock alone:    *)
(* whenever an instruction may start, VCOUNT and the HBlank flag are those *)
(* of the current cycle, however long the instruction, the DMA or the      *)
(* interrupt entry before it took, and whatever paused or halted between.  *)
(***************************************************************************)
VideoFollowsClock ==
  phase \in {"idle", "loop"} =>
    /\ vcount = (sched.now \div LineCycles) % LinesPerFrame
    /\ hblank = (sched.now % LineCycles >= HDrawCycles)

(***************************************************************************)
(* "Frames end at multiples of 280,896 cycles" (docs/ARCHITECTURE.md):     *)
(* between frames the frame counter is the number of whole frames on the   *)
(* clock, though frames are stopped by pauses and faults and each ends a   *)
(* few cycles late.                                                        *)
(***************************************************************************)
FramesFollowClock ==
  phase = "idle" => frame_counter = sched.now \div FrameCycles

(***************************************************************************)
(* After a step the CPU neither sleeps through an enabled request nor      *)
(* starts an instruction with an interrupt it should have taken: the check *)
(* at the end of a step sees every request the step made, those of the DMA *)
(* cycles included.                                                        *)
(***************************************************************************)
StepEnds == phase \in {"service", "entry"} /\ phase' = "loop"

Unmasked == ime /\ ~irq_disabled

NoRequestMissed ==
  [][StepEnds => ~(Pending' /\ (halted' \/ Unmasked'))]_vars

(***************************************************************************)
(* What the program must leave the emulator: a transfer fits in a line,    *)
(* and an instruction with its exception entry and the transfers of one    *)
(* frame fit in a frame.                                                   *)
(***************************************************************************)
StepsFit ==
  /\ DmaCycles <= LineCycles
  /\ \A c \in Cycles \cup {0} :
       AtLeastOne(c) + IrqEntryCycles + (VisibleLines + 1) * DmaCycles <= FrameCycles

(***************************************************************************)
(* "Runs until the next frame boundary" (emulator.hpp): the call never     *)
(* runs a whole frame past its end.                                        *)
(***************************************************************************)
FrameBounded == phase # "idle" => sched.now < frame_end + FrameCycles

(***************************************************************************)
(* Every call of run_frame returns: a halted CPU always finds an event to  *)
(* wait for, and dispatching the events of an instant comes to an end.     *)
(***************************************************************************)
FrameReturns == (phase # "idle") ~> (phase = "idle")

(***************************************************************************)
(* The picture and the frame counter follow the clock, and nothing leaves  *)
(* its type.                                                               *)
(***************************************************************************)
ClockFollowed == TypeOK /\ VideoFollowsClock /\ FramesFollowClock
=============================================================================
