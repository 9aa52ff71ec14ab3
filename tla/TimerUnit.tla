------------------------------ MODULE TimerUnit ------------------------------
(***************************************************************************)
(* The timers at work in the emulator's loop (Emulator::step_instruction   *)
(* and process_events).  An instruction reads and writes registers at the  *)
(* time it starts; its cycles are added afterwards; then every event that  *)
(* has become due is dispatched, at a time later than its deadline.        *)
(* Between two dispatches of one round the HBlank DMA may write a timer    *)
(* register too, and its cycles are added when the round is over.          *)
(***************************************************************************)
EXTENDS Timers

CONSTANTS Reloads,        \* the reload values programs write
          Programs,       \* the controls programs write
          Cycles,         \* instruction lengths
          LineCycles,     \* 1232 in the hardware
          DmaTargets,     \* the timers whose control an HBlank DMA writes
          DmaCycles,      \* the length of that DMA
          DmaOverdue,     \* may it run while a timer's overflow is due?
          Fifos,          \* sound FIFOs that timers 0 and 1 may drain: 2 in the hardware
          LivePrescaler,  \* do programs change the prescaler of a running timer?
          Horizon         \* bound on the clock, for model checking

ASSUME UnitAssumption ==
  /\ Reloads \subseteq Counters
  /\ Programs \subseteq Controls
  /\ Cycles \subseteq Nat \ {0}
  /\ LineCycles \in Nat \ {0} /\ DmaCycles \in Nat \ {0} /\ Horizon \in Nat
  /\ Fifos \in Nat
  /\ DmaTargets \subseteq TimerIds
  /\ LivePrescaler \in BOOLEAN /\ DmaOverdue \in BOOLEAN

VARIABLES sched,
          timers,
          iflag,       \* the timers whose bit of IF is set
          phase,       \* "execute" an instruction or "dispatch" events
          stall,       \* DmaController::stall_cycles_
          last_fired   \* timestamp of the last event dispatched (history)

vars == <<sched, timers, iflag, phase, stall, last_fired>>

Init ==
  /\ sched = ScheduledAt(IdleScheduler, HBlankStart, LineCycles)
  /\ timers = [i \in TimerIds |-> FreshTimer]
  /\ iflag = {}
  /\ phase = "execute"
  /\ stall = 0
  /\ last_fired = 0

-----------------------------------------------------------------------------
WriteReload(i, value) ==
  /\ phase = "execute"
  /\ timers' = WithReload(timers, i, value)
  /\ UNCHANGED <<sched, iflag, phase, stall, last_fired>>

KeepsPrescaler(i, control) ==
  timers[i].running /\ control.start => control.tick = timers[i].control.tick

WriteControl(i, control) ==
  /\ phase = "execute"
  /\ LivePrescaler \/ KeepsPrescaler(i, control)
  /\ timers' = WithControl(timers, i, control, sched.now)
  /\ sched' = Armed(timers', i, sched)
  /\ UNCHANGED <<iflag, phase, stall, last_fired>>

\* A write of one to the timer's bit of IF.
Acknowledge(i) ==
  /\ phase = "execute"
  /\ iflag' = iflag \ {i}
  /\ UNCHANGED <<sched, timers, phase, stall, last_fired>>

Instruction(cycles) ==
  /\ phase = "execute"
  /\ sched.now + cycles <= Horizon
  /\ sched' = Advanced(sched, cycles)
  /\ phase' = "dispatch"
  /\ UNCHANGED <<timers, iflag, stall, last_fired>>

Dispatching(e) ==
  /\ phase = "dispatch"
  /\ HasDue(sched)
  /\ e = FirstDue(sched)
  /\ last_fired' = sched.deadlines[e]

\* GbaBus::on_timer_overflow: a FIFO that an overflow of timer 0 or 1 left half
\* empty is refilled by a DMA of its own; which FIFOs ask is the sound's affair.
Refills(overflowed) == IF overflowed \cap {0, 1} = {} THEN {0} ELSE 0 .. Fifos

TimerOverflow(i) ==
  /\ Dispatching(TimerEvent(i))
  /\ LET popped == Popped(sched, TimerEvent(i))
         timestamp == sched.deadlines[TimerEvent(i)]
     IN  IF TakesOverflow(timers, i)
         THEN /\ timers' = Overflowed(timers, i, timestamp)
              /\ iflag' = iflag \cup OverflowRequests(timers, i)
              /\ sched' = Rearmed(timers, i, timestamp, popped)
              /\ \E refills \in Refills(OverflowsWith(timers, i)) :
                   stall' = stall + refills * DmaCycles
         ELSE /\ sched' = popped
              /\ UNCHANGED <<timers, iflag, stall>>
  /\ UNCHANGED phase

HBlank ==
  /\ Dispatching(HBlankStart)
  /\ sched' = ScheduledAt(Popped(sched, HBlankStart), HBlankStart,
                          sched.deadlines[HBlankStart] + LineCycles)
  /\ UNCHANGED <<timers, iflag, phase, stall>>

\* The transfer runs inside the handler, so the write happens now, not at
\* the event's timestamp, and other events may be due.
HBlankDma(i, control) ==
  /\ i \in DmaTargets
  /\ DmaOverdue \/ \A j \in TimerIds : TimerEvent(j) \notin DueEvents(sched)
  /\ LivePrescaler \/ KeepsPrescaler(i, control)
  /\ Dispatching(HBlankStart)
  /\ timers' = WithControl(timers, i, control, sched.now)
  /\ sched' = ScheduledAt(Armed(timers', i, Popped(sched, HBlankStart)), HBlankStart,
                          sched.deadlines[HBlankStart] + LineCycles)
  /\ stall' = stall + DmaCycles
  /\ UNCHANGED <<iflag, phase>>

\* Nothing is due: the DMA's cycles pass, or the next instruction starts.
TakeStall ==
  /\ phase = "dispatch" /\ ~HasDue(sched) /\ stall > 0
  /\ sched.now <= Horizon
  /\ sched' = Advanced(sched, stall)
  /\ stall' = 0
  /\ UNCHANGED <<timers, iflag, phase, last_fired>>

Settle ==
  /\ phase = "dispatch" /\ ~HasDue(sched) /\ stall = 0
  /\ phase' = "execute"
  /\ UNCHANGED <<sched, timers, iflag, stall, last_fired>>

Next ==
  \/ \E i \in TimerIds, v \in Reloads : WriteReload(i, v)
  \/ \E i \in TimerIds, c \in Programs : WriteControl(i, c)
  \/ \E i \in TimerIds : Acknowledge(i)
  \/ \E c \in Cycles : Instruction(c)
  \/ \E i \in TimerIds : TimerOverflow(i)
  \/ HBlank
  \/ \E i \in TimerIds, c \in Programs : HBlankDma(i, c)
  \/ TakeStall
  \/ Settle

Spec == Init /\ [][Next]_vars

-----------------------------------------------------------------------------
(***************************************************************************)
(* The types of the timers' state and of the loop around them.             *)
(***************************************************************************)
TypeOK ==
  /\ sched \in Schedulers
  /\ timers \in [TimerIds -> TimerRecords]
  /\ iflag \subseteq TimerIds
  /\ phase \in {"execute", "dispatch"}
  /\ stall \in Nat
  /\ last_fired \in Nat

(***************************************************************************)
(* The scheduler and the lazy counters agree: between two calls, a timer   *)
(* that counts by itself has exactly one overflow ahead, at the time at    *)
(* which its counter wraps; a stopped or cascaded timer has none.  A write *)
(* of the control, an overflow, a cascade and a DMA write must each leave  *)
(* the deadline of the timer they touched equal to this.                   *)
(***************************************************************************)
ArmedExactly ==
  \A i \in TimerIds :
    sched.deadlines[TimerEvent(i)] =
      IF FreeRunning(timers, i) THEN OverflowTime(timers[i]) ELSE Unscheduled

(***************************************************************************)
(* When an instruction starts, no counter has run past its overflow: what  *)
(* the CPU reads from TMxCNT_L is the counter plus the elapsed ticks, with *)
(* no reload skipped.  The code's "& 0xFFFF" never wraps for the CPU.      *)
(***************************************************************************)
NoHiddenWrap ==
  phase = "execute" =>
    \A i \in TimerIds : timers[i].counter + Ticks(timers, i, sched.now) < Overflow

(***************************************************************************)
(* "Events fire in deadline order" (docs/ARCHITECTURE.md): an event is     *)
(* never dispatched with a timestamp before that of the one dispatched     *)
(* last.                                                                   *)
(***************************************************************************)
DeadlineOrder == [][last_fired' >= last_fired]_vars
=============================================================================
