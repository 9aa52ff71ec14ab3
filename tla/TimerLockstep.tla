---------------------------- MODULE TimerLockstep ----------------------------
(***************************************************************************)
(* The lazy, event-driven timers of TimerUnit run beside counters that do  *)
(* what timers.cpp abbreviates: every cycle, every prescaler moves, and a  *)
(* counter that passes its maximum reloads, requests its interrupt and     *)
(* ticks the counter that follows it.  Whatever a program reads at the     *)
(* start of an instruction must be the same on both sides.                 *)
(***************************************************************************)
EXTENDS TimerUnit

VARIABLES hw,       \* the counters that count every cycle
          hwflag,   \* the interrupts they have requested
          behind    \* cycles of the scheduler they have not counted yet

lvars == <<vars, hw, hwflag, behind>>

HwCountsUp(h, i) == i > 0 /\ h[i].control.count_up

\* Stopped, with a prescaler at the start of a tick.
HwFresh(timer) ==
  [reload |-> timer.reload, control |-> timer.control, counter |-> timer.counter,
   elapsed |-> 0, running |-> timer.running]

HwBeats(h, i) ==
  h[i].running /\ ~HwCountsUp(h, i) /\ h[i].elapsed + 1 = h[i].control.tick

(***************************************************************************)
(* One cycle: which counters overflow, one whose prescaler beats and those *)
(* after it that count its overflows, all at their maximum; which of them  *)
(* tick; and what they are afterwards.                                     *)
(***************************************************************************)
HwWraps(h) ==
  {j \in TimerIds : \E i \in 0 .. j :
     /\ HwBeats(h, i) /\ h[i].counter = Overflow - 1
     /\ \A k \in i + 1 .. j : h[k].running /\ HwCountsUp(h, k) /\ h[k].counter = Overflow - 1}

HwTicks(h, i) ==
  IF HwCountsUp(h, i) THEN h[i].running /\ (i - 1) \in HwWraps(h) ELSE HwBeats(h, i)

HwStep(h, i) ==
  [h[i] EXCEPT !.elapsed = IF HwCountsUp(h, i) \/ ~h[i].running \/ HwTicks(h, i)
                           THEN 0 ELSE @ + 1,
               !.counter = IF i \in HwWraps(h) THEN h[i].reload
                           ELSE IF HwTicks(h, i) THEN @ + 1 ELSE @]

\* Time that passes for the scheduler is counted cycle by cycle here, before
\* anything else happens.
HwPass(cycles) ==
  /\ behind' = behind + cycles
  /\ UNCHANGED <<hw, hwflag>>

HwTick ==
  /\ behind > 0
  /\ behind' = behind - 1
  /\ hw' = [i \in TimerIds |-> HwStep(hw, i)]
  /\ hwflag' = hwflag \cup {i \in HwWraps(hw) : hw[i].control.irq}
  /\ UNCHANGED vars

HwWaits == UNCHANGED <<hw, hwflag, behind>>

\* A start edge reloads; a prescaler that is stopped or not in use is reset.
HwWritten(h, i, control) ==
  [h EXCEPT ![i].control = control,
            ![i].running = control.start,
            ![i].counter = IF control.start /\ ~h[i].running THEN h[i].reload ELSE @,
            ![i].elapsed = IF h[i].running /\ ~HwCountsUp(h, i)
                              /\ control.start /\ ~(i > 0 /\ control.count_up)
                           THEN @ ELSE 0]

HwWrite(i, control) ==
  /\ hw' = HwWritten(hw, i, control)
  /\ UNCHANGED <<hwflag, behind>>

LockInit ==
  /\ Init
  /\ hw = [i \in TimerIds |-> HwFresh(timers[i])]
  /\ hwflag = {} /\ behind = 0

HwReload(i, value) ==
  /\ hw' = [hw EXCEPT ![i].reload = value]
  /\ UNCHANGED <<hwflag, behind>>

HwAcknowledge(i) ==
  /\ hwflag' = hwflag \ {i}
  /\ UNCHANGED <<hw, behind>>

Together ==
  \/ \E i \in TimerIds, v \in Reloads : WriteReload(i, v) /\ HwReload(i, v)
  \/ \E i \in TimerIds, c \in Programs : WriteControl(i, c) /\ HwWrite(i, c)
  \/ \E i \in TimerIds : Acknowledge(i) /\ HwAcknowledge(i)
  \/ \E c \in Cycles : Instruction(c) /\ HwPass(c)
  \/ \E i \in TimerIds : TimerOverflow(i) /\ HwWaits
  \/ HBlank /\ HwWaits
  \/ \E i \in TimerIds, c \in Programs : HBlankDma(i, c) /\ HwWrite(i, c)
  \/ TakeStall /\ HwPass(stall)
  \/ Settle /\ HwWaits

LockNext == HwTick \/ (behind = 0 /\ Together)

LockSpec == LockInit /\ [][LockNext]_lvars

-----------------------------------------------------------------------------
(***************************************************************************)
(* "Handlers reschedule from the event's exact timestamp so timing never   *)
(* drifts" (docs/ARCHITECTURE.md): when an instruction starts, counters    *)
(* and requested interrupts are those of timers that count every cycle.    *)
(***************************************************************************)
NeverDrifts ==
  phase = "execute" =>
    /\ \A i \in TimerIds :
         /\ Counter(timers, i, sched.now) = hw[i].counter
         /\ timers[i].running = hw[i].running
    /\ iflag = hwflag
=============================================================================
