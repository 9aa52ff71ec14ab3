-------------------------------- MODULE Timers --------------------------------
(***************************************************************************)
(* The timers of src/core/timers.cpp.  A timer's counter is lazy: it is    *)
(* the value at start_time, and the ticks since then are added when        *)
(* somebody looks.  Only an overflow is an event of the scheduler.  Each   *)
(* operator is a member function of Timers, from the timers (and the       *)
(* scheduler) to what the call leaves.                                     *)
(***************************************************************************)
EXTENDS Scheduler

CONSTANTS Overflow,   \* values of a counter: 0x10000 in the hardware
          TickSizes   \* the cycles of a tick that a control can select

ASSUME TimersAssumption ==
  /\ Overflow \in Nat \ {0}
  /\ TickSizes \subseteq Nat \ {0} /\ 1 \in TickSizes

Counters == 0 .. (Overflow - 1)

(***************************************************************************)
(* TMxCNT_H: the prescaler, here the cycles of a tick (1 << shift), and    *)
(* the three flags.                                                        *)
(***************************************************************************)
Controls == [tick : TickSizes, count_up : BOOLEAN, irq : BOOLEAN, start : BOOLEAN]

TimerRecords == [reload : Counters, control : Controls, counter : Counters,
                 start_time : Nat, running : BOOLEAN]

\* reset(): every field is zero; prescaler 0 is one cycle a tick.
FreshTimer ==
  [reload |-> 0, counter |-> 0, start_time |-> 0, running |-> FALSE,
   control |-> [tick |-> 1, count_up |-> FALSE, irq |-> FALSE, start |-> FALSE]]

\* Timer 0 has no timer before it to count.
CountsUp(timers, i) == i > 0 /\ timers[i].control.count_up

FreeRunning(timers, i) == timers[i].running /\ ~CountsUp(timers, i)

\* Whole ticks since start_time.
Ticks(timers, i, time) ==
  IF FreeRunning(timers, i) /\ time > timers[i].start_time
  THEN (time - timers[i].start_time) \div timers[i].control.tick
  ELSE 0

\* counter(): what a read of TMxCNT_L returns.
Counter(timers, i, time) ==
  (timers[i].counter + Ticks(timers, i, time)) % Overflow

(***************************************************************************)
(* synchronize: the ticks so far go into the counter, and start_time moves *)
(* by whole ticks only.                                                    *)
(***************************************************************************)
\* Mutant: start_time takes the time of the call, and the fraction of a tick is lost.
SynchronizedNow(timers, i, time) ==
  [timers EXCEPT ![i].counter = Counter(timers, i, time), ![i].start_time = time]

Synchronized(timers, i, time) ==
  [timers EXCEPT
     ![i].counter = Counter(timers, i, time),
     ![i].start_time = @ + Ticks(timers, i, time) * timers[i].control.tick]

\* Mutant: the overflow of 0x10001 values.
OverflowTimeOneMore(timer) ==
  timer.start_time + (Overflow - timer.counter + 1) * timer.control.tick

OverflowTime(timer) ==
  timer.start_time + (Overflow - timer.counter) * timer.control.tick

\* schedule(): the overflow is an event only when the prescaler counts.
\* Mutant: a timer that stops keeps its event.
ArmedNeverCancelled(timers, i, s) ==
  IF FreeRunning(timers, i)
  THEN ScheduledAt(s, TimerEvent(i), OverflowTime(timers[i]))
  ELSE s

Armed(timers, i, s) ==
  IF FreeRunning(timers, i)
  THEN ScheduledAt(s, TimerEvent(i), OverflowTime(timers[i]))
  ELSE Cancelled(s, TimerEvent(i))

WithReload(timers, i, value) == [timers EXCEPT ![i].reload = value]

(***************************************************************************)
(* write() of the control byte, at the scheduler's present.  A start edge  *)
(* loads the reload value; clearing start stops; leaving count-up while    *)
(* running counts from now on.                                             *)
(***************************************************************************)
WithControl(timers, i, control, time) ==
  LET synced == Synchronized(timers, i, time)
      set    == [synced EXCEPT ![i].control = control]
  IN  IF control.start /\ ~timers[i].running
      THEN [set EXCEPT ![i].counter = timers[i].reload,
                       ![i].running = TRUE,
                       ![i].start_time = time]
      ELSE IF ~control.start THEN [set EXCEPT ![i].running = FALSE]
      ELSE IF CountsUp(timers, i) /\ ~CountsUp(set, i)
      THEN [set EXCEPT ![i].start_time = time]
      ELSE set

(***************************************************************************)
(* overflow(): the code calls itself for the next timer when that one      *)
(* counts up and stands at its maximum.  The calls are the timers from i   *)
(* to the end of such a run; the one after it, if it counts up, gets one   *)
(* tick.                                                                   *)
(***************************************************************************)
Cascades(timers, i) == timers[i].running /\ CountsUp(timers, i)

OverflowsWith(timers, i) ==
  {j \in TimerIds : /\ j >= i
                    /\ \A k \in TimerIds : i < k /\ k <= j =>
                         Cascades(timers, k) /\ timers[k].counter = Overflow - 1}

Overflowed(timers, i, timestamp) ==
  [j \in TimerIds |->
     IF j \in OverflowsWith(timers, i)
     THEN [timers[j] EXCEPT !.counter = timers[j].reload, !.start_time = timestamp]
     ELSE IF (j - 1) \in OverflowsWith(timers, i) /\ Cascades(timers, j)
     THEN [timers[j] EXCEPT !.counter = timers[j].counter + 1]
     ELSE timers[j]]

\* The interrupts requested by the timers that overflowed.
OverflowRequests(timers, i) ==
  {j \in OverflowsWith(timers, i) : timers[j].control.irq}

(***************************************************************************)
(* Each call ends by rearming its own timer: i gets its next overflow, the *)
(* cascaded ones have none.                                                *)
(***************************************************************************)
Rearmed(timers, i, timestamp, s) ==
  Refreshed([s EXCEPT !.deadlines =
    [e \in Events |->
       IF e = TimerEvent(i) THEN OverflowTime(Overflowed(timers, i, timestamp)[i])
       ELSE IF \E j \in OverflowsWith(timers, i) \ {i} : e = TimerEvent(j) THEN Unscheduled
       ELSE s.deadlines[e]]])

\* on_overflow ignores the event of a timer that no longer counts by itself.
TakesOverflow(timers, i) == FreeRunning(timers, i)
=============================================================================
