------------------------------ MODULE Scheduler ------------------------------
(***************************************************************************)
(* The master-cycle scheduler of include/srgba/core/scheduler.hpp: one     *)
(* optional deadline per kind of hardware event, and the least of them     *)
(* kept beside them so that the test made after every instruction is one   *)
(* comparison.  A scheduler is a record; the operators below are its       *)
(* member functions, each from a scheduler to the scheduler it leaves.     *)
(* Events are numbered in the order of the enumeration, because that order *)
(* breaks ties.                                                            *)
(***************************************************************************)
EXTENDS Integers, FiniteSets

CONSTANT TimerCount   \* 4 in the hardware; a check may take fewer

ASSUME TimerCountAssumption == TimerCount \in Nat \ {0}

TimerIds == 0 .. (TimerCount - 1)

HBlankStart   == 0
ScanlineEnd   == 1
TimerEvent(i) == 2 + i
ApuSample     == 2 + TimerCount
ApuSequencer  == 3 + TimerCount
Events        == 0 .. (3 + TimerCount)

(***************************************************************************)
(* The code's "no deadline" is the largest 64-bit time, which the clock    *)
(* does not reach; here it is a value that is no time at all.              *)
(***************************************************************************)
Unscheduled == -1
Deadlines   == [Events -> Nat \cup {Unscheduled}]

IsScheduled(s, e) == s.deadlines[e] # Unscheduled

Times(deadlines) == {deadlines[e] : e \in Events} \ {Unscheduled}

\* refresh_next_deadline: the least deadline, or none.
Soonest(deadlines) ==
  IF Times(deadlines) = {} THEN Unscheduled
  ELSE CHOOSE t \in Times(deadlines) : \A u \in Times(deadlines) : t <= u

Refreshed(s) == [s EXCEPT !.next = Soonest(s.deadlines)]

Schedulers == [now : Nat, deadlines : Deadlines, next : Nat \cup {Unscheduled}]

IdleScheduler ==
  [now |-> 0, deadlines |-> [e \in Events |-> Unscheduled], next |-> Unscheduled]

Advanced(s, cycles) == [s EXCEPT !.now = @ + cycles]

ScheduledAt(s, e, t) == Refreshed([s EXCEPT !.deadlines[e] = t])

ScheduledAfter(s, e, delay) == ScheduledAt(s, e, s.now + delay)

\* Mutant: the cache is not refreshed.
CancelledStale(s, e) == [s EXCEPT !.deadlines[e] = Unscheduled]

Cancelled(s, e) == Refreshed([s EXCEPT !.deadlines[e] = Unscheduled])

(***************************************************************************)
(* skip_to_next_event: time moves to the next deadline, unless there is    *)
(* none or it has been reached; the code then returns 0 cycles skipped.    *)
(***************************************************************************)
CanSkip(s)        == s.next # Unscheduled /\ s.next > s.now
SkippedToNext(s)  == [s EXCEPT !.now = s.next]

(***************************************************************************)
(* pop_due: the cached minimum decides whether the deadlines are looked at *)
(* (the fast path); the scan then keeps the earliest event that has been   *)
(* reached, the first in event order when several share its time.          *)
(***************************************************************************)
MayBeDue(s) == s.next # Unscheduled /\ s.next <= s.now

DueEvents(s) == {e \in Events : IsScheduled(s, e) /\ s.deadlines[e] <= s.now}

\* Mutants: ties go to the last event; the scan takes the first event that is due.
BeforeLastOfTies(s, e, f) ==
  \/ s.deadlines[e] < s.deadlines[f]
  \/ s.deadlines[e] = s.deadlines[f] /\ e >= f
BeforeInEventOrder(s, e, f) == e <= f

Before(s, e, f) ==
  \/ s.deadlines[e] < s.deadlines[f]
  \/ s.deadlines[e] = s.deadlines[f] /\ e <= f

HasDue(s) == MayBeDue(s) /\ DueEvents(s) # {}

FirstDue(s) == CHOOSE e \in DueEvents(s) : \A f \in DueEvents(s) : Before(s, e, f)

Popped(s, e) == Cancelled(s, e)
=============================================================================
