----------------------------- MODULE SchedulerUse -----------------------------
(***************************************************************************)
(* A scheduler in the hands of the emulator: any of its member functions,  *)
(* in any order.  Callers schedule relative to now (reset_machine) or to   *)
(* the timestamp of the event just removed (the handlers, which must not   *)
(* drift).                                                                 *)
(***************************************************************************)
EXTENDS Scheduler

CONSTANTS Users,       \* the events that are ever scheduled
          Delays,      \* delays asked for by callers
          Cycles,      \* instruction lengths
          Horizon      \* bound on the clock, for model checking

ASSUME UseAssumption ==
  /\ Users \subseteq Events
  /\ Delays \subseteq Nat /\ Cycles \subseteq Nat /\ Horizon \in Nat

VARIABLES sched, fired

useVars == <<sched, fired>>

Nothing == <<>>

UseInit == sched = IdleScheduler /\ fired = Nothing

Reset == sched' = IdleScheduler /\ UNCHANGED fired

Advance ==
  /\ \E c \in Cycles : sched.now + c <= Horizon /\ sched' = Advanced(sched, c)
  /\ UNCHANGED fired

Skip ==
  /\ CanSkip(sched)
  /\ sched.next <= Horizon
  /\ sched' = SkippedToNext(sched)
  /\ UNCHANGED fired

Schedule ==
  /\ \E e \in Users, d \in Delays : sched' = ScheduledAfter(sched, e, d)
  /\ UNCHANGED fired

Reschedule ==
  /\ fired # Nothing
  /\ \E e \in Users, d \in Delays : sched' = ScheduledAt(sched, e, fired[2] + d)
  /\ UNCHANGED fired

Cancel ==
  /\ \E e \in Users : sched' = Cancelled(sched, e)
  /\ UNCHANGED fired

PopDue ==
  /\ HasDue(sched)
  /\ fired' = <<FirstDue(sched), sched.deadlines[FirstDue(sched)]>>
  /\ sched' = Popped(sched, FirstDue(sched))

PopNothing ==
  /\ ~HasDue(sched)
  /\ fired' = Nothing
  /\ UNCHANGED sched

UseNext ==
  Reset \/ Advance \/ Skip \/ Schedule \/ Reschedule \/ Cancel \/ PopDue \/ PopNothing

UseSpec == UseInit /\ [][UseNext]_useVars

-----------------------------------------------------------------------------
(***************************************************************************)
(* The types of the scheduler's state, and of the answer of pop_due.       *)
(***************************************************************************)
UseTypeOK ==
  /\ sched \in Schedulers
  /\ fired \in {Nothing} \cup (Events \X Nat)

(***************************************************************************)
(* The cached minimum is the minimum: whatever sequence of member          *)
(* functions ran, next_deadline() is no deadline exactly when nothing is   *)
(* scheduled, and otherwise a deadline no other deadline precedes.  The    *)
(* fast path of pop_due and the jump made while the CPU is halted read     *)
(* only the cache.                                                         *)
(***************************************************************************)
CacheFresh ==
  /\ sched.next = Unscheduled <=> \A e \in Events : ~IsScheduled(sched, e)
  /\ sched.next # Unscheduled =>
       /\ \E e \in Events : sched.deadlines[e] = sched.next
       /\ \A e \in Events : IsScheduled(sched, e) => sched.next <= sched.deadlines[e]

(***************************************************************************)
(* The scheduler implements the agenda: the appointments are the events    *)
(* that have a deadline, and the cache is nowhere to be seen.              *)
(***************************************************************************)
Appointments == {<<e, sched.deadlines[e]>> : e \in {f \in Events : IsScheduled(sched, f)}}

A == INSTANCE Agenda WITH Events <- Users, clock <- sched.now, agenda <- Appointments

ImplementsAgenda == A!Spec
=============================================================================
