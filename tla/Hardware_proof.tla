----------------------------- MODULE Hardware_proof ----------------------------
(***************************************************************************)
(* Parts of the machine around its processor.                              *)
(*                                                                         *)
(* The scheduler is correct in the hands of any caller: its cached minimum *)
(* is the minimum, and it implements Agenda, for any events, delays and    *)
(* bounds.  The IntrWait routine is safe for any set of interrupts.        *)
(*                                                                         *)
(* The save chips, for any game, any writes to a flash chip or SRAM, and   *)
(* EEPROMs of any two sizes: types, the mark of what was written, what a   *)
(* flash command may change, and that an EEPROM is the chip its game was   *)
(* made for.                                                               *)
(***************************************************************************)
EXTENDS SchedulerUse, IntrWait, Backup, Scheduler_proof, SequenceTheorems

(***************************************************************************)
(* The inductive invariant: the cache equals what refresh_next_deadline    *)
(* would compute.                                                          *)
(***************************************************************************)
UseInv == Fresh(sched) /\ fired \in {Nothing} \cup (Events \X Nat)

LEMMA InitUseInv == UseInit => UseInv
  BY IdleFresh DEF UseInit, UseInv

LEMMA NextUseInv == UseInv /\ [UseNext]_useVars => UseInv'
<1> SUFFICES ASSUME UseInv, [UseNext]_useVars PROVE UseInv'
  OBVIOUS
<1> USE UseAssumption DEF UseInv
<1>0. sched \in Schedulers /\ sched.now \in Nat
  BY DEF Fresh, Schedulers
<1>1. CASE Reset
  BY <1>1, IdleFresh DEF Reset
<1>2. CASE Advance
  BY <1>2, AdvancedFresh DEF Advance
<1>3. CASE Skip
  BY <1>3, SkippedFresh DEF Skip
<1>4. CASE Schedule
  <2>1. PICK e \in Users, d \in Delays : sched' = ScheduledAt(sched, e, sched.now + d)
    BY <1>4 DEF Schedule, ScheduledAfter
  <2>2. e \in Events /\ sched.now + d \in Nat
    BY <1>0
  <2> QED BY <1>0, <1>4, <2>1, <2>2, ScheduledFresh DEF Schedule
<1>5. CASE Reschedule
  <2>1. PICK e \in Users, d \in Delays : sched' = ScheduledAt(sched, e, fired[2] + d)
    BY <1>5 DEF Reschedule
  <2>2. e \in Events /\ fired[2] + d \in Nat
    BY <1>5 DEF Reschedule
  <2> QED BY <1>0, <1>5, <2>1, <2>2, ScheduledFresh DEF Reschedule
<1>6. CASE Cancel
  BY <1>0, <1>6, CancelledFresh DEF Cancel
<1>7. CASE PopDue
  <2>1. FirstDue(sched) \in DueEvents(sched)
    BY <1>0, <1>7, FirstDueIsFirst DEF PopDue, HasDue
  <2>2. FirstDue(sched) \in Events /\ sched.deadlines[FirstDue(sched)] \in Nat
    BY <1>0, <2>1 DEF DueEvents, IsScheduled, Schedulers, Deadlines
  <2> QED BY <1>0, <1>7, <2>2, CancelledFresh DEF PopDue, Popped
<1>8. CASE PopNothing
  BY <1>8 DEF PopNothing
<1>9. CASE UNCHANGED useVars
  BY <1>9 DEF useVars
<1> QED BY <1>1, <1>2, <1>3, <1>4, <1>5, <1>6, <1>7, <1>8, <1>9 DEF UseNext

LEMMA UseInvImplies == UseInv => UseTypeOK /\ CacheFresh
<1> SUFFICES ASSUME UseInv PROVE UseTypeOK /\ CacheFresh
  OBVIOUS
<1>1. UseTypeOK
  BY DEF UseInv, Fresh, UseTypeOK
<1> DEFINE d == sched.deadlines
<1>2. d \in Deadlines /\ sched.next = Soonest(d)
  BY DEF UseInv, Fresh, Schedulers
<1>3. Times(d) = {} <=> \A e \in Events : ~IsScheduled(sched, e)
  BY DEF Times, IsScheduled
<1>4. \A e \in Events : IsScheduled(sched, e) => d[e] \in Times(d)
  BY DEF Times, IsScheduled
<1>5. Times(d) # {} => \E e \in Events : d[e] = Soonest(d)
  BY <1>2, SoonestIsLeast DEF Times
<1> QED BY <1>1, <1>2, <1>3, <1>4, <1>5, SoonestIsLeast DEF CacheFresh

(***************************************************************************)
(* The fields of the scheduler and the answers of pop_due keep their       *)
(* types.                                                                  *)
(***************************************************************************)
THEOREM SchedulerTyped == UseSpec => []UseTypeOK
<1>1. UseSpec => []UseInv
  BY InitUseInv, NextUseInv, PTL DEF UseSpec
<1>2. UseInv => UseTypeOK
  BY UseInvImplies
<1> QED BY <1>1, <1>2, PTL

(***************************************************************************)
(* next_deadline() is never stale: pop_due's fast path and the jump made   *)
(* while the CPU is halted may rely on it.                                 *)
(***************************************************************************)
THEOREM CacheNeverStale == UseSpec => []CacheFresh
<1>1. UseSpec => []UseInv
  BY InitUseInv, NextUseInv, PTL DEF UseSpec
<1>2. UseInv => CacheFresh
  BY UseInvImplies
<1> QED BY <1>1, <1>2, PTL

-----------------------------------------------------------------------------
(***************************************************************************)
(* The refinement: each member function does what Agenda says.             *)
(***************************************************************************)
LEMMA InitRefines == UseInit => A!Init
  BY DEF UseInit, A!Init, A!Nothing, Nothing, Appointments, IsScheduled, IdleScheduler

\* Giving an event a deadline replaces its appointment.
LEMMA ScheduledAppoints ==
  ASSUME NEW e \in Events, NEW t \in Nat, sched \in Schedulers,
         sched'.deadlines = [sched.deadlines EXCEPT ![e] = t]
  PROVE  Appointments' = A!Without(e) \cup {<<e, t>>}
<1>1. sched.deadlines \in [Events -> Nat \cup {Unscheduled}]
  BY DEF Schedulers, Deadlines
<1>2. \A f \in Events : sched'.deadlines[f] = IF f = e THEN t ELSE sched.deadlines[f]
  BY <1>1
<1>3. \A f \in Events : IsScheduled(sched, f)' <=> f = e \/ IsScheduled(sched, f)
  BY <1>2 DEF IsScheduled, Unscheduled
<1> QED BY <1>2, <1>3 DEF Appointments, A!Without

\* Taking an event's deadline away takes its appointment away.
LEMMA CancelledDrops ==
  ASSUME NEW e \in Events, sched \in Schedulers,
         sched'.deadlines = [sched.deadlines EXCEPT ![e] = Unscheduled]
  PROVE  Appointments' = A!Without(e)
<1>1. sched.deadlines \in [Events -> Nat \cup {Unscheduled}]
  BY DEF Schedulers, Deadlines
<1>2. \A f \in Events : f # e => sched'.deadlines[f] = sched.deadlines[f]
  BY <1>1
<1>3. \A f \in Events : IsScheduled(sched, f)' <=> f # e /\ IsScheduled(sched, f)
  BY <1>1, <1>2 DEF IsScheduled
<1> QED BY <1>2, <1>3 DEF Appointments, A!Without

\* The due appointments are those of the due events.
LEMMA DueAppointments ==
  ASSUME sched \in Schedulers
  PROVE  A!Due = {<<e, sched.deadlines[e]>> : e \in DueEvents(sched)}
  BY DEF A!Due, Appointments, DueEvents

\* The event pop_due removes is the first appointment.
LEMMA PopRefines ==
  ASSUME UseInv, PopDue
  PROVE  A!Pop
<1> DEFINE e == FirstDue(sched)
           a == <<e, sched.deadlines[e]>>
<1>0. sched \in Schedulers /\ sched.deadlines \in [Events -> Nat \cup {Unscheduled}]
  BY DEF UseInv, Fresh, Schedulers, Deadlines
<1>1. e \in DueEvents(sched) /\ \A f \in DueEvents(sched) : Before(sched, e, f)
  BY <1>0, FirstDueIsFirst DEF PopDue, HasDue
<1>2. e \in Events
  BY <1>1 DEF DueEvents
<1>3. a \in A!Due
  BY <1>0, <1>1, DueAppointments
<1>4. \A b \in A!Due : A!Earlier(a, b)
  BY <1>0, <1>1, DueAppointments DEF A!Earlier, Before
<1>5. fired' = a
  BY DEF PopDue
<1>6. sched'.deadlines = [sched.deadlines EXCEPT ![e] = Unscheduled] /\ sched'.now = sched.now
  BY <1>0, <1>2, CancelledFresh DEF PopDue, Popped
<1>7. Appointments' = A!Without(e)
  BY <1>0, <1>2, <1>6, CancelledDrops
<1>8. A!Without(e) = Appointments \ {a}
  BY DEF A!Without, Appointments
<1> QED BY <1>3, <1>4, <1>5, <1>6, <1>7, <1>8 DEF A!Pop

LEMMA NextRefines == UseInv /\ [UseNext]_useVars => [A!Next]_A!vars
<1> SUFFICES ASSUME UseInv, [UseNext]_useVars PROVE A!Next \/ UNCHANGED A!vars
  OBVIOUS
<1> USE UseAssumption
<1>0. sched \in Schedulers /\ sched.deadlines \in Deadlines /\ sched.now \in Nat
  BY DEF UseInv, Fresh, Schedulers
<1>1. CASE Reset
  BY <1>1 DEF Reset, A!Next, A!Reset, Appointments, IsScheduled, IdleScheduler
<1>2. CASE Advance
  <2>1. PICK c \in Cycles : sched.now + c <= Horizon /\ sched' = Advanced(sched, c)
    BY <1>2 DEF Advance
  <2>2. sched'.now = sched.now + c /\ sched'.deadlines = sched.deadlines
    BY <1>0, <2>1 DEF Advanced, Schedulers
  <2>3. A!Pass
    BY <1>2, <2>1, <2>2 DEF Advance, A!Pass, Appointments, IsScheduled
  <2> QED BY <2>3 DEF A!Next
<1>3. CASE Skip
  <2>1. sched'.now = sched.next /\ sched'.deadlines = sched.deadlines
    BY <1>0, <1>3 DEF Skip, SkippedToNext, Schedulers
  <2>2. sched.next = Soonest(sched.deadlines) /\ sched.next # Unscheduled
    BY <1>3 DEF UseInv, Fresh, Skip, CanSkip
  <2>3. /\ Soonest(sched.deadlines) \in Times(sched.deadlines)
        /\ \A u \in Times(sched.deadlines) : Soonest(sched.deadlines) <= u
    BY <1>0, <2>2, SoonestIsLeast
  <2>4. PICK e \in Events : IsScheduled(sched, e) /\ sched.deadlines[e] = sched.next
    BY <2>2, <2>3 DEF Times, IsScheduled
  <2>5. \A b \in Appointments : sched.deadlines[e] <= b[2]
    BY <2>2, <2>3, <2>4 DEF Appointments, IsScheduled, Times
  <2>6. <<e, sched.deadlines[e]>> \in Appointments
    BY <2>4 DEF Appointments
  <2>7. Appointments' = Appointments
    BY <2>1 DEF Appointments, IsScheduled
  <2>8. A!Jump
    BY <1>3, <2>1, <2>4, <2>5, <2>6, <2>7 DEF A!Jump, Skip, CanSkip
  <2> QED BY <2>8 DEF A!Next
<1>4. CASE Schedule
  <2>1. PICK e \in Users, d \in Delays : sched' = ScheduledAt(sched, e, sched.now + d)
    BY <1>4 DEF Schedule, ScheduledAfter
  <2>2. e \in Events /\ sched.now + d \in Nat
    BY <1>0
  <2>3. /\ sched'.deadlines = [sched.deadlines EXCEPT ![e] = sched.now + d]
        /\ sched'.now = sched.now
    BY <1>0, <2>1, <2>2, ScheduledFresh
  <2>4. Appointments' = A!Without(e) \cup {<<e, sched.now + d>>}
    BY <1>0, <2>2, <2>3, ScheduledAppoints
  <2>5. A!Appoint
    BY <1>4, <2>3, <2>4 DEF Schedule, A!Appoint
  <2> QED BY <2>5 DEF A!Next
<1>5. CASE Reschedule
  <2>1. PICK e \in Users, d \in Delays : sched' = ScheduledAt(sched, e, fired[2] + d)
    BY <1>5 DEF Reschedule
  <2>2. e \in Events /\ fired[2] + d \in Nat
    BY <1>5 DEF Reschedule, UseInv
  <2>3. /\ sched'.deadlines = [sched.deadlines EXCEPT ![e] = fired[2] + d]
        /\ sched'.now = sched.now
    BY <1>0, <2>1, <2>2, ScheduledFresh
  <2>4. Appointments' = A!Without(e) \cup {<<e, fired[2] + d>>}
    BY <1>0, <2>2, <2>3, ScheduledAppoints
  <2>5. A!Appoint
    BY <1>5, <2>3, <2>4 DEF Reschedule, A!Appoint, Nothing, A!Nothing
  <2> QED BY <2>5 DEF A!Next
<1>6. CASE Cancel
  <2>1. PICK e \in Users : sched' = Cancelled(sched, e)
    BY <1>6 DEF Cancel
  <2>2. /\ sched'.deadlines = [sched.deadlines EXCEPT ![e] = Unscheduled]
        /\ sched'.now = sched.now
    BY <1>0, <2>1, CancelledFresh
  <2>3. A!Drop
    BY <1>0, <1>6, <2>2, CancelledDrops DEF Cancel, A!Drop
  <2> QED BY <2>3 DEF A!Next
<1>7. CASE PopDue
  BY <1>7, PopRefines DEF A!Next
<1>8. CASE PopNothing
  <2>1. DueEvents(sched) = {}
    BY <1>8, DueIsNoticed DEF PopNothing, UseInv
  <2>2. A!Due = {}
    BY <1>0, <2>1, DueAppointments
  <2>3. A!Pop
    BY <1>8, <2>2 DEF PopNothing, A!Pop, Nothing, A!Nothing, Appointments, IsScheduled
  <2> QED BY <2>3 DEF A!Next
<1>9. CASE UNCHANGED useVars
  BY <1>9 DEF useVars, A!vars, Appointments, IsScheduled
<1> QED BY <1>1, <1>2, <1>3, <1>4, <1>5, <1>6, <1>7, <1>8, <1>9 DEF UseNext

(***************************************************************************)
(* Whatever its callers do, the scheduler behaves like a set of            *)
(* appointments from which the earliest is taken, ties by event order.     *)
(***************************************************************************)
THEOREM AgendaRefined == UseSpec => ImplementsAgenda
<1>1. UseSpec => []UseInv
  BY InitUseInv, NextUseInv, PTL DEF UseSpec
<1>2. UseSpec => A!Spec
  BY <1>1, InitRefines, NextRefines, PTL DEF UseSpec, A!Spec
<1> QED BY <1>2 DEF ImplementsAgenda

-----------------------------------------------------------------------------
(***************************************************************************)
(* The IntrWait routine.                                                   *)
(***************************************************************************)
\* Where the routine runs with interrupts off.
MaskedLabels == {"0x38", "0x50", "0x74", "0x84", "0x8C"}

\* Where the old flags are gone, if they were to be discarded.
Discarded == {"0x6C", "0x70", "0x74", "0x84"}

(***************************************************************************)
(* The inductive invariant: CPSR.I is a function of the program counter,   *)
(* the CPU is halted only right after the write to HALTCNT, and once the   *)
(* old flags are discarded the wanted flags that are set were recorded     *)
(* since the call.                                                         *)
(***************************************************************************)
WaitInv ==
  /\ WaitTypeOK
  /\ irq_disabled <=> pc \in MaskedLabels
  /\ halted => pc = "0x70" /\ iflag = {}
  /\ discard /\ pc \in Discarded => flags \cap wanted \subseteq recorded
  /\ ReturnsForCause

LEMMA InitWaitInv == WaitInit => WaitInv
  BY DEF WaitInit, WaitInv, WaitTypeOK, Labels, MaskedLabels, Discarded, ReturnsForCause

LEMMA NextWaitInv == WaitInv /\ [WaitNext]_waitVars => WaitInv'
<1> SUFFICES ASSUME WaitInv, [WaitNext]_waitVars PROVE WaitInv'
  OBVIOUS
<1> USE IntrWaitAssumption
        DEF WaitInv, WaitTypeOK, Labels, MaskedLabels, Discarded, ReturnsForCause, Step, TakesIrq, call
<1>1. CASE Call
  BY <1>1 DEF Call
<1>2. CASE Enter
  BY <1>2 DEF Enter
<1>3. CASE Open
  BY <1>3 DEF Open
<1>4. CASE ReadOld
  BY <1>4 DEF ReadOld
<1>5. CASE WriteOld
  BY <1>5 DEF WriteOld
<1>6. CASE Halt
  BY <1>6 DEF Halt
<1>7. CASE Mask
  BY <1>7 DEF Mask
<1>8. CASE Check
  BY <1>8 DEF Check
<1>9. CASE Retry
  BY <1>9 DEF Retry
<1>10. CASE Return
  BY <1>10 DEF Return
<1>11. CASE Interrupt
  BY <1>11 DEF Interrupt
<1>12. ASSUME NEW kind \in Kinds, Raise(kind) PROVE WaitInv'
  BY <1>12 DEF Raise
<1>13. CASE UNCHANGED waitVars
  BY <1>13 DEF waitVars
<1> QED BY <1>1, <1>2, <1>3, <1>4, <1>5, <1>6, <1>7, <1>8, <1>9, <1>10, <1>11, <1>12, <1>13
        DEF WaitNext, Routine

(***************************************************************************)
(* The wait returns for what was asked, and not for what was discarded.    *)
(***************************************************************************)
THEOREM AlwaysForCause == WaitSpec => []ReturnsForCause
<1>1. WaitSpec => []WaitInv
  BY InitWaitInv, NextWaitInv, PTL DEF WaitSpec
<1>2. WaitInv => ReturnsForCause
  BY DEF WaitInv
<1> QED BY <1>1, <1>2, PTL

(***************************************************************************)
(* The CPU is never asleep with interrupts off or one of them pending.     *)
(***************************************************************************)
THEOREM NeverSleepsMasked == WaitSpec => []SleepsInterruptible
<1>1. WaitSpec => []WaitInv
  BY InitWaitInv, NextWaitInv, PTL DEF WaitSpec
<1>2. WaitInv => SleepsInterruptible
  BY DEF WaitInv, SleepsInterruptible, MaskedLabels
<1> QED BY <1>1, <1>2, PTL

(***************************************************************************)
(* The registers and flags keep their types.                               *)
(***************************************************************************)
THEOREM WaitTyped == WaitSpec => []WaitTypeOK
<1>1. WaitSpec => []WaitInv
  BY InitWaitInv, NextWaitInv, PTL DEF WaitSpec
<1>2. WaitInv => WaitTypeOK
  BY DEF WaitInv
<1> QED BY <1>1, <1>2, PTL

-----------------------------------------------------------------------------
(***************************************************************************)
(* The ends of sequences.                                                  *)
(***************************************************************************)
LEMMA SuffixMeans ==
  ASSUME NEW S, NEW s \in Seq(S), NEW t \in Seq(S)
  PROVE  IsSuffix(s, t) <=> /\ Len(s) <= Len(t)
                            /\ \A i \in 1 .. Len(s) : s[i] = t[Len(t) - Len(s) + i]
<1> DEFINE m == Len(s)
           n == Len(t)
           u == Reverse(s)
           w == Reverse(t)
<1>1. m \in Nat /\ n \in Nat
  OBVIOUS
<1>2. /\ u \in Seq(S) /\ Len(u) = m /\ \A i \in 1 .. m : u[i] = s[m - i + 1]
      /\ w \in Seq(S) /\ Len(w) = n /\ \A i \in 1 .. n : w[i] = t[n - i + 1]
  BY DEF Reverse
<1> HIDE DEF u, w
<1>3. IsSuffix(s, t) <=> m <= n /\ SubSeq(u, 1, m) = SubSeq(w, 1, m)
  BY <1>2 DEF IsSuffix, IsPrefix, u, w
<1>4. ASSUME m <= n
      PROVE  SubSeq(u, 1, m) = SubSeq(w, 1, m) <=> \A i \in 1 .. m : u[i] = w[i]
  <2>1. /\ SubSeq(u, 1, m) \in Seq(S) /\ Len(SubSeq(u, 1, m)) = m
        /\ \A i \in 1 .. m : SubSeq(u, 1, m)[i] = u[i]
    BY <1>1, <1>2
  <2>2. /\ SubSeq(w, 1, m) \in Seq(S) /\ Len(SubSeq(w, 1, m)) = m
        /\ \A i \in 1 .. m : SubSeq(w, 1, m)[i] = w[i]
    BY <1>1, <1>2, <1>4
  <2>3. (\A i \in 1 .. m : u[i] = w[i]) => SubSeq(u, 1, m) = SubSeq(w, 1, m)
    BY <2>1, <2>2, SeqEqual
  <2> QED BY <2>1, <2>2, <2>3
<1>5. ASSUME m <= n
      PROVE  (\A i \in 1 .. m : u[i] = w[i]) <=> \A i \in 1 .. m : s[i] = t[n - m + i]
  <2>1. ASSUME \A i \in 1 .. m : u[i] = w[i], NEW i \in 1 .. m PROVE s[i] = t[n - m + i]
    <3> DEFINE j == m - i + 1
    <3>1. j \in 1 .. m /\ j \in 1 .. n /\ m - j + 1 = i /\ n - j + 1 = n - m + i
      BY <1>1, <1>5
    <3> HIDE DEF j
    <3> QED BY <1>2, <2>1, <3>1
  <2>2. ASSUME \A i \in 1 .. m : s[i] = t[n - m + i], NEW i \in 1 .. m PROVE u[i] = w[i]
    <3> DEFINE j == m - i + 1
    <3>1. j \in 1 .. m /\ i \in 1 .. n /\ n - m + j = n - i + 1
      BY <1>1, <1>5
    <3>2. u[i] = s[j] /\ w[i] = t[n - i + 1]
      BY <1>2, <3>1
    <3> HIDE DEF j
    <3> QED BY <2>2, <3>1, <3>2
  <2> QED BY <2>1, <2>2
<1> QED BY <1>3, <1>4, <1>5

LEMMA SuffixGrows ==
  ASSUME NEW S, NEW s \in Seq(S), NEW t \in Seq(S), NEW x \in S, IsSuffix(s, t)
  PROVE  IsSuffix(Append(s, x), Append(t, x))
<1> DEFINE u == Append(s, x)
           w == Append(t, x)
<1>1. /\ u \in Seq(S) /\ Len(u) = Len(s) + 1 /\ u[Len(s) + 1] = x
      /\ \A i \in 1 .. Len(s) : u[i] = s[i]
  BY AppendProperties
<1>2. /\ w \in Seq(S) /\ Len(w) = Len(t) + 1 /\ w[Len(t) + 1] = x
      /\ \A i \in 1 .. Len(t) : w[i] = t[i]
  BY AppendProperties
<1> HIDE DEF u, w
<1>3. Len(s) \in Nat /\ Len(t) \in Nat /\ Len(s) <= Len(t)
      /\ \A i \in 1 .. Len(s) : s[i] = t[Len(t) - Len(s) + i]
  BY SuffixMeans
<1>4. ASSUME NEW i \in 1 .. Len(u) PROVE u[i] = w[Len(w) - Len(u) + i]
  <2>1. CASE i = Len(s) + 1
    <3>1. Len(w) - Len(u) + i = Len(t) + 1
      BY <1>1, <1>2, <1>3, <2>1
    <3> QED BY <1>1, <1>2, <2>1, <3>1
  <2>2. CASE i # Len(s) + 1
    <3>1. i \in 1 .. Len(s) /\ Len(w) - Len(u) + i = Len(t) - Len(s) + i
          /\ Len(t) - Len(s) + i \in 1 .. Len(t)
      BY <1>1, <1>2, <1>3, <2>2
    <3> QED BY <1>1, <1>2, <1>3, <3>1
  <2> QED BY <2>1, <2>2
<1>5. Len(u) <= Len(w)
  BY <1>1, <1>2, <1>3
<1> QED BY <1>1, <1>2, <1>4, <1>5, SuffixMeans DEF u, w

LEMMA SuffixStays ==
  ASSUME NEW S, NEW s \in Seq(S), NEW t \in Seq(S), t # <<>>, Len(s) < Len(t), IsSuffix(s, t)
  PROVE  IsSuffix(s, Tail(t))
<1> DEFINE u == Tail(t)
<1>1. /\ u \in Seq(S) /\ Len(u) = Len(t) - 1 /\ Len(t) \in Nat /\ Len(s) \in Nat
      /\ \A i \in 1 .. Len(t) - 1 : u[i] = t[i + 1]
  BY HeadTailProperties
<1> HIDE DEF u
<1>2. \A i \in 1 .. Len(s) : s[i] = t[Len(t) - Len(s) + i]
  BY SuffixMeans
<1>3. ASSUME NEW i \in 1 .. Len(s) PROVE s[i] = u[Len(u) - Len(s) + i]
  <2> DEFINE j == Len(u) - Len(s) + i
  <2>1. j \in 1 .. Len(t) - 1 /\ j + 1 = Len(t) - Len(s) + i
    BY <1>1
  <2> HIDE DEF j
  <2>2. u[j] = s[i]
    BY <1>1, <1>2, <2>1
  <2> QED BY <2>2 DEF j
<1>4. Len(s) <= Len(u)
  BY <1>1
<1> QED BY <1>1, <1>3, <1>4, SuffixMeans DEF u

-----------------------------------------------------------------------------
(***************************************************************************)
(* Flash: the command machine and the writes that led to its state.        *)
(***************************************************************************)
Program == <<Unlock1[1], 160>>
Writes  == Stores \cup {Unlock1, Unlock2, Program}

Machines ==
  [state : {"Ready", "FirstUnlock", "SecondUnlock"}, id : BOOLEAN, erase : BOOLEAN,
   write : BOOLEAN, switch : BOOLEAN, bank : Banks]

\* The machine is where the last writes have led it.
Armed ==
  /\ flash \in Machines
  /\ recent \in Seq(Writes) /\ Len(recent) <= 3
  /\ flash.state = "FirstUnlock"  => After(<<Unlock1>>)
  /\ flash.state = "SecondUnlock" => After(<<Unlock1, Unlock2>>)
  /\ flash.write => flash.state = "Ready" /\ After(<<Unlock1, Unlock2, Program>>)

Remembered(r, x) == IF Len(Append(r, x)) > 3 THEN Tail(Append(r, x)) ELSE Append(r, x)

LEMMA RememberedEnds ==
  ASSUME NEW r \in Seq(Writes), Len(r) <= 3, NEW x \in Writes
  PROVE  /\ Remembered(r, x) \in Seq(Writes) /\ Len(Remembered(r, x)) <= 3
         /\ Last(Remembered(r, x)) = x
         /\ \A p \in Seq(Writes) : Len(p) <= 2 /\ IsSuffix(p, r) =>
              IsSuffix(Append(p, x), Remembered(r, x))
<1> DEFINE a == Append(r, x)
<1>1. /\ a \in Seq(Writes) /\ Len(a) = Len(r) + 1 /\ a[Len(r) + 1] = x /\ Len(r) \in Nat
      /\ a # <<>>
  BY AppendProperties
<1>2. \A p \in Seq(Writes) : IsSuffix(p, r) => IsSuffix(Append(p, x), a)
  BY SuffixGrows
<1> HIDE DEF a
<1>3. CASE Len(a) > 3
  <2>1. Remembered(r, x) = Tail(a)
    BY <1>3 DEF Remembered, a
  <2>2. /\ Tail(a) \in Seq(Writes) /\ Len(Tail(a)) = Len(a) - 1
        /\ \A i \in 1 .. Len(a) - 1 : Tail(a)[i] = a[i + 1]
    BY <1>1, HeadTailProperties
  <2>3. Tail(a)[Len(Tail(a))] = x
    BY <1>1, <1>3, <2>2
  <2>4. ASSUME NEW p \in Seq(Writes), Len(p) <= 2, IsSuffix(p, r)
        PROVE  IsSuffix(Append(p, x), Tail(a))
    <3>1. Append(p, x) \in Seq(Writes) /\ Len(Append(p, x)) = Len(p) + 1 /\ Len(p) \in Nat
      BY AppendProperties
    <3>2. IsSuffix(Append(p, x), a)
      BY <1>2, <2>4
    <3>3. Len(Append(p, x)) < Len(a)
      BY <1>3, <2>4, <3>1, <1>1
    <3> QED BY <1>1, <3>1, <3>2, <3>3, SuffixStays
  <2>5. Len(Tail(a)) <= 3
    BY <1>1, <2>2
  <2>6. \A p \in Seq(Writes) : Len(p) <= 2 /\ IsSuffix(p, r) => IsSuffix(Append(p, x), Tail(a))
    BY <2>4
  <2> QED BY <2>1, <2>2, <2>3, <2>5, <2>6 DEF Last
<1>4. CASE ~(Len(a) > 3)
  <2>1. Remembered(r, x) = a
    BY <1>4 DEF Remembered, a
  <2> QED BY <1>1, <1>2, <1>4, <2>1 DEF Last
<1> QED BY <1>3, <1>4

LEMMA EmptyEnds ==
  ASSUME NEW r \in Seq(Writes)
  PROVE  IsSuffix(<<>>, r)
<1>1. <<>> \in Seq(Writes) /\ Len(<<>>) = 0 /\ Len(r) \in Nat
  OBVIOUS
<1>2. \A i \in 1 .. 0 : <<>>[i] = r[Len(r) - 0 + i]
  OBVIOUS
<1>3. Len(<<>>) <= Len(r) /\ \A i \in 1 .. Len(<<>>) : <<>>[i] = r[Len(r) - Len(<<>>) + i]
  BY <1>1, <1>2
<1> QED BY ONLY <1>1, <1>3, SuffixMeans

\* Two elements, one after the other.
LEMMA AppendTwo ==
  ASSUME NEW S, NEW a \in S, NEW b \in S
  PROVE  Append(<<a>>, b) = <<a, b>>
<1> DEFINE x == <<a>>
           z == Append(x, b)
           y == <<a, b>>
<1>0. x \in Seq(S) /\ Len(x) = 1 /\ x[1] = a
  OBVIOUS
<1>s. x \in Seq(S)
  BY <1>0
<1> HIDE DEF x
<1>1. /\ z \in Seq(S) /\ Len(z) = Len(x) + 1 /\ z[Len(x) + 1] = b
      /\ \A i \in 1 .. Len(x) : z[i] = x[i]
  BY <1>s, AppendProperties
<1> HIDE DEF z
<1>2. Len(x) + 1 = 2
  BY <1>0
<1>3. Len(z) = 2 /\ z[2] = b /\ z[1] = a
  BY <1>0, <1>1, <1>2
<1>4. y \in Seq(S) /\ Len(y) = 2 /\ y[1] = a /\ y[2] = b
  OBVIOUS
<1> HIDE DEF y
<1>5. \A i \in 1 .. Len(z) : z[i] = y[i]
  BY <1>3, <1>4
<1>6. z = y
  BY <1>1, <1>3, <1>4, <1>5, SeqEqual
<1> QED BY <1>6 DEF z, y, x

\* Three elements, one after the other.
LEMMA AppendThree ==
  ASSUME NEW S, NEW a \in S, NEW b \in S, NEW c \in S
  PROVE  Append(<<a, b>>, c) = <<a, b, c>>
<1> DEFINE x == <<a, b>>
           z == Append(x, c)
           y == <<a, b, c>>
<1>0. x \in Seq(S) /\ Len(x) = 2 /\ x[1] = a /\ x[2] = b
  OBVIOUS
<1>s. x \in Seq(S)
  BY <1>0
<1> HIDE DEF x
<1>1. /\ z \in Seq(S) /\ Len(z) = Len(x) + 1 /\ z[Len(x) + 1] = c
      /\ \A i \in 1 .. Len(x) : z[i] = x[i]
  BY <1>s, AppendProperties
<1> HIDE DEF z
<1>2. Len(x) + 1 = 3
  BY <1>0
<1>3. Len(z) = 3 /\ z[3] = c /\ z[1] = a /\ z[2] = b
  BY <1>0, <1>1, <1>2
<1>4. y \in Seq(S) /\ Len(y) = 3 /\ y[1] = a /\ y[2] = b /\ y[3] = c
  OBVIOUS
<1> HIDE DEF y
<1>5. \A i \in 1 .. Len(z) : z[i] = y[i]
  BY <1>3, <1>4
<1>6. z = y
  BY <1>1, <1>3, <1>4, <1>5, SeqEqual
<1> QED BY <1>6 DEF z, y, x

\* A sequence of commands gone on by the write x.
LEMMA Unlocking ==
  ASSUME NEW r \in Seq(Writes), Len(r) <= 3, NEW x \in Writes
  PROVE  /\ x = Unlock1 => IsSuffix(<<Unlock1>>, Remembered(r, x))
         /\ x = Unlock2 /\ IsSuffix(<<Unlock1>>, r) => IsSuffix(<<Unlock1, Unlock2>>, Remembered(r, x))
         /\ x = Program /\ IsSuffix(<<Unlock1, Unlock2>>, r) =>
              IsSuffix(<<Unlock1, Unlock2, Program>>, Remembered(r, x))
<1>1. /\ <<>> \in Seq(Writes) /\ <<Unlock1>> \in Seq(Writes) /\ <<Unlock1, Unlock2>> \in Seq(Writes)
      /\ Len(<<>>) <= 2 /\ Len(<<Unlock1>>) <= 2 /\ Len(<<Unlock1, Unlock2>>) <= 2
  BY DEF Writes
<1> HIDE DEF Program
<1>2. /\ Append(<<>>, Unlock1) = <<Unlock1>>
      /\ Append(<<Unlock1>>, Unlock2) = <<Unlock1, Unlock2>>
      /\ Append(<<Unlock1, Unlock2>>, Program) = <<Unlock1, Unlock2, Program>>
  <2>1. Unlock1 \in Writes /\ Unlock2 \in Writes /\ Program \in Writes
    BY DEF Writes
  <2>2. Append(<<Unlock1>>, Unlock2) = <<Unlock1, Unlock2>>
    BY ONLY <2>1, AppendTwo, Zenon
  <2>3. Append(<<Unlock1, Unlock2>>, Program) = <<Unlock1, Unlock2, Program>>
    BY ONLY <2>1, AppendThree, Zenon
  <2> QED BY <2>2, <2>3
<1>g. \A p \in Seq(Writes) : Len(p) <= 2 /\ IsSuffix(p, r) =>
        IsSuffix(Append(p, x), Remembered(r, x))
  BY RememberedEnds
<1>3. x = Unlock1 => IsSuffix(<<Unlock1>>, Remembered(r, x))
  <2>1. IsSuffix(<<>>, r)
    BY EmptyEnds
  <2> QED BY ONLY <1>1, <1>2, <1>g, <2>1, Zenon
<1>4. x = Unlock2 /\ IsSuffix(<<Unlock1>>, r) => IsSuffix(<<Unlock1, Unlock2>>, Remembered(r, x))
  BY ONLY <1>1, <1>2, <1>g, Zenon
<1>5. x = Program /\ IsSuffix(<<Unlock1, Unlock2>>, r) =>
        IsSuffix(<<Unlock1, Unlock2, Program>>, Remembered(r, x))
  BY ONLY <1>1, <1>2, <1>g, Zenon
<1> QED BY <1>3, <1>4, <1>5

\* A write to a flash chip, as one of the writes of the game.
LEMMA StoreType ==
  ASSUME NEW s \in Stores
  PROVE  s = <<s[1], s[2]>> /\ s[1] \in Offsets /\ s[2] \in 0 .. 255 /\ s \in Writes
BY BackupAssumption DEF Writes

LEMMA CommandedType ==
  ASSUME flash \in Machines, NEW v \in 0 .. 255
  PROVE  /\ Commanded(v) \in Machines /\ Commanded(v).state = "Ready"
         /\ Commanded(v).bank = flash.bank
         /\ Commanded(v).write => flash.write \/ v = 160
<1> DEFINE f == [flash EXCEPT !.state = "Ready"]
<1>1. f \in Machines /\ f.state = "Ready" /\ f.write = flash.write /\ f.bank = flash.bank
  BY DEF Machines
<1> HIDE DEF f
<1>2. Commanded(v) = CASE v = 144 -> [f EXCEPT !.id = TRUE]
                       [] v = 240 -> [f EXCEPT !.id = FALSE]
                       [] v = 128 -> [f EXCEPT !.erase = TRUE]
                       [] v = 16  -> [f EXCEPT !.erase = FALSE]
                       [] v = 160 -> [f EXCEPT !.write = TRUE]
                       [] v = 176 -> [f EXCEPT !.switch = type = "Flash128K"]
                       [] OTHER   -> f
  BY DEF Commanded, f
<1>3. \/ Commanded(v) = [f EXCEPT !.id = TRUE] \/ Commanded(v) = [f EXCEPT !.id = FALSE]
      \/ Commanded(v) = [f EXCEPT !.erase = TRUE] \/ Commanded(v) = [f EXCEPT !.erase = FALSE]
      \/ v = 160 /\ Commanded(v) = [f EXCEPT !.write = TRUE]
      \/ Commanded(v) = [f EXCEPT !.switch = type = "Flash128K"]
      \/ Commanded(v) = f
  BY <1>2
<1>4. (type = "Flash128K") \in BOOLEAN
  OBVIOUS
<1> QED BY <1>1, <1>3, <1>4 DEF Machines

\* What a write makes of the machine.
LEMMA FlashArmed ==
  ASSUME Armed, NEW s \in Stores, FlashWrite(s[1], s[2])
  PROVE  Armed'
<1> DEFINE o == s[1]
           v == s[2]
<1>0. s = <<o, v>> /\ v \in 0 .. 255 /\ s \in Writes /\ flash \in Machines
      /\ recent \in Seq(Writes) /\ Len(recent) <= 3
  BY StoreType DEF Armed
<1>1. CASE SwitchBank(o, v)
  <2>1. recent' = recent
    BY <1>1 DEF FlashWrite, SwitchBank
  <2>2. /\ flash' \in Machines /\ flash'.state = flash.state /\ flash'.write = flash.write
    <3> DEFINE b == IF type = "Flash128K" THEN v % 2 ELSE 0
    <3>1. b \in Banks
      <4>1. \A x \in 0 .. 255 : x % 2 \in {0, 1}
        OBVIOUS
      <4>2. v % 2 \in {0, 1}
        BY ONLY <1>0, <4>1
      <4> HIDE DEF v
      <4> QED BY <4>2 DEF Banks
    <3>2. flash' = [flash EXCEPT !.switch = FALSE, !.bank = b]
      BY <1>1 DEF SwitchBank
    <3> HIDE DEF b
    <3> QED BY <1>0, <3>1, <3>2 DEF Machines
  <2> QED BY <1>0, <2>1, <2>2 DEF Armed, After
<1>2. CASE ~SwitchesBank(o)
  <2>1. recent' = Remembered(recent, s)
    BY <1>0, <1>2 DEF FlashWrite, Remembered
  <2>2. recent' \in Seq(Writes) /\ Len(recent') <= 3
    BY <1>0, <2>1, RememberedEnds
  <2>3. CASE ProgramByte(o, v)
    <3>1. flash' \in Machines /\ flash'.state = "Ready" /\ ~flash'.write
      BY <1>0, <2>3 DEF ProgramByte, Machines, Armed
    <3> QED BY <2>2, <3>1 DEF Armed
  <2>4. CASE ~flash.write /\ AtReady(o, v)
    <3>1. flash' \in Machines /\ ~flash'.write
          /\ flash'.state \in {"Ready", "FirstUnlock"}
          /\ (flash'.state = "FirstUnlock" => s = Unlock1)
      <4>1. \/ s = Unlock1 /\ flash' = [flash EXCEPT !.state = "FirstUnlock"]
            \/ flash' = [flash EXCEPT !.id = FALSE]
            \/ flash' = flash
        BY <1>0, <2>4 DEF AtReady
      <4>2. flash.state = "Ready" /\ ~flash.write
        BY <2>4 DEF AtReady
      <4> HIDE DEF o, v
      <4> QED BY <1>0, <4>1, <4>2 DEF Machines
    <3>2. flash'.state = "FirstUnlock" => After(<<Unlock1>>)'
      BY <1>0, <2>1, <3>1, Unlocking DEF After
    <3> QED BY <2>2, <3>1, <3>2 DEF Armed
  <2>5. CASE ~flash.write /\ AtFirstUnlock(o, v)
    <3>1. flash' \in Machines /\ ~flash'.write
          /\ flash'.state \in {"Ready", "SecondUnlock"}
          /\ (flash'.state = "SecondUnlock" => s = Unlock2)
      BY <1>0, <2>5 DEF AtFirstUnlock, Machines
    <3>2. After(<<Unlock1>>)
      BY <2>5 DEF AtFirstUnlock, Armed
    <3>3. flash'.state = "SecondUnlock" => After(<<Unlock1, Unlock2>>)'
      BY <1>0, <2>1, <3>1, <3>2, Unlocking DEF After
    <3> QED BY <2>2, <3>1, <3>3 DEF Armed
  <2>6. CASE ~flash.write /\ AtSecondUnlock(o, v)
    <3>1. After(<<Unlock1, Unlock2>>)
      BY <2>6 DEF AtSecondUnlock, Armed
    <3>2. flash' \in Machines /\ flash'.state = "Ready"
          /\ (flash'.write => s = Program)
      <4>1. CASE o = Unlock1[1]
        BY <1>0, <2>6, <4>1, CommandedType DEF AtSecondUnlock, Program
      <4>2. CASE o # Unlock1[1]
        <5>1. \/ flash' = [flash EXCEPT !.state = "Ready", !.erase = FALSE]
              \/ flash' = [flash EXCEPT !.state = "Ready"]
          BY <2>6, <4>2 DEF AtSecondUnlock
        <5> QED BY <1>0, <2>6, <5>1 DEF Machines
      <4> QED BY <4>1, <4>2
    <3>3. flash'.write => After(<<Unlock1, Unlock2, Program>>)'
      BY <1>0, <2>1, <3>1, <3>2, Unlocking DEF After
    <3> QED BY <2>2, <3>2, <3>3 DEF Armed
  <2> QED BY <1>2, <2>3, <2>4, <2>5, <2>6 DEF FlashWrite, SwitchBank
<1> QED BY <1>1, <1>2 DEF FlashWrite, ProgramByte, SwitchesBank

LEMMA InitArmed == Init => Armed
BY DEF Init, Armed, ReadyFlash, Machines, Banks

LEMMA NextArmed ==
  ASSUME Armed, [Next]_vars
  PROVE  Armed'
<1>1. CASE UNCHANGED <<flash, recent>>
  BY <1>1 DEF Armed, After
<1>2. CASE Write8
  <2>1. PICK s \in Stores : SramWrite(s[1], s[2]) \/ FlashWrite(s[1], s[2])
    BY <1>2 DEF Write8
  <2>2. CASE SramWrite(s[1], s[2])
    BY <1>1, <2>2 DEF SramWrite
  <2> QED BY <2>1, <2>2, FlashArmed
<1>3. CASE SendByDma \/ StartSending \/ SendBit \/ ReadBit \/ MarkClean \/ UNCHANGED vars
  BY <1>1, <1>3 DEF SendByDma, StartSending, SendBit, ReadBit, MarkClean, vars
<1> QED BY <1>2, <1>3 DEF Next

-----------------------------------------------------------------------------
(***************************************************************************)
(* Flash: a complete command, and only what it says.                       *)
(***************************************************************************)

\* A chip of bytes: nothing of the EEPROM is in use.
Bytes ==
  type # "Eeprom" =>
    /\ data \in [ChipBanks \X Offsets -> 0 .. 255]
    /\ width = 0 /\ game = 0
    /\ stream = <<>> /\ answer = <<>> /\ sending = <<>>

FlashInv == Armed /\ Bytes /\ flash.bank \in ChipBanks

LEMMA InitFlash == Init => FlashInv
<1> SUFFICES ASSUME Init PROVE FlashInv
  OBVIOUS
<1>1. Armed
  BY InitArmed
<1>2. Bytes
  BY DEF Init, Bytes, Erased
<1>3. flash.bank \in ChipBanks
  BY DEF Init, ReadyFlash, ChipBanks, Banks
<1> QED BY <1>1, <1>2, <1>3 DEF FlashInv

\* A write keeps the content an array of bytes.
LEMMA PutBytes ==
  ASSUME data \in [ChipBanks \X Offsets -> 0 .. 255],
         NEW b \in ChipBanks, NEW o \in Offsets, NEW v \in 0 .. 255, Put(<<b, o>>, v)
  PROVE  data' \in [ChipBanks \X Offsets -> 0 .. 255]
<1> DEFINE D == ChipBanks \X Offsets
           a == <<b, o>>
<1>1. a \in D /\ data \in [D -> 0 .. 255] /\ data' = [data EXCEPT ![a] = v]
  BY DEF Put
<1> HIDE DEF D, a
<1>2. data' \in [D -> 0 .. 255]
  BY <1>1
<1> QED BY <1>2 DEF D

LEMMA EraseBytes ==
  ASSUME data \in [ChipBanks \X Offsets -> 0 .. 255], NEW As, Erase(As)
  PROVE  data' \in [ChipBanks \X Offsets -> 0 .. 255]
<1> DEFINE D == ChipBanks \X Offsets
<1> HIDE DEF D
<1>1. data \in [D -> 0 .. 255]
  BY DEF D
<1>2. DOMAIN data = D
  BY <1>1
<1>3. data' = [a \in D |-> IF a \in As THEN 255 ELSE data[a]]
  BY <1>2 DEF Erase, Erased
<1>4. data' \in [D -> 0 .. 255]
  BY <1>1, <1>3
<1> QED BY <1>4 DEF D

\* A write is one of four: nothing, a byte, a sector or the whole chip.
LEMMA FlashDoes ==
  ASSUME FlashInv, NEW s \in Stores, FlashWrite(s[1], s[2])
  PROVE  /\ \/ Keep
            \/ Put(<<flash.bank, s[1]>>, s[2]) /\ Programs(s) /\ recent' = Remembered(recent, s)
            \/ Erase(DOMAIN data) /\ ErasesChip(s) /\ recent' = Remembered(recent, s)
            \/ /\ Erase({a \in DOMAIN data : a[1] = flash.bank /\ Sector(a[2]) = Sector(s[1])})
               /\ ErasesSector(s) /\ recent' = Remembered(recent, s)
         /\ flash'.bank \in ChipBanks
<1> DEFINE o == s[1]
           v == s[2]
<1>0. s = <<o, v>> /\ v \in 0 .. 255 /\ flash \in Machines /\ flash.bank \in ChipBanks
  BY StoreType DEF FlashInv, Armed
<1>1. ~SwitchesBank(o) => recent' = Remembered(recent, s)
  BY <1>0 DEF FlashWrite, Remembered
<1>2. CASE ProgramByte(o, v)
  <2>1. After(<<Unlock1, Unlock2, <<Unlock1[1], 160>>>>)
    BY <1>2 DEF FlashInv, Armed, ProgramByte, Program
  <2>2. Put(<<flash.bank, o>>, v) /\ data' = [data EXCEPT ![<<flash.bank, o>>] = v]
    BY <1>2 DEF ProgramByte, Put
  <2>3. recent' = Remembered(recent, s)
    BY <1>1, <1>2 DEF ProgramByte, SwitchesBank
  <2>4. flash'.bank \in ChipBanks
    <3>1. flash' = [flash EXCEPT !.write = FALSE]
      BY <1>2 DEF ProgramByte
    <3> QED BY <1>0, <3>1 DEF Machines
  <2> QED BY <2>1, <2>2, <2>3, <2>4 DEF Programs
<1>3. CASE SwitchBank(o, v)
  <2> DEFINE b == IF type = "Flash128K" THEN v % 2 ELSE 0
  <2>1. b \in ChipBanks
    <3>1. \A x \in 0 .. 255 : x % 2 \in {0, 1}
      OBVIOUS
    <3>2. v % 2 \in {0, 1}
      BY ONLY <1>0, <3>1
    <3> HIDE DEF v
    <3> QED BY <3>2 DEF ChipBanks, Banks
  <2>2. flash' = [flash EXCEPT !.switch = FALSE, !.bank = b] /\ Keep
    BY <1>3 DEF SwitchBank
  <2> HIDE DEF b
  <2>3. flash'.bank = b
    BY <1>0, <2>2 DEF Machines
  <2> QED BY <2>1, <2>2, <2>3
<1>4. CASE ~flash.write /\ ~SwitchesBank(o) /\ AtReady(o, v)
  <2>1. /\ Keep
        /\ \/ flash' = [flash EXCEPT !.state = "FirstUnlock"]
           \/ flash' = [flash EXCEPT !.id = FALSE]
           \/ flash' = flash
    BY <1>4 DEF AtReady
  <2>2. flash'.bank = flash.bank
    BY <1>0, <2>1 DEF Machines
  <2> QED BY <1>0, <2>1, <2>2
<1>5. CASE ~flash.write /\ ~SwitchesBank(o) /\ AtFirstUnlock(o, v)
  <2> DEFINE t == IF <<o, v>> = Unlock2 THEN "SecondUnlock" ELSE "Ready"
  <2>1. Keep /\ flash' = [flash EXCEPT !.state = t]
    BY <1>5 DEF AtFirstUnlock
  <2> HIDE DEF t
  <2>2. flash'.bank = flash.bank
    BY <1>0, <2>1 DEF Machines
  <2> QED BY <1>0, <2>1, <2>2
<1>6. CASE ~flash.write /\ ~SwitchesBank(o) /\ AtSecondUnlock(o, v)
  <2>1. After(<<Unlock1, Unlock2>>)
    BY <1>6 DEF AtSecondUnlock, FlashInv, Armed
  <2>2. recent' = Remembered(recent, s)
    BY <1>1, <1>6
  <2>3. CASE o = Unlock1[1]
    <3>1. flash' = Commanded(v) /\ (Keep \/ (v = 16 /\ Erase(DOMAIN data)))
      <4>1. /\ flash' = Commanded(v)
            /\ IF v = 16 /\ flash.erase THEN Erase(DOMAIN data) ELSE Keep
        <5> HIDE DEF o, v
        <5> QED BY <1>6, <2>3 DEF AtSecondUnlock
      <4> QED BY <4>1
    <3>2. flash'.bank = flash.bank
      BY <1>0, <3>1, CommandedType
    <3>3. CASE v = 16 /\ Erase(DOMAIN data)
      <4>1. \A a \in DOMAIN data : data'[a] = Erased
        BY <3>3 DEF Erase
      <4>2. s = <<Unlock1[1], 16>>
        BY <1>0, <2>3, <3>3
      <4> QED BY <1>0, <2>1, <2>2, <3>2, <3>3, <4>1, <4>2 DEF ErasesChip
    <3> QED BY <1>0, <3>1, <3>2, <3>3
  <2>4. CASE o # Unlock1[1]
    <3> DEFINE As == {a \in DOMAIN data : a[1] = flash.bank /\ Sector(a[2]) = Sector(o)}
    <3>1. \/ flash' = [flash EXCEPT !.state = "Ready", !.erase = FALSE] /\ v = 48 /\ Erase(As)
          \/ flash' = [flash EXCEPT !.state = "Ready"] /\ Keep
      BY <1>6, <2>4 DEF AtSecondUnlock
    <3> HIDE DEF As
    <3>2. flash'.bank = flash.bank
      BY <1>0, <3>1 DEF Machines
    <3>3. CASE v = 48 /\ Erase(As)
      <4>1. \A a \in DOMAIN data : data'[a] = IF a \in As THEN Erased ELSE data[a]
        BY <3>3 DEF Erase
      <4>2. ErasesSector(s)
        BY <2>1, <3>3, <4>1 DEF ErasesSector, As
      <4> QED BY <1>0, <2>2, <3>2, <3>3, <4>2 DEF As
    <3> QED BY <1>0, <3>1, <3>2, <3>3
  <2> QED BY <2>3, <2>4
<1> QED BY <1>2, <1>3, <1>4, <1>5, <1>6 DEF FlashWrite

LEMMA NextFlash ==
  ASSUME FlashInv, [Next]_vars
  PROVE  FlashInv'
<1>1. Armed'
  BY NextArmed DEF FlashInv
<1>2. type' = type /\ ChipBanks' = ChipBanks
  BY DEF Next, vars, Write8, SendByDma, StartSending, SendBit, ReadBit, MarkClean, ChipBanks
<1>3. CASE Write8
  <2>1. PICK s \in Stores : SramWrite(s[1], s[2]) \/ FlashWrite(s[1], s[2])
    BY <1>3 DEF Write8
  <2>2. s[1] \in Offsets /\ s[2] \in 0 .. 255
    BY StoreType
  <2>3. type # "Eeprom" /\ UNCHANGED <<eeprom, game, sending>>
    BY <1>3, <2>1 DEF Write8, SramWrite, FlashWrite, IsFlash
  <2>4. data \in [ChipBanks \X Offsets -> 0 .. 255] /\ flash.bank \in ChipBanks
    BY <2>3 DEF FlashInv, Bytes
  <2>5. data' \in [ChipBanks \X Offsets -> 0 .. 255] /\ flash'.bank \in ChipBanks
    <3>1. CASE SramWrite(s[1], s[2])
      <4>1. 0 \in ChipBanks
        BY DEF ChipBanks, Banks
      <4>2. flash' = flash /\ (Put(<<0, s[1]>>, s[2]) \/ data' = data)
        BY <3>1 DEF SramWrite, Keep, chip
      <4> QED BY <2>2, <2>4, <4>1, <4>2, PutBytes
    <3>2. CASE FlashWrite(s[1], s[2])
      <4>1. /\ flash'.bank \in ChipBanks
            /\ Keep \/ Put(<<flash.bank, s[1]>>, s[2]) \/ \E As : Erase(As)
        BY <3>2, FlashDoes
      <4> QED BY <2>2, <2>4, <4>1, PutBytes, EraseBytes DEF Keep, chip
    <3> QED BY <2>1, <3>1, <3>2
  <2>6. Bytes'
    BY <1>2, <2>3, <2>4, <2>5 DEF Bytes, FlashInv, eeprom
  <2> QED BY <1>1, <1>2, <2>5, <2>6 DEF FlashInv
<1>4. CASE SendByDma \/ StartSending \/ SendBit \/ ReadBit
  <2>1. type = "Eeprom" /\ flash' = flash
    BY <1>4 DEF SendByDma, StartSending, SendBit, ReadBit, FlashInv, Bytes
  <2> QED BY <1>1, <1>2, <2>1 DEF FlashInv, Bytes
<1>5. CASE MarkClean \/ UNCHANGED vars
  <2>1. UNCHANGED <<data, flash, eeprom, game, sending>>
    BY <1>5 DEF MarkClean, vars, chip
  <2> QED BY <1>1, <1>2, <2>1 DEF FlashInv, Bytes, eeprom
<1> QED BY <1>3, <1>4, <1>5 DEF Next

\* A step of a flash chip changes its content by a complete command only.
LEMMA StepByCommand ==
  ASSUME FlashInv, [Next]_vars
  PROVE  IsFlash /\ data' # data =>
           LET s == Last(recent') IN Programs(s) \/ ErasesSector(s) \/ ErasesChip(s)
<1> SUFFICES ASSUME IsFlash, data' # data
             PROVE  LET s == Last(recent') IN Programs(s) \/ ErasesSector(s) \/ ErasesChip(s)
  OBVIOUS
<1>1. type # "Eeprom" /\ type # "Sram" /\ sending = <<>>
  BY DEF IsFlash, FlashInv, Bytes
<1>2. Write8
  BY <1>1 DEF Next, SendByDma, StartSending, SendBit, ReadBit, MarkClean, vars, chip
<1>3. PICK s \in Stores : FlashWrite(s[1], s[2])
  BY <1>1, <1>2 DEF Write8, SramWrite
<1>4. ~Keep
  BY DEF Keep, chip
<1>5. (Programs(s) \/ ErasesSector(s) \/ ErasesChip(s)) /\ recent' = Remembered(recent, s)
  BY <1>3, <1>4, FlashDoes
<1>6. Last(recent') = s
  BY <1>5, StoreType, RememberedEnds DEF FlashInv, Armed
<1> QED BY <1>5, <1>6

\* Whatever is written to a flash chip, its content changes only by a complete
\* command, and only where that command says.
THEOREM ChangesByCommand == Spec => FlashChangesByCommand
<1>1. Init => FlashInv
  BY InitFlash
<1>2. FlashInv /\ [Next]_vars => FlashInv'
  BY NextFlash
<1>3. FlashInv /\ [Next]_vars =>
        [IsFlash /\ data' # data =>
           LET s == Last(recent') IN Programs(s) \/ ErasesSector(s) \/ ErasesChip(s)]_vars
  BY StepByCommand
<1> QED BY <1>1, <1>2, <1>3, PTL DEF Spec, FlashChangesByCommand

-----------------------------------------------------------------------------
(***************************************************************************)
(* EEPROM: what a command looks like, and what the chip makes of one.      *)
(***************************************************************************)

\* The values of the bits, whatever they are.
BitValues == {0, 1} \cup {(n \div 2 ^ k) % 2 : n \in Nat, k \in Nat}

LEMMA BitsType ==
  ASSUME NEW n \in Nat, NEW w \in Nat
  PROVE  Bits(n, w) \in Seq(BitValues) /\ Len(Bits(n, w)) = w
<1>1. \A i \in 1 .. w : w - i \in Nat
  OBVIOUS
<1>2. \A i \in 1 .. w : (n \div 2 ^ (w - i)) % 2 \in BitValues
  BY <1>1 DEF BitValues
<1>3. Bits(n, w) \in [1 .. w -> BitValues]
  BY <1>2 DEF Bits
<1> HIDE DEF BitValues
<1> QED BY <1>3

LEMMA Joined ==
  ASSUME NEW S, NEW a \in Seq(S), NEW b \in Seq(S)
  PROVE  /\ (a \o b) \in Seq(S) /\ Len(a \o b) = Len(a) + Len(b)
         /\ \A i \in 1 .. Len(a) : (a \o b)[i] = a[i]
         /\ \A i \in 1 .. Len(b) : (a \o b)[Len(a) + i] = b[i]
BY ConcatProperties

\* Two bits, the bits of an address, and the stop bit.
LEMMA ReadShape ==
  ASSUME NEW n \in Nat, game \in Nat
  PROVE  LET c == ReadCommand(n) IN
         /\ c \in Seq(BitValues) /\ Len(c) = 3 + game /\ c[1] = 1 /\ c[2] = 1
         /\ \A i \in 1 .. game : c[2 + i] = Bits(n, game)[i]
<1> DEFINE h == <<1, 1>>
           b == Bits(n, game)
           t == <<0>>
           p == h \o b
           q == p \o t
<1>1. h \in Seq(BitValues) /\ Len(h) = 2 /\ h[1] = 1 /\ h[2] = 1
  BY DEF BitValues
<1>2. t \in Seq(BitValues) /\ Len(t) = 1
  BY DEF BitValues
<1>3. b \in Seq(BitValues) /\ Len(b) = game
  BY BitsType
<1> HIDE DEF h, b, t
<1>4. /\ p \in Seq(BitValues) /\ Len(p) = 2 + game
      /\ \A i \in 1 .. 2 : p[i] = h[i]
      /\ \A i \in 1 .. game : p[2 + i] = b[i]
  <2>0. h \in Seq(BitValues) /\ b \in Seq(BitValues)
    BY <1>1, <1>3
  <2>1. /\ p \in Seq(BitValues) /\ Len(p) = Len(h) + Len(b)
        /\ \A i \in 1 .. Len(h) : p[i] = h[i]
        /\ \A i \in 1 .. Len(b) : p[Len(h) + i] = b[i]
    BY ONLY <2>0, Joined
  <2> HIDE DEF p
  <2> QED BY <1>1, <1>3, <2>1
<1> HIDE DEF p
<1>5. /\ q \in Seq(BitValues) /\ Len(q) = 3 + game
      /\ \A i \in 1 .. 2 + game : q[i] = p[i]
  <2>0. p \in Seq(BitValues) /\ t \in Seq(BitValues)
    BY <1>2, <1>4
  <2>1. /\ q \in Seq(BitValues) /\ Len(q) = Len(p) + Len(t)
        /\ \A i \in 1 .. Len(p) : q[i] = p[i]
        /\ \A i \in 1 .. Len(t) : q[Len(p) + i] = t[i]
    BY ONLY <2>0, Joined
  <2> HIDE DEF q
  <2> QED BY <1>2, <1>4, <2>1
<1>6. ReadCommand(n) = q
  BY DEF ReadCommand, h, b, t, p, q
<1> HIDE DEF q
<1>7. q[1] = 1 /\ q[2] = 1
  BY <1>1, <1>4, <1>5
<1>8. \A i \in 1 .. game : q[2 + i] = b[i]
  <2> SUFFICES ASSUME NEW i \in 1 .. game PROVE q[2 + i] = b[i]
    OBVIOUS
  <2>1. 2 + i \in 1 .. 2 + game
    OBVIOUS
  <2> QED BY <1>4, <1>5, <2>1
<1> QED BY <1>5, <1>6, <1>7, <1>8 DEF b

\* The same with a word before the stop bit.
LEMMA WriteShape ==
  ASSUME NEW n \in Nat, game \in Nat, NEW w \in Word
  PROVE  LET c == WriteCommand(n, w) IN
         /\ c \in Seq(BitValues) /\ Len(c) = 3 + game + WordBits /\ c[1] = 1 /\ c[2] = 0
         /\ \A i \in 1 .. game : c[2 + i] = Bits(n, game)[i]
         /\ \A i \in 1 .. WordBits : c[2 + game + i] = w[i]
<1> DEFINE h == <<1, 0>>
           b == Bits(n, game)
           t == <<0>>
           p == h \o b
           r == p \o w
           q == r \o t
           m == WordBits
<1>0. m \in Nat
  BY BackupAssumption
<1>1. h \in Seq(BitValues) /\ Len(h) = 2 /\ h[1] = 1 /\ h[2] = 0
  BY DEF BitValues
<1>2. t \in Seq(BitValues) /\ Len(t) = 1
  BY DEF BitValues
<1>3. b \in Seq(BitValues) /\ Len(b) = game
  BY BitsType
<1>w. w \in Seq(BitValues) /\ Len(w) = m
  <2>1. w \in [1 .. m -> BitValues]
    BY DEF Word, BitValues
  <2> HIDE DEF BitValues, m
  <2> QED BY <1>0, <2>1
<1> HIDE DEF h, b, t, m
<1>4. /\ p \in Seq(BitValues) /\ Len(p) = 2 + game
      /\ \A i \in 1 .. 2 : p[i] = h[i]
      /\ \A i \in 1 .. game : p[2 + i] = b[i]
  <2>0. h \in Seq(BitValues) /\ b \in Seq(BitValues)
    BY <1>1, <1>3
  <2>1. /\ p \in Seq(BitValues) /\ Len(p) = Len(h) + Len(b)
        /\ \A i \in 1 .. Len(h) : p[i] = h[i]
        /\ \A i \in 1 .. Len(b) : p[Len(h) + i] = b[i]
    BY ONLY <2>0, Joined
  <2> HIDE DEF p
  <2> QED BY <1>1, <1>3, <2>1
<1> HIDE DEF p
<1>r. /\ r \in Seq(BitValues) /\ Len(r) = 2 + game + m
      /\ \A i \in 1 .. 2 + game : r[i] = p[i]
      /\ \A i \in 1 .. m : r[2 + game + i] = w[i]
  <2>0. p \in Seq(BitValues) /\ w \in Seq(BitValues)
    BY <1>w, <1>4
  <2>1. /\ r \in Seq(BitValues) /\ Len(r) = Len(p) + Len(w)
        /\ \A i \in 1 .. Len(p) : r[i] = p[i]
        /\ \A i \in 1 .. Len(w) : r[Len(p) + i] = w[i]
    BY ONLY <2>0, Joined
  <2> HIDE DEF r
  <2> QED BY <1>w, <1>4, <2>1
<1> HIDE DEF r
<1>5. /\ q \in Seq(BitValues) /\ Len(q) = 3 + game + m
      /\ \A i \in 1 .. 2 + game + m : q[i] = r[i]
  <2>0. r \in Seq(BitValues) /\ t \in Seq(BitValues)
    BY <1>0, <1>2, <1>r
  <2>1. /\ q \in Seq(BitValues) /\ Len(q) = Len(r) + Len(t)
        /\ \A i \in 1 .. Len(r) : q[i] = r[i]
        /\ \A i \in 1 .. Len(t) : q[Len(r) + i] = t[i]
    BY ONLY <2>0, Joined
  <2> HIDE DEF q
  <2> QED BY <1>0, <1>2, <1>r, <2>1
<1>6. WriteCommand(n, w) = q
  BY DEF WriteCommand, h, b, t, p, q, r
<1> HIDE DEF q
<1>7. q[1] = 1 /\ q[2] = 0
  <2>1. 1 \in 1 .. 2 + game + m /\ 2 \in 1 .. 2 + game + m /\ 1 \in 1 .. 2 + game /\ 2 \in 1 .. 2 + game
    BY <1>0
  <2> QED BY <1>1, <1>4, <1>r, <1>5, <2>1
<1>8. \A i \in 1 .. game : q[2 + i] = b[i]
  <2> SUFFICES ASSUME NEW i \in 1 .. game PROVE q[2 + i] = b[i]
    OBVIOUS
  <2>1. 2 + i \in 1 .. 2 + game /\ 2 + i \in 1 .. 2 + game + m
    BY <1>0
  <2> QED BY <1>4, <1>r, <1>5, <2>1
<1>9. \A i \in 1 .. m : q[2 + game + i] = w[i]
  <2> SUFFICES ASSUME NEW i \in 1 .. m PROVE q[2 + game + i] = w[i]
    OBVIOUS
  <2>1. 2 + game + i \in 1 .. 2 + game + m
    BY <1>0
  <2> QED BY <1>r, <1>5, <2>1
<1> QED BY <1>5, <1>6, <1>7, <1>8, <1>9 DEF b, m

LEMMA CommandShape ==
  ASSUME game \in Nat, NEW c \in Commands
  PROVE  LET x == BitsOf(c) IN
         /\ x \in Seq(BitValues) /\ x[1] = 1 /\ x[2] \in {0, 1}
         /\ Len(x) = 3 + game + (IF x[2] = 1 THEN 0 ELSE WordBits)
         /\ \E n \in 0 .. 2 ^ game - 1 :
              /\ \A i \in 1 .. game : x[2 + i] = Bits(n, game)[i]
              /\ x[2] = 1 => c = <<n>>
              /\ x[2] # 1 => \E w \in Word : /\ c = <<n, w>>
                                             /\ \A i \in 1 .. WordBits : x[2 + game + i] = w[i]
<1>1. ASSUME NEW n \in 0 .. 2 ^ game - 1 PROVE n \in Nat
  OBVIOUS
<1>2. CASE \E n \in 0 .. 2 ^ game - 1 : c = <<n>>
  <2>1. PICK n \in 0 .. 2 ^ game - 1 : c = <<n>>
    BY <1>2
  <2>2. BitsOf(c) = ReadCommand(n)
    BY <2>1 DEF BitsOf
  <2> DEFINE x == ReadCommand(n)
  <2>3. /\ x \in Seq(BitValues) /\ Len(x) = 3 + game /\ x[1] = 1 /\ x[2] = 1
        /\ \A i \in 1 .. game : x[2 + i] = Bits(n, game)[i]
    BY <1>1, ReadShape
  <2>4. \A i \in 1 .. game : x[2 + i] = Bits(n, game)[i]
    BY <2>3
  <2> HIDE DEF x
  <2>5. /\ x \in Seq(BitValues) /\ x[1] = 1 /\ x[2] = 1
        /\ Len(x) = 3 + game
    BY <2>3
  <2>6. BitsOf(c) = x
    BY <2>2 DEF x
  <2> DEFINE y == BitsOf(c)
  <2>7. y = x
    BY <2>6
  <2> HIDE DEF y
  <2>8. /\ \A i \in 1 .. game : y[2 + i] = Bits(n, game)[i]
        /\ y[2] = 1 => c = <<n>>
        /\ y[2] = 1
    BY <2>1, <2>4, <2>5, <2>7
  <2>9. y \in Seq(BitValues) /\ y[1] = 1 /\ y[2] = 1 /\ Len(y) = 3 + game
    BY <2>5, <2>7
  <2> QED BY <2>8, <2>9 DEF y
<1>3. CASE \E n \in 0 .. 2 ^ game - 1 : \E w \in Word : c = <<n, w>>
  <2>1. PICK n \in 0 .. 2 ^ game - 1, w \in Word : c = <<n, w>>
    BY <1>3
  <2>2. BitsOf(c) = WriteCommand(n, w)
    BY <2>1 DEF BitsOf
  <2> DEFINE x == WriteCommand(n, w)
  <2>3. /\ x \in Seq(BitValues) /\ Len(x) = 3 + game + WordBits /\ x[1] = 1 /\ x[2] = 0
        /\ \A i \in 1 .. game : x[2 + i] = Bits(n, game)[i]
        /\ \A i \in 1 .. WordBits : x[2 + game + i] = w[i]
    BY <1>1, WriteShape
  <2>4. \A i \in 1 .. game : x[2 + i] = Bits(n, game)[i]
    BY <2>3
  <2>5. \A i \in 1 .. WordBits : x[2 + game + i] = w[i]
    BY <2>3
  <2> HIDE DEF x
  <2>6. /\ x \in Seq(BitValues) /\ x[1] = 1 /\ x[2] = 0
        /\ Len(x) = 3 + game + WordBits
    BY <2>3
  <2>7. BitsOf(c) = x
    BY <2>2 DEF x
  <2> DEFINE y == BitsOf(c)
  <2>8. y = x
    BY <2>7
  <2> HIDE DEF y
  <2>9. /\ \A i \in 1 .. game : y[2 + i] = Bits(n, game)[i]
        /\ y[2] = 0
        /\ c = <<n, w>> /\ \A i \in 1 .. WordBits : y[2 + game + i] = w[i]
    BY <2>1, <2>4, <2>5, <2>6, <2>8
  <2>10. y \in Seq(BitValues) /\ y[1] = 1 /\ y[2] = 0 /\ Len(y) = 3 + game + WordBits
    BY <2>6, <2>8
  <2>11. \E v \in Word : c = <<n, v>> /\ \A i \in 1 .. WordBits : y[2 + game + i] = v[i]
    BY <2>9
  <2>12. \E k \in 0 .. 2 ^ game - 1 :
           /\ \A i \in 1 .. game : y[2 + i] = Bits(k, game)[i]
           /\ y[2] = 1 => c = <<k>>
           /\ y[2] # 1 => \E v \in Word : /\ c = <<k, v>>
                                          /\ \A i \in 1 .. WordBits : y[2 + game + i] = v[i]
    BY <2>9, <2>11
  <2> QED BY <2>10, <2>12 DEF y
<1>4. \/ \E n \in 0 .. 2 ^ game - 1 : c = <<n>>
      \/ \E n \in 0 .. 2 ^ game - 1 : \E w \in Word : c = <<n, w>>
  BY DEF Commands
<1> QED BY <1>2, <1>3, <1>4

\* No command is sent as nothing.
LEMMA BitsShow ==
  ASSUME game \in Nat, NEW c \in Commands
  PROVE  BitsOf(c) # <<>>
<1> DEFINE x == BitsOf(c)
<1>1. Len(x) = 3 + game + (IF x[2] = 1 THEN 0 ELSE WordBits) /\ WordBits \in Nat
  BY CommandShape, BackupAssumption
<1> HIDE DEF x
<1>2. Len(x) > 0
  BY <1>1
<1>3. x # <<>>
  BY <1>2
<1> QED BY <1>3 DEF x

\* The bits of a number tell the number.
LEMMA NumberOfBits ==
  ASSUME NEW w \in Nat, w \in {SmallBits, LargeBits},
         NEW n \in 0 .. 2 ^ w - 1, NEW b \in Seq(BitValues), Len(b) = w,
         \A i \in 1 .. w : b[i] = Bits(n, w)[i]
  PROVE  ToNumber(b) = n
<1>1. n \in Nat
  OBVIOUS
<1>2. Bits(n, w) \in Seq(BitValues) /\ Len(Bits(n, w)) = w
  BY <1>1, BitsType
<1>3. Bits(n, w) = b
  BY <1>2, SeqEqual
<1>4. \E m \in 0 .. 2 ^ w - 1 : Bits(m, w) = b
  BY <1>3
<1>5. ToNumber(b) \in 0 .. 2 ^ w - 1 /\ Bits(ToNumber(b), w) = b
  BY <1>4 DEF ToNumber
<1> QED BY <1>3, <1>5, BitsTellNumbers

LEMMA WordsType ==
  /\ ErasedWord \in Word
  /\ SmallBits \in Nat \ {0} /\ LargeBits \in Nat \ {0} /\ WordBits \in Nat \ {0} /\ DummyBits \in Nat
  /\ SmallBits < LargeBits /\ WordBits # LargeBits - SmallBits
  /\ \A w : BlocksOf(w) \in Nat \ {0}
BY BackupAssumption DEF ErasedWord, Word, BlocksOf

\* What a content becomes when it is resized.
LEMMA ResizedType ==
  ASSUME NEW w, NEW d, d = <<>> \/ d \in [0 .. BlocksOf(w) - 1 -> Word]
  PROVE  /\ Resized(d, w) \in [0 .. BlocksOf(w) - 1 -> Word]
         /\ d # <<>> => Resized(d, w) = d
         /\ d \in [0 .. BlocksOf(w) - 1 -> Word] => Resized(d, w) = d
<1> DEFINE D == 0 .. BlocksOf(w) - 1
<1> HIDE DEF D
<1>1. Resized(d, w) = [b \in D |-> IF b \in DOMAIN d THEN d[b] ELSE ErasedWord]
  BY DEF Resized, D
<1>2. CASE d \in [D -> Word]
  <2>1. Resized(d, w) = d
    BY <1>1, <1>2
  <2> QED BY <1>2, <2>1 DEF D
<1>3. CASE d = <<>> /\ d \notin [D -> Word]
  <2>1. DOMAIN d = {}
    BY <1>3
  <2>2. Resized(d, w) = [b \in D |-> ErasedWord]
    BY <1>1, <2>1
  <2>3. Resized(d, w) \in [D -> Word]
    BY <2>2, WordsType
  <2> QED BY <1>3, <2>3 DEF D
<1> QED BY <1>2, <1>3 DEF D

\* The state of the chip, between bits: its size is the one of its game, or is
\* still unknown and a command can still tell it.
Serial ==
  type = "Eeprom" =>
    /\ game \in {SmallBits, LargeBits} /\ width \in {0, game}
    /\ width = 0 => data = <<>>
    /\ width # 0 => data \in [0 .. BlocksOf(game) - 1 -> Word]
    /\ answer \in Seq({0, 1}) /\ Len(answer) <= DummyBits + WordBits

\* The bits the chip has taken in and the bits still to come are a command.
Underway(c) ==
  /\ stream \in Seq(BitValues) /\ sending \in Seq(BitValues)
  /\ Len(stream) + Len(sending) = Len(c)
  /\ \A i \in 1 .. Len(stream) : stream[i] = c[i]
  /\ \A i \in 1 .. Len(sending) : sending[i] = c[Len(stream) + i]

Sending ==
  /\ sending = <<>> => stream = <<>> /\ command = <<>>
  /\ sending # <<>> => /\ type = "Eeprom"
                       /\ width # 0 \/ game = SmallBits
                       /\ generation < MaxWrites
                       /\ command \in Commands /\ Underway(BitsOf(command))

\* The content the chip has, or will have once it is sized.
Content == Resized(data, game)

LEMMA ContentType ==
  ASSUME Serial, type = "Eeprom"
  PROVE  /\ Content \in [0 .. BlocksOf(game) - 1 -> Word]
         /\ width = game => Content = data
         /\ width # game => data = <<>> /\ width = 0
         /\ game \in Nat \ {0} /\ game # 0
<1>1. game \in Nat \ {0}
  BY WordsType DEF Serial
<1> QED BY <1>1, ResizedType DEF Serial, Content

\* The chip as a record.
ChipOf(d, w, s, a, r) == [data |-> d, width |-> w, stream |-> s, answer |-> a, wrote |-> r]

\* The chip of the game's size, with these words and bits.
Unwritten == FALSE
Written == TRUE
Fed(d, s) == ChipOf(d, game, s, answer, Unwritten)

\* With a bit, the chip is sized if it was not, and takes the bit in.
LEMMA TakesBit ==
  ASSUME Serial, type = "Eeprom", width # 0 \/ game = SmallBits, NEW bit
  PROVE  LET fed == Fed(Content, Append(stream, bit)) IN
         Received(Eeprom, bit) =
           IF Len(fed.stream) = 2 /\ fed.stream[1] = 0 THEN [fed EXCEPT !.stream = <<>>]
           ELSE IF Len(fed.stream) >= 2 /\ Len(fed.stream) >= Needed(fed) THEN FinishCommand(fed)
           ELSE fed
<1> DEFINE known == IF width = 0 THEN Sized(Eeprom, SmallBits) ELSE Eeprom
<1>1. Eeprom = ChipOf(data, width, stream, answer, Unwritten)
  BY DEF Eeprom, ChipOf, Unwritten
<1>2. known = Fed(Content, stream)
  <2>1. CASE width = 0
    <3>1. game = SmallBits
      BY <2>1
    <3>2. Eeprom.data = data
      BY DEF Eeprom
    <3>3. known = [Eeprom EXCEPT !.width = game, !.data = Content]
      BY <2>1, <3>1, <3>2 DEF Sized, Content
    <3>4. [Eeprom EXCEPT !.width = game, !.data = Content] = Fed(Content, stream)
      <4>1. [Eeprom EXCEPT !.width = game] = ChipOf(data, game, stream, answer, Unwritten)
        BY <1>1 DEF ChipOf
      <4>2. [ChipOf(data, game, stream, answer, Unwritten) EXCEPT !.data = Content] =
              Fed(Content, stream)
        BY DEF Fed, ChipOf
      <4> QED BY <4>1, <4>2
    <3> QED BY <3>3, <3>4
  <2>2. CASE width # 0
    <3>1. width = game /\ Content = data
      BY <2>2, ContentType
    <3> QED BY <1>1, <2>2, <3>1 DEF Fed
  <2> QED BY <2>1, <2>2
<1>3. Eeprom.width = width
  BY DEF Eeprom
<1>4. [known EXCEPT !.stream = Append(@, bit)] = Fed(Content, Append(stream, bit))
  <2>1. known.stream = stream
    BY <1>2 DEF Fed, ChipOf
  <2> HIDE DEF known
  <2>2. [known EXCEPT !.stream = Append(@, bit)] = [known EXCEPT !.stream = Append(stream, bit)]
    BY <2>1
  <2> QED BY <1>2, <2>2, SMTT(30) DEF Fed, ChipOf
<1>5. Received(Eeprom, bit) =
        LET fed == [known EXCEPT !.stream = Append(@, bit)] IN
        IF Len(fed.stream) = 2 /\ fed.stream[1] = 0 THEN [fed EXCEPT !.stream = <<>>]
        ELSE IF Len(fed.stream) >= 2 /\ Len(fed.stream) >= Needed(fed) THEN FinishCommand(fed)
        ELSE fed
  <2>1. known = IF Eeprom.width = 0 THEN Sized(Eeprom, SmallBits) ELSE Eeprom
    BY <1>3
  <2> HIDE DEF known
  <2> QED BY <2>1 DEF Received
<1> HIDE DEF known
<1> QED BY <1>4, <1>5

\* A finished command answers with a word or stores one.
LEMMA Finishes ==
  ASSUME NEW d, NEW s
  PROVE  LET block == ToNumber(SubSeq(s, 3, 2 + game)) % BlocksOf(game)
             word  == SubSeq(s, 3 + game, 2 + game + WordBits)
         IN  /\ s[2] = 1 => FinishCommand(Fed(d, s)) =
                  ChipOf(d, game, <<>>, [i \in 1 .. DummyBits |-> 0] \o d[block], Unwritten)
             /\ s[2] # 1 => FinishCommand(Fed(d, s)) =
                  ChipOf([d EXCEPT ![block] = word], game, <<>>, <<>>, Written)
<1> DEFINE block == ToNumber(SubSeq(s, 3, 2 + game)) % BlocksOf(game)
           word  == SubSeq(s, 3 + game, 2 + game + WordBits)
           e     == Fed(d, s)
           done  == [e EXCEPT !.stream = <<>>]
           reply == [i \in 1 .. DummyBits |-> 0] \o d[block]
<1>1. e.data = d /\ e.width = game /\ e.stream = s
  BY DEF Fed, ChipOf
<1>2. done = ChipOf(d, game, <<>>, answer, Unwritten)
  BY DEF Fed, ChipOf
<1> HIDE DEF done, e
<1>3. FinishCommand(e) =
        IF s[2] = 1
        THEN [done EXCEPT !.answer = reply]
        ELSE [done EXCEPT !.data[block] = word, !.answer = <<>>, !.wrote = Written]
  BY <1>1 DEF FinishCommand, done, Written
<1> HIDE DEF block, word, reply
<1>4. [done EXCEPT !.answer = reply] = ChipOf(d, game, <<>>, reply, Unwritten)
  BY <1>2 DEF ChipOf
<1>5. [done EXCEPT !.data[block] = word, !.answer = <<>>, !.wrote = Written] =
        ChipOf([d EXCEPT ![block] = word], game, <<>>, <<>>, Written)
  <2> DEFINE c(f, a) == ChipOf(f, game, <<>>, a, Unwritten)
             f == [d EXCEPT ![block] = word]
  <2>1. done.data = d
    BY <1>2 DEF ChipOf
  <2>2. [done EXCEPT !.data[block] = word] = [done EXCEPT !.data = [done.data EXCEPT ![block] = word]]
    OBVIOUS
  <2>3. [done EXCEPT !.data = f] = c(f, answer)
    BY <1>2 DEF ChipOf
  <2>4. [done EXCEPT !.data[block] = word] = c(f, answer)
    BY <2>1, <2>2, <2>3
  <2>5. [c(f, answer) EXCEPT !.answer = <<>>] = c(f, <<>>)
    BY DEF ChipOf
  <2>6. [c(f, <<>>) EXCEPT !.wrote = Written] = ChipOf(f, game, <<>>, <<>>, Written)
    BY DEF ChipOf
  <2> HIDE DEF c, f
  <2>7. [done EXCEPT !.data[block] = word, !.answer = <<>>, !.wrote = Written] =
          ChipOf(f, game, <<>>, <<>>, Written)
    BY <2>4, <2>5, <2>6
  <2> QED BY <2>7 DEF f
<1> QED BY <1>3, <1>4, <1>5 DEF block, word, reply, e

\* A bit moves from what is to come to what has come.
LEMMA BitMoves ==
  ASSUME NEW c, Underway(c), sending # <<>>, Len(c) \in Nat
  PROVE  LET s == Append(stream, Head(sending))
             t == Tail(sending)
         IN  /\ s \in Seq(BitValues) /\ t \in Seq(BitValues)
             /\ Len(s) = Len(stream) + 1 /\ Len(s) + Len(t) = Len(c)
             /\ \A i \in 1 .. Len(s) : s[i] = c[i]
             /\ \A i \in 1 .. Len(t) : t[i] = c[Len(s) + i]
<1> DEFINE x == Head(sending)
           s == Append(stream, x)
           t == Tail(sending)
<1>1. stream \in Seq(BitValues) /\ sending \in Seq(BitValues)
  BY DEF Underway
<1>2. /\ t \in Seq(BitValues) /\ Len(t) = Len(sending) - 1 /\ Len(sending) \in Nat \ {0}
      /\ x \in BitValues /\ x = sending[1]
      /\ \A i \in 1 .. Len(sending) - 1 : t[i] = sending[i + 1]
  <2>1. sending \in Seq(BitValues) /\ sending # <<>>
    BY <1>1
  <2> QED BY ONLY <2>1, HeadTailProperties
<1> HIDE DEF x, t
<1>3. /\ s \in Seq(BitValues) /\ Len(s) = Len(stream) + 1 /\ s[Len(stream) + 1] = x
      /\ \A i \in 1 .. Len(stream) : s[i] = stream[i]
  <2>1. stream \in Seq(BitValues) /\ x \in BitValues
    BY <1>1, <1>2
  <2> QED BY ONLY <2>1, AppendProperties
<1> HIDE DEF s
<1>4. /\ Len(stream) + Len(sending) = Len(c) /\ Len(stream) \in Nat
      /\ \A i \in 1 .. Len(stream) : stream[i] = c[i]
      /\ \A i \in 1 .. Len(sending) : sending[i] = c[Len(stream) + i]
  BY <1>1 DEF Underway
<1>5. Len(s) + Len(t) = Len(c)
  <2>1. /\ Len(s) = Len(stream) + 1 /\ Len(t) = Len(sending) - 1
        /\ Len(stream) \in Nat /\ Len(sending) \in Nat
        /\ Len(stream) + Len(sending) = Len(c)
    BY <1>2, <1>3, <1>4
  <2> QED BY ONLY <2>1
<1>6. ASSUME NEW i \in 1 .. Len(s) PROVE s[i] = c[i]
  <2>1. CASE i = Len(stream) + 1
    <3>1. sending[1] = c[Len(stream) + 1]
      BY <1>2, <1>4
    <3> QED BY <1>2, <1>3, <2>1, <3>1
  <2>2. CASE i # Len(stream) + 1
    <3>1. i \in 1 .. Len(stream)
      BY <1>3, <1>4, <2>2
    <3> QED BY <1>3, <1>4, <3>1
  <2> QED BY <2>1, <2>2
<1>7. ASSUME NEW i \in 1 .. Len(t) PROVE t[i] = c[Len(s) + i]
  <2>1. i \in 1 .. Len(sending) - 1 /\ i + 1 \in 1 .. Len(sending)
        /\ Len(stream) + (i + 1) = Len(s) + i
    BY <1>2, <1>3, <1>4
  <2>2. t[i] = sending[i + 1] /\ sending[i + 1] = c[Len(stream) + (i + 1)]
    BY <1>2, <1>4, <2>1
  <2> QED BY <2>1, <2>2
<1> QED BY <1>2, <1>3, <1>5, <1>6, <1>7 DEF s, t, x

\* The part of a stream of bits from one place to another.
LEMMA PartOf ==
  ASSUME NEW S, NEW s \in Seq(S), NEW k \in Nat, NEW n \in Nat, k + n <= Len(s)
  PROVE  LET p == SubSeq(s, k + 1, k + n) IN
         p \in Seq(S) /\ Len(p) = n /\ \A i \in 1 .. n : p[i] = s[k + i]
<1> DEFINE p == SubSeq(s, k + 1, k + n)
<1>1. \A i \in k + 1 .. k + n : s[i] \in S
  <2> SUFFICES ASSUME NEW i \in k + 1 .. k + n PROVE s[i] \in S
    OBVIOUS
  <2>1. i \in 1 .. Len(s)
    OBVIOUS
  <2> QED BY <2>1
<1>2. k + 1 \in Int /\ k + n \in Int
  OBVIOUS
<1>3. /\ p \in Seq(S)
      /\ Len(p) = IF k + 1 <= k + n THEN k + n - (k + 1) + 1 ELSE 0
      /\ \A i \in 1 .. k + n - (k + 1) + 1 : p[i] = s[(k + 1) + i - 1]
  BY ONLY <1>1, <1>2, SubSeqProperties
<1> HIDE DEF p
<1>4. Len(p) = n
  BY <1>3
<1>5. ASSUME NEW i \in 1 .. n PROVE p[i] = s[k + i]
  <2>1. i \in 1 .. k + n - (k + 1) + 1 /\ (k + 1) + i - 1 = k + i
    OBVIOUS
  <2> QED BY <1>3, <2>1
<1> QED BY <1>3, <1>4, <1>5 DEF p

\* What a complete command names: a word of the chip, and what to store there.
LEMMA CommandNames ==
  ASSUME Serial, type = "Eeprom", command \in Commands, NEW s \in Seq(BitValues),
         Len(s) = Len(BitsOf(command)), \A i \in 1 .. Len(s) : s[i] = BitsOf(command)[i]
  PROVE  LET n == ToNumber(SubSeq(s, 3, 2 + game))
             w == SubSeq(s, 3 + game, 2 + game + WordBits)
         IN  /\ n % BlocksOf(game) \in 0 .. BlocksOf(game) - 1
             /\ s[2] = 1 => Request = <<n % BlocksOf(game)>>
             /\ s[2] # 1 => w \in Word /\ Request = <<n % BlocksOf(game), w>>
<1> DEFINE c == BitsOf(command)
<1>1. game \in Nat \ {0}
  BY ContentType
<1>2. /\ c \in Seq(BitValues) /\ c[2] \in {0, 1}
      /\ Len(c) = 3 + game + (IF c[2] = 1 THEN 0 ELSE WordBits)
  BY <1>1, CommandShape
<1>n. PICK n \in 0 .. 2 ^ game - 1 :
        /\ \A i \in 1 .. game : c[2 + i] = Bits(n, game)[i]
        /\ c[2] = 1 => command = <<n>>
        /\ c[2] # 1 => \E w \in Word : /\ command = <<n, w>>
                                       /\ \A i \in 1 .. WordBits : c[2 + game + i] = w[i]
  BY <1>1, CommandShape
<1> HIDE DEF c
<1>h. Len(s) = Len(c) /\ \A i \in 1 .. Len(s) : s[i] = c[i]
  BY DEF c
<1>m. WordBits \in Nat \ {0}
  BY WordsType
<1> DEFINE g == game
           m == WordBits
           b == SubSeq(s, 3, 2 + g)
           v == SubSeq(s, 3 + g, 2 + g + m)
<1>3. /\ b \in Seq(BitValues) /\ Len(b) = g /\ \A i \in 1 .. g : b[i] = s[2 + i]
  <2> DEFINE k == 2
  <2>1. k \in Nat /\ g \in Nat /\ k + g <= Len(s) /\ s \in Seq(BitValues)
    BY <1>1, <1>2, <1>m, <1>h
  <2> HIDE DEF k, g
  <2>2. LET p == SubSeq(s, k + 1, k + g) IN
        p \in Seq(BitValues) /\ Len(p) = g /\ \A i \in 1 .. g : p[i] = s[k + i]
    BY ONLY <2>1, PartOf
  <2>3. SubSeq(s, k + 1, k + g) = SubSeq(s, 3, 2 + g)
    BY <2>1 DEF k
  <2> QED BY <2>2, <2>3 DEF k
<1>4. ToNumber(b) = n
  <2>1. ASSUME NEW i \in 1 .. game PROVE b[i] = Bits(n, game)[i]
    <3>1. 2 + i \in 1 .. Len(s)
      BY <1>1, <1>2, <1>m, <1>h
    <3>2. b[i] = s[2 + i]
      BY <1>3
    <3> HIDE DEF b
    <3> QED BY <1>n, <1>h, <3>1, <3>2
  <2>2. game \in {SmallBits, LargeBits}
    BY DEF Serial
  <2> HIDE DEF b
  <2> QED BY <1>1, <1>3, <2>1, <2>2, NumberOfBits
<1>5. BlocksOf(game) \in Nat \ {0}
  BY WordsType
<1>6. ToNumber(b) % BlocksOf(game) \in 0 .. BlocksOf(game) - 1
  <2> DEFINE x == ToNumber(b)
             y == BlocksOf(game)
  <2> HIDE DEF x, y
  <2>1. x \in Nat /\ y \in Nat \ {0}
    BY <1>4, <1>5 DEF x, y
  <2>2. x % y \in 0 .. y - 1
    BY <2>1
  <2> QED BY <2>2 DEF x, y
<1>c. s[2] = c[2]
  BY <1>1, <1>2, <1>m, <1>h
<1>7. ASSUME s[2] # 1 PROVE v \in Word /\ command = <<n, v>>
  <2>2. Len(s) = 3 + g + m
    BY <1>2, <1>7, <1>c, <1>h
  <2>3. PICK w \in Word : /\ command = <<n, w>>
                          /\ \A i \in 1 .. WordBits : c[2 + game + i] = w[i]
    BY <1>n, <1>7, <1>c
  <2>4. v \in Seq(BitValues) /\ Len(v) = m /\ \A i \in 1 .. m : v[i] = s[2 + g + i]
    <3> DEFINE k == 2 + g
    <3>1. k \in Nat /\ m \in Nat /\ k + m <= Len(s) /\ s \in Seq(BitValues)
      BY <1>1, <1>m, <2>2
    <3>2. k + 1 = 3 + g
      BY <1>1
    <3> HIDE DEF k, m
    <3>3. LET p == SubSeq(s, k + 1, k + m) IN
          p \in Seq(BitValues) /\ Len(p) = m /\ \A i \in 1 .. m : p[i] = s[k + i]
      BY ONLY <3>1, PartOf
    <3> QED BY <3>2, <3>3 DEF k
  <2>5. w \in Seq({0, 1}) /\ Len(w) = m
    BY <1>m DEF Word
  <2> HIDE DEF v
  <2>6. ASSUME NEW i \in 1 .. m PROVE v[i] = w[i]
    <3>1. 2 + g + i \in 1 .. Len(s)
      BY <1>1, <1>m, <2>2
    <3> QED BY <2>3, <2>4, <3>1, <1>h
  <2>7. v = w
    <3>1. w \in Seq(BitValues \cup {0, 1}) /\ v \in Seq(BitValues \cup {0, 1})
      BY <2>4, <2>5
    <3> HIDE DEF m
    <3> QED BY <2>4, <2>5, <2>6, <3>1, SeqEqual
  <2> QED BY <2>3, <2>7
<1>8. s[2] = 1 => command = <<n>>
  BY <1>c, <1>n
<1> HIDE DEF b, v
<1>10. \A x : /\ command = <<x>> => Request = <<x % BlocksOf(game)>>
              /\ \A y : command = <<x, y>> => Request = <<x % BlocksOf(game), y>>
  BY DEF Request
<1>11. s[2] = 1 => Request = <<ToNumber(b) % BlocksOf(game)>>
  BY <1>4, <1>8, <1>10
<1>12. s[2] # 1 => v \in Word /\ Request = <<ToNumber(b) % BlocksOf(game), v>>
  BY <1>4, <1>7, <1>10
<1> QED BY <1>6, <1>11, <1>12 DEF b, v

\* What a bit does: it joins the others, or it is the last of its command, and
\* the command is carried out.
Answered(b) ==
  /\ data' = Content /\ UNCHANGED <<generation, dirty>>
  /\ answer' = [i \in 1 .. DummyBits |-> 0] \o Content[b]

Stored(b, w) ==
  /\ data' = [Content EXCEPT ![b] = w] /\ MarkWritten
  /\ answer' = <<>>

Joins ==
  /\ sending' # <<>>
  /\ data' = Content /\ answer' = answer /\ UNCHANGED <<generation, dirty>>
  /\ command' = command /\ \E c : c = BitsOf(command) /\ Underway(c)'

Completes ==
  /\ sending' = <<>> /\ stream' = <<>> /\ command' = <<>>
  /\ \E b \in 0 .. BlocksOf(game) - 1 :
       \/ Request = <<b>> /\ Answered(b)
       \/ \E w \in Word : Request = <<b, w>> /\ Stored(b, w)

LEMMA BitArrives ==
  ASSUME Serial, Sending, SendBit
  PROVE  type = "Eeprom" /\ width' = game /\ (Joins \/ Completes)
<1> DEFINE x == Head(sending)
           s == Append(stream, x)
           t == Tail(sending)
           fed == Fed(Content, s)
           done == Received(Eeprom, x)
<1>1. sending # <<>> /\ type = "Eeprom" /\ (width # 0 \/ game = SmallBits)
  BY DEF SendBit, Sending
<1>c. command \in Commands /\ Underway(BitsOf(command))
  BY <1>1 DEF Sending
<1>2. PICK c : c = BitsOf(command) /\ Underway(c)
  BY <1>c
<1>3. game \in Nat \ {0} /\ WordBits \in Nat \ {0}
  BY <1>1, ContentType, WordsType
<1>4. /\ c \in Seq(BitValues) /\ c[1] = 1 /\ c[2] \in {0, 1}
      /\ Len(c) = 3 + game + (IF c[2] = 1 THEN 0 ELSE WordBits)
  BY <1>2, <1>3, <1>c, CommandShape
<1>5. Len(c) \in Nat /\ Len(c) >= 3
  BY <1>3, <1>4
<1>6. /\ s \in Seq(BitValues) /\ t \in Seq(BitValues)
      /\ Len(s) = Len(stream) + 1 /\ Len(s) + Len(t) = Len(c)
      /\ \A i \in 1 .. Len(s) : s[i] = c[i]
      /\ \A i \in 1 .. Len(t) : t[i] = c[Len(s) + i]
  BY <1>1, <1>2, <1>5, BitMoves
<1>7. Len(s) \in Nat /\ Len(t) \in Nat /\ (t = <<>> <=> Len(t) = 0)
  <2>1. s \in Seq(BitValues) /\ t \in Seq(BitValues)
    BY <1>6
  <2> HIDE DEF s, t
  <2> QED BY ONLY <2>1, EmptySeq
<1>8. done = IF Len(fed.stream) = 2 /\ fed.stream[1] = 0 THEN [fed EXCEPT !.stream = <<>>]
             ELSE IF Len(fed.stream) >= 2 /\ Len(fed.stream) >= Needed(fed) THEN FinishCommand(fed)
             ELSE fed
  BY <1>1, TakesBit
<1>9. /\ sending' = t /\ game' = game /\ command' = IF sending' = <<>> THEN <<>> ELSE command
      /\ data' = done.data /\ width' = done.width /\ stream' = done.stream /\ answer' = done.answer
      /\ IF done.wrote THEN MarkWritten ELSE UNCHANGED <<generation, dirty>>
  BY DEF SendBit, Becomes
<1> HIDE DEF x, s, t, done
<1>10. fed.stream = s /\ fed.width = game
  BY DEF Fed, ChipOf
<1>11. Needed(fed) = 2 + game + (IF s[2] = 1 THEN 0 ELSE WordBits) + 1
  BY <1>10 DEF Needed
<1> HIDE DEF fed
<1>12. ~(Len(s) = 2 /\ s[1] = 0)
  <2> SUFFICES ASSUME Len(s) = 2 PROVE s[1] # 0
    OBVIOUS
  <2>1. s[1] = c[1]
    BY <1>6
  <2> QED BY <1>4, <2>1
<1>13. Len(s) >= 2 => Needed(fed) = Len(c)
  <2> SUFFICES ASSUME Len(s) >= 2 PROVE Needed(fed) = Len(c)
    OBVIOUS
  <2>1. s[2] = c[2]
    BY <1>6, <1>7
  <2> QED BY <1>3, <1>4, <1>11, <2>1
<1>14. CASE t # <<>>
  <2>1. ~(Len(s) >= 2 /\ Len(s) >= Needed(fed))
    BY <1>5, <1>6, <1>7, <1>13, <1>14
  <2>2. done = fed
    BY <1>8, <1>10, <1>12, <2>1
  <2>3. /\ data' = Content /\ width' = game /\ stream' = s /\ answer' = answer
        /\ UNCHANGED <<generation, dirty>>
    BY <1>9, <2>2 DEF fed, Fed, ChipOf, Unwritten
  <2>4. Underway(c)'
    BY <1>6, <1>9, <2>3 DEF Underway
  <2>5. command' = command /\ \E x1 : x1 = BitsOf(command) /\ Underway(x1)'
    BY <1>2, <1>9, <1>14, <2>4
  <2> QED BY <1>1, <1>9, <1>14, <2>3, <2>5 DEF Joins
<1>15. CASE t = <<>>
  <2>1. Len(s) = Len(c) /\ Len(s) >= 2 /\ Len(s) >= Needed(fed)
    BY <1>5, <1>6, <1>7, <1>13, <1>15
  <2>2. done = FinishCommand(fed)
    BY <1>8, <1>10, <1>12, <2>1
  <2> DEFINE b == ToNumber(SubSeq(s, 3, 2 + game)) % BlocksOf(game)
             w == SubSeq(s, 3 + game, 2 + game + WordBits)
  <2>3. /\ b \in 0 .. BlocksOf(game) - 1
        /\ s[2] = 1 => Request = <<b>>
        /\ s[2] # 1 => w \in Word /\ Request = <<b, w>>
    BY <1>1, <1>2, <1>c, <1>6, <2>1, CommandNames
  <2>4. /\ s[2] = 1 => done =
             ChipOf(Content, game, <<>>, [i \in 1 .. DummyBits |-> 0] \o Content[b], Unwritten)
        /\ s[2] # 1 => done = ChipOf([Content EXCEPT ![b] = w], game, <<>>, <<>>, Written)
    BY <2>2, Finishes DEF fed
  <2> HIDE DEF b, w
  <2>5. CASE s[2] = 1
    <3> DEFINE reply == [i \in 1 .. DummyBits |-> 0] \o Content[b]
    <3>0. done = ChipOf(Content, game, <<>>, reply, Unwritten)
      BY <2>4, <2>5
    <3> HIDE DEF reply
    <3>1. /\ data' = Content /\ width' = game /\ stream' = <<>> /\ answer' = reply
          /\ UNCHANGED <<generation, dirty>>
      BY <1>9, <3>0 DEF ChipOf, Unwritten
    <3>2. Answered(b)
      BY <3>1 DEF Answered, reply
    <3> QED BY <1>1, <1>9, <1>15, <2>3, <2>5, <3>1, <3>2 DEF Completes
  <2>6. CASE s[2] # 1
    <3>1. /\ data' = [Content EXCEPT ![b] = w] /\ width' = game /\ stream' = <<>>
          /\ answer' = <<>> /\ MarkWritten
      BY <1>9, <2>4, <2>6 DEF ChipOf, Written
    <3>2. Stored(b, w)
      BY <3>1 DEF Stored
    <3> QED BY <1>1, <1>9, <1>15, <2>3, <2>6, <3>1, <3>2 DEF Completes
  <2> QED BY <2>5, <2>6
<1> QED BY <1>14, <1>15

\* A DMA tells the chip the length of its command first: a chip that was not
\* sized takes the size of its game.
LEMMA DmaSizes ==
  ASSUME Serial, Sending, SendByDma
  PROVE  /\ type = "Eeprom" /\ data' = Content /\ width' = game /\ stream' = stream
         /\ UNCHANGED <<generation, dirty, answer>>
<1> DEFINE n == Len(sending')
           e == Prepared(Eeprom, n)
<1>1. type = "Eeprom" /\ command' \in Commands /\ sending' = BitsOf(command')
  BY DEF SendByDma
<1>2. game \in {SmallBits, LargeBits} /\ game \in Nat \ {0}
  BY <1>1, ContentType DEF Serial
<1>3. n \in {3 + game, 3 + game + WordBits}
  <2>1. /\ Len(sending') = 3 + game + (IF sending'[2] = 1 THEN 0 ELSE WordBits)
        /\ WordBits \in Nat
    BY <1>1, <1>2, CommandShape, WordsType
  <2> QED BY <1>2, <2>1
<1>4. /\ Eeprom = ChipOf(data, width, stream, answer, Unwritten)
      /\ Eeprom.width = width /\ Eeprom.data = data
  BY DEF Eeprom, ChipOf, Unwritten
<1>5. e = Fed(Content, stream)
  <2>1. CASE width # 0
    <3>1. width = game /\ Content = data
      BY <1>1, <2>1, ContentType DEF Serial
    <3>2. e = Eeprom
      BY <1>4, <2>1 DEF Prepared
    <3> QED BY <1>4, <3>1, <3>2 DEF Fed
  <2>2. CASE width = 0
    <3>1. e = Sized(Eeprom, game)
      <4> HIDE DEF n
      <4>1. CASE game = SmallBits
        <5>1. n \in {2 + SmallBits + 1, 2 + SmallBits + WordBits + 1}
          BY <1>2, <1>3, <4>1, WordsType
        <5> QED BY <1>4, <2>2, <4>1, <5>1 DEF Prepared
      <4>2. CASE game = LargeBits
        <5>1. n \in {2 + LargeBits + 1, 2 + LargeBits + WordBits + 1}
              /\ n \notin {2 + SmallBits + 1, 2 + SmallBits + WordBits + 1}
          BY <1>2, <1>3, <4>2, WordsType
        <5> QED BY <1>4, <2>2, <4>2, <5>1 DEF Prepared
      <4> QED BY <1>2, <4>1, <4>2
    <3>2. e = [Eeprom EXCEPT !.width = game, !.data = Content]
      BY <1>4, <3>1 DEF Sized, Content
    <3>3. [Eeprom EXCEPT !.width = game] = ChipOf(data, game, stream, answer, Unwritten)
      BY <1>4 DEF ChipOf
    <3>4. [ChipOf(data, game, stream, answer, Unwritten) EXCEPT !.data = Content] =
            Fed(Content, stream)
      BY DEF Fed, ChipOf
    <3> HIDE DEF e
    <3> QED BY <3>2, <3>3, <3>4
  <2> QED BY <2>1, <2>2
<1>6. Becomes(e)
  BY DEF SendByDma
<1> HIDE DEF e
<1> QED BY <1>1, <1>5, <1>6 DEF Becomes, Fed, ChipOf, Unwritten

\* A word with the dummy bits before it.
LEMMA AnswerType ==
  ASSUME Serial, type = "Eeprom", NEW b \in 0 .. BlocksOf(game) - 1, Answered(b)
  PROVE  answer' \in Seq({0, 1}) /\ Len(answer') <= DummyBits + WordBits
<1> DEFINE p == [i \in 1 .. DummyBits |-> 0]
           w == Content[b]
           m == WordBits
<1>1. m \in Nat /\ DummyBits \in Nat
  BY WordsType
<1>2. p \in Seq({0, 1}) /\ Len(p) = DummyBits
  BY <1>1
<1>3. w \in Word
  BY ContentType
<1>4. w \in Seq({0, 1}) /\ Len(w) = m
  <2> HIDE DEF w
  <2> QED BY <1>1, <1>3 DEF Word
<1>5. answer' = p \o w
  BY DEF Answered
<1> HIDE DEF p, w, m
<1>6. (p \o w) \in Seq({0, 1}) /\ Len(p \o w) = Len(p) + Len(w)
  BY <1>2, <1>4, Joined
<1> QED BY <1>1, <1>2, <1>4, <1>5, <1>6 DEF m

-----------------------------------------------------------------------------
(***************************************************************************)
(* The invariant of every chip, and the theorems.                          *)
(***************************************************************************)
Counted == generation \in 0 .. MaxWrites /\ dirty \in BOOLEAN

ChipInv == FlashInv /\ Serial /\ Sending /\ Counted /\ NothingUnmarked

LEMMA InitChip == Init => ChipInv
<1> SUFFICES ASSUME Init PROVE ChipInv
  OBVIOUS
<1>1. FlashInv
  BY InitFlash
<1>2. Serial
  <2> SUFFICES ASSUME type = "Eeprom"
               PROVE  /\ game \in {SmallBits, LargeBits} /\ width \in {0, game}
                      /\ width = 0 => data = <<>>
                      /\ width # 0 => data \in [0 .. BlocksOf(game) - 1 -> Word]
                      /\ answer \in Seq({0, 1}) /\ Len(answer) <= DummyBits + WordBits
    BY DEF Serial
  <2>1. game \in {SmallBits, LargeBits} /\ answer = <<>>
    BY DEF Init
  <2>2. answer \in Seq({0, 1}) /\ Len(answer) <= DummyBits + WordBits
    BY <2>1, WordsType
  <2>3. CASE data = <<>> /\ width = 0
    BY <2>1, <2>2, <2>3
  <2>4. CASE width = game /\ data \in {Resized([b \in {0} |-> w], game) : w \in Word}
    <3>1. PICK w \in Word : data = Resized([b \in {0} |-> w], game)
      BY <2>4
    <3>2. data \in [0 .. BlocksOf(game) - 1 -> Word]
      BY <3>1, WordsType DEF Resized
    <3>3. game # 0
      BY <2>1, WordsType
    <3> QED BY <2>1, <2>2, <2>4, <3>2, <3>3
  <2> QED BY <2>3, <2>4 DEF Init
<1>3. Sending /\ NothingUnmarked
  BY DEF Init, Sending, NothingUnmarked
<1>4. Counted
  <2>1. MaxWrites \in Nat
    BY BackupAssumption
  <2>2. generation = 0 /\ dirty = FALSE
    BY DEF Init
  <2>3. generation \in 0 .. MaxWrites
    BY <2>1, <2>2
  <2>4. dirty \in BOOLEAN
    BY <2>2
  <2> QED BY <2>3, <2>4 DEF Counted
<1> QED BY <1>1, <1>2, <1>3, <1>4 DEF ChipInv

\* What a step does to a chip, seen from the content.
LEMMA ChipSteps ==
  ASSUME ChipInv, [Next]_vars
  PROVE  /\ type' = type /\ game' = game
         /\ \/ type # "Eeprom" /\ UNCHANGED <<width, answer, sending, command, saved>>
               /\ generation < MaxWrites
               /\ (MarkWritten \/ UNCHANGED <<data, generation, dirty>>)
            \/ type = "Eeprom" /\ SendByDma
            \/ type = "Eeprom" /\ StartSending
            \/ type = "Eeprom" /\ SendBit
            \/ type = "Eeprom" /\ ReadBit
            \/ MarkClean
            \/ UNCHANGED vars
<1>1. CASE Write8
  <2>1. PICK s \in Stores : SramWrite(s[1], s[2]) \/ FlashWrite(s[1], s[2])
    BY <1>1 DEF Write8
  <2>2. type # "Eeprom" /\ generation < MaxWrites
        /\ UNCHANGED <<type, game, width, answer, sending, command, saved>>
    BY <1>1, <2>1 DEF Write8, SramWrite, FlashWrite, IsFlash, eeprom
  <2>3. MarkWritten \/ UNCHANGED <<data, generation, dirty>>
    <3>1. CASE SramWrite(s[1], s[2])
      BY <3>1 DEF SramWrite, Put, Keep, chip
    <3>2. CASE FlashWrite(s[1], s[2])
      BY <3>2, FlashDoes DEF ChipInv, Put, Erase, Keep, chip
    <3> QED BY <2>1, <3>1, <3>2
  <2> QED BY <2>2, <2>3
<1>2. CASE SendByDma \/ StartSending \/ ReadBit
  BY <1>2 DEF SendByDma, StartSending, ReadBit
<1>3. CASE SendBit
  BY <1>3, BitArrives DEF ChipInv, SendBit
<1>4. CASE MarkClean \/ UNCHANGED vars
  BY <1>4 DEF MarkClean, vars
<1> QED BY <1>1, <1>2, <1>3, <1>4 DEF Next

\* What is left of an answer is shorter.
LEMMA TailType ==
  ASSUME NEW S, NEW s \in Seq(S), s # <<>>
  PROVE  Tail(s) \in Seq(S) /\ Len(Tail(s)) < Len(s)
<1>1. Tail(s) \in Seq(S) /\ Len(Tail(s)) = Len(s) - 1 /\ Len(s) \in Nat
  BY HeadTailProperties
<1> QED BY <1>1

\* The content seen by the game does not change when the chip is sized, and
\* changes by one word when one is stored.
LEMMA ContentStays ==
  ASSUME Serial, type = "Eeprom", game' = game, data' = Content
  PROVE  Content' = Content
<1>1. Content' = Resized(Content, game)
  BY DEF Content
<1> QED BY <1>1, ContentType, ResizedType

LEMMA ContentStores ==
  ASSUME Serial, type = "Eeprom", game' = game,
         NEW b \in 0 .. BlocksOf(game) - 1, NEW w \in Word, data' = [Content EXCEPT ![b] = w]
  PROVE  Content' = data' /\ data' \in [0 .. BlocksOf(game) - 1 -> Word]
<1> DEFINE D == 0 .. BlocksOf(game) - 1
<1>1. Content \in [D -> Word] /\ b \in D
  BY ContentType
<1> HIDE DEF D
<1>2. data' \in [D -> Word]
  BY <1>1
<1>3. Content' = Resized(data', game)
  BY DEF Content
<1> QED BY <1>2, <1>3, ResizedType DEF D

LEMMA NextSerial ==
  ASSUME ChipInv, [Next]_vars
  PROVE  Serial' /\ Sending'
<1>0. /\ type' = type /\ game' = game /\ Serial /\ Sending
      /\ \A w : BlocksOf(w)' = BlocksOf(w)
  BY ChipSteps DEF ChipInv
<1>b. Commands' = Commands /\ BitsOf(command)' = BitsOf(command')
  BY <1>0 DEF Commands, BitsOf, ReadCommand, WriteCommand
<1>1. CASE type # "Eeprom"
  <2>1. sending = <<>> /\ stream = <<>>
    BY <1>1 DEF ChipInv, FlashInv, Bytes
  <2>2. sending' = <<>> /\ stream' = <<>> /\ command' = <<>>
    <3>1. FlashInv'
      BY NextFlash DEF ChipInv
    <3>2. command = <<>> /\ command' = command
      BY <1>0, <1>1, <2>1, ChipSteps DEF MarkClean, vars, Sending
    <3> QED BY <1>0, <1>1, <3>1, <3>2 DEF FlashInv, Bytes
  <2> QED BY <1>0, <1>1, <2>2 DEF Serial, Sending
<1>2. CASE type = "Eeprom" /\ SendByDma
  <2>1. /\ data' = Content /\ width' = game /\ stream' = stream
        /\ UNCHANGED <<generation, dirty, answer>>
    BY <1>0, <1>2, DmaSizes
  <2>2. Serial'
    <3>1. data' \in [0 .. BlocksOf(game) - 1 -> Word] /\ game # 0
      BY <1>0, <1>2, <2>1, ContentType
    <3> QED BY <1>0, <1>2, <2>1, <3>1 DEF Serial
  <2>3. stream' = <<>> /\ command' \in Commands /\ sending' = BitsOf(command') /\ generation < MaxWrites
    BY <1>0, <1>2, <2>1 DEF SendByDma, Sending
  <2>4. game \in Nat /\ game # 0
    BY <1>0, <1>2, ContentType
  <2>c. PICK c : c = BitsOf(command') /\ sending' = c
    BY <2>3
  <2>5. Underway(c)'
    <3>1. c \in Seq(BitValues)
      BY <2>c, <2>3, <2>4, CommandShape
    <3>2. stream' \in Seq(BitValues) /\ Len(stream') = 0 /\ Len(c) \in Nat
      BY <2>3, <3>1
    <3> QED BY <2>c, <3>1, <3>2 DEF Underway
  <2>6. c = BitsOf(command)'
    BY <1>b, <2>c
  <2>7. command' \in Commands' /\ Underway(BitsOf(command))'
    <3>1. command' \in Commands'
      BY <1>b, <2>3
    <3>2. Underway(BitsOf(command))'
      BY <2>5, <2>6 DEF Underway
    <3> QED BY <3>1, <3>2
  <2>8. sending' # <<>>
    BY <2>c, <2>3, <2>4, BitsShow
  <2> QED BY <1>0, <1>2, <2>1, <2>2, <2>3, <2>4, <2>7, <2>8 DEF Sending
<1>3. CASE type = "Eeprom" /\ StartSending
  <2>1. UNCHANGED <<data, generation, width, stream, answer>>
    BY <1>3 DEF StartSending, chip, eeprom
  <2>2. Serial'
    BY <1>0, <2>1 DEF Serial
  <2>3. stream' = <<>> /\ command' \in Commands /\ sending' = BitsOf(command') /\ generation < MaxWrites
        /\ (game = SmallBits \/ width # 0)
    BY <1>0, <1>3, <2>1 DEF StartSending, Sending
  <2>4. game \in Nat
    BY <1>0, <1>3, ContentType
  <2>c. PICK c : c = BitsOf(command') /\ sending' = c
    BY <2>3
  <2>5. Underway(c)'
    <3>1. c \in Seq(BitValues)
      BY <2>c, <2>3, <2>4, CommandShape
    <3>2. stream' \in Seq(BitValues) /\ Len(stream') = 0 /\ Len(c) \in Nat
      BY <2>3, <3>1
    <3> QED BY <2>c, <3>1, <3>2 DEF Underway
  <2>6. c = BitsOf(command)'
    BY <1>b, <2>c
  <2>7. command' \in Commands' /\ Underway(BitsOf(command))'
    <3>1. command' \in Commands'
      BY <1>b, <2>3
    <3>2. Underway(BitsOf(command))'
      BY <2>5, <2>6 DEF Underway
    <3> QED BY <3>1, <3>2
  <2>8. sending' # <<>>
    BY <2>c, <2>3, <2>4, BitsShow
  <2> QED BY <1>0, <1>3, <2>1, <2>2, <2>3, <2>7, <2>8 DEF Sending
<1>4. CASE type = "Eeprom" /\ SendBit
  <2>1. width' = game /\ (Joins \/ Completes)
    BY <1>0, <1>4, BitArrives
  <2>2. game \in {SmallBits, LargeBits} /\ game # 0 /\ generation < MaxWrites
    BY <1>0, <1>4, ContentType DEF Serial, Sending, SendBit
  <2>3. CASE Joins
    <3>1. data' = Content /\ answer' = answer /\ generation' = generation
      BY <2>3 DEF Joins
    <3>2. Serial'
      <4>1. data' \in [0 .. BlocksOf(game) - 1 -> Word]
        BY <1>0, <1>4, <3>1, ContentType
      <4> QED BY <1>0, <1>4, <2>1, <2>2, <3>1, <4>1 DEF Serial
    <3>3. PICK c : c = BitsOf(command) /\ Underway(c)'
      BY <2>3 DEF Joins
    <3>4. /\ sending' # <<>> /\ command' \in Commands' /\ Underway(BitsOf(command))'
      <4>1. command' = command /\ command \in Commands /\ sending' # <<>>
        BY <1>0, <1>4, <2>3 DEF Joins, Sending, SendBit
      <4>2. BitsOf(command)' = c
        BY <1>b, <3>3, <4>1
      <4> QED BY <1>b, <3>3, <4>1, <4>2 DEF Underway
    <3> QED BY <1>0, <1>4, <2>1, <2>2, <3>1, <3>2, <3>4 DEF Sending
  <2>4. CASE Completes
    <3>1. PICK b \in 0 .. BlocksOf(game) - 1 : Answered(b) \/ \E w \in Word : Stored(b, w)
      BY <2>4 DEF Completes
    <3>2. Sending'
      BY <2>4 DEF Completes, Sending
    <3>3. CASE Answered(b)
      <4>1. data' \in [0 .. BlocksOf(game) - 1 -> Word]
        BY <1>0, <1>4, <3>3, ContentType DEF Answered
      <4>2. answer' \in Seq({0, 1}) /\ Len(answer') <= DummyBits + WordBits
        BY <1>0, <1>4, <3>3, AnswerType
      <4> QED BY <1>0, <2>1, <2>2, <3>2, <4>1, <4>2 DEF Serial
    <3>4. CASE \E w \in Word : Stored(b, w)
      <4>1. PICK w \in Word : Stored(b, w)
        BY <3>4
      <4>2. data' \in [0 .. BlocksOf(game) - 1 -> Word]
        BY <1>0, <1>4, <4>1, ContentStores DEF Stored
      <4>3. answer' = <<>>
        BY <4>1 DEF Stored
      <4>4. answer' \in Seq({0, 1}) /\ Len(answer') <= DummyBits + WordBits
        BY <4>3, WordsType
      <4> QED BY <1>0, <2>1, <2>2, <3>2, <4>2, <4>4 DEF Serial
    <3> QED BY <3>1, <3>3, <3>4
  <2> QED BY <2>1, <2>3, <2>4
<1>5. CASE type = "Eeprom" /\ ReadBit
  <2>1. /\ UNCHANGED <<data, generation, width, stream, sending, command>>
        /\ answer # <<>> /\ answer' = Tail(answer) /\ sending = <<>>
    BY <1>5 DEF ReadBit, chip
  <2>2. answer \in Seq({0, 1}) /\ Len(answer) <= DummyBits + WordBits
    BY <1>0, <1>5 DEF Serial
  <2>3. Tail(answer) \in Seq({0, 1}) /\ Len(Tail(answer)) < Len(answer)
    BY <2>1, <2>2, TailType
  <2>4. Len(answer) \in Nat /\ Len(Tail(answer)) \in Nat /\ DummyBits + WordBits \in Nat
    <3>1. \A s \in Seq({0, 1}) : Len(s) \in Nat
      OBVIOUS
    <3> QED BY <2>2, <2>3, <3>1, WordsType
  <2>5. Len(Tail(answer)) <= DummyBits + WordBits
    BY <2>2, <2>3, <2>4
  <2>6. Serial'
    BY <1>0, <2>1, <2>3, <2>5 DEF Serial
  <2> QED BY <1>0, <2>1, <2>6 DEF Sending
<1>6. CASE MarkClean \/ UNCHANGED vars
  <2>1. UNCHANGED <<type, game, data, generation, width, stream, answer, sending, command>>
    BY <1>6 DEF MarkClean, vars, chip, eeprom
  <2>2. Serial'
    BY <1>0, <2>1 DEF Serial
  <2>3. Underway(BitsOf(command))' <=> Underway(BitsOf(command))
    BY <1>b, <2>1 DEF Underway
  <2>4. Sending'
    BY <1>0, <1>b, <2>1, <2>3 DEF Sending
  <2> QED BY <2>2, <2>4
<1> QED BY <1>1, <1>2, <1>3, <1>4, <1>5, <1>6, ChipSteps

LEMMA NextCounted ==
  ASSUME ChipInv, [Next]_vars
  PROVE  Counted'
<1>1. generation \in 0 .. MaxWrites /\ dirty \in BOOLEAN /\ MaxWrites \in Nat
  BY BackupAssumption DEF ChipInv, Counted
<1>2. CASE MarkWritten /\ generation < MaxWrites
  BY <1>1, <1>2 DEF MarkWritten, Counted
<1>3. CASE UNCHANGED <<generation, dirty>>
  BY <1>1, <1>3 DEF Counted
<1>4. CASE type = "Eeprom" /\ SendByDma
  BY <1>3, <1>4, DmaSizes DEF ChipInv
<1>5. CASE type = "Eeprom" /\ StartSending
  BY <1>3, <1>5 DEF StartSending, chip
<1>6. CASE type = "Eeprom" /\ SendBit
  <2>1. Joins \/ Completes
    BY <1>6, BitArrives DEF ChipInv
  <2>2. generation < MaxWrites
    BY <1>6 DEF ChipInv, Sending, SendBit
  <2> QED BY <1>2, <1>3, <2>1, <2>2 DEF Joins, Completes, Answered, Stored
<1>7. CASE type = "Eeprom" /\ ReadBit
  BY <1>3, <1>7 DEF ReadBit, chip
<1>8. CASE MarkClean
  BY <1>1, <1>8 DEF MarkClean, Counted
<1>9. CASE UNCHANGED vars
  BY <1>3, <1>9 DEF vars, chip
<1> QED BY <1>2, <1>3, <1>4, <1>5, <1>6, <1>7, <1>8, <1>9, ChipSteps

LEMMA NextUnmarked ==
  ASSUME ChipInv, [Next]_vars
  PROVE  NothingUnmarked'
<1>0. NothingUnmarked /\ Serial /\ Sending
  BY DEF ChipInv
<1>1. CASE MarkWritten
  BY <1>1 DEF MarkWritten, NothingUnmarked
<1>2. CASE UNCHANGED <<data, dirty, saved, width>>
  BY <1>0, <1>2 DEF NothingUnmarked, Resized
<1>3. CASE /\ type = "Eeprom" /\ data' = Content /\ width' = game
           /\ UNCHANGED <<dirty, saved, game>>
  <2>1. CASE width = 0
    <3>1. data = <<>>
      BY <1>0, <1>3, <2>1 DEF Serial
    <3>2. data' = Resized(<<>>, width')
      BY <1>3, <3>1 DEF Content
    <3>3. dirty \/ data = saved \/ saved = <<>>
      BY <1>0 DEF NothingUnmarked
    <3>4. Resized(<<>>, width)' = Resized(<<>>, width')
      BY DEF Resized
    <3> QED BY <1>3, <3>1, <3>2, <3>3, <3>4 DEF NothingUnmarked
  <2>2. CASE width # 0
    <3>1. width = game /\ data' = data
      BY <1>0, <1>3, <2>2, ContentType DEF Serial
    <3> QED BY <1>2, <1>3, <3>1
  <2> QED BY <2>1, <2>2
<1>4. CASE type # "Eeprom" /\ UNCHANGED <<width, saved>>
           /\ (MarkWritten \/ UNCHANGED <<data, generation, dirty>>)
  BY <1>1, <1>2, <1>4
<1>5. CASE type = "Eeprom" /\ SendByDma
  BY <1>0, <1>3, <1>5, DmaSizes DEF SendByDma
<1>6. CASE type = "Eeprom" /\ StartSending
  BY <1>2, <1>6 DEF StartSending, chip, eeprom
<1>7. CASE type = "Eeprom" /\ SendBit
  <2>1. width' = game /\ (Joins \/ Completes) /\ UNCHANGED <<saved, game>>
    BY <1>0, <1>7, BitArrives DEF SendBit
  <2> QED BY <1>1, <1>3, <1>7, <2>1 DEF Joins, Completes, Answered, Stored
<1>8. CASE type = "Eeprom" /\ ReadBit
  BY <1>2, <1>8 DEF ReadBit, chip
<1>9. CASE MarkClean
  BY <1>9 DEF MarkClean, NothingUnmarked
<1>10. CASE UNCHANGED vars
  BY <1>2, <1>10 DEF vars, chip, eeprom
<1> QED BY <1>4, <1>5, <1>6, <1>7, <1>8, <1>9, <1>10, ChipSteps

LEMMA NextChip ==
  ASSUME ChipInv, [Next]_vars
  PROVE  ChipInv'
BY NextFlash, NextSerial, NextCounted, NextUnmarked DEF ChipInv

\* The invariant says what the chip's types and its mark say.
LEMMA ChipMarked == ChipInv => WritesMarked
<1> SUFFICES ASSUME ChipInv PROVE TypeOK
  BY DEF ChipInv, WritesMarked
<1>1. data \in IF type # "Eeprom" THEN [ChipBanks \X Offsets -> 0 .. 255]
               ELSE IF width = 0 THEN {<<>>} ELSE [0 .. BlocksOf(width) - 1 -> Word]
  <2>1. CASE type # "Eeprom"
    BY <2>1 DEF ChipInv, FlashInv, Bytes
  <2>2. CASE type = "Eeprom"
    BY <2>2 DEF ChipInv, Serial
  <2> QED BY <2>1, <2>2
<1>2. generation \in 0 .. MaxWrites + 1 /\ dirty \in BOOLEAN
  BY BackupAssumption DEF ChipInv, Counted
<1>3. flash.bank \in ChipBanks
  BY DEF ChipInv, FlashInv
<1>4. width \in {0, game}
  BY DEF ChipInv, FlashInv, Bytes, Serial
<1>5. Len(stream) < 2 + LargeBits + WordBits + 1
  <2>1. CASE sending = <<>>
    <3>1. Len(stream) = 0
      BY <2>1 DEF ChipInv, Sending
    <3> QED BY <3>1, WordsType
  <2>2. CASE sending # <<>>
    <3>1. type = "Eeprom" /\ Serial
      BY <2>2 DEF ChipInv, Sending
    <3> DEFINE c == BitsOf(command)
    <3>2. command \in Commands /\ Underway(c)
      BY <2>2 DEF ChipInv, Sending
    <3>3. game \in Nat \ {0} /\ game \in {SmallBits, LargeBits}
      BY <3>1, ContentType DEF Serial
    <3>4. Len(c) = 3 + game + (IF c[2] = 1 THEN 0 ELSE WordBits)
      BY <3>2, <3>3, CommandShape
    <3> HIDE DEF c
    <3>5. Len(c) <= 3 + LargeBits + WordBits
      BY <3>3, <3>4, WordsType
    <3>6. Len(stream) \in Nat /\ Len(sending) \in Nat \ {0} /\ Len(stream) + Len(sending) = Len(c)
      <4>1. stream \in Seq(BitValues) /\ sending \in Seq(BitValues)
            /\ Len(stream) + Len(sending) = Len(c)
        BY <3>2 DEF Underway
      <4>2. \A s \in Seq(BitValues) : Len(s) \in Nat /\ (s # <<>> => Len(s) \in Nat \ {0})
        BY ONLY EmptySeq, LenProperties
      <4> QED BY <2>2, <4>1, <4>2
    <3>7. LargeBits \in Nat /\ WordBits \in Nat
      BY WordsType
    <3> QED BY <3>5, <3>6, <3>7
  <2> QED BY <2>1, <2>2
<1>6. Len(answer) <= DummyBits + WordBits
  <2>1. CASE type # "Eeprom"
    <3>1. Len(answer) = 0
      BY <2>1 DEF ChipInv, FlashInv, Bytes
    <3> QED BY <3>1, WordsType
  <2>2. CASE type = "Eeprom"
    BY <2>2 DEF ChipInv, Serial
  <2> QED BY <2>1, <2>2
<1>7. Len(recent) <= 3
  BY DEF ChipInv, FlashInv, Armed
<1> QED BY <1>1, <1>2, <1>3, <1>4, <1>5, <1>6, <1>7 DEF TypeOK

\* Whatever became of the content since it was last on disk, the chip is dirty.
THEOREM MarkKept == Spec => []WritesMarked
<1>1. Init => ChipInv
  BY InitChip
<1>2. ChipInv /\ [Next]_vars => ChipInv'
  BY NextChip
<1>3. ChipInv => WritesMarked
  BY ChipMarked
<1> QED BY <1>1, <1>2, <1>3, PTL DEF Spec

-----------------------------------------------------------------------------
(***************************************************************************)
(* The chip as its game sees it: SerialChip under the mapping of Promise.  *)
(***************************************************************************)
Seen == IF type = "Eeprom" THEN Resized(data, game) ELSE <<>>

LEMMA InitPromise == Init => Promise!Init
<1> SUFFICES ASSUME Init PROVE Promise!Init
  OBVIOUS
<1>0. ChipInv /\ answer = <<>> /\ Request = <<>>
  BY InitChip DEF Init, Request
<1>1. \E n \in {0, SmallBlocks, LargeBlocks} : Seen \in [0 .. n - 1 -> Word]
  <2>1. CASE type # "Eeprom"
    <3>1. <<>> \in [0 .. 0 - 1 -> Word]
      OBVIOUS
    <3> QED BY <2>1, <3>1 DEF Seen
  <2>2. CASE type = "Eeprom"
    <3>1. Content \in [0 .. BlocksOf(game) - 1 -> Word]
      BY <1>0, <2>2, ContentType DEF ChipInv
    <3>2. Seen = Content
      BY <2>2 DEF Seen, Content
    <3>3. BlocksOf(game) \in {SmallBlocks, LargeBlocks}
      BY DEF BlocksOf
    <3> QED BY <3>1, <3>2, <3>3
  <2> QED BY <2>1, <2>2
<1> QED BY <1>0, <1>1 DEF Promise!Init, Seen

\* A new command asks for a word of the chip.
LEMMA RequestType ==
  ASSUME Serial, type = "Eeprom", game' = game, command' \in Commands
  PROVE  \E b \in 0 .. BlocksOf(game) - 1 : Request' = <<b>> \/ \E w \in Word : Request' = <<b, w>>
<1>1. ASSUME NEW n \in 0 .. 2 ^ game - 1 PROVE n % BlocksOf(game) \in 0 .. BlocksOf(game) - 1
  <2> DEFINE y == BlocksOf(game)
  <2>1. n \in Nat /\ y \in Nat \ {0}
    BY WordsType
  <2> HIDE DEF y
  <2>2. n % y \in 0 .. y - 1
    BY <2>1
  <2> QED BY <2>2 DEF y
<1>2. BlocksOf(game)' = BlocksOf(game)
  BY DEF BlocksOf
<1>3. ASSUME NEW n \in 0 .. 2 ^ game - 1, command' = <<n>>
      PROVE  Request' = <<n % BlocksOf(game)>>
  BY <1>2, <1>3 DEF Request
<1>4. ASSUME NEW n \in 0 .. 2 ^ game - 1, NEW w \in Word, command' = <<n, w>>
      PROVE  Request' = <<n % BlocksOf(game), w>>
  BY <1>2, <1>4 DEF Request
<1>5. CASE \E n \in 0 .. 2 ^ game - 1 : command' = <<n>>
  BY <1>1, <1>3, <1>5
<1>6. CASE \E n \in 0 .. 2 ^ game - 1, w \in Word : command' = <<n, w>>
  BY <1>1, <1>4, <1>6
<1> QED BY <1>5, <1>6 DEF Commands

LEMMA StepPromise ==
  ASSUME ChipInv, [Next]_vars
  PROVE  [Promise!Next]_(Promise!vars)
<1>0. type' = type /\ game' = game /\ Serial /\ Sending
  BY ChipSteps DEF ChipInv
<1>1. Seen' = Seen /\ answer' = answer /\ Request' = Request => [Promise!Next]_(Promise!vars)
  BY DEF Promise!vars, Seen
<1>2. game' = game /\ command' = command => Request' = Request
  BY DEF Request, BlocksOf
<1>3. type = "Eeprom" => Seen = Content /\ Seen' = Content'
  BY <1>0 DEF Seen, Content
<1>d. type = "Eeprom" => /\ Content \in [0 .. BlocksOf(game) - 1 -> Word]
                         /\ DOMAIN Seen = 0 .. BlocksOf(game) - 1
  BY <1>0, <1>3, ContentType
<1>a. ASSUME type = "Eeprom", command = <<>>, command' \in Commands,
             Seen' = Seen, answer' = answer
      PROVE  Promise!Next
  <2>1. Request = <<>>
    BY <1>a DEF Request
  <2>2. \E b \in DOMAIN Seen : Request' = <<b>> \/ \E w \in Word : Request' = <<b, w>>
    BY <1>0, <1>a, <1>d, RequestType
  <2>3. Promise!Ask
    BY <1>a, <2>1, <2>2 DEF Promise!Ask, Seen
  <2> QED BY <2>3 DEF Promise!Next
<1>t. CASE type # "Eeprom" /\ answer' = answer /\ command' = command
  BY <1>0, <1>1, <1>2, <1>t DEF Seen
<1>4. CASE type = "Eeprom" /\ SendByDma
  <2>1. data' = Content /\ answer' = answer
    BY <1>0, <1>4, DmaSizes
  <2>2. command = <<>> /\ command' \in Commands
    BY <1>0, <1>4 DEF SendByDma, Sending
  <2>3. Seen' = Seen
    BY <1>0, <1>3, <1>4, <2>1, ContentStays
  <2> QED BY <1>4, <1>a, <2>1, <2>2, <2>3
<1>5. CASE type = "Eeprom" /\ StartSending
  <2>1. UNCHANGED <<data, answer>> /\ command = <<>> /\ command' \in Commands
    BY <1>0, <1>5 DEF StartSending, chip, eeprom, Sending
  <2>2. Seen' = Seen
    BY <1>0, <2>1 DEF Seen, Resized
  <2> QED BY <1>5, <1>a, <2>1, <2>2
<1>6. CASE type = "Eeprom" /\ SendBit
  <2>1. Joins \/ Completes
    BY <1>0, <1>6, BitArrives
  <2>4. CASE Joins
    <3>1. data' = Content /\ answer' = answer /\ command' = command
      BY <2>4 DEF Joins
    <3> QED BY <1>0, <1>1, <1>2, <1>3, <1>6, <3>1, ContentStays
  <2>5. CASE Completes
    <3>1. PICK b \in 0 .. BlocksOf(game) - 1 :
            \/ Request = <<b>> /\ Answered(b)
            \/ \E w \in Word : Request = <<b, w>> /\ Stored(b, w)
      BY <2>5 DEF Completes
    <3>r. Request' = <<>>
      BY <2>5 DEF Completes, Request
    <3>2. CASE Request = <<b>> /\ Answered(b)
      <4>1. Seen' = Seen /\ answer' = [i \in 1 .. DummyBits |-> 0] \o Seen[b]
        BY <1>0, <1>3, <1>6, <3>2, ContentStays DEF Answered
      <4>2. Promise!Reply(b)
        BY <3>r, <3>2, <4>1 DEF Promise!Reply, Seen
      <4>3. Promise!Next
        BY <1>6, <1>d, <4>2 DEF Promise!Next, Seen
      <4> QED BY <4>3
    <3>3. CASE \E w \in Word : Request = <<b, w>> /\ Stored(b, w)
      <4>1. PICK w \in Word : Request = <<b, w>> /\ Stored(b, w)
        BY <3>3
      <4>2. Seen' = [Seen EXCEPT ![b] = w] /\ answer' = <<>>
        BY <1>0, <1>3, <1>6, <4>1, ContentStores DEF Stored
      <4>3. Promise!Store(b, w)
        BY <3>r, <4>1, <4>2 DEF Promise!Store, Seen
      <4>4. Promise!Next
        BY <1>6, <1>d, <4>3 DEF Promise!Next, Seen
      <4> QED BY <4>4
    <3> QED BY <3>1, <3>2, <3>3
  <2> QED BY <2>1, <2>4, <2>5
<1>7. CASE type = "Eeprom" /\ ReadBit
  <2>1. /\ Seen' = Seen /\ answer # <<>> /\ answer' = Tail(answer)
        /\ command = <<>> /\ command' = command
    BY <1>0, <1>7 DEF ReadBit, chip, Seen, Resized, Sending
  <2>2. Request = <<>> /\ Request' = <<>>
    BY <2>1 DEF Request
  <2>3. Promise!Take
    BY <2>1, <2>2 DEF Promise!Take, Seen
  <2> QED BY <2>3 DEF Promise!Next
<1>8. CASE MarkClean \/ UNCHANGED vars
  <2>1. data' = data /\ answer' = answer /\ command' = command
    BY <1>8 DEF MarkClean, vars, chip, eeprom
  <2> QED BY <1>0, <1>1, <1>2, <2>1 DEF Seen, Resized
<1> QED BY <1>t, <1>4, <1>5, <1>6, <1>7, <1>8, ChipSteps

\* A game that sends whole commands sees, from the first one, the chip it was
\* made for: the guess of its size does not show.
THEOREM KeepsPromise == Spec => ImplementsSerialChip
<1>1. Init => ChipInv
  BY InitChip
<1>2. ChipInv /\ [Next]_vars => ChipInv'
  BY NextChip
<1>3. Init => Promise!Init
  BY InitPromise
<1>4. ChipInv /\ [Next]_vars => [Promise!Next]_(Promise!vars)
  BY StepPromise
<1> QED BY <1>1, <1>2, <1>3, <1>4, PTL DEF Spec, ImplementsSerialChip, Promise!Spec
=============================================================================
