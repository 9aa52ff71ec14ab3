---------------------------- MODULE Scheduler_proof ----------------------------
(***************************************************************************)
(* Lemmas about the scheduler's operators, for the proofs of the modules   *)
(* that use them: what the least deadline is, that the cache is right      *)
(* after every member function, and that pop_due finds an event.           *)
(***************************************************************************)
EXTENDS Scheduler, Arithmetic_proof, TLAPS

-----------------------------------------------------------------------------
\* The event numbers are distinct natural numbers.
LEMMA EventNumbers ==
  /\ Events \subseteq Nat
  /\ HBlankStart \in Events /\ ScanlineEnd \in Events
  /\ ApuSample \in Events /\ ApuSequencer \in Events
  /\ \A i \in TimerIds : TimerEvent(i) \in Events /\ TimerEvent(i) # HBlankStart
  /\ \A i, j \in TimerIds : TimerEvent(i) = TimerEvent(j) => i = j
  BY TimerCountAssumption
     DEF Events, HBlankStart, ScanlineEnd, ApuSample, ApuSequencer, TimerIds, TimerEvent

LEMMA TimesAreNatural ==
  ASSUME NEW d \in Deadlines
  PROVE  Times(d) \subseteq Nat
  BY DEF Times, Deadlines, Unscheduled

\* refresh_next_deadline computes a least deadline, or none.
LEMMA SoonestIsLeast ==
  ASSUME NEW d \in Deadlines
  PROVE  /\ Soonest(d) \in Nat \cup {Unscheduled}
         /\ Times(d) = {} => Soonest(d) = Unscheduled
         /\ Times(d) # {} => Soonest(d) \in Times(d) /\ Soonest(d) # Unscheduled
         /\ \A u \in Times(d) : Soonest(d) <= u
<1>1. CASE Times(d) = {}
  BY <1>1 DEF Soonest
<1>2. CASE Times(d) # {}
  <2>1. \E t \in Times(d) : \A u \in Times(d) : t <= u
    BY <1>2, TimesAreNatural, NatMinimum
  <2>2. Soonest(d) \in Times(d) /\ \A u \in Times(d) : Soonest(d) <= u
    BY <1>2, <2>1 DEF Soonest
  <2> QED BY <1>2, <2>2, TimesAreNatural DEF Unscheduled
<1> QED BY <1>1, <1>2

\* A scheduler whose cache is the least of its deadlines.
Fresh(s) == s \in Schedulers /\ s.next = Soonest(s.deadlines)

LEMMA IdleFresh == Fresh(IdleScheduler)
<1>1. IdleScheduler.deadlines \in Deadlines
  BY DEF IdleScheduler, Deadlines
<1>2. Times(IdleScheduler.deadlines) = {}
  BY DEF IdleScheduler, Times
<1>3. Soonest(IdleScheduler.deadlines) = Unscheduled
  BY <1>1, <1>2, SoonestIsLeast
<1> QED BY <1>1, <1>3 DEF Fresh, Schedulers, IdleScheduler

LEMMA AdvancedFresh ==
  ASSUME NEW s, Fresh(s), NEW c \in Nat
  PROVE  /\ Fresh(Advanced(s, c))
         /\ Advanced(s, c).now = s.now + c /\ Advanced(s, c).deadlines = s.deadlines
  BY DEF Fresh, Schedulers, Advanced

LEMMA SkippedFresh ==
  ASSUME NEW s, Fresh(s), CanSkip(s)
  PROVE  /\ Fresh(SkippedToNext(s))
         /\ SkippedToNext(s).now = s.next /\ SkippedToNext(s).deadlines = s.deadlines
  BY DEF Fresh, Schedulers, CanSkip, SkippedToNext

\* Refreshing makes any deadlines a scheduler with a right cache.
LEMMA RefreshedFresh ==
  ASSUME NEW s \in Schedulers, NEW d \in Deadlines
  PROVE  /\ Fresh(Refreshed([s EXCEPT !.deadlines = d]))
         /\ Refreshed([s EXCEPT !.deadlines = d]).deadlines = d
         /\ Refreshed([s EXCEPT !.deadlines = d]).now = s.now
  BY SoonestIsLeast DEF Fresh, Schedulers, Refreshed

LEMMA ScheduledFresh ==
  ASSUME NEW s \in Schedulers, NEW e \in Events, NEW t \in Nat
  PROVE  /\ Fresh(ScheduledAt(s, e, t))
         /\ ScheduledAt(s, e, t).deadlines = [s.deadlines EXCEPT ![e] = t]
         /\ ScheduledAt(s, e, t).now = s.now
<1> DEFINE d == [s.deadlines EXCEPT ![e] = t]
<1>1. d \in Deadlines
  BY DEF Deadlines, Schedulers
<1>2. ScheduledAt(s, e, t) = Refreshed([s EXCEPT !.deadlines = d])
  BY DEF ScheduledAt, Schedulers
<1> QED BY <1>1, <1>2, RefreshedFresh

LEMMA CancelledFresh ==
  ASSUME NEW s \in Schedulers, NEW e \in Events
  PROVE  /\ Fresh(Cancelled(s, e))
         /\ Cancelled(s, e).deadlines = [s.deadlines EXCEPT ![e] = Unscheduled]
         /\ Cancelled(s, e).now = s.now
<1> DEFINE d == [s.deadlines EXCEPT ![e] = Unscheduled]
<1>1. d \in Deadlines
  BY DEF Deadlines, Schedulers
<1>2. Cancelled(s, e) = Refreshed([s EXCEPT !.deadlines = d])
  BY DEF Cancelled, Schedulers
<1> QED BY <1>1, <1>2, RefreshedFresh

\* The fast path of pop_due turns nothing away that is due.
LEMMA DueIsNoticed ==
  ASSUME NEW s, Fresh(s)
  PROVE  HasDue(s) <=> DueEvents(s) # {}
<1>1. ASSUME DueEvents(s) # {} PROVE MayBeDue(s)
  <2>1. PICK e \in DueEvents(s) : TRUE
    BY <1>1
  <2>2. s.deadlines[e] \in Times(s.deadlines) /\ s.deadlines[e] <= s.now
    BY <2>1 DEF DueEvents, Times, IsScheduled
  <2>3. Soonest(s.deadlines) <= s.deadlines[e] /\ Soonest(s.deadlines) \in Nat
    BY <2>2, SoonestIsLeast DEF Fresh, Schedulers
  <2>4. s.deadlines[e] \in Nat /\ s.now \in Nat
    BY <2>2, TimesAreNatural DEF Fresh, Schedulers
  <2> QED BY <2>2, <2>3, <2>4 DEF MayBeDue, Fresh, Unscheduled
<1> QED BY <1>1 DEF HasDue

\* The scan of pop_due ends at an event that is due and that no other one
\* precedes.
LEMMA FirstDueIsFirst ==
  ASSUME NEW s \in Schedulers, DueEvents(s) # {}
  PROVE  /\ FirstDue(s) \in DueEvents(s)
         /\ \A f \in DueEvents(s) : Before(s, FirstDue(s), f)
<1> DEFINE due == DueEvents(s)
           times == {s.deadlines[e] : e \in due}
<1>1. \A e \in due : e \in Nat /\ s.deadlines[e] \in Nat
  BY EventNumbers DEF DueEvents, IsScheduled, Schedulers, Deadlines
<1>2. PICK t \in times : \A u \in times : t <= u
  BY <1>1, NatMinimum
<1> DEFINE first == {e \in due : s.deadlines[e] = t}
<1>3. first \in SUBSET Nat /\ first # {}
  BY <1>1, <1>2
<1> HIDE DEF first
<1>4. PICK e \in first : \A f \in first : e <= f
  BY <1>3, NatMinimum
<1>5. e \in due /\ \A f \in due : Before(s, e, f)
  <2>1. e \in due /\ s.deadlines[e] = t
    BY <1>4 DEF first
  <2>2. ASSUME NEW f \in due PROVE Before(s, e, f)
    <3>1. t <= s.deadlines[f] /\ t \in Nat /\ s.deadlines[f] \in Nat
      BY <1>1, <1>2
    <3>2. s.deadlines[f] = t => e <= f
      BY <1>4 DEF first
    <3> QED BY <2>1, <3>1, <3>2 DEF Before
  <2> QED BY <2>1, <2>2
<1> QED BY <1>5 DEF FirstDue
=============================================================================
