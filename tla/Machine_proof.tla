---------------------------- MODULE Machine_proof ----------------------------
(***************************************************************************)
(* The frame loop, for any sizes of lines and frames, any instruction and  *)
(* DMA lengths and any program: the picture is a function of the clock,    *)
(* no enabled request is slept through, and, when a frame can take in a    *)
(* step and its transfers, frames end on time and are counted exactly.     *)
(***************************************************************************)
EXTENDS Machine, Scheduler_proof

-----------------------------------------------------------------------------
(***************************************************************************)
(* The video events and the clock.  Line k, counted from power on, is the  *)
(* one being shown; of its two events the first has been handled when      *)
(* hblank is set, and the other is still to come.                          *)
(***************************************************************************)
VideoAt(k) ==
  /\ sched.deadlines[ScanlineEnd] = (k + 1) * LineCycles
  /\ sched.deadlines[HBlankStart] =
       (IF hblank THEN (k + 1) * LineCycles ELSE k * LineCycles) + HDrawCycles
  /\ vcount = k % LinesPerFrame
  /\ k * LineCycles + (IF hblank THEN HDrawCycles ELSE 0) <= sched.now

\* Between steps, and before interrupts are looked at, nothing is due.
CaughtUp == phase \in {"idle", "loop", "service"} => DueEvents(sched) = {} /\ stall = 0

\* While an exception is entered the CPU is awake and its interrupts are off.
EntryMasks == phase = "entry" => ~halted /\ irq_disabled

Inv ==
  /\ TypeOK /\ Fresh(sched)
  /\ \E k \in Nat : VideoAt(k)
  /\ CaughtUp /\ EntryMasks

-----------------------------------------------------------------------------
(***************************************************************************)
(* The events.                                                             *)
(***************************************************************************)
LEMMA Sizes ==
  /\ HDrawCycles \in Nat \ {0} /\ LineCycles \in Nat \ {0} /\ HDrawCycles < LineCycles
  /\ LinesPerFrame \in Nat \ {0} /\ FrameCycles \in Nat \ {0}
  /\ FrameCycles = LinesPerFrame * LineCycles
<1>1. LineCycles \in Nat \ {0} /\ LinesPerFrame \in Nat \ {0}
  BY MachineAssumption
<1>2. LineCycles * LinesPerFrame = LinesPerFrame * LineCycles
  BY <1>1
<1>3. LineCycles * LinesPerFrame \in Nat /\ LineCycles * LinesPerFrame > 0
  BY <1>1, ProductNatural
<1> QED BY <1>1, <1>2, <1>3, MachineAssumption DEF FrameCycles

LEMMA DistinctEvents ==
  /\ HBlankStart # ScanlineEnd
  /\ ApuSample \notin {HBlankStart, ScanlineEnd} /\ ApuSequencer \notin {HBlankStart, ScanlineEnd}
  BY TimerCountAssumption DEF HBlankStart, ScanlineEnd, ApuSample, ApuSequencer

\* At power on the first line begins, and nothing is due.
LEMMA PoweredLine ==
  /\ Fresh(PoweredScheduler) /\ PoweredScheduler.now = 0 /\ DueEvents(PoweredScheduler) = {}
  /\ PoweredScheduler.deadlines[HBlankStart] = HDrawCycles
  /\ PoweredScheduler.deadlines[ScanlineEnd] = LineCycles
<1> DEFINE s0 == IdleScheduler
           s1 == ScheduledAt(s0, HBlankStart, HDrawCycles)
           s2 == ScheduledAt(s1, ScanlineEnd, LineCycles)
           s3 == ScheduledAt(s2, ApuSample, SampleCycles)
           s4 == ScheduledAt(s3, ApuSequencer, SequencerCycles)
<1>a. /\ HBlankStart \in Events /\ ScanlineEnd \in Events
      /\ ApuSample \in Events /\ ApuSequencer \in Events
  BY EventNumbers
<1>0. /\ HDrawCycles \in Nat \ {0} /\ LineCycles \in Nat \ {0}
      /\ SampleCycles \in Nat \ {0} /\ SequencerCycles \in Nat \ {0}
  BY MachineAssumption
<1>1. s0 \in Schedulers /\ s0.now = 0 /\ s0.deadlines = [e \in Events |-> Unscheduled]
  BY IdleFresh DEF IdleScheduler, Fresh
<1> HIDE DEF s0
<1>2. /\ s1 \in Schedulers /\ s1.now = 0
      /\ s1.deadlines = [s0.deadlines EXCEPT ![HBlankStart] = HDrawCycles]
  <2>1. /\ Fresh(s1) /\ s1.now = 0
        /\ s1.deadlines = [s0.deadlines EXCEPT ![HBlankStart] = HDrawCycles]
    BY <1>a, <1>0, <1>1, ScheduledFresh
  <2> QED BY <2>1 DEF Fresh
<1> HIDE DEF s1
<1>3. /\ s2 \in Schedulers /\ s2.now = 0
      /\ s2.deadlines = [s1.deadlines EXCEPT ![ScanlineEnd] = LineCycles]
  <2>1. /\ Fresh(s2) /\ s2.now = 0
        /\ s2.deadlines = [s1.deadlines EXCEPT ![ScanlineEnd] = LineCycles]
    BY <1>a, <1>0, <1>2, ScheduledFresh
  <2> QED BY <2>1 DEF Fresh
<1> HIDE DEF s2
<1>4. /\ s3 \in Schedulers /\ s3.now = 0
      /\ s3.deadlines = [s2.deadlines EXCEPT ![ApuSample] = SampleCycles]
  <2>1. /\ Fresh(s3) /\ s3.now = 0
        /\ s3.deadlines = [s2.deadlines EXCEPT ![ApuSample] = SampleCycles]
    BY <1>a, <1>0, <1>3, ScheduledFresh
  <2> QED BY <2>1 DEF Fresh
<1> HIDE DEF s3
<1>5. /\ Fresh(s4) /\ s4.now = 0
      /\ s4.deadlines = [s3.deadlines EXCEPT ![ApuSequencer] = SequencerCycles]
  BY <1>a, <1>0, <1>4, ScheduledFresh
<1>6. PoweredScheduler = s4
  BY <1>0, <1>1, <1>2, <1>3, <1>4 DEF PoweredScheduler, ScheduledAfter, s0, s1, s2, s3
<1> HIDE DEF s4
<1>7. \A e \in Events :
        s4.deadlines[e] = IF e = HBlankStart THEN HDrawCycles
                          ELSE IF e = ScanlineEnd THEN LineCycles
                          ELSE IF e = ApuSample THEN s4.deadlines[ApuSample]
                          ELSE IF e = ApuSequencer THEN SequencerCycles ELSE Unscheduled
  BY <1>a, <1>1, <1>2, <1>3, <1>4, <1>5, DistinctEvents
<1>8. s4.deadlines[ApuSample] \in {SampleCycles, SequencerCycles}
  BY <1>a, <1>1, <1>2, <1>3, <1>4, <1>5, DistinctEvents
<1>9. \A e \in Events : s4.deadlines[e] = Unscheduled \/ s4.deadlines[e] \in Nat \ {0}
  BY <1>0, <1>7, <1>8
<1>10. DueEvents(s4) = {}
  <2>1. ASSUME NEW e \in Events, s4.deadlines[e] # Unscheduled PROVE ~(s4.deadlines[e] <= s4.now)
    BY <1>5, <1>9, <2>1
  <2> QED BY <2>1 DEF DueEvents, IsScheduled
<1> QED BY <1>a, <1>5, <1>6, <1>7, <1>10, DistinctEvents

\* What is dispatched is due, and nothing due precedes it.
LEMMA DispatchedDue ==
  ASSUME Fresh(sched), NEW e \in Events, Dispatching(e)
  PROVE  /\ sched.deadlines[e] \in Nat /\ sched.deadlines[e] <= sched.now
         /\ \A f \in Events : sched.deadlines[f] \in Nat => sched.deadlines[e] <= sched.deadlines[f]
<1>1. sched \in Schedulers /\ sched.now \in Nat /\ sched.deadlines \in [Events -> Nat \cup {Unscheduled}]
  BY DEF Fresh, Schedulers, Deadlines
<1>2. e \in DueEvents(sched) /\ \A f \in DueEvents(sched) : Before(sched, e, f)
  BY <1>1, FirstDueIsFirst DEF Dispatching, HasDue
<1>3. sched.deadlines[e] \in Nat /\ sched.deadlines[e] <= sched.now
  BY <1>1, <1>2 DEF DueEvents, IsScheduled
<1>4. ASSUME NEW f \in Events, sched.deadlines[f] \in Nat
      PROVE  sched.deadlines[e] <= sched.deadlines[f]
  <2>1. CASE sched.deadlines[f] <= sched.now
    <3>1. f \in DueEvents(sched)
      BY <1>4, <2>1 DEF DueEvents, IsScheduled, Unscheduled
    <3> QED BY <1>2, <1>3, <1>4, <3>1 DEF Before
  <2>2. CASE sched.deadlines[f] > sched.now
    BY <1>1, <1>3, <1>4, <2>2
  <2> QED BY <1>1, <1>4, <2>1, <2>2
<1> QED BY <1>3, <1>4

\* A repeated event gets its next deadline, and no other is touched.
LEMMA RepeatedDeadline ==
  ASSUME Fresh(sched), NEW e \in Events, sched.deadlines[e] \in Nat, NEW period \in Nat,
         Repeated(e, period)
  PROVE  /\ Fresh(sched') /\ sched'.now = sched.now
         /\ sched'.deadlines[e] = sched.deadlines[e] + period
         /\ \A f \in Events : f # e => sched'.deadlines[f] = sched.deadlines[f]
<1> DEFINE popped == Popped(sched, e)
           t == sched.deadlines[e] + period
<1>1. sched \in Schedulers /\ sched.deadlines \in [Events -> Nat \cup {Unscheduled}]
  BY DEF Fresh, Schedulers, Deadlines
<1>2. /\ popped \in Schedulers /\ popped.now = sched.now
      /\ popped.deadlines = [sched.deadlines EXCEPT ![e] = Unscheduled]
  BY <1>1, CancelledFresh DEF Popped, Fresh
<1>3. sched' = ScheduledAt(popped, e, t) /\ t \in Nat
  BY DEF Repeated
<1> HIDE DEF popped, t
<1>4. Fresh(sched') /\ sched'.now = popped.now /\ sched'.deadlines = [popped.deadlines EXCEPT ![e] = t]
  BY <1>2, <1>3, ScheduledFresh
<1> QED BY <1>1, <1>2, <1>4 DEF t

-----------------------------------------------------------------------------
(***************************************************************************)
(* What each kind of step does to the scheduler and the line shown.        *)
(***************************************************************************)
\* A step that moves only the clock leaves the line and the events alone.
LEMMA ClockMoves ==
  ASSUME NEW k \in Nat, Fresh(sched), VideoAt(k), UNCHANGED video,
         sched'.deadlines = sched.deadlines, sched'.now \in Nat, sched.now <= sched'.now
  PROVE  VideoAt(k)'
<1>1. k * LineCycles \in Nat /\ HDrawCycles \in Nat /\ sched.now \in Nat
  BY Sizes, ProductNatural DEF Fresh, Schedulers
<1> QED BY <1>1 DEF VideoAt, video

\* The time of an instruction, a stall or an interrupt entry.
LEMMA AdvanceMoves ==
  ASSUME Fresh(sched), NEW c \in Nat, sched' = Advanced(sched, c)
  PROVE  /\ Fresh(sched') /\ sched'.deadlines = sched.deadlines
         /\ sched'.now = sched.now + c /\ sched'.now \in Nat /\ sched.now <= sched'.now
<1>1. sched.now \in Nat
  BY DEF Fresh, Schedulers
<1>2. /\ Fresh(sched') /\ sched'.now = sched.now + c
      /\ sched'.deadlines = sched.deadlines
  BY AdvancedFresh
<1> QED BY <1>1, <1>2

LEMMA ExecutesMoves ==
  ASSUME Inv, NEW c \in Nat, NEW transfer \in Nat, Executes(c, transfer)
  PROVE  /\ Fresh(sched') /\ sched'.deadlines = sched.deadlines
         /\ sched'.now \in Nat /\ sched.now <= sched'.now
         /\ stall' \in Nat /\ sched'.now + stall' <= sched.now + AtLeastOne(c) + transfer
<1>1. sched.now \in Nat /\ Fresh(sched) /\ AtLeastOne(c) \in Nat /\ c <= AtLeastOne(c)
  BY DEF Inv, Fresh, Schedulers, AtLeastOne
<1>2. stall = 0
  BY DEF Inv, CaughtUp, Executes, MayStep
<1>3. CASE sched' = Advanced(sched, AtLeastOne(c) + stall + transfer) /\ stall' = 0
  <2>1. AtLeastOne(c) + stall + transfer \in Nat
    BY <1>1, <1>2
  <2>2. /\ Fresh(sched') /\ sched'.deadlines = sched.deadlines /\ sched'.now \in Nat
        /\ sched'.now = sched.now + (AtLeastOne(c) + stall + transfer) /\ sched.now <= sched'.now
    BY <1>1, <1>3, <2>1, AdvanceMoves
  <2> QED BY <1>1, <1>2, <1>3, <2>2
<1>4. CASE sched' = Advanced(sched, c) /\ stall' = stall + transfer
  <2>1. /\ Fresh(sched') /\ sched'.deadlines = sched.deadlines /\ sched'.now \in Nat
        /\ sched'.now = sched.now + c /\ sched.now <= sched'.now
    BY <1>1, <1>4, AdvanceMoves
  <2> QED BY <1>1, <1>2, <1>4, <2>1
<1> QED BY <1>3, <1>4 DEF Executes

\* A halted CPU skips to an event, and no further than the end of the line.
LEMMA SkipMoves ==
  ASSUME Inv, SkipHalted, NEW k \in Nat, VideoAt(k)
  PROVE  /\ Fresh(sched') /\ sched'.deadlines = sched.deadlines
         /\ sched'.now \in Nat /\ sched.now <= sched'.now
         /\ sched'.now <= (k + 1) * LineCycles
<1>1. /\ sched.now \in Nat /\ Fresh(sched) /\ sched.deadlines \in Deadlines
      /\ sched.next = Soonest(sched.deadlines)
  BY DEF Inv, Fresh, Schedulers
<1>2. (k + 1) * LineCycles \in Nat /\ sched.deadlines[ScanlineEnd] = (k + 1) * LineCycles
  <2>1. k + 1 \in Nat
    OBVIOUS
  <2> QED BY <2>1, Sizes, ProductNatural DEF VideoAt
<1>3. CASE CanSkip(sched)
  <2>1. sched' = SkippedToNext(sched) /\ sched.next # Unscheduled /\ sched.next > sched.now
    BY <1>3 DEF SkipHalted, CanSkip
  <2>2. Fresh(sched') /\ sched'.now = sched.next /\ sched'.deadlines = sched.deadlines
    BY <1>1, <1>3, <2>1, SkippedFresh
  <2>3. sched.deadlines[ScanlineEnd] \in Times(sched.deadlines)
    BY <1>2, EventNumbers DEF Times, Unscheduled
  <2>4. sched.next <= (k + 1) * LineCycles /\ sched.next \in Nat \cup {Unscheduled}
    BY <1>1, <1>2, <2>3, SoonestIsLeast
  <2> QED BY <1>1, <2>1, <2>2, <2>4
<1>4. CASE ~CanSkip(sched)
  <2>1. sched' = sched
    BY <1>4 DEF SkipHalted
  <2>2. DueEvents(sched) = {}
    BY DEF Inv, CaughtUp, SkipHalted, MayStep
  <2>3. sched.now < (k + 1) * LineCycles
    BY <1>1, <1>2, <2>2, EventNumbers DEF DueEvents, IsScheduled, Unscheduled
  <2> QED BY <1>1, <1>2, <2>1, <2>3
<1> QED BY <1>3, <1>4

\* HBlank comes first in its line, and is asked for again in the next one.
LEMMA HBlankMoves ==
  ASSUME Inv, OnHBlankStart, NEW k \in Nat, VideoAt(k)
  PROVE  ~hblank /\ Fresh(sched') /\ sched'.now = sched.now /\ VideoAt(k)'
<1> DEFINE line == k * LineCycles
<1>1. line \in Nat /\ HDrawCycles \in Nat \ {0} /\ LineCycles \in Nat \ {0} /\ HDrawCycles < LineCycles
  BY Sizes, ProductNatural
<1>2. (k + 1) * LineCycles = line + LineCycles
  BY Sizes, Successor
<1>3. /\ sched.deadlines[ScanlineEnd] = line + LineCycles
      /\ sched.deadlines[HBlankStart] = (IF hblank THEN line + LineCycles ELSE line) + HDrawCycles
      /\ hblank \in BOOLEAN /\ vcount = k % LinesPerFrame
  BY <1>2 DEF VideoAt, Inv, TypeOK
<1> HIDE DEF line
<1>4. Fresh(sched) /\ Dispatching(HBlankStart) /\ HBlankStart \in Events /\ ScanlineEnd \in Events
  BY EventNumbers DEF Inv, OnHBlankStart
<1>5. /\ sched.deadlines[HBlankStart] \in Nat /\ sched.deadlines[HBlankStart] <= sched.now
      /\ sched.deadlines[ScanlineEnd] \in Nat =>
           sched.deadlines[HBlankStart] <= sched.deadlines[ScanlineEnd]
  BY <1>4, DispatchedDue
<1>6. ~hblank
  BY <1>1, <1>3, <1>5
<1>7. Repeated(HBlankStart, LineCycles) /\ hblank' = TRUE /\ vcount' = vcount
  BY DEF OnHBlankStart
<1>8. /\ Fresh(sched') /\ sched'.now = sched.now
      /\ sched'.deadlines[HBlankStart] = sched.deadlines[HBlankStart] + LineCycles
      /\ sched'.deadlines[ScanlineEnd] = sched.deadlines[ScanlineEnd]
  BY <1>1, <1>4, <1>5, <1>7, RepeatedDeadline, DistinctEvents
<1>9. VideoAt(k)'
  BY <1>1, <1>2, <1>3, <1>5, <1>6, <1>7, <1>8 DEF VideoAt, line
<1> QED BY <1>6, <1>8, <1>9

\* The end of a line comes after its HBlank, and begins the next line.
LEMMA ScanlineMoves ==
  ASSUME Inv, OnScanlineEnd, NEW k \in Nat, VideoAt(k)
  PROVE  /\ hblank /\ Fresh(sched') /\ sched'.now = sched.now /\ VideoAt(k + 1)'
         /\ (k + 1) * LineCycles <= sched.now
<1> DEFINE line == k * LineCycles
<1>1. line \in Nat /\ HDrawCycles \in Nat \ {0} /\ LineCycles \in Nat \ {0} /\ HDrawCycles < LineCycles
  BY Sizes, ProductNatural
<1>2. (k + 1) * LineCycles = line + LineCycles /\ (k + 1 + 1) * LineCycles = line + LineCycles + LineCycles
  <2>1. k + 1 \in Nat
    OBVIOUS
  <2> QED BY <2>1, Sizes, Successor
<1>3. /\ sched.deadlines[ScanlineEnd] = line + LineCycles
      /\ sched.deadlines[HBlankStart] = (IF hblank THEN line + LineCycles ELSE line) + HDrawCycles
      /\ hblank \in BOOLEAN /\ vcount = k % LinesPerFrame
  BY <1>2 DEF VideoAt, Inv, TypeOK
<1> HIDE DEF line
<1>4. Fresh(sched) /\ Dispatching(ScanlineEnd) /\ HBlankStart \in Events /\ ScanlineEnd \in Events
  BY EventNumbers DEF Inv, OnScanlineEnd
<1>5. /\ sched.deadlines[ScanlineEnd] \in Nat /\ sched.deadlines[ScanlineEnd] <= sched.now
      /\ sched.deadlines[HBlankStart] \in Nat =>
           sched.deadlines[ScanlineEnd] <= sched.deadlines[HBlankStart]
  BY <1>4, DispatchedDue
<1>6. hblank
  BY <1>1, <1>3, <1>5
<1>7. Repeated(ScanlineEnd, LineCycles) /\ hblank' = FALSE /\ vcount' = (vcount + 1) % LinesPerFrame
  BY DEF OnScanlineEnd, NextLine
<1>8. /\ Fresh(sched') /\ sched'.now = sched.now
      /\ sched'.deadlines[ScanlineEnd] = sched.deadlines[ScanlineEnd] + LineCycles
      /\ sched'.deadlines[HBlankStart] = sched.deadlines[HBlankStart]
  BY <1>1, <1>4, <1>5, <1>7, RepeatedDeadline, DistinctEvents
<1>9. vcount' = (k + 1) % LinesPerFrame
  BY <1>3, <1>7, Sizes, ModuloStep
<1>10. VideoAt(k + 1)'
  BY <1>1, <1>2, <1>3, <1>5, <1>6, <1>7, <1>8, <1>9 DEF VideoAt
<1> QED BY <1>2, <1>3, <1>5, <1>6, <1>8, <1>10

\* The sound events leave the picture alone.
LEMMA SoundMoves ==
  ASSUME Inv, OnSound, NEW k \in Nat, VideoAt(k)
  PROVE  Fresh(sched') /\ sched'.now = sched.now /\ VideoAt(k)'
<1>1. PICK e \in {ApuSample, ApuSequencer}, period \in {SampleCycles, SequencerCycles} :
        Dispatching(e) /\ Repeated(e, period)
  BY DEF OnSound
<1>2. e \in Events /\ period \in Nat /\ Fresh(sched) /\ e # HBlankStart /\ e # ScanlineEnd
  BY EventNumbers, DistinctEvents, MachineAssumption DEF Inv
<1>3. sched.deadlines[e] \in Nat
  BY <1>1, <1>2, DispatchedDue
<1>4. /\ Fresh(sched') /\ sched'.now = sched.now
      /\ sched'.deadlines[HBlankStart] = sched.deadlines[HBlankStart]
      /\ sched'.deadlines[ScanlineEnd] = sched.deadlines[ScanlineEnd]
  BY <1>1, <1>2, <1>3, RepeatedDeadline, EventNumbers
<1>5. vcount' = vcount /\ hblank' = hblank
  BY DEF OnSound, video
<1> QED BY <1>4, <1>5 DEF VideoAt

\* When process_events is done, nothing is due.
LEMMA SettledDone ==
  ASSUME Inv, Settled PROVE DueEvents(sched) = {}
  BY DueIsNoticed DEF Inv, Settled

-----------------------------------------------------------------------------
(***************************************************************************)
(* The invariant of the clock and the picture.                             *)
(***************************************************************************)
LEMMA IdleTypes == IdleChannel \in Channels /\ 0 \in 0 .. (LinesPerFrame - 1)
  BY Sizes DEF IdleChannel, Channels, Timings

LEMMA InitInv == Init => Inv
<1> SUFFICES ASSUME Init PROVE Inv
  OBVIOUS
<1>1. /\ Fresh(sched) /\ sched.now = 0 /\ DueEvents(sched) = {}
      /\ sched.deadlines[HBlankStart] = HDrawCycles /\ sched.deadlines[ScanlineEnd] = LineCycles
  BY PoweredLine DEF Init
<1>2. VideoAt(0)
  <2>1. 0 * LineCycles = 0 /\ (0 + 1) * LineCycles = LineCycles /\ 0 % LinesPerFrame = 0
    BY Sizes
  <2> QED BY <1>1, <2>1, Sizes DEF VideoAt, Init
<1>3. TypeOK
  BY <1>1, IdleTypes DEF TypeOK, Init, Fresh
<1> QED BY <1>1, <1>2, <1>3 DEF Inv, CaughtUp, EntryMasks, Init

LEMMA ResetInv ==
  ASSUME Inv, Reset PROVE Inv'
<1>1. /\ Fresh(sched') /\ sched'.now = 0 /\ DueEvents(sched') = {}
      /\ sched'.deadlines[HBlankStart] = HDrawCycles /\ sched'.deadlines[ScanlineEnd] = LineCycles
  BY PoweredLine DEF Reset
<1>2. VideoAt(0)'
  <2>1. 0 * LineCycles = 0 /\ (0 + 1) * LineCycles = LineCycles /\ 0 % LinesPerFrame = 0
    BY Sizes
  <2> QED BY <1>1, <2>1, Sizes DEF VideoAt, Reset
<1>3. TypeOK'
  BY <1>1, IdleTypes DEF Inv, TypeOK, Reset, Fresh
<1> QED BY <1>1, <1>2, <1>3 DEF Inv, CaughtUp, EntryMasks, Reset

\* What an instruction may write has the type of what it replaces.
LEMMA TransferType ==
  ASSUME NEW channel \in Channels
  PROVE  Transferred(channel) \in Channels /\ DmaRequest(channel) \subseteq Kinds
  BY DEF Channels, Transferred, DmaRequest, Kinds

LEMMA ProgramMoves ==
  ASSUME Inv, Program
  PROVE  \E c \in Cycles, transfer \in {0, DmaCycles} :
           /\ Executes(c, transfer)
           /\ transfer # 0 => ~dma'.enabled
<1> USE TransferType
<1>1. PICK c \in Cycles :
        \/ Compute(c)
        \/ \E value \in EnableWrites : WriteInterruptEnable(c, value)
        \/ \E bits \in AckWrites : AcknowledgeInterrupts(c, bits)
        \/ \E master, disabled \in BOOLEAN : WriteMasks(c, master, disabled)
        \/ \E value \in StatusWrites : WriteDisplayStatus(c, value)
        \/ WriteHalt(c)
        \/ \E channel \in ChannelWrites : WriteDma(c, channel)
  BY DEF Program
<1>2. CASE \E channel \in ChannelWrites : WriteDma(c, channel)
  <2>1. PICK channel \in ChannelWrites : WriteDma(c, channel)
    BY <1>2
  <2>2. channel \in Channels
    BY MachineAssumption
  <2>3. CASE ~dma.enabled /\ channel.enabled /\ channel.timing = "Immediate"
    <3>1. Executes(c, DmaCycles) /\ dma' = Transferred(channel)
      BY <2>1, <2>3 DEF WriteDma
    <3>2. ~dma'.enabled
      BY <2>2, <2>3, <3>1 DEF Transferred, Channels
    <3> QED BY <3>1, <3>2
  <2>4. CASE ~(~dma.enabled /\ channel.enabled /\ channel.timing = "Immediate")
    <3>1. Executes(c, 0)
      BY <2>1, <2>4 DEF WriteDma
    <3> QED BY <3>1
  <2> QED BY <2>3, <2>4
<1>3. CASE ~\E channel \in ChannelWrites : WriteDma(c, channel)
  <2>1. Executes(c, 0)
    BY <1>1, <1>3 DEF Compute, WriteInterruptEnable, AcknowledgeInterrupts, WriteMasks,
                      WriteDisplayStatus, WriteHalt
  <2> QED BY <2>1
<1> QED BY <1>2, <1>3

LEMMA ProgramTypes ==
  ASSUME Inv, Program
  PROVE  /\ halted' \in BOOLEAN /\ status' \subseteq VideoKinds /\ ie' \subseteq Kinds
         /\ iflag' \subseteq Kinds /\ ime' \in BOOLEAN /\ irq_disabled' \in BOOLEAN
         /\ dma' \in Channels
<1> USE MachineAssumption DEF Inv, TypeOK, irqs
<1>1. PICK c \in Cycles :
        \/ Compute(c)
        \/ \E value \in EnableWrites : WriteInterruptEnable(c, value)
        \/ \E bits \in AckWrites : AcknowledgeInterrupts(c, bits)
        \/ \E master, disabled \in BOOLEAN : WriteMasks(c, master, disabled)
        \/ \E value \in StatusWrites : WriteDisplayStatus(c, value)
        \/ WriteHalt(c)
        \/ \E channel \in ChannelWrites : WriteDma(c, channel)
  BY DEF Program
<1>2. CASE Compute(c)
  BY <1>2 DEF Compute
<1>3. CASE \E value \in EnableWrites : WriteInterruptEnable(c, value)
  BY <1>3 DEF WriteInterruptEnable
<1>4. CASE \E bits \in AckWrites : AcknowledgeInterrupts(c, bits)
  BY <1>4 DEF AcknowledgeInterrupts
<1>5. CASE \E master, disabled \in BOOLEAN : WriteMasks(c, master, disabled)
  BY <1>5 DEF WriteMasks
<1>6. CASE \E value \in StatusWrites : WriteDisplayStatus(c, value)
  BY <1>6 DEF WriteDisplayStatus
<1>7. CASE WriteHalt(c)
  BY <1>7 DEF WriteHalt
<1>8. CASE \E channel \in ChannelWrites : WriteDma(c, channel)
  <2>1. PICK channel \in ChannelWrites : WriteDma(c, channel)
    BY <1>8
  <2>2. Transferred(channel) \in Channels /\ DmaRequest(channel) \subseteq Kinds
    BY TransferType
  <2> QED BY <2>1, <2>2 DEF WriteDma
<1> QED BY <1>1, <1>2, <1>3, <1>4, <1>5, <1>6, <1>7, <1>8

\* A transfer of an event leaves a channel, and asks for an interrupt of its own.
LEMMA TransfersTypes ==
  ASSUME Inv, NEW runs \in BOOLEAN, Transfers(runs)
  PROVE  /\ dma' \in Channels /\ stall' \in Nat
         /\ (IF runs THEN DmaRequest(dma) ELSE {}) \subseteq Kinds
<1>1. Transferred(dma) \in Channels /\ DmaRequest(dma) \subseteq Kinds
  BY TransferType DEF Inv, TypeOK
<1> QED BY <1>1, MachineAssumption DEF Inv, TypeOK, Transfers

LEMMA NextInv == Inv /\ [Next]_vars => Inv'
<1> SUFFICES ASSUME Inv, [Next]_vars PROVE Inv'
  OBVIOUS
<1>0. PICK k \in Nat : VideoAt(k)
  BY DEF Inv
<1>a. TypeOK /\ Fresh(sched) /\ CaughtUp /\ EntryMasks /\ sched.now \in Nat
  BY DEF Inv, Fresh, Schedulers
<1>1. ASSUME TypeOK', Fresh(sched'), \E j \in Nat : VideoAt(j)',
             phase' \in {"events", "entry"}, EntryMasks'
      PROVE  Inv'
  BY <1>1 DEF Inv, CaughtUp
<1>2. ASSUME TypeOK', UNCHANGED <<sched, video>>,
             phase' \in {"idle", "loop", "service"} => DueEvents(sched) = {} /\ stall' = 0, EntryMasks'
      PROVE  Inv'
  <2>1. VideoAt(k)'
    BY <1>0, <1>2 DEF VideoAt, video
  <2> QED BY <1>a, <1>2, <2>1 DEF Inv, CaughtUp
<1>3. CASE Reset
  BY <1>3, ResetInv
<1>4. CASE SetPaused
  BY <1>a, <1>2, <1>4 DEF SetPaused, TypeOK, CaughtUp, EntryMasks, irqs, video
<1>5. CASE PressKeys
  <2>1. iflag' \subseteq Kinds
    BY <1>a, <1>5 DEF PressKeys, TypeOK, Kinds
  <2> QED BY <1>a, <1>2, <1>5, <2>1 DEF PressKeys, TypeOK, CaughtUp, EntryMasks, control, video
<1>6. CASE StartFrame
  <2>1. frame_end' \in Nat
    <3>1. sched.now \div FrameCycles \in Nat /\ FrameCycles \in Nat
      BY <1>a, Sizes, Quotient
    <3>2. sched.now \div FrameCycles + 1 \in Nat
      BY <3>1
    <3>3. (sched.now \div FrameCycles + 1) * FrameCycles \in Nat
      BY <3>1, <3>2, ProductNatural
    <3> QED BY <1>6, <3>3 DEF StartFrame, FrameEnd
  <2> QED BY <1>a, <1>2, <1>6, <2>1 DEF StartFrame, TypeOK, CaughtUp, EntryMasks, irqs, video
<1>7. CASE EndFrame
  <2>1. frame_counter' \in Nat /\ state' \in {"Running", "Paused"}
    BY <1>a, <1>7 DEF EndFrame, TypeOK
  <2> QED BY <1>a, <1>2, <1>7, <2>1 DEF EndFrame, TypeOK, CaughtUp, EntryMasks, irqs, video
<1>8. CASE Program
  <2>1. PICK c \in Cycles, transfer \in {0, DmaCycles} : Executes(c, transfer)
    BY <1>8, ProgramMoves
  <2>2. c \in Nat /\ transfer \in Nat
    BY MachineAssumption
  <2>3. /\ Fresh(sched') /\ sched'.deadlines = sched.deadlines
        /\ sched'.now \in Nat /\ sched.now <= sched'.now /\ stall' \in Nat
    BY <2>1, <2>2, ExecutesMoves
  <2>4. VideoAt(k)'
    BY <1>0, <1>a, <2>1, <2>3, ClockMoves DEF Executes
  <2>5. TypeOK' /\ phase' = "events"
    BY <1>a, <1>8, <2>1, <2>3, ProgramTypes DEF TypeOK, Executes, control, video, Fresh
  <2> QED BY <1>1, <2>3, <2>4, <2>5 DEF EntryMasks
<1>9. CASE Fault
  BY <1>a, <1>2, <1>9 DEF Fault, TypeOK, CaughtUp, EntryMasks, irqs, video
<1>10. CASE SkipHalted
  <2>1. /\ Fresh(sched') /\ sched'.deadlines = sched.deadlines
        /\ sched'.now \in Nat /\ sched.now <= sched'.now
    BY <1>0, <1>10, SkipMoves
  <2>2. VideoAt(k)'
    BY <1>0, <1>a, <1>10, <2>1, ClockMoves DEF SkipHalted
  <2>3. TypeOK' /\ phase' = "events"
    BY <1>a, <1>10, <2>1 DEF SkipHalted, TypeOK, control, video, irqs, Fresh
  <2> QED BY <1>1, <2>1, <2>2, <2>3 DEF EntryMasks
<1>11. CASE OnHBlankStart
  <2> DEFINE runs == vcount < VisibleLines /\ Triggered("HBlank")
  <2>1. Fresh(sched') /\ VideoAt(k)'
    BY <1>0, <1>11, HBlankMoves
  <2>2. Transfers(runs)
    BY <1>11 DEF OnHBlankStart
  <2>3. dma' \in Channels /\ stall' \in Nat /\ (IF runs THEN DmaRequest(dma) ELSE {}) \subseteq Kinds
    BY <2>2, TransfersTypes
  <2>4. TypeOK'
    <3>1. iflag' \subseteq Kinds
      BY <1>a, <1>11, <2>3 DEF OnHBlankStart, TypeOK, Kinds
    <3> QED BY <1>a, <1>11, <2>1, <2>3, <3>1 DEF OnHBlankStart, TypeOK, control, Fresh
  <2>5. phase' \in {"events", "entry"} /\ EntryMasks'
    BY <1>a, <1>11 DEF OnHBlankStart, Dispatching, EntryMasks
  <2> QED BY <1>1, <2>1, <2>4, <2>5
<1>12. CASE OnScanlineEnd
  <2> DEFINE runs == NextLine = VisibleLines /\ Triggered("VBlank")
  <2>1. Fresh(sched') /\ VideoAt(k + 1)' /\ k + 1 \in Nat
    BY <1>0, <1>12, ScanlineMoves
  <2>2. Transfers(runs)
    BY <1>12 DEF OnScanlineEnd
  <2>3. dma' \in Channels /\ stall' \in Nat /\ (IF runs THEN DmaRequest(dma) ELSE {}) \subseteq Kinds
    BY <2>2, TransfersTypes
  <2>4. TypeOK'
    <3>1. iflag' \subseteq Kinds
      BY <1>a, <1>12, <2>3 DEF OnScanlineEnd, TypeOK, Kinds
    <3>2. vcount' \in 0 .. (LinesPerFrame - 1)
      BY <2>1, Sizes, Modulo DEF VideoAt
    <3> QED BY <1>a, <1>12, <2>1, <2>3, <3>1, <3>2 DEF OnScanlineEnd, TypeOK, control, Fresh
  <2>5. phase' \in {"events", "entry"} /\ EntryMasks'
    BY <1>a, <1>12 DEF OnScanlineEnd, Dispatching, EntryMasks
  <2> QED BY <1>1, <2>1, <2>4, <2>5
<1>13. CASE OnSound
  <2>1. Fresh(sched') /\ VideoAt(k)'
    BY <1>0, <1>13, SoundMoves
  <2>2. TypeOK' /\ phase' \in {"events", "entry"} /\ EntryMasks'
    BY <1>a, <1>13, <2>1
       DEF OnSound, Dispatching, TypeOK, EntryMasks, control, video, irqs, Fresh
  <2> QED BY <1>1, <2>1, <2>2
<1>14. CASE TakeStall
  <2>1. stall \in Nat /\ sched' = Advanced(sched, stall)
    BY <1>a, <1>14 DEF TakeStall, TypeOK
  <2>2. /\ Fresh(sched') /\ sched'.deadlines = sched.deadlines
        /\ sched'.now \in Nat /\ sched.now <= sched'.now
    BY <1>a, <2>1, AdvanceMoves
  <2>3. VideoAt(k)'
    BY <1>0, <1>a, <1>14, <2>2, ClockMoves DEF TakeStall
  <2>4. TypeOK' /\ phase' \in {"events", "entry"} /\ EntryMasks'
    BY <1>a, <1>14, <2>2
       DEF TakeStall, Settled, TypeOK, EntryMasks, control, video, irqs, Fresh
  <2> QED BY <1>1, <2>2, <2>3, <2>4
<1>15. CASE EventsDone
  <2>1. DueEvents(sched) = {}
    BY <1>15, SettledDone DEF EventsDone
  <2> QED BY <1>a, <1>2, <1>15, <2>1
         DEF EventsDone, TypeOK, EntryMasks, control, video, irqs
<1>16. CASE ServiceInterrupts
  <2> DEFINE takes == Pending /\ ime /\ ~irq_disabled
  <2>1. halted' \in BOOLEAN /\ irq_disabled' \in BOOLEAN
    BY <1>a, <1>16 DEF ServiceInterrupts, SleepsOn, TypeOK
  <2>2. CASE takes
    <3>1. sched' = Advanced(sched, IrqEntryCycles) /\ IrqEntryCycles \in Nat /\ phase' = "entry"
      BY <1>16, <2>2 DEF ServiceInterrupts, IrqEntryCycles
    <3>2. /\ Fresh(sched') /\ sched'.deadlines = sched.deadlines
          /\ sched'.now \in Nat /\ sched.now <= sched'.now
      BY <1>a, <3>1, AdvanceMoves
    <3>3. VideoAt(k)'
      BY <1>0, <1>a, <1>16, <3>2, ClockMoves DEF ServiceInterrupts
    <3>4. ~halted' /\ irq_disabled'
      BY <1>16, <2>2 DEF ServiceInterrupts, SleepsOn
    <3>5. TypeOK'
      BY <1>a, <1>16, <2>1, <3>1, <3>2 DEF ServiceInterrupts, TypeOK, control, video, Fresh
    <3> QED BY <1>1, <3>1, <3>2, <3>3, <3>4, <3>5 DEF EntryMasks
  <2>3. CASE ~takes
    <3>1. sched' = sched /\ phase' = "loop" /\ phase = "service"
      BY <1>16, <2>3 DEF ServiceInterrupts
    <3>2. TypeOK'
      BY <1>a, <1>16, <2>1, <3>1 DEF ServiceInterrupts, TypeOK, control, video
    <3> QED BY <1>a, <1>2, <1>16, <3>1, <3>2 DEF ServiceInterrupts, CaughtUp, EntryMasks
  <2> QED BY <2>2, <2>3
<1>17. CASE UNCHANGED vars
  BY <1>a, <1>2, <1>17 DEF vars, TypeOK, CaughtUp, EntryMasks, control, video, irqs
<1> QED BY <1>3, <1>4, <1>5, <1>6, <1>7, <1>8, <1>9, <1>10, <1>11, <1>12, <1>13, <1>14, <1>15,
           <1>16, <1>17 DEF Next, Emulate

\* Between steps the line shown is the one of the clock.
LEMMA InvVideo == Inv => VideoFollowsClock
<1> SUFFICES ASSUME Inv, phase \in {"idle", "loop"}
             PROVE  /\ vcount = (sched.now \div LineCycles) % LinesPerFrame
                    /\ hblank = (sched.now % LineCycles >= HDrawCycles)
  BY DEF VideoFollowsClock
<1>0. PICK k \in Nat : VideoAt(k)
  BY DEF Inv
<1> DEFINE line == k * LineCycles
<1>1. line \in Nat /\ HDrawCycles \in Nat /\ LineCycles \in Nat \ {0}
  BY Sizes, ProductNatural
<1>2. (k + 1) * LineCycles = line + LineCycles
  BY Sizes, Successor
<1>3. /\ sched.deadlines[ScanlineEnd] = line + LineCycles
      /\ sched.deadlines[HBlankStart] = (IF hblank THEN line + LineCycles ELSE line) + HDrawCycles
      /\ line + (IF hblank THEN HDrawCycles ELSE 0) <= sched.now
      /\ hblank \in BOOLEAN /\ sched.now \in Nat /\ DueEvents(sched) = {}
  BY <1>0, <1>2 DEF VideoAt, Inv, TypeOK, CaughtUp, Schedulers
<1> HIDE DEF line
<1>4. /\ sched.now < sched.deadlines[ScanlineEnd]
      /\ sched.now < sched.deadlines[HBlankStart]
  BY <1>1, <1>3, EventNumbers DEF DueEvents, IsScheduled, Unscheduled
<1>5. k * LineCycles <= sched.now /\ sched.now < (k + 1) * LineCycles
  BY <1>1, <1>2, <1>3, <1>4 DEF line
<1>6. sched.now \div LineCycles = k /\ sched.now % LineCycles = sched.now - line
  BY <1>1, <1>3, <1>5, InInterval DEF line
<1>7. hblank = (sched.now - line >= HDrawCycles)
  BY <1>1, <1>3, <1>4
<1> QED BY <1>0, <1>6, <1>7 DEF VideoAt

(***************************************************************************)
(* Whenever an instruction may start, VCOUNT and the HBlank flag are those *)
(* of the present cycle, whatever delayed the events (ppu.cpp).            *)
(***************************************************************************)
THEOREM PictureOnTime == Spec => [](TypeOK /\ VideoFollowsClock)
<1>1. Spec => []Inv
  BY InitInv, NextInv, PTL DEF Spec
<1>2. Inv => TypeOK /\ VideoFollowsClock
  BY InvVideo DEF Inv
<1> QED BY <1>1, <1>2, PTL

\* The check at the end of a step sees every request of the step.
LEMMA StepServes == Inv /\ [Next]_vars => [StepEnds => ~(Pending' /\ (halted' \/ Unmasked'))]_vars
<1> SUFFICES ASSUME Inv, Next, StepEnds, Pending' PROVE ~halted' /\ ~Unmasked'
  BY DEF Inv, TypeOK
<1>1. CASE phase = "service"
  <2>1. ServiceInterrupts
    BY <1>1 DEF Next, Emulate, Reset, SetPaused, PressKeys, StartFrame, EndFrame, Program,
                Compute, WriteInterruptEnable, AcknowledgeInterrupts, WriteMasks,
                WriteDisplayStatus, WriteHalt, WriteDma, Executes, Fault, MayStep, SkipHalted,
                OnHBlankStart, OnScanlineEnd, OnSound, TakeStall, EventsDone, Dispatching, Settled
  <2>2. ~(Pending /\ ime /\ ~irq_disabled)
    BY <2>1 DEF StepEnds, ServiceInterrupts
  <2>3. Pending
    BY <2>1 DEF ServiceInterrupts, Pending
  <2> QED BY <2>1, <2>2, <2>3 DEF ServiceInterrupts, SleepsOn, Unmasked
<1>2. CASE phase = "entry"
  <2>1. EventsDone
    BY <1>2 DEF StepEnds, Next, Emulate, Reset, SetPaused, PressKeys, StartFrame, EndFrame, Program,
                Compute, WriteInterruptEnable, AcknowledgeInterrupts, WriteMasks,
                WriteDisplayStatus, WriteHalt, WriteDma, Executes, Fault, MayStep, SkipHalted,
                OnHBlankStart, OnScanlineEnd, OnSound, TakeStall, EventsDone, ServiceInterrupts
  <2>2. ~halted' /\ irq_disabled'
    BY <1>2, <2>1 DEF EventsDone, Inv, EntryMasks, irqs
  <2> QED BY <2>2 DEF Unmasked
<1> QED BY <1>1, <1>2 DEF StepEnds

(***************************************************************************)
(* No step of the CPU ends asleep on an enabled request, or about to start *)
(* an instruction with an interrupt it should have taken                   *)
(* (emulator.cpp, service_interrupts).                                     *)
(***************************************************************************)
THEOREM RequestsServed == Spec => NoRequestMissed
<1>1. Spec => []Inv
  BY InitInv, NextInv, PTL DEF Spec
<1> QED BY <1>1, StepServes, PTL DEF Spec, NoRequestMissed

-----------------------------------------------------------------------------
(***************************************************************************)
(* The frame.  What a step may take is what the transfers of a frame leave *)
(* of it.  Late(k) bounds the clock while line k is being caught up with:  *)
(* before the end of the frame the time of the next line, as a line holds  *)
(* a transfer; after it a transfer for each of its visible lines.          *)
(***************************************************************************)
StepCycles == FrameCycles - (VisibleLines + 1) * DmaCycles

EndLine == (frame_counter + 1) * LinesPerFrame

OnHBlank == hblank /\ dma.timing = "HBlank"

Paid == IF ~dma.enabled \/ OnHBlank THEN DmaCycles ELSE 0

Caught(k) == k - EndLine + (IF OnHBlank THEN 1 ELSE 0)

CaughtLines(k) == IF Caught(k) < VisibleLines THEN Caught(k) ELSE VisibleLines

Late(k) ==
  IF k < EndLine THEN (k + 1) * LineCycles + StepCycles + Paid
  ELSE EndLine * LineCycles + StepCycles + DmaCycles + CaughtLines(k) * DmaCycles

EntryTime == IF phase = "events" THEN IrqEntryCycles ELSE 0

InFrame(k) ==
  /\ frame_end = EndLine * LineCycles
  /\ frame_counter * FrameCycles <= sched.now
  /\ sched.now < frame_end + FrameCycles
  /\ phase \in {"events", "entry"} => sched.now + stall + EntryTime < Late(k)
  /\ phase = "service" => sched.now + IrqEntryCycles < Late(k)

FrameInv ==
  /\ phase = "idle" => frame_counter = sched.now \div FrameCycles
  /\ phase # "idle" => \E k \in Nat : VideoAt(k) /\ InFrame(k)

\* An instruction and its exception entry fit in the time of a step, which
\* with the transfers of a frame is a frame.
LEMMA Budget ==
  ASSUME StepsFit
  PROVE  /\ DmaCycles \in Nat \ {0} /\ DmaCycles <= LineCycles /\ VisibleLines \in Nat \ {0}
         /\ VisibleLines * DmaCycles \in Nat
         /\ StepCycles \in Nat /\ IrqEntryCycles \in Nat
         /\ StepCycles + DmaCycles + VisibleLines * DmaCycles = FrameCycles
         /\ 1 + IrqEntryCycles <= StepCycles
         /\ \A c \in Cycles : AtLeastOne(c) \in Nat /\ AtLeastOne(c) + IrqEntryCycles <= StepCycles
<1>1. DmaCycles \in Nat \ {0} /\ VisibleLines \in Nat \ {0} /\ Cycles \subseteq Nat
  BY MachineAssumption
<1>2. DmaCycles <= LineCycles
  BY DEF StepsFit
<1> DEFINE transfers == VisibleLines * DmaCycles
<1>3. (VisibleLines + 1) * DmaCycles = transfers + DmaCycles /\ transfers \in Nat
  BY <1>1, Successor, ProductNatural
<1> HIDE DEF transfers
<1>4. FrameCycles \in Nat
  BY Sizes
<1>5. StepCycles = FrameCycles - transfers - DmaCycles
  BY <1>1, <1>3, <1>4 DEF StepCycles
<1>6. ASSUME NEW c \in Cycles \cup {0}
      PROVE  AtLeastOne(c) \in Nat /\ AtLeastOne(c) + IrqEntryCycles <= StepCycles
  <2>1. AtLeastOne(c) + IrqEntryCycles + (VisibleLines + 1) * DmaCycles <= FrameCycles
    BY DEF StepsFit
  <2>2. AtLeastOne(c) \in Nat
    BY <1>1 DEF AtLeastOne
  <2> QED BY <1>1, <1>3, <1>4, <1>5, <2>1, <2>2 DEF IrqEntryCycles
<1>7. 1 + IrqEntryCycles <= StepCycles
  BY <1>6 DEF AtLeastOne
<1>8. StepCycles \in Nat
  BY <1>1, <1>3, <1>4, <1>5, <1>7 DEF IrqEntryCycles
<1> QED BY <1>1, <1>2, <1>3, <1>4, <1>5, <1>6, <1>7, <1>8 DEF IrqEntryCycles, transfers

\* The end of the frame in lines and in cycles.
LEMMA FrameEnds ==
  ASSUME Inv
  PROVE  /\ EndLine \in Nat /\ EndLine * LineCycles \in Nat
         /\ EndLine * LineCycles = (frame_counter + 1) * FrameCycles
         /\ (EndLine + LinesPerFrame) * LineCycles = EndLine * LineCycles + FrameCycles
         /\ EndLine + LinesPerFrame = (frame_counter + 1 + 1) * LinesPerFrame
<1> DEFINE n == frame_counter + 1
<1>1. n \in Nat /\ LinesPerFrame \in Nat /\ LineCycles \in Nat /\ FrameCycles = LinesPerFrame * LineCycles
  BY Sizes DEF Inv, TypeOK
<1>2. EndLine = n * LinesPerFrame
  BY DEF EndLine
<1> HIDE DEF n
<1>3. EndLine \in Nat
  BY <1>1, <1>2, ProductNatural
<1>4. EndLine * LineCycles \in Nat
  BY <1>1, <1>3, ProductNatural
<1>5. (n * LinesPerFrame) * LineCycles = n * (LinesPerFrame * LineCycles)
  BY <1>1
<1>6. (EndLine + LinesPerFrame) * LineCycles = EndLine * LineCycles + LinesPerFrame * LineCycles
  BY <1>1, <1>3
<1>7. (n + 1) * LinesPerFrame = n * LinesPerFrame + LinesPerFrame
  BY <1>1, Successor
<1> QED BY <1>1, <1>2, <1>3, <1>4, <1>5, <1>6, <1>7 DEF n

\* The lines caught up with after the end of a frame are those of one frame.
LEMMA LineInFrame ==
  ASSUME Inv, NEW k \in Nat, VideoAt(k), sched.now < EndLine * LineCycles + FrameCycles
  PROVE  /\ k < EndLine + LinesPerFrame
         /\ EndLine <= k => vcount = k - EndLine
<1>1. /\ k * LineCycles \in Nat /\ LineCycles \in Nat /\ HDrawCycles \in Nat /\ sched.now \in Nat
      /\ LinesPerFrame \in Nat \ {0} /\ FrameCycles \in Nat /\ frame_counter + 1 \in Nat
  BY Sizes, ProductNatural DEF Inv, TypeOK, Schedulers
<1>2. k * LineCycles <= sched.now
  BY <1>1 DEF VideoAt
<1>3. /\ EndLine + LinesPerFrame \in Nat
      /\ k * LineCycles < (EndLine + LinesPerFrame) * LineCycles
  BY <1>1, <1>2, FrameEnds
<1>4. k < EndLine + LinesPerFrame
  BY <1>1, <1>3, Cancellation
<1>5. ASSUME EndLine <= k PROVE vcount = k - EndLine
  <2> DEFINE n == frame_counter + 1
  <2>1. n * LinesPerFrame <= k /\ k < (n + 1) * LinesPerFrame /\ n \in Nat
    BY <1>1, <1>4, <1>5, FrameEnds DEF EndLine
  <2> HIDE DEF n
  <2>2. k % LinesPerFrame = k - n * LinesPerFrame
    BY <1>1, <2>1, InInterval
  <2> QED BY <2>2 DEF VideoAt, EndLine, n
<1> QED BY <1>4, <1>5

\* Late(k) is no later than a frame after the end of the frame.
LEMMA LateBound ==
  ASSUME StepsFit, Inv, NEW k \in Nat, hblank \in BOOLEAN
  PROVE  Late(k) \in Nat /\ Late(k) <= EndLine * LineCycles + FrameCycles
<1> DEFINE end == EndLine * LineCycles
           next == (k + 1) * LineCycles
<1>1. end \in Nat /\ EndLine \in Nat /\ LineCycles \in Nat
  BY FrameEnds, Sizes
<1>2. next \in Nat /\ k + 1 \in Nat
  BY <1>1, ProductNatural
<1>3. CASE k < EndLine
  <2>1. next <= end
    BY <1>1, <1>2, <1>3, Monotone
  <2>2. Late(k) = next + StepCycles + Paid /\ Paid \in {0, DmaCycles}
    BY <1>3 DEF Late, Paid
  <2> HIDE DEF end, next
  <2>3. Late(k) \in Nat /\ Late(k) <= end + FrameCycles
    BY <1>1, <1>2, <2>1, <2>2, Budget
  <2> QED BY <2>3 DEF end
<1>4. CASE EndLine <= k
  <2>1. CaughtLines(k) \in Nat /\ CaughtLines(k) <= VisibleLines
    BY <1>1, <1>4, Budget DEF CaughtLines, Caught
  <2>2. CaughtLines(k) * DmaCycles \in Nat /\ CaughtLines(k) * DmaCycles <= VisibleLines * DmaCycles
    BY <2>1, Budget, Monotone, ProductNatural
  <2>3. Late(k) = end + StepCycles + DmaCycles + CaughtLines(k) * DmaCycles
    BY <1>1, <1>4 DEF Late
  <2> HIDE DEF end
  <2>4. Late(k) \in Nat /\ Late(k) <= end + FrameCycles
    BY <1>1, <2>2, <2>3, Budget
  <2> QED BY <2>4 DEF end
<1> QED BY <1>1, <1>3, <1>4

\* A transfer at HBlank is allowed for, the first and only one of its line.
LEMMA LateAtHBlank ==
  ASSUME StepsFit, Inv, NEW k \in Nat, VideoAt(k), OnHBlankStart,
         sched.now < EndLine * LineCycles + FrameCycles
  PROVE  stall' \in Nat /\ Late(k)' \in Nat /\ Late(k)' >= Late(k) + (stall' - stall)
<1> DEFINE runs == vcount < VisibleLines /\ Triggered("HBlank")
<1>1. ~hblank /\ hblank' /\ Transfers(runs) /\ EndLine' = EndLine /\ stall \in Nat
  BY HBlankMoves DEF OnHBlankStart, EndLine, control, Inv, TypeOK
<1>2. /\ dma' = IF runs THEN Transferred(dma) ELSE dma
      /\ stall' \in Nat /\ stall' - stall = IF runs THEN DmaCycles ELSE 0
      /\ dma'.timing = dma.timing
      /\ ~runs => dma'.enabled = dma.enabled
  BY <1>1, Budget DEF Transfers, Transferred, Inv, TypeOK, Channels
<1>3. ~OnHBlank /\ (runs => OnHBlank' /\ dma.enabled)
  <2>1. ~OnHBlank
    BY <1>1 DEF OnHBlank
  <2>2. ASSUME runs PROVE dma.enabled /\ dma'.timing = "HBlank"
    BY <1>2, <2>2 DEF Triggered
  <2>3. runs => OnHBlank'
    BY <1>1, <2>2 DEF OnHBlank
  <2> QED BY <2>1, <2>2, <2>3
<1>4. EndLine \in Nat /\ EndLine * LineCycles \in Nat /\ LineCycles \in Nat
  BY FrameEnds, Sizes
<1>5. CASE k < EndLine
  <2>1. Paid' >= Paid + (stall' - stall) /\ Paid \in Nat /\ Paid' \in Nat
    BY <1>1, <1>2, <1>3, Budget DEF Paid, OnHBlank
  <2>2. /\ Late(k) = (k + 1) * LineCycles + StepCycles + Paid
        /\ Late(k)' = (k + 1) * LineCycles + StepCycles + Paid'
    BY <1>1, <1>5 DEF Late, StepCycles
  <2>3. (k + 1) * LineCycles \in Nat /\ StepCycles \in Nat
    <3>1. k + 1 \in Nat
      OBVIOUS
    <3> QED BY <1>4, <3>1, ProductNatural, Budget
  <2> QED BY <1>2, <2>1, <2>2, <2>3, Budget
<1>6. CASE EndLine <= k
  <2> DEFINE c == CaughtLines(k)
             d == CaughtLines(k)'
  <2>1. vcount = k - EndLine
    BY <1>6, LineInFrame
  <2>2. Caught(k) = k - EndLine /\ Caught(k)' = k - EndLine + (IF OnHBlank' THEN 1 ELSE 0)
    BY <1>1, <1>3, <1>4 DEF Caught
  <2>3. c \in Nat /\ d \in Nat /\ c <= d /\ (runs => d = c + 1)
    <3> DEFINE i == Caught(k)
               j == Caught(k)'
    <3>1. i \in Nat /\ j \in {i, i + 1} /\ (runs => j = i + 1 /\ i < VisibleLines)
      BY <1>3, <1>4, <1>6, <2>1, <2>2
    <3>2. /\ c = IF i < VisibleLines THEN i ELSE VisibleLines
          /\ d = IF j < VisibleLines THEN j ELSE VisibleLines
      BY DEF CaughtLines
    <3>3. VisibleLines \in Nat
      BY Budget
    <3> HIDE DEF i, j, c, d
    <3>4. c \in Nat /\ d \in Nat /\ c <= d
      BY <3>1, <3>2, <3>3
    <3>5. ASSUME runs PROVE d = c + 1
      BY <3>1, <3>2, <3>3, <3>5
    <3> QED BY <3>4, <3>5
  <2> HIDE DEF c, d
  <2>4. c * DmaCycles \in Nat /\ d * DmaCycles \in Nat /\ c * DmaCycles <= d * DmaCycles
    BY <2>3, Budget, Monotone, ProductNatural
  <2>5. runs => d * DmaCycles = c * DmaCycles + DmaCycles
    BY <2>3, Budget, Successor
  <2>6. /\ Late(k) = EndLine * LineCycles + StepCycles + DmaCycles + c * DmaCycles
        /\ Late(k)' = EndLine * LineCycles + StepCycles + DmaCycles + d * DmaCycles
    BY <1>1, <1>4, <1>6 DEF Late, StepCycles, c, d
  <2> QED BY <1>2, <1>4, <2>4, <2>5, <2>6, Budget
<1> QED BY <1>4, <1>5, <1>6

\* So is one at the start of VBlank; a line before the end of the frame holds one.
LEMMA LateAtScanline ==
  ASSUME StepsFit, Inv, NEW k \in Nat, VideoAt(k), OnScanlineEnd,
         sched.now < EndLine * LineCycles + FrameCycles
  PROVE  stall' \in Nat /\ Late(k + 1)' \in Nat /\ Late(k + 1)' >= Late(k) + (stall' - stall)
<1> DEFINE runs == NextLine = VisibleLines /\ Triggered("VBlank")
           line == k * LineCycles
           end  == EndLine * LineCycles
<1>1. hblank /\ ~hblank' /\ Transfers(runs) /\ EndLine' = EndLine /\ stall \in Nat /\ vcount' = NextLine
  BY ScanlineMoves DEF OnScanlineEnd, EndLine, control, Inv, TypeOK
<1>2. /\ dma' = IF runs THEN Transferred(dma) ELSE dma
      /\ stall' \in Nat /\ stall' - stall = IF runs THEN DmaCycles ELSE 0
      /\ ~runs => dma' = dma
  BY <1>1, Budget DEF Transfers, Inv, TypeOK
<1>3. ~OnHBlank' /\ (runs => ~OnHBlank /\ dma.enabled)
  BY <1>1 DEF OnHBlank, Triggered
<1>4. /\ EndLine \in Nat /\ end \in Nat /\ LineCycles \in Nat /\ line \in Nat
      /\ (k + 1) * LineCycles = line + LineCycles
      /\ (k + 1 + 1) * LineCycles = line + LineCycles + LineCycles /\ k + 1 \in Nat
  <2>1. k + 1 \in Nat
    OBVIOUS
  <2>2. line \in Nat
    BY Sizes, ProductNatural
  <2>3. (k + 1) * LineCycles = line + LineCycles
    BY Sizes, Successor
  <2>4. (k + 1 + 1) * LineCycles = (k + 1) * LineCycles + LineCycles
    BY <2>1, Sizes, Successor
  <2> HIDE DEF line
  <2> QED BY <2>1, <2>2, <2>3, <2>4, FrameEnds, Sizes
<1>5. vcount' = (k + 1) % LinesPerFrame
  BY ScanlineMoves DEF VideoAt
<1>6. Paid \in {0, DmaCycles} /\ Paid' \in {0, DmaCycles}
  BY DEF Paid
<1>7. CASE k + 1 < EndLine
  <2>1. Late(k) = line + LineCycles + StepCycles + Paid
    BY <1>4, <1>7 DEF Late
  <2>2. Late(k + 1)' = line + LineCycles + LineCycles + StepCycles + Paid'
    BY <1>1, <1>4, <1>7 DEF Late, StepCycles
  <2>3. LineCycles + Paid' >= Paid + (stall' - stall)
    <3>1. CASE runs
      BY <1>2, <1>3, <1>4, <1>6, <3>1, Budget DEF Paid
    <3>2. CASE ~runs
      BY <1>2, <1>4, <1>6, <3>2, Budget
    <3> QED BY <3>1, <3>2
  <2> HIDE DEF line
  <2> QED BY <1>2, <1>4, <1>6, <2>1, <2>2, <2>3, Budget
<1>8. CASE k + 1 = EndLine
  <2>1. ~runs
    <3> DEFINE n == frame_counter + 1
    <3>1. n \in Nat /\ EndLine = n * LinesPerFrame /\ LinesPerFrame \in Nat \ {0}
      BY Sizes DEF EndLine, Inv, TypeOK
    <3> HIDE DEF n
    <3>2. n * LinesPerFrame <= EndLine /\ EndLine < (n + 1) * LinesPerFrame
      BY <1>4, <3>1, Successor
    <3>3. EndLine % LinesPerFrame = EndLine - n * LinesPerFrame
      BY <1>4, <3>1, <3>2, InInterval
    <3>4. vcount' = 0
      BY <1>4, <1>5, <1>8, <3>1, <3>3
    <3> QED BY <1>1, <3>4, Budget
  <2>2. Late(k) = end + StepCycles + Paid
    BY <1>4, <1>8 DEF Late
  <2>3. CaughtLines(k + 1)' = 0
    BY <1>1, <1>3, <1>4, <1>8, Budget DEF CaughtLines, Caught
  <2>4. Late(k + 1)' = end + StepCycles + DmaCycles + 0 * DmaCycles
    BY <1>1, <1>4, <1>8, <2>3 DEF Late, StepCycles
  <2> HIDE DEF end
  <2> QED BY <1>2, <1>4, <1>6, <2>1, <2>2, <2>4, Budget
<1>9. CASE EndLine <= k
  <2> DEFINE c == CaughtLines(k)
             d == CaughtLines(k + 1)'
  <2>1. k < EndLine + LinesPerFrame /\ vcount = k - EndLine
    BY <1>9, LineInFrame
  <2>2. /\ Caught(k) = k - EndLine + (IF OnHBlank THEN 1 ELSE 0)
        /\ Caught(k + 1)' = k + 1 - EndLine
    BY <1>1, <1>3, <1>4 DEF Caught
  <2>3. runs => k + 1 - EndLine = VisibleLines
    <3>1. VisibleLines \in Nat \ {0} /\ LinesPerFrame \in Nat \ {0} /\ vcount \in Nat
      BY <1>4, <1>9, <2>1, Budget, Sizes
    <3>2. vcount + 1 <= LinesPerFrame
      BY <1>4, <2>1, <3>1
    <3>3. vcount + 1 = LinesPerFrame => NextLine = 0
      BY <3>1 DEF NextLine
    <3>4. vcount + 1 < LinesPerFrame => NextLine = vcount + 1
      <4> DEFINE v == vcount + 1
      <4>1. v \in Nat
        BY <3>1
      <4>2. v < LinesPerFrame => v % LinesPerFrame = v
        BY <3>1, <4>1, Modulo
      <4> QED BY <4>2 DEF NextLine
    <3> QED BY <1>4, <1>9, <2>1, <3>1, <3>2, <3>3, <3>4
  <2>4. c \in Nat /\ d \in Nat /\ c <= d /\ (runs => d = c + 1)
    BY <1>3, <1>4, <1>9, <2>2, <2>3, Budget DEF CaughtLines
  <2> HIDE DEF c, d
  <2>5. c * DmaCycles \in Nat /\ d * DmaCycles \in Nat /\ c * DmaCycles <= d * DmaCycles
    BY <2>4, Budget, Monotone, ProductNatural
  <2>6. runs => d * DmaCycles = c * DmaCycles + DmaCycles
    BY <2>4, Budget, Successor
  <2>7. /\ Late(k) = end + StepCycles + DmaCycles + c * DmaCycles
        /\ Late(k + 1)' = end + StepCycles + DmaCycles + d * DmaCycles
    BY <1>1, <1>4, <1>9 DEF Late, StepCycles, c, d
  <2> HIDE DEF end
  <2> QED BY <1>2, <1>4, <2>5, <2>6, <2>7, Budget
<1>10. k + 1 < EndLine \/ k + 1 = EndLine \/ EndLine <= k
  BY <1>4
<1> QED BY <1>7, <1>8, <1>9, <1>10

-----------------------------------------------------------------------------
(***************************************************************************)
(* Frames: each step of a frame keeps the clock within its bound.          *)
(***************************************************************************)
\* An instruction starts before the end of a line, and of the frame.
LEMMA StepStarts ==
  ASSUME Inv, NEW k \in Nat, VideoAt(k), InFrame(k), MayStep
  PROVE  /\ k < EndLine /\ stall = 0 /\ sched.now < (k + 1) * LineCycles
         /\ (k + 1) * LineCycles \in Nat /\ (k + 1) * LineCycles <= EndLine * LineCycles
<1>1. /\ k * LineCycles \in Nat /\ (k + 1) * LineCycles \in Nat /\ LineCycles \in Nat
      /\ sched.now \in Nat /\ HDrawCycles \in Nat /\ k + 1 \in Nat
  <2>1. k + 1 \in Nat
    OBVIOUS
  <2> QED BY <2>1, Sizes, ProductNatural DEF Inv, TypeOK, Schedulers
<1>2. DueEvents(sched) = {} /\ stall = 0
  BY DEF Inv, CaughtUp, MayStep
<1>3. sched.now < (k + 1) * LineCycles
  BY <1>1, <1>2, EventNumbers DEF VideoAt, DueEvents, IsScheduled, Unscheduled
<1>4. EndLine \in Nat /\ EndLine * LineCycles \in Nat
  BY FrameEnds
<1>5. k * LineCycles < EndLine * LineCycles
  BY <1>1, <1>4 DEF VideoAt, InFrame, MayStep
<1>6. k < EndLine
  BY <1>1, <1>4, <1>5, Cancellation
<1>7. (k + 1) * LineCycles <= EndLine * LineCycles
  <2>1. k + 1 <= EndLine
    BY <1>4, <1>6
  <2> QED BY <1>1, <1>4, <2>1, Monotone
<1> QED BY <1>1, <1>2, <1>3, <1>6, <1>7

\* A step inside a frame that is caught up with, from line k to line j.
LEMMA WithinFrame ==
  ASSUME Inv, NEW k \in Nat, InFrame(k), NEW j \in Nat,
         UNCHANGED <<frame_end, frame_counter>>,
         sched'.now \in Nat, sched.now <= sched'.now, sched'.now < frame_end + FrameCycles,
         phase' \in {"events", "entry"} => sched'.now + stall' + EntryTime' < Late(j)',
         phase' = "service" => sched'.now + IrqEntryCycles < Late(j)'
  PROVE  InFrame(j)'
<1>1. sched.now \in Nat /\ frame_counter \in Nat /\ EndLine' = EndLine
  BY DEF Inv, TypeOK, Schedulers, EndLine
<1>2. frame_counter * FrameCycles \in Nat
  BY <1>1, Sizes, ProductNatural
<1>3. frame_counter' * FrameCycles <= sched'.now
  BY <1>1, <1>2 DEF InFrame
<1> QED BY <1>1, <1>3 DEF InFrame

\* An instruction ends within the bound.
LEMMA ProgramFrame ==
  ASSUME StepsFit, Inv, Program, NEW k \in Nat, VideoAt(k), InFrame(k)
  PROVE  InFrame(k)'
<1>1. PICK c \in Cycles, transfer \in {0, DmaCycles} :
        Executes(c, transfer) /\ (transfer # 0 => ~dma'.enabled)
  BY ProgramMoves
<1> DEFINE next == (k + 1) * LineCycles
           end  == EndLine * LineCycles
<1>2. k < EndLine /\ sched.now < next /\ next \in Nat /\ next <= end
  BY <1>1, StepStarts DEF Executes
<1>3. /\ sched'.now \in Nat /\ sched.now <= sched'.now /\ stall' \in Nat
      /\ sched'.now + stall' <= sched.now + AtLeastOne(c) + transfer
  BY <1>1, ExecutesMoves, MachineAssumption
<1>4. /\ AtLeastOne(c) \in Nat /\ AtLeastOne(c) + IrqEntryCycles <= StepCycles
      /\ IrqEntryCycles \in Nat /\ StepCycles \in Nat /\ DmaCycles \in Nat
      /\ StepCycles + DmaCycles <= FrameCycles /\ FrameCycles \in Nat
  BY Budget, Sizes
<1>5. /\ phase' = "events" /\ UNCHANGED <<frame_end, frame_counter>> /\ EndLine' = EndLine
  BY <1>1 DEF Executes, control, EndLine
<1>6. Paid' \in {0, DmaCycles} /\ (transfer # 0 => Paid' = DmaCycles)
  BY <1>1 DEF Paid
<1>7. Late(k)' = next + StepCycles + Paid'
  BY <1>2, <1>5 DEF Late, StepCycles
<1>8. EntryTime' = IrqEntryCycles
  BY <1>5 DEF EntryTime
<1>9. frame_end = end /\ end \in Nat /\ sched.now \in Nat
  BY FrameEnds DEF InFrame, Inv, TypeOK, Schedulers
<1> HIDE DEF next, end
<1>10. sched'.now < frame_end + FrameCycles
  BY <1>1, <1>2, <1>3, <1>4, <1>9
<1>11. sched'.now + stall' + EntryTime' < Late(k)'
  BY <1>1, <1>2, <1>3, <1>4, <1>6, <1>7, <1>8, <1>9
<1> QED BY <1>3, <1>5, <1>10, <1>11, WithinFrame

\* So does a skip to the next event.
LEMMA SkipFrame ==
  ASSUME StepsFit, Inv, SkipHalted, NEW k \in Nat, VideoAt(k), InFrame(k)
  PROVE  InFrame(k)'
<1> DEFINE next == (k + 1) * LineCycles
           end  == EndLine * LineCycles
<1>1. k < EndLine /\ next \in Nat /\ next <= end /\ stall = 0
  BY StepStarts DEF SkipHalted
<1>2. sched'.now \in Nat /\ sched.now <= sched'.now /\ sched'.now <= next
  BY SkipMoves
<1>3. /\ 1 + IrqEntryCycles <= StepCycles /\ IrqEntryCycles \in Nat /\ StepCycles \in Nat
      /\ DmaCycles \in Nat /\ FrameCycles \in Nat \ {0}
  BY Budget, Sizes
<1>4. /\ phase' = "events" /\ UNCHANGED <<frame_end, frame_counter>> /\ EndLine' = EndLine
      /\ stall' = stall
  BY DEF SkipHalted, control, EndLine
<1>5. Late(k)' = next + StepCycles + Paid' /\ Paid' \in {0, DmaCycles} /\ EntryTime' = IrqEntryCycles
  BY <1>1, <1>4 DEF Late, StepCycles, Paid, EntryTime
<1>6. frame_end = end /\ end \in Nat
  BY FrameEnds DEF InFrame
<1> HIDE DEF next, end
<1>7. sched'.now < frame_end + FrameCycles
  BY <1>1, <1>2, <1>3, <1>6
<1>8. sched'.now + stall' + EntryTime' < Late(k)'
  BY <1>1, <1>2, <1>3, <1>4, <1>5
<1> QED BY <1>2, <1>4, <1>7, <1>8, WithinFrame

\* Paying a stall, looking at interrupts and going on move the clock within the bound.
LEMMA PayingFrame ==
  ASSUME StepsFit, Inv, NEW k \in Nat, VideoAt(k), InFrame(k),
         TakeStall \/ EventsDone \/ ServiceInterrupts
  PROVE  InFrame(k)'
<1>1. /\ UNCHANGED <<frame_end, frame_counter, dma, hblank>> /\ EndLine' = EndLine
      /\ Late(k)' = Late(k)
  BY DEF TakeStall, EventsDone, ServiceInterrupts, control, video, EndLine,
         Late, StepCycles, Paid, OnHBlank, CaughtLines, Caught
<1>2. /\ Late(k) \in Nat /\ Late(k) <= frame_end + FrameCycles /\ FrameCycles \in Nat
      /\ sched.now \in Nat /\ stall \in Nat /\ IrqEntryCycles \in Nat /\ frame_end \in Nat
      /\ Fresh(sched) /\ EntryTime \in {0, IrqEntryCycles}
  BY LateBound, Budget, Sizes DEF Inv, TypeOK, Schedulers, InFrame, EntryTime
<1>3. CASE TakeStall
  <2>1. sched'.now = sched.now + stall /\ stall' = 0 /\ phase' = phase
    BY <1>2, <1>3, AdvanceMoves DEF TakeStall
  <2>2. phase \in {"events", "entry"} /\ EntryTime' = EntryTime
    BY <1>3, <2>1 DEF TakeStall, Settled, EntryTime
  <2>3. sched.now + stall + EntryTime < Late(k)
    BY <2>2 DEF InFrame
  <2>4. /\ sched'.now \in Nat /\ sched.now <= sched'.now /\ sched'.now < frame_end + FrameCycles
        /\ sched'.now + stall' + EntryTime' < Late(k)'
    BY <1>1, <1>2, <2>1, <2>2, <2>3
  <2> QED BY <1>1, <2>1, <2>2, <2>4, WithinFrame
<1>4. CASE EventsDone
  <2>1. /\ sched' = sched /\ stall = 0 /\ phase \in {"events", "entry"}
        /\ phase' = IF phase = "events" THEN "service" ELSE "loop"
    BY <1>4 DEF EventsDone, Settled
  <2>2. phase' = "service" => sched'.now + IrqEntryCycles < Late(k)'
    BY <1>1, <1>2, <2>1 DEF InFrame, EntryTime
  <2>3. sched'.now < frame_end + FrameCycles
    BY <2>1 DEF InFrame
  <2> QED BY <1>1, <1>2, <2>1, <2>2, <2>3, WithinFrame
<1>5. CASE ServiceInterrupts
  <2>1. phase = "service" /\ stall' = stall /\ stall = 0
    BY <1>5 DEF ServiceInterrupts, Inv, CaughtUp
  <2>2. sched.now + IrqEntryCycles < Late(k)
    BY <2>1 DEF InFrame
  <2>3. CASE phase' = "entry"
    <3>1. sched' = Advanced(sched, IrqEntryCycles)
      BY <1>5, <2>3 DEF ServiceInterrupts
    <3>2. sched'.now = sched.now + IrqEntryCycles
      BY <1>2, <3>1, AdvanceMoves
    <3>3. EntryTime' = 0
      BY <2>3 DEF EntryTime
    <3>4. /\ sched'.now \in Nat /\ sched.now <= sched'.now /\ sched'.now < frame_end + FrameCycles
          /\ sched'.now + stall' + EntryTime' < Late(k)'
      BY <1>1, <1>2, <2>1, <2>2, <3>2, <3>3
    <3> QED BY <1>1, <2>3, <3>4, WithinFrame
  <2>4. CASE phase' # "entry"
    <3>1. sched' = sched /\ phase' = "loop"
      BY <1>5, <2>4 DEF ServiceInterrupts
    <3>2. sched'.now < frame_end + FrameCycles
      BY <3>1 DEF InFrame
    <3> QED BY <1>1, <1>2, <3>1, <3>2, WithinFrame
  <2> QED BY <2>3, <2>4
<1> QED BY <1>3, <1>4, <1>5

\* So does dispatching an event, which the next line may follow.
LEMMA EventFrame ==
  ASSUME StepsFit, Inv, NEW k \in Nat, VideoAt(k), InFrame(k),
         OnHBlankStart \/ OnScanlineEnd \/ OnSound
  PROVE  \E j \in Nat : VideoAt(j)' /\ InFrame(j)'
<1>1. /\ UNCHANGED <<frame_end, frame_counter, phase>> /\ EntryTime' = EntryTime
      /\ phase \in {"events", "entry"}
  BY DEF OnHBlankStart, OnScanlineEnd, OnSound, Dispatching, control, EntryTime
<1>2. /\ sched.now \in Nat /\ stall \in Nat /\ EntryTime \in Nat /\ Late(k) \in Nat
      /\ sched.now < frame_end + FrameCycles /\ frame_end = EndLine * LineCycles
      /\ sched.now + stall + EntryTime < Late(k)
  BY <1>1, LateBound DEF Inv, TypeOK, Schedulers, InFrame, EntryTime, IrqEntryCycles
<1>3. ASSUME NEW j \in Nat, VideoAt(j)', sched'.now = sched.now, stall' \in Nat, Late(j)' \in Nat,
             Late(j)' >= Late(k) + (stall' - stall)
      PROVE  \E i \in Nat : VideoAt(i)' /\ InFrame(i)'
  <2>1. sched'.now + stall' + EntryTime' < Late(j)'
    BY <1>1, <1>2, <1>3
  <2>2. InFrame(j)'
    BY <1>1, <1>2, <1>3, <2>1, WithinFrame
  <2> QED BY <1>3, <2>2
<1>4. CASE OnHBlankStart
  BY <1>2, <1>3, <1>4, HBlankMoves, LateAtHBlank
<1>5. CASE OnScanlineEnd
  BY <1>2, <1>3, <1>5, ScanlineMoves, LateAtScanline
<1>6. CASE OnSound
  <2>1. Late(k)' = Late(k) /\ stall' = stall
    BY <1>6 DEF OnSound, control, video, Late, StepCycles, Paid, OnHBlank, CaughtLines, Caught, EndLine
  <2> QED BY <1>2, <1>3, <1>6, <2>1, SoundMoves
<1> QED BY <1>4, <1>5, <1>6

LEMMA InitFrame == Init => FrameInv
<1> SUFFICES ASSUME Init PROVE FrameInv
  OBVIOUS
<1>1. sched.now = 0 /\ 0 \div FrameCycles = 0
  BY PoweredLine, Sizes DEF Init
<1> QED BY <1>1 DEF FrameInv, Init

LEMMA NextFrame == StepsFit /\ Inv /\ FrameInv /\ [Next]_vars => FrameInv'
<1> SUFFICES ASSUME StepsFit, Inv, FrameInv, [Next]_vars PROVE FrameInv'
  OBVIOUS
<1>0. /\ sched.now \in Nat /\ frame_counter \in Nat /\ FrameCycles \in Nat \ {0}
      /\ EndLine * LineCycles = (frame_counter + 1) * FrameCycles
  BY Sizes, FrameEnds DEF Inv, TypeOK, Schedulers
<1>1. CASE Reset
  <2>1. sched'.now = 0 /\ 0 \div FrameCycles = 0
    BY <1>1, PoweredLine, Sizes DEF Reset
  <2> QED BY <1>1, <2>1 DEF FrameInv, Reset
<1>2. CASE SetPaused \/ PressKeys
  BY <1>2 DEF FrameInv, SetPaused, PressKeys, control
<1>3. CASE StartFrame
  <2>1. PICK k \in Nat : VideoAt(k)
    BY DEF Inv
  <2>2. VideoAt(k)' /\ phase' = "loop" /\ sched' = sched /\ frame_counter' = frame_counter
    BY <1>3, <2>1 DEF StartFrame, VideoAt, video
  <2>3. frame_counter = sched.now \div FrameCycles
    BY <1>3 DEF StartFrame, FrameInv
  <2>4. /\ frame_counter * FrameCycles <= sched.now
        /\ sched.now < (frame_counter + 1) * FrameCycles
    BY <1>0, <2>3, Quotient
  <2>5. frame_end' = (frame_counter + 1) * FrameCycles /\ EndLine' = EndLine
    BY <1>3, <2>3 DEF StartFrame, FrameEnd, EndLine
  <2>6. (frame_counter + 1) * FrameCycles \in Nat
    BY <1>0, FrameEnds
  <2>7. InFrame(k)'
    BY <1>0, <2>2, <2>4, <2>5, <2>6 DEF InFrame
  <2> QED BY <2>2, <2>7 DEF FrameInv
<1>4. CASE UNCHANGED vars
  <2>1. ASSUME phase # "idle" PROVE \E k \in Nat : VideoAt(k)' /\ InFrame(k)'
    <3>1. PICK k \in Nat : VideoAt(k) /\ InFrame(k)
      BY <2>1 DEF FrameInv
    <3>2. VideoAt(k)' /\ InFrame(k)'
      BY <1>4, <3>1 DEF vars, control, video, VideoAt, InFrame, EndLine, EntryTime, Late, StepCycles,
                        Paid, OnHBlank, CaughtLines, Caught
    <3> QED BY <3>2
  <2> QED BY <1>4, <2>1 DEF FrameInv, vars, control
<1>5. ASSUME phase # "idle", Next PROVE FrameInv'
  <2>1. PICK k \in Nat : VideoAt(k) /\ InFrame(k)
    BY <1>5 DEF FrameInv
  <2>2. ASSUME phase' # "idle", NEW j \in Nat, VideoAt(j)', InFrame(j)' PROVE FrameInv'
    BY <2>2 DEF FrameInv
  <2>3. CASE EndFrame
    <3>1. /\ frame_counter * FrameCycles <= sched.now /\ frame_end = (frame_counter + 1) * FrameCycles
          /\ sched.now < frame_end + FrameCycles
      BY <1>0, <2>1 DEF InFrame
    <3> DEFINE n == frame_counter + 1
    <3>2. n \in Nat /\ (n + 1) * FrameCycles = n * FrameCycles + FrameCycles
      BY <1>0, Successor
    <3>3. CASE sched.now >= frame_end
      <4>1. n * FrameCycles <= sched.now /\ sched.now < (n + 1) * FrameCycles
        BY <3>1, <3>2, <3>3
      <4> HIDE DEF n
      <4>2. sched.now \div FrameCycles = n
        BY <1>0, <3>2, <4>1, InInterval
      <4> QED BY <2>3, <3>3, <4>2 DEF EndFrame, FrameInv, n
    <3>4. CASE sched.now < frame_end
      <4>1. sched.now \div FrameCycles = frame_counter
        BY <1>0, <3>1, <3>4, InInterval
      <4>2. frame_end \in Nat
        BY DEF Inv, TypeOK
      <4> QED BY <1>0, <2>3, <3>4, <4>1, <4>2 DEF EndFrame, FrameInv
    <3>5. sched.now >= frame_end \/ sched.now < frame_end
      BY <1>0 DEF Inv, TypeOK
    <3> QED BY <3>3, <3>4, <3>5
  <2>4. CASE Program
    <3>1. InFrame(k)' /\ phase' = "events"
      BY <2>1, <2>4, ProgramFrame, ProgramMoves DEF Executes
    <3>2. PICK c \in Cycles, transfer \in {0, DmaCycles} : Executes(c, transfer)
      BY <2>4, ProgramMoves
    <3>3. VideoAt(k)'
      BY <2>1, <3>2, ExecutesMoves, ClockMoves, MachineAssumption DEF Executes, Inv
    <3> QED BY <2>2, <3>1, <3>3
  <2>5. CASE Fault
    <3>1. VideoAt(k)' /\ InFrame(k)' /\ phase' = phase
      BY <2>1, <2>5 DEF Fault, video, VideoAt, InFrame, EndLine, MayStep
    <3> QED BY <1>5, <2>2, <3>1
  <2>6. CASE SkipHalted
    <3>1. InFrame(k)' /\ phase' = "events"
      BY <2>1, <2>6, SkipFrame DEF SkipHalted
    <3>2. VideoAt(k)'
      BY <2>1, <2>6, SkipMoves, ClockMoves DEF SkipHalted, Inv
    <3> QED BY <2>2, <3>1, <3>2
  <2>7. CASE OnHBlankStart \/ OnScanlineEnd \/ OnSound
    <3>1. \E j \in Nat : VideoAt(j)' /\ InFrame(j)'
      BY <2>1, <2>7, EventFrame
    <3>2. phase' = phase
      BY <2>7 DEF OnHBlankStart, OnScanlineEnd, OnSound
    <3> QED BY <1>5, <2>2, <3>1, <3>2
  <2>8. CASE TakeStall \/ EventsDone \/ ServiceInterrupts
    <3>1. InFrame(k)'
      BY <2>1, <2>8, PayingFrame
    <3>2. phase' # "idle"
      BY <1>5, <2>8 DEF TakeStall, EventsDone, ServiceInterrupts
    <3>3. VideoAt(k)'
      <4>1. /\ Fresh(sched) /\ stall \in Nat /\ IrqEntryCycles \in Nat /\ UNCHANGED video
            /\ \/ sched' = Advanced(sched, stall)
               \/ sched' = Advanced(sched, IrqEntryCycles)
               \/ sched' = sched
        BY <2>8 DEF TakeStall, EventsDone, ServiceInterrupts, Inv, TypeOK, IrqEntryCycles
      <4>2. sched'.deadlines = sched.deadlines /\ sched'.now \in Nat /\ sched.now <= sched'.now
        BY <1>0, <4>1, AdvanceMoves
      <4> QED BY <2>1, <4>1, <4>2, ClockMoves
    <3> QED BY <2>2, <3>1, <3>2, <3>3
  <2> QED BY <1>1, <1>2, <1>3, <1>5, <2>3, <2>4, <2>5, <2>6, <2>7, <2>8 DEF Next, Emulate
<1>6. CASE phase = "idle" /\ Next
  BY <1>1, <1>2, <1>3, <1>6
     DEF Next, Emulate, EndFrame, Program, Compute, WriteInterruptEnable, AcknowledgeInterrupts,
         WriteMasks, WriteDisplayStatus, WriteHalt, WriteDma, Executes, Fault, MayStep, SkipHalted,
         OnHBlankStart, OnScanlineEnd, OnSound, TakeStall, EventsDone, ServiceInterrupts,
         Dispatching, Settled
<1> QED BY <1>4, <1>5, <1>6

(***************************************************************************)
(* When a frame can take in a step and its transfers, the picture and the  *)
(* frame counter follow the clock: frames end at multiples of the frame's  *)
(* length, and none is lost or counted twice, over pauses and faults.      *)
(***************************************************************************)
THEOREM FramesOnTime == ASSUME StepsFit PROVE Spec => []ClockFollowed
<1>1. Init => Inv /\ FrameInv
  BY InitInv, InitFrame
<1>2. Inv /\ FrameInv /\ [Next]_vars => (Inv /\ FrameInv)'
  BY NextInv, NextFrame
<1>3. Inv /\ FrameInv => ClockFollowed
  BY InvVideo DEF Inv, FrameInv, ClockFollowed, FramesFollowClock
<1> QED BY <1>1, <1>2, <1>3, PTL DEF Spec

(***************************************************************************)
(* Under the same condition a call of run_frame never runs a whole frame   *)
(* past the end it was called for (emulator.hpp).                          *)
(***************************************************************************)
THEOREM FramesBounded == ASSUME StepsFit PROVE Spec => []FrameBounded
<1>1. Init => Inv /\ FrameInv
  BY InitInv, InitFrame
<1>2. Inv /\ FrameInv /\ [Next]_vars => (Inv /\ FrameInv)'
  BY NextInv, NextFrame
<1>3. Inv /\ FrameInv => FrameBounded
  BY DEF FrameInv, InFrame, FrameBounded
<1> QED BY <1>1, <1>2, <1>3, PTL DEF Spec
=============================================================================
