---------------------------------- MODULE Apu ----------------------------------
(***************************************************************************)
(* One voice of the audio unit (src/core/apu.cpp): a square channel with   *)
(* or without sweep, the wave channel, the noise channel, or a Direct      *)
(* Sound output; with the frame sequencer, the master switch, and the      *)
(* samples made of it.  Voices share only the last three, so one at a time *)
(* shows all that they do.                                                 *)
(*                                                                         *)
(* Frequencies, lengths, volumes, waveforms and the sample period are      *)
(* scaled by constants.  A register is the fields its bytes decode to.     *)
(***************************************************************************)
EXTENDS Integers

CONSTANTS
  Voices,           \* the kinds of voice a run looks at
  LowLimit,         \* the low byte of a frequency is below it: 256
  FrequencyLimit,   \* frequencies are below it: 2048
  LengthLimit,      \* a trigger with no length plays this long: 64 or 256
  VolumeLimit,      \* volumes are up to it: 15
  SweepReload,      \* the sweep period 0 stands for: 8
  DutyHigh,         \* duty steps in which a square is high
  DutySteps,        \* 8
  WaveSteps,        \* samples in a bank of wave RAM: 32
  LfsrTop, NarrowTop,     \* the bits feedback enters at: 2^14, and 2^6 when narrow
  SampleCycles,     \* kCyclesPerSample
  BufferLimit,      \* kMaximumBufferedFrames
  Levels,           \* values of Direct Sound samples
  Envelopes, Sweeps, Lengths, NoisePeriods,   \* what programs write
  WidthSwitches,    \* whether noise changes its width while it plays
  MaxWrites         \* bound: register writes

ASSUME ApuAssumption ==
  /\ LowLimit \in Nat \ {0} /\ FrequencyLimit \in Nat \ {0} /\ FrequencyLimit % LowLimit = 0
  /\ LengthLimit \in Nat \ {0} /\ VolumeLimit \in Nat \ {0} /\ SweepReload \in Nat \ {0}
  /\ DutySteps \in Nat \ {0} /\ DutyHigh \subseteq 0 .. DutySteps - 1
  /\ WaveSteps \in Nat \ {0} /\ SampleCycles \in Nat \ {0}
  /\ LfsrTop \in Nat \ {0} /\ NarrowTop \in Nat \ {0}
  /\ NarrowTop % 2 = 0 /\ LfsrTop % (2 * NarrowTop) = 0
  /\ Lengths \subseteq 1 .. LengthLimit /\ NoisePeriods \subseteq Nat \ {0}
  /\ \A e \in Envelopes : e.initial \in 0 .. VolumeLimit /\ e.increase \in BOOLEAN /\ e.period \in Nat
  /\ \A s \in Sweeps : s \in [period : Nat, divisor : Nat \ {0}, negate : BOOLEAN]
  /\ Levels \subseteq Int /\ BufferLimit \in Nat /\ MaxWrites \in Nat

VARIABLES
  voice,       \* the kind
  ch,          \* its state
  master,      \* SOUNDCNT_X
  step,        \* sequencer_step_
  buffered,    \* frames nobody has taken
  now,         \* cycles since the last sample
  heard,       \* history: the sum of what was audible in each of those cycles
  writes

apuVars == <<voice, ch, master, step, buffered, now, heard, writes>>

Squares   == {"square1", "square2"}
Enveloped == Squares \cup {"noise"}
Psg       == Enveloped \cup {"wave"}
AllOnes   == 2 * LfsrTop - 1

Envelope0 == [initial |-> 0, increase |-> FALSE, period |-> 0, volume |-> 0, timer |-> 0]
\* The divisor is 2 to the shift a program writes.
Sweep0    == [period |-> 0, divisor |-> 1, negate |-> FALSE]
Common    == [enabled |-> FALSE, dac |-> FALSE, frequency |-> 0, timer |-> 0,
              length |-> 0, length_enable |-> FALSE, place |-> 0, envelope |-> Envelope0,
              sweep |-> Sweep0, sweep_timer |-> 0, shadow |-> 0, sweep_enabled |-> FALSE,
              two_banks |-> FALSE, bank |-> 0, narrow |-> FALSE, lfsr |-> AllOnes,
              noise_period |-> 1]

Direct0 == [current |-> 0, integral |-> 0, last_change |-> 0]

ApuInit ==
  /\ voice \in Voices
  /\ ch = IF voice = "direct" THEN Direct0 ELSE Common
  /\ master = TRUE /\ step = 0 /\ buffered = 0
  /\ now = 0 /\ heard = 0 /\ writes = 0

-----------------------------------------------------------------------------
(* Waveforms.  A channel counts its timer down and moves on to the next    *)
(* place of its waveform; its output is summed over the cycles.            *)

Period(c) ==
  CASE voice \in Squares -> (FrequencyLimit - c.frequency) * 2
    [] voice = "wave"    -> FrequencyLimit - c.frequency
    [] voice = "noise"   -> c.noise_period    \* divisor and shift, in one number

Volume(c, high) == IF high THEN c.envelope.volume ELSE -c.envelope.volume

\* A wave sample is low in the first half of each bank and high in the second,
\* the other way round in bank 1.
WaveHigh(c) ==
  LET bank == IF c.two_banks /\ c.place >= WaveSteps THEN 1 - c.bank ELSE c.bank
  IN  (c.place % WaveSteps >= WaveSteps \div 2) = (bank = 0)

Output(c) ==
  IF ~c.enabled THEN 0
  ELSE CASE voice \in Squares -> Volume(c, c.place \in DutyHigh)
         [] voice = "noise"   -> Volume(c, c.lfsr % 2 = 0)
         [] voice = "wave"    -> IF WaveHigh(c) THEN 1 ELSE -1

\* The linear feedback register of the noise.
LfsrNext(c) ==
  LET feedback == (c.lfsr + c.lfsr \div 2) % 2
      shifted  == c.lfsr \div 2 + feedback * LfsrTop
      bit      == (shifted \div NarrowTop) % 2
  IN  IF c.narrow THEN shifted + (feedback - bit) * NarrowTop ELSE shifted

Advanced(c) ==
  CASE voice \in Squares -> [c EXCEPT !.place = (@ + 1) % DutySteps]
    [] voice = "wave"    -> [c EXCEPT !.place =
                              (@ + 1) % (IF c.two_banks THEN 2 * WaveSteps ELSE WaveSteps)]
    [] voice = "noise"   -> [c EXCEPT !.lfsr = LfsrNext(c)]

\* Mutant: a run of equal output may go past the end of the period.
RunLengthLoose(c, cycles) == cycles

RunLength(c, cycles) == IF c.timer < cycles THEN c.timer ELSE cycles

\* A timer that has run out starts again, at the next place of the waveform.
Ticked(c, left) ==
  IF left = 0 THEN [Advanced(c) EXCEPT !.timer = Period(c)] ELSE [c EXCEPT !.timer = left]

\* As many cycles at a time as the output stays the same.
OutputRun(r) ==
  LET run == RunLength(r.channel, r.cycles)
  IN  [channel |-> Ticked(r.channel, r.channel.timer - run),
       cycles  |-> r.cycles - run, sum |-> r.sum + Output(r.channel) * run]

\* advance(): a run takes a cycle at least, so there are no more runs than cycles.
Integrate(c, cycles) ==
  LET after[k \in 0 .. cycles] ==
        IF k = 0 THEN [channel |-> c, cycles |-> cycles, sum |-> 0]
        ELSE LET r == after[k - 1] IN IF r.cycles = 0 THEN r ELSE OutputRun(r)
  IN  after[cycles]

Loaded(c) == IF c.timer <= 0 THEN [c EXCEPT !.timer = Period(c)] ELSE c

Sampled(c) == Integrate(Loaded(c), SampleCycles)

\* What a listener with a clock hears: one cycle after another.
Cycle(r) ==
  LET c == Loaded(r.channel)
  IN  [channel |-> Ticked(c, c.timer - 1), sum |-> r.sum + Output(c)]

Listened(c) ==
  LET after[n \in 0 .. SampleCycles] ==
        IF n = 0 THEN [channel |-> c, sum |-> 0] ELSE Cycle(after[n - 1])
  IN  after[SampleCycles]

-----------------------------------------------------------------------------
(* Register writes.  While the master switch is off they are lost.         *)

IsVoice(kinds) == voice \in kinds

Wrote(c) ==
  /\ writes < MaxWrites /\ writes' = writes + 1
  /\ ch' = IF master THEN c ELSE ch
  /\ UNCHANGED <<voice, master, step, buffered, now, heard>>

Low(c, v)  == [c EXCEPT !.frequency = (@ \div LowLimit) * LowLimit + v]
High(c, v, lengthEnable) ==
  [c EXCEPT !.frequency = v * LowLimit + (@ % LowLimit), !.length_enable = lengthEnable]

\* The frequency the sweep goes to; adding past the top silences the channel.
SweepTarget(c) ==
  LET delta  == c.shadow \div c.sweep.divisor
      target == IF c.sweep.negate THEN c.shadow - delta ELSE c.shadow + delta
  IN  [channel |-> IF ~c.sweep.negate /\ target >= FrequencyLimit
                   THEN [c EXCEPT !.enabled = FALSE] ELSE c,
       target  |-> target]

SweepPeriod(c) == IF c.sweep.period # 0 THEN c.sweep.period ELSE SweepReload

SweepTriggered(c) ==
  LET d == [c EXCEPT !.shadow = c.frequency, !.sweep_timer = SweepPeriod(c),
                     !.sweep_enabled = c.sweep.period # 0 \/ c.sweep.divisor # 1]
  IN  IF c.sweep.divisor # 1 THEN SweepTarget(d).channel ELSE d

\* Mutant: a channel starts whether or not its converter is on.
StartedAlways(c) ==
  [c EXCEPT !.enabled = TRUE, !.length = IF @ = 0 THEN LengthLimit ELSE @, !.timer = Period(c)]

Started(c) ==
  [c EXCEPT !.enabled = c.dac, !.length = IF @ = 0 THEN LengthLimit ELSE @, !.timer = Period(c)]

Triggered(c) ==
  LET d == Started(c)
      e == IF IsVoice(Enveloped)
           THEN [d EXCEPT !.envelope.volume = d.envelope.initial,
                          !.envelope.timer = d.envelope.period]
           ELSE d
  IN  CASE IsVoice({"square1"}) -> SweepTriggered(e)
        [] IsVoice({"square2"}) -> e
        [] IsVoice({"wave"})    -> [e EXCEPT !.place = 0]
        [] IsVoice({"noise"})   -> [e EXCEPT !.lfsr = AllOnes]

WriteSweep ==
  /\ IsVoice({"square1"})
  /\ \E s \in Sweeps : Wrote([ch EXCEPT !.sweep = s])

WriteLength ==
  /\ IsVoice(Psg)
  /\ \E n \in Lengths : Wrote([ch EXCEPT !.length = n])

\* A volume of zero that does not grow turns the converter off.
LoadEnvelope(c, e) ==
  LET dac == e.initial # 0 \/ e.increase
  IN  [c EXCEPT !.envelope.initial = e.initial, !.envelope.increase = e.increase,
                !.envelope.period = e.period, !.dac = dac, !.enabled = @ /\ dac]

WriteEnvelope ==
  /\ IsVoice(Enveloped)
  /\ \E e \in Envelopes : Wrote(LoadEnvelope(ch, e))

WriteFrequencyLow ==
  /\ IsVoice(Psg \ {"noise"})
  /\ \E v \in 0 .. LowLimit - 1 : Wrote(Low(ch, v))

WriteFrequencyHigh ==
  /\ IsVoice(Psg \ {"noise"})
  /\ \E v \in 0 .. FrequencyLimit \div LowLimit - 1, on, trigger \in BOOLEAN :
       Wrote(IF trigger THEN Triggered(High(ch, v, on)) ELSE High(ch, v, on))

WriteWaveControl ==
  /\ IsVoice({"wave"})
  /\ \E two, dac \in BOOLEAN, bank \in 0 .. 1 :
       Wrote([ch EXCEPT !.two_banks = two, !.bank = bank, !.dac = dac, !.enabled = @ /\ dac])

\* A width that changes while the noise plays can leave the narrow part of its
\* register all zeros, and the noise silent; WidthSwitches = FALSE excludes it.
WriteNoisePeriod ==
  /\ IsVoice({"noise"})
  /\ \E p \in NoisePeriods, narrow \in BOOLEAN :
       /\ WidthSwitches \/ ~ch.enabled \/ narrow = ch.narrow
       /\ Wrote([ch EXCEPT !.noise_period = p, !.narrow = narrow])

WriteNoiseHigh ==
  /\ IsVoice({"noise"})
  /\ \E on, trigger \in BOOLEAN :
       LET c == [ch EXCEPT !.length_enable = on] IN Wrote(IF trigger THEN Triggered(c) ELSE c)

\* reset_psg(): the channels forget everything but the bank of wave RAM.
ResetPsg(c) == [Common EXCEPT !.bank = c.bank]

\* SOUNDCNT_X.  The Direct Sound outputs keep their state.
WriteMaster ==
  /\ writes < MaxWrites /\ writes' = writes + 1
  /\ \E on \in BOOLEAN :
       /\ master' = on
       /\ ch' = IF master /\ ~on /\ IsVoice(Psg) THEN ResetPsg(ch) ELSE ch
  /\ UNCHANGED <<voice, step, buffered, now, heard>>

-----------------------------------------------------------------------------
(* The frame sequencer.                                                    *)

ClockLength(c) ==
  IF c.length_enable /\ c.length > 0
  THEN [c EXCEPT !.length = @ - 1, !.enabled = @ /\ c.length > 1] ELSE c

Swept(c) ==
  LET first == SweepTarget(c)
  IN  IF first.target < FrequencyLimit /\ c.sweep.divisor # 1
      THEN SweepTarget([first.channel EXCEPT !.shadow = first.target,
                                             !.frequency = first.target]).channel
      ELSE first.channel

ClockSweep(c) ==
  LET left == IF c.sweep_timer > 0 THEN c.sweep_timer - 1 ELSE 0
      d    == [c EXCEPT !.sweep_timer = IF left = 0 THEN SweepPeriod(c) ELSE left]
  IN  IF left = 0 /\ c.sweep_enabled /\ c.sweep.period # 0 THEN Swept(d) ELSE d

ClockEnvelope(c) ==
  LET e    == c.envelope
      left == IF e.timer > 0 THEN e.timer - 1 ELSE 0
      step_ == IF e.increase /\ e.volume < VolumeLimit THEN 1
               ELSE IF ~e.increase /\ e.volume > 0 THEN -1 ELSE 0
  IN  IF e.period = 0 THEN c
      ELSE IF left > 0 THEN [c EXCEPT !.envelope.timer = left]
      ELSE [c EXCEPT !.envelope.timer = e.period, !.envelope.volume = @ + step_]

Clocked(c) ==
  LET d == IF step % 2 = 0 THEN ClockLength(c) ELSE c
      e == IF step \in {2, 6} /\ IsVoice({"square1"}) THEN ClockSweep(d) ELSE d
  IN  IF step = 7 /\ IsVoice(Enveloped) THEN ClockEnvelope(e) ELSE e

OnSequencerStep ==
  /\ step' = (step + 1) % 8
  /\ ch' = IF master /\ IsVoice(Psg) THEN Clocked(ch) ELSE ch
  /\ UNCHANGED <<voice, master, buffered, now, heard, writes>>

-----------------------------------------------------------------------------
(* Direct Sound: a level that timers change in the middle of a sample.     *)

Tick ==
  /\ IsVoice({"direct"}) /\ now < SampleCycles
  /\ now' = now + 1 /\ heard' = heard + ch.current
  /\ UNCHANGED <<voice, ch, master, step, buffered, writes>>

Integrated(c) ==
  [c EXCEPT !.integral = @ + c.current * (now - c.last_change), !.last_change = now]

\* A timer overflow takes the next sample out of the FIFO.
OnTimerOverflow ==
  /\ IsVoice({"direct"}) /\ master
  /\ \E level \in Levels : ch' = [Integrated(ch) EXCEPT !.current = level]
  /\ UNCHANGED <<voice, master, step, buffered, now, heard, writes>>

\* SOUNDCNT_H empties the FIFO: what this sample had of it goes too.
DropFifo ==
  /\ IsVoice({"direct"}) /\ writes < MaxWrites /\ writes' = writes + 1
  /\ ch' = [ch EXCEPT !.current = 0, !.integral = 0]
  /\ heard' = 0
  /\ UNCHANGED <<voice, master, step, buffered, now>>

-----------------------------------------------------------------------------
(* Samples.                                                                *)

HasRoom == buffered < BufferLimit

\* on_sample(): the Direct Sound window is closed even when the sample is dropped;
\* the other voices wait for somebody to take the samples.
OnSample ==
  /\ IsVoice({"direct"}) => now = SampleCycles
  /\ buffered' = IF HasRoom THEN buffered + 1 ELSE buffered
  /\ ch' = IF IsVoice({"direct"}) THEN [ch EXCEPT !.integral = 0, !.last_change = 0]
           ELSE IF HasRoom /\ master THEN Sampled(ch).channel ELSE ch
  /\ now' = 0 /\ heard' = 0
  /\ UNCHANGED <<voice, master, step, writes>>

TakeSamples ==
  /\ buffered > 0 /\ buffered' = 0
  /\ UNCHANGED <<voice, ch, master, step, now, heard, writes>>

ApuNext ==
  \/ WriteSweep \/ WriteLength \/ WriteEnvelope \/ WriteFrequencyLow \/ WriteFrequencyHigh
  \/ WriteWaveControl \/ WriteNoisePeriod \/ WriteNoiseHigh \/ WriteMaster
  \/ OnSequencerStep \/ Tick \/ OnTimerOverflow \/ DropFifo \/ OnSample \/ TakeSamples

\* The sequencer is a periodic event of the scheduler: it never stops.
ApuSpec == ApuInit /\ [][ApuNext]_apuVars

-----------------------------------------------------------------------------

\* Types.  A frequency below its limit is what keeps advance() from looping
\* for ever: at the limit the period is zero.
ApuTypeOK ==
  /\ voice \in Voices /\ master \in BOOLEAN /\ step \in 0 .. 7
  /\ buffered \in 0 .. BufferLimit
  /\ now \in 0 .. SampleCycles /\ writes \in 0 .. MaxWrites
  /\ voice \in Psg =>
       /\ ch.frequency \in 0 .. FrequencyLimit - 1
       /\ ch.shadow \in 0 .. FrequencyLimit - 1
       /\ ch.length \in 0 .. LengthLimit
       /\ ch.envelope.volume \in 0 .. VolumeLimit
       /\ ch.lfsr \in 0 .. AllOnes
       /\ Period(ch) > 0

\* A channel that SOUNDCNT_X reports as playing has its converter on, time left
\* to play, and the master switch on: through triggers, writes, lengths and sweeps in
\* any order.
ActiveCanPlay ==
  voice \in Psg /\ ch.enabled => ch.dac /\ ch.length > 0 /\ master

\* Summing runs of equal output gives what a listener hears cycle by cycle.
RunLengthExact ==
  voice \in Psg =>
    Sampled(ch).channel = Listened(ch).channel /\ Sampled(ch).sum = Listened(ch).sum

\* A sample of Direct Sound is the exact average of the levels in its window,
\* however many overflows fall into it.
DirectSoundExact == voice = "direct" => Integrated(ch).integral = heard

\* Noise that plays at an unchanged width never falls silent: the part of the
\* register that feeds back is never all zeros.
NoiseNeverStuck ==
  (voice = "noise" /\ ch.enabled) =>
    IF ch.narrow THEN ch.lfsr % (2 * NarrowTop) # 0 ELSE ch.lfsr # 0

\* A channel is always in a state it can play from: what it reports is true, its period is
\* not zero, and its noise does not stick.
ChannelsPlayable == ApuTypeOK /\ ActiveCanPlay /\ NoiseNeverStuck

\* A sample is the exact average of the output over its window, however it is summed.
SamplesExact == RunLengthExact /\ DirectSoundExact
=============================================================================
