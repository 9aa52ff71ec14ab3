-------------------------------- MODULE MCSound --------------------------------
(***************************************************************************)
(* DMA with the FIFOs it refills, and the APU, for TLC.  Both have a state *)
(* of their own, so each behaviour exercises one of them and leaves the    *)
(* other as it began.                                                      *)
(***************************************************************************)
EXTENDS Dma, Apu, TLC

(* Channels that trigger and reprogram one another.                        *)
MCTargetAt ==
  (0 :> [kind |-> "memory"]) @@ (1 :> [kind |-> "control", id |-> 1]) @@
  (2 :> [kind |-> "fifo", id |-> 1]) @@ (3 :> [kind |-> "control", id |-> 3])
MCFifoAddress == <<2>>
R(s, d, n) == [source |-> s, destination |-> d, count |-> n]
C(t, r, i, w) == [enabled |-> TRUE, timing |-> t, repeat |-> r, irq |-> i, toward |-> w]
MCSetups == {<<1, R(1, 2, 1)>>, <<1, R(2, 3, 2)>>, <<2, R(0, 2, 1)>>, <<3, R(2, 3, 1)>>, <<3, R(3, 1, 1)>>}
MCControls ==
  {<<1, C("Special", TRUE, FALSE, "Increment")>>, <<1, C("HBlank", TRUE, TRUE, "IncrementReload")>>,
   <<2, C("Special", TRUE, FALSE, "Increment")>>,
   <<3, C("Immediate", FALSE, TRUE, "Increment")>>, <<3, C("HBlank", FALSE, FALSE, "Fixed")>>,
   <<3, Off>>}
MCChannels == {1, 2, 3}
MCSamples == {0, 1}

(* Small waveforms: frequencies of two bits, lengths of two, volumes of    *)
(* two, a shift register of four bits.                                     *)
MCEnvelopes == {[initial |-> 0, increase |-> FALSE, period |-> 1],
                [initial |-> 1, increase |-> TRUE, period |-> 1]}
MCSweeps    == {[period |-> 1, divisor |-> 2, negate |-> FALSE],
                [period |-> 1, divisor |-> 2, negate |-> TRUE]}
MCLevels    == {-2, 1, 3}

VARIABLE part

sound == <<vars, apuVars, part>>

SoundInit ==
  /\ Init /\ ApuInit
  /\ \/ part = "dma" /\ voice = "wave"
     \/ part = "apu" /\ \A f \in FifoIds : fifo[f] = EmptyFifo(0)

SoundNext ==
  /\ UNCHANGED part
  /\ \/ part = "dma" /\ Next /\ UNCHANGED apuVars
     \/ part = "apu" /\ ApuNext /\ UNCHANGED vars

SoundSpec == SoundInit /\ [][SoundNext]_sound /\ DmaFairness
================================================================================
