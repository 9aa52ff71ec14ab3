------------------------------- MODULE MCMachine -------------------------------
(* Small instances of Machine: a frame of four lines of four cycles, an    *)
(* instruction shorter and one longer than a line.                         *)
EXTENDS Machine

MCCycles       == {0, 5}
MCEnableWrites == {{"VBlank", "Dma"}}
MCStatusWrites == {VideoKinds}
MCAckWrites    == {Kinds}

Channel(timing, repeat, irq) ==
  [enabled |-> TRUE, timing |-> timing, repeat |-> repeat, irq |-> irq]

MCChannelWrites ==
  {Channel("Immediate", FALSE, TRUE), Channel("HBlank", TRUE, FALSE),
   Channel("VBlank", FALSE, TRUE)}

\* The bound of the proofs of frames holds for this instance.
ASSUME MCStepsAssumption == StepsFit

=============================================================================
