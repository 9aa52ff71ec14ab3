---------------------------- MODULE MCMachineOverrun ----------------------------
(* A frame of four lines, three visible, and a transfer that takes almost  *)
(* two lines: the three of a frame take longer than the frame.             *)
EXTENDS Machine

MCCycles       == {1}
MCChannelWrites ==
  {[enabled |-> TRUE, timing |-> "HBlank", repeat |-> TRUE, irq |-> FALSE]}
=============================================================================
