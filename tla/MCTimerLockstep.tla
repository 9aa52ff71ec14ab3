---------------------------- MODULE MCTimerLockstep ----------------------------
(* Small instances of TimerLockstep: counters of three values, ticks of    *)
(* one and of two cycles, instructions shorter and longer than a tick.     *)
EXTENDS TimerLockstep

MCTickSizes == {1, 2}
MCReloads   == {0, 2}
MCCycles    == {1, 3}

Control(tick, count_up, start) ==
  [tick |-> tick, count_up |-> count_up, irq |-> start, start |-> start]

MCPrograms ==
  {Control(1, FALSE, TRUE), Control(2, FALSE, TRUE), Control(1, TRUE, TRUE),
   Control(1, FALSE, FALSE)}

\* A program that starts timers and never changes its mind.
MCOneProgram == {Control(1, FALSE, TRUE)}

\* A program that changes the prescaler of a running timer.
MCLongTicks == {1, 4}
MCRetuning  == {Control(1, FALSE, TRUE), Control(4, FALSE, TRUE)}
=============================================================================
