CONSTANTS
  TimerCount = 1
  Overflow = 3
  TickSizes <- MCTickSizes
  Reloads <- MCReloads
  Programs <- MCOneProgram
  Cycles <- MCCycles
  LineCycles = 4
  DmaTargets = {0}
  DmaCycles = 1
  DmaOverdue = TRUE
  Fifos = 0
  LivePrescaler = FALSE
  Horizon = 8
CHECK_DEADLOCK FALSE
SPECIFICATION LockSpec
INVARIANT NeverDrifts
