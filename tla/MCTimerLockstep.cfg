CONSTANTS
  TimerCount = 2
  Overflow = 3
  TickSizes <- MCTickSizes
  Reloads <- MCReloads
  Programs <- MCPrograms
  Cycles <- MCCycles
  LineCycles = 4
  DmaTargets = {0}
  DmaCycles = 3
  DmaOverdue = FALSE
  Fifos = 1
  LivePrescaler = FALSE
  Horizon = 6
CHECK_DEADLOCK FALSE
SPECIFICATION LockSpec
INVARIANTS ArmedExactly NoHiddenWrap NeverDrifts
PROPERTY DeadlineOrder
