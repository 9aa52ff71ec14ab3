CONSTANTS
  TimerCount = 1
  Overflow = 3
  TickSizes <- MCLongTicks
  Reloads <- MCReloads
  Programs <- MCRetuning
  Cycles <- MCCycles
  LineCycles = 4
  DmaTargets = {0}
  DmaCycles = 1
  DmaOverdue = FALSE
  Fifos = 0
  LivePrescaler = TRUE
  Horizon = 8
CHECK_DEADLOCK FALSE
SPECIFICATION LockSpec
PROPERTY DeadlineOrder
