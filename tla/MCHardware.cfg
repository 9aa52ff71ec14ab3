CONSTANTS
  TimerCount = 1
  Users <- MCUsers
  Delays <- MCDelays
  Cycles <- MCCycles
  Horizon = 4
  vblank = vblank
  timer = timer
  Kinds <- MCKinds
  Wishes <- MCWishes
  Recurring <- MCVBlank
  Roms <- MCRoms
  Offsets <- MCOffsets
  Stores <- MCStores
  SmallBits = 1
  LargeBits = 4
  SmallBlocks = 2
  LargeBlocks = 4
  WordBits = 2
  DummyBits = 1
  MaxWrites = 2
SPECIFICATION HardwareSpec
CHECK_DEADLOCK FALSE
INVARIANTS CacheFresh ReturnsForCause SleepsInterruptible WritesMarked
PROPERTIES ImplementsAgenda RecurringWaitEnds FlashChangesByCommand ImplementsSerialChip
