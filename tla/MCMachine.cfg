CONSTANTS
  TimerCount = 1
  HDrawCycles = 3
  LineCycles = 4
  VisibleLines = 1
  LinesPerFrame = 4
  SampleCycles = 8
  SequencerCycles = 16
  DmaCycles = 3
  Cycles <- MCCycles
  EnableWrites <- MCEnableWrites
  StatusWrites <- MCStatusWrites
  AckWrites <- MCAckWrites
  ChannelWrites <- MCChannelWrites
  TargetLine = 2
  MaxFrames = 2
SPECIFICATION Spec
INVARIANTS ClockFollowed FrameBounded
PROPERTIES NoRequestMissed FrameReturns
