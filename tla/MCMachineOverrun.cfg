CONSTANTS
  TimerCount = 1
  HDrawCycles = 3
  LineCycles = 4
  VisibleLines = 3
  LinesPerFrame = 4
  SampleCycles = 8
  SequencerCycles = 16
  DmaCycles = 7
  Cycles <- MCCycles
  EnableWrites = {}
  StatusWrites = {}
  AckWrites = {}
  ChannelWrites <- MCChannelWrites
  TargetLine = 2
  MaxFrames = 1
SPECIFICATION Spec
INVARIANT FrameBounded
