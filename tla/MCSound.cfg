CONSTANTS
  Channels <- MCChannels
  Space = 4
  TargetAt <- MCTargetAt
  FifoAddress <- MCFifoAddress
  Setups <- MCSetups
  Controls <- MCControls
  SelfWrites = FALSE
  RefillUnits = 2
  StartCycles = 1
  UnitCycles = 1
  MaxDepth = 4
  MaxSteps = 6
  FifoDepth = 4
  Samples <- MCSamples
  Voices = {"square1", "wave", "noise", "direct"}
  LowLimit = 2
  FrequencyLimit = 4
  LengthLimit = 2
  VolumeLimit = 2
  SweepReload = 1
  DutyHigh = {1}
  DutySteps = 2
  WaveSteps = 2
  LfsrTop = 8
  NarrowTop = 2
  SampleCycles = 3
  BufferLimit = 1
  Levels <- MCLevels
  Envelopes <- MCEnvelopes
  Sweeps <- MCSweeps
  Lengths = {1}
  NoisePeriods = {1, 3}
  WidthSwitches = FALSE
  MaxWrites = 4
SPECIFICATION SoundSpec
CHECK_DEADLOCK FALSE
INVARIANTS TransfersWhole SoundBuffersFeed ChannelsPlayable SamplesExact
PROPERTIES BusComesBack
