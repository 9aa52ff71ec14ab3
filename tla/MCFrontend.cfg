CONSTANTS
  GapLimit = 1
  Byte <- MCByte
  ByteXor <- MCXor
  Never = never
  Games = {1, 2}
  None = none
  Slots = {1}
  Contents <- MCContents
  Limits = {6, 14}
  Interval = 2
  MaxFrames = 6
  MaxChoices = 4
  Files = {"f", "g"}
  FolderNames = {"all", "one"}
  FilesIn <- MCFilesIn
  MaxStamp = 2
  MaxRescans = 3
SPECIFICATION FrontendSpec
CHECK_DEADLOCK FALSE
INVARIANTS MomentsKept LibraryExact
PROPERTIES LoadedWholeOrNot ImplementsHistory ReachesOldest PublishedIsShown
