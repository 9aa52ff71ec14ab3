CONSTANTS
  Width = 12
  Indexes = {0, 1, 2, 3, 8, 13, 14}
  Ram <- MCRam
  Repertoires <- MCRepertoires
  Starts <- MCStarts
  Lengths <- MCLengths
  Origin = 256
  Families <- MCFamilies
  Values <- MCValues
  Limits <- MCLimits
  RomSize = 131078
  Rom <- MCRom
  Bios <- MCBios
SPECIFICATION ConsoleSpec
CHECK_DEADLOCK FALSE
PROPERTY KeypadOnCondition
