CONSTANTS
  Cells = {0, 1}
  RomCells = {0, 1, 9}
  ValueLimit = 8
  FillLimit = 4
  BitAnd <- MCAnd
  BitOr <- MCOr
  Games = {g1}
  None = none
  Typed = {"raw", "slide", "super", "patch", "patches", "device", "fill", "cut", "toolong", "mixed"}
  Texts <- MCTexts
  Names <- MCNames
  Descriptions <- MCDescriptions
  Quoted <- MCQuoted
  RomSize = 2
  Files <- MCFiles
  Keys = {0, 1}
  GameValues = {1, 6}
  FileLimit = 3
  MaxCheats = 2
  MaxEdits = 4
  Flash = Flash
  Eeprom = Eeprom
  NoGame = NoGame
  Missing = Missing
  Partial = Partial
  Unsized = Unsized
  SavedGames <- MCSavedGames
  EepromGames <- MCEeproms
  DelayFrames = 2
  MaxWrites = 2
  MaxLoads = 1
  MaxFaults = 1
  MaxCrashes = 1
SPECIFICATION KeptSpec
CHECK_DEADLOCK FALSE
PROPERTY LossReported
