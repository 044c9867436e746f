SPECIFICATION FairSpec
CONSTANTS
  Machines <- TwoBoards
  Requests <- Asked
  FileSystems = {dh0, cd0, ram}
  Unable = {ram}
  Drives <- SomeDrives
  OldDrivers = {2}
  MemoryFails = TRUE
  BankSize = 4
  BootSize = 3
  SectorSize = 2
INVARIANTS TypeOK OnlyAskedBanks Quiet RestoresAll Written
PROPERTY Ends
\* The program ends.
CHECK_DEADLOCK FALSE
