SPECIFICATION SpecShared
CONSTANTS
  Drives <- D
  Modes <- AtapiSecond
  Jobs <- MCJobs
  Pollers = {p1}
  NoJob = NoJob
  NoSelect = NoSelect
  MaxTransfer = 2
  LowRange = 4
  Heads = 2
  SectorsPerTrack = 2
  DrqBlock = 2
PROPERTY KeepsPromise
\* init_units() may find no drive at all: the task ends.
CHECK_DEADLOCK FALSE
