SPECIFICATION Spec
CONSTANTS
  Drives <- D
  Modes <- AllModes
  Jobs <- MCJobs
  NoJob = NoJob
  NoSelect = NoSelect
  MaxTransfer = 2
  LowRange = 4
  Heads = 2
  SectorsPerTrack = 2
  DrqBlock = 2
INVARIANTS TypeOK ShadowIsTrue TakesWhatIsOffered MultipleAgrees
PROPERTY KeepsPromise
\* init_units() may find no drive at all: the task ends.
CHECK_DEADLOCK FALSE
