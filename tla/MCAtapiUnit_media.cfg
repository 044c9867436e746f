SPECIFICATION FairSpec
CONSTANTS
  MaxDiscs = 3
  MaxFaults = 2
  MaxCount = 3
INVARIANTS
  TypeOK
  PresentGeometry
  TransferOnKnownDisc
PROPERTY PollConverges
