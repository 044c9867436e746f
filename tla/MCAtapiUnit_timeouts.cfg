SPECIFICATION Spec
CONSTANTS
  MaxDiscs = 1
  MaxFaults = 4
  MaxCount = 1
INVARIANT FailureIsReported
