SPECIFICATION FairSpec
CONSTANTS
  AtaRequests <- OfAta
  AtapiRequests <- OfAtapi
  NoRequest = NoRequest
  PerCylinder = 3
  SenseSize = 6
  AnswerSize = 44
  Burst = 6
  ModeTotals = {4, 5, 12, 20, 300}
  Tocs <- Discs
  TocSize = 6
  BlockSize = 4
  BlocksPerWord = 4
INVARIANTS
  TypeOK
  GivesAllBack
  AnswerIsTold
  OverrunIsBounded
  ModeDataIsTrue
  PlayIsTrue
  AddressIsTrue
PROPERTY Answered
