SPECIFICATION Spec
CONSTANTS
  AtaRequests <- SixOnly
  AtapiRequests <- SixOnly
  NoRequest = NoRequest
  PerCylinder = 4
  SenseSize = 6
  AnswerSize = 44
  Burst = 6
  ModeTotals = {4, 5, 12, 20, 300}
  Tocs <- Discs
  TocSize = 6
  BlockSize = 4
  BlocksPerWord = 4
INVARIANT LengthIsTold
