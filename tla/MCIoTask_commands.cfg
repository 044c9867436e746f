SPECIFICATION Spec
CONSTANTS
  r1 = r1
  r2 = r2
  r3 = r3
  NoReq = NoReq
  Reqs = {r1, r2}
  ValidReqs = {r1, r2}
  Sends <- AllSend
  Preempting = {r1, r2}
  HasRemovables = TRUE
SYMMETRY Interchangeable
INVARIANTS
  TypeOK
  OnePlace
  WaitIOSound
  NoLostMessage
  AnswerTellsTruth
  PollPending
  PausedMeansQuiet
PROPERTY ContractKept
