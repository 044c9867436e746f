SPECIFICATION FairSpec
CONSTANTS
  r1 = r1
  r2 = r2
  r3 = r3
  NoReq = NoReq
  Reqs = {r1, r2, r3}
  ValidReqs = {r1, r2}
  Sends <- ThreeClients
  Preempting = {r3}
  HasRemovables = FALSE
INVARIANT NotStranded
PROPERTY QueuedIsAnswered
