SPECIFICATION Spec
CONSTANTS
  r1 = r1
  r2 = r2
  r3 = r3
  NoReq = NoReq
  Reqs = {r1, r2}
  ValidReqs = {r1, r2}
  Sends <- OnePauser
  Preempting = {r1, r2}
  HasRemovables = FALSE
INVARIANT NotStranded
