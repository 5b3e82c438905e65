CONSTANTS
  None = None
  Users = {u1}
  Shutdowns = {}
  Procs = {p1, p2}
  BreakerLimit = 1
  FailThreshold = 1
SPECIFICATION Spec
INVARIANT AtMostOneProcess
