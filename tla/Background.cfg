CONSTANTS
  MaxLogLines = 4  MaxTotal = 7  MaxChunk = 3  Ids = {plugin}
  Names = {"a", "b"}  Events <- MCEvents  Starters = {b1, b2}  QueueSize = 1
  MaxAttempts = 2  MaxEvents = 3  MaxSubs = 2  Users = {u1, u2}
  Shutdowns = {s1}  Procs = {p1}  BreakerLimit = 1  FailThreshold = 2
  Conns = {c1}  Idler = Idler  MaxSessions = 1  SendChanSize = 1  None = None
SPECIFICATION FairSpec
INVARIANTS TypeOK StreamComplete  NothingLeaked
PROPERTIES  SupervisionAnswers
