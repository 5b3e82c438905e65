CONSTANTS
  None = None
  Keys = {k1, k2}
  Tasks = {t1, t2}
  Callers = {c1}
  Concurrency = 2
  MaxRetries = 2
SPECIFICATION FairSpec
INVARIANTS TypeOK OneBodyPerKey SlotsAccounted
PROPERTIES ImplementsExecutor EveryTaskEnds CancelPrevails
