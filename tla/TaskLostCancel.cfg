CONSTANTS
  None = None
  Keys = {k1}
  Tasks = {t1, t2}
  Callers = {c1}
  Concurrency = 1
  MaxRetries = 0
SPECIFICATION Spec
INVARIANT TrueMeansCanceled
