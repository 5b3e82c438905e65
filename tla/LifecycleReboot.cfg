CONSTANTS
  Requests = {r}
  Versions = {"v1", "v2"}
  Permissions = {"audit", "notify"}
  Declared <- OneThenBoth
  Faults = {}
  MaxFaults = 0
  MaxTokens = 2
  MaxRestarts = 1
  RestartAnywhere = FALSE
SPECIFICATION Spec
INVARIANT OnlyApprovedInForce
CHECK_DEADLOCK FALSE
