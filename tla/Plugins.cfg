CONSTANTS
  OneRequests = {q}  OneVersions = {"v1", "v2"}
  OnePermissions = {"audit", "notify"}  OneDeclared <- MCOneDeclared
  OneFaults = {"start", "move", "upsert"}  OneMaxFaults = 1  OneMaxTokens = 3
  OneMaxRestarts = 1  OneRestartAnywhere = FALSE  TwoRequests = {r, s}
  TwoVersions = {"v1"}  TwoPermissions = {"audit"}
  TwoDeclared <- MCTwoDeclared  TwoFaults = {"start", "enable"}
  TwoMaxFaults = 1  TwoMaxTokens = 2  TwoMaxRestarts = 0
  TwoRestartAnywhere = FALSE  Users = {u}  Shutdowns = {down}
  Procs = {p1, p2}  BreakerLimit = 1  FailThreshold = 1  Nobody = Nobody
SPECIFICATION Spec
SYMMETRY Interchangeable
INVARIANTS
  TypeOK StoresAgree DisabledIsQuiet NewestTokenOnly Supervised
