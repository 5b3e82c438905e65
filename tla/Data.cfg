CONSTANTS
  Reqs <- DbReqs  Ports = {2}  DbMaxId = 2  MaxPwd = 2  DbMaxFaults = 1
  Engines = {"redis", "mysql"}  BackupMaxId = 2  MaxVer = 1  MaxClock = 1
  BackupMaxFaults = 1  Pids = {2}  Limit = 2  MaxLog = 3  ringSize = 3
  maxHistoryPoints = 2  Retention = 4  MaxPoints = 6  MonMaxFaults = 1
SPECIFICATION FairSpec
INVARIANTS TypeOK  NoHalfRestore RecordsInOrder
 
