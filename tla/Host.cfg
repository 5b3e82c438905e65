CONSTANTS
  Tools = {"nft", "iptables", "ufw"}  FwProtected = {"22"}  NoPort = ""
  Specs <- FwSpecs  PrefixOf <- MCPrefixOf  FwMaxId = 2  MaxChain = 3
  MaxChecks = 1  FwMaxFaults = 1  Ports = {80, 81}  Cidrs = {"a", "b"}
  AclMaxId = 2  MaxRules = 5  AclMaxFaults = 1  Spans <- MCSpans
  FwdProtected = {22}  FwdMaxId = 2  MaxCopies = 2  FwdMaxFaults = 1
  Names = {"a"}  Vers = {1, 2}  CronMaxFaults = 3  MaxScripts = 2
  ScriptsMaxFaults = 2  Managed = {"a", "b"}  Panel = "panel"  Execs = {1}
  UnitsMaxFaults = 1  Other = {"unset", "yes"}  Options <- Hardenings
  Settings <- SshdForms  Comments = {"k"}  MaxKeys = 2  SshdMaxFaults = 1
  None = None
SPECIFICATION FairSpec
INVARIANTS TypeOK  StartAligns 
PROPERTIES FailedUpdateUndone 
