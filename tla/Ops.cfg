CONSTANTS
  Domains = {"d", "e"}  Reqs <- SiteReqs  Edits <- MCEdits  SiteMaxId = 2
  SiteMaxFaults = 1  Sites = {"s"}  Global = "g"  IPs = {"a", "b"}
  BanMaxId = 2  BanMaxFaults = 1  BoxNames = {"c", "d"}  BoxMaxId = 2
  BoxMaxFaults = 1  Engines = {"docker", "podman"}  Servers = {"s"}
  EngineVers = {1}  EngineMaxFaults = 1  RunVers = {"a", "b"}
  RunMaxFaults = 1  Nodes = {"n", "m"}  Pythons = {"p"}  Pkgs = {"x"}
  PkgMaxFaults = 1  TreeNames <- FileNames  ZipOf <- MCZipOf
  Format <- MCFormat  UnGz <- MCUnGz  Base <- MCBase  Paths <- FilePaths
  InitTrees <- FirstTrees  Uploads <- MCUploads  MaxEntries = 5
  MaxChanges = 2  TreeMaxFaults = 1  Metrics = {"cpu", "mem"}
  RuleLists <- MCRuleLists  MaxRules = 2  Duration <- MCDuration  Cooldown = 3
  Hour = 4  MaxClock = 6
SPECIFICATION Spec
INVARIANTS TypeOK SitesWhole   
 
