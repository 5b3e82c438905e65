CONSTANTS
  AuthDevices = {d}  Requests = {r, s}  AllowMultiSession = TRUE  MaxRows = 3
  MaxSessions = 2  MaxSeconds = 2  CredClients = {"x", "y"}  MaxAttempts = 2
  Lockout = 1  MaxVerify = 2  CoolDown = 1  TempLife = 1  MaxWrong = 2
  MaxBatch = 2  CredMaxClock = 2  Browsers = {"x", "y"}  PendingTTL = 1
  QrMaxToken = 2  QrMaxClock = 3  DirectUsers = {"u"}  DirectDevices = {"d"}
  Slots = {"x", "y"}  Signed <- MCSigned  ClockSkew = 2  TokenLife = 4
  Early = 1  MaxKey = 2  DirectMaxToken = 2  MaxCert = 2  DirectMaxClock = 5
  DirectMaxFaults = 1  Admins = {"a"}  Values = {0, 1, 2}  MaxEdits = 2
  ConfMaxFaults = 1  ShareUsers = {"u"}  Files = {"f"}
  ShareClients = {c1, c2}  Caps = {1, 2}  Lives = {0, 1}  Zone = 0
  TicketLife = 1  MaxId = 1  MaxIssued = 3  ShareMaxClock = 3  MaxKeys = 2
SPECIFICATION Spec
SYMMETRY Interchangeable
INVARIANTS TypeOK   LimitsHold SettingsInForce
PROPERTY NoTicketAfterRevoke
