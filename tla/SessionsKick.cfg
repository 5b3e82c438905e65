CONSTANTS
  Devices = {d}
  Requests = {r, s}
  AllowMultiSession = TRUE
  MaxRows = 2
  MaxSessions = 3
  MaxSeconds = 2
SPECIFICATION Spec
PROPERTY KickedStaysOut
CHECK_DEADLOCK FALSE
