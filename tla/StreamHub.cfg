CONSTANTS
  Clients = {a, b}
  None = None
  SendSize = 1
SPECIFICATION Spec
INVARIANT NeverSendsOnClosed
