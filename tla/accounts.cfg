CONSTANTS
  c1 = c1
  c2 = c2
  Emails = {"m"}
  NoEmail = NoEmail
  Clients = {c1, c2}
  MaxUsers = 2
  MaxTokens = 1
  MaxObjects = 1
  MaxSuspensions = 2
  MaxFaults = 1
SPECIFICATION Spec
CHECK_DEADLOCK FALSE
SYMMETRY Symmetry
INVARIANTS OneLivePerAddress TokensSingleUse  SuspendedHasRecord ModerationTakesEffect
