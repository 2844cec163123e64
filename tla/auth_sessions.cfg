CONSTANTS
  c1 = c1
  c2 = c2
  c3 = c3
  dev1 = dev1
  dev2 = dev2
  Users = {"u1"}
  Devices = {dev1, dev2}
  NoDevice = NoDevice
  NoUser = NoUser
  Clients = {c1, c2}
  MaxDevices = 1
  MaxSessions = 3
  MaxTokens = 3
  MaxResets = 1
  MaxPasswords = 2
  MaxFaults = 1
SPECIFICATION Spec
CHECK_DEADLOCK FALSE
CONSTRAINT ThreeTokensWithoutReset
SYMMETRY Symmetry
INVARIANTS NotStranded RevokersFinish RevokedGrantsNothing DeviceLimitSlack OneActivePerDevice
