CONSTANTS
  p1 = p1
  p2 = p2
  b1 = b1
  a1 = a1
  NoKey = NoKey
  Messages = {p1, p2, b1}
  Pushes = {p1, p2}
  Parts <- MailParts
  Key <- PushKeys
  Corrupt = {p2}
  Untemplated = {}
  Invalid = {}
  Devices = {"d1", "d2"}
  RetryMax = 2
  MaxRotations = 1
  MaxRows = 2
  MaxFaults = 1
SPECIFICATION Spec
CHECK_DEADLOCK FALSE
INVARIANTS DoneMeansDelivered NoNeedlessCopies DeadTokenCostsOneAttempt OnlyRefusedRowsInactive
