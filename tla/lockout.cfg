CONSTANTS
  c1 = c1
  c2 = c2
  Emails = {"known", "unknown"}
  Known = {"known"}
  Clients = {c1, c2}
  MaxAttempts = 3
  MaxFaults = 2
SPECIFICATION FairSpec
INVARIANTS GuessesBounded LockedForCause
PROPERTIES LockoutEnds
