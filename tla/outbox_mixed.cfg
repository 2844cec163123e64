CONSTANTS
  e1 = e1
  e2 = e2
  e3 = e3
  d1 = d1
  d2 = d2
  NoKey = NoKey
  NoEvent = NoEvent
  Events = {e1, e2}
  InTx = {e2}
  Drainers = {d1, d2}
  Subs <- MixedSubs
  TaskIds <- Ids
  TaskId <- SharedId
  DedupeKey <- SameKeys
  Unregistered = {}
  Corrupt = {}
  MaxRetry = 2
  BatchSize = 1
  TaskMaxRetry = 1
  MaxFaults = 3
SPECIFICATION Spec
CHECK_DEADLOCK FALSE
SYMMETRY Symmetry
INVARIANTS NoSilentLoss ExclusiveClaim OneRowPerKey AttemptsBounded
PROPERTIES ImplementsDelivery
