CONSTANTS
  e1 = e1
  e2 = e2
  e3 = e3
  d1 = d1
  d2 = d2
  NoKey = NoKey
  NoEvent = NoEvent
  Events = {e1}
  InTx = {}
  Drainers = {d1}
  Subs <- WiredSubs
  TaskIds <- Ids
  TaskId <- OwnId
  DedupeKey <- NoKeys
  Unregistered = {}
  Corrupt = {}
  MaxRetry = 2
  BatchSize = 1
  TaskMaxRetry = 1
  MaxFaults = 1
SPECIFICATION Spec
CHECK_DEADLOCK FALSE
INVARIANTS CommittedEventsSurvive
