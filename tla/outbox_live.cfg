CONSTANTS
  e1 = e1
  e2 = e2
  e3 = e3
  d1 = d1
  d2 = d2
  NoKey = NoKey
  NoEvent = NoEvent
  Events = {e1, e2, e3}
  InTx = {e2}
  Drainers = {d1}
  Subs <- WiredSubs
  TaskIds <- Ids
  TaskId <- OwnId
  DedupeKey <- NoKeys
  Unregistered = {e3}
  Corrupt = {e2}
  MaxRetry = 2
  BatchSize = 2
  TaskMaxRetry = 1
  MaxFaults = 1
SPECIFICATION FairSpec
CHECK_DEADLOCK FALSE
INVARIANTS DeadLetteredOnce
PROPERTIES RowsProcessed AckedEventsHandled
