CONSTANTS
  MaxRows = 3
  BatchSize = 1
  Threshold = 2
  MaxFaults = 3
  Workers <- TwoWorkers
  UsesPool = {"event"}
  Background = {"sweeper"}
SPECIFICATION WorkerSpec
CHECK_DEADLOCK FALSE
INVARIANTS ProbeOnce
PROPERTIES RowsDrained ShutdownStops WorkerExits ShutdownCostsNoAttempt
