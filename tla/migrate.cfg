CONSTANTS
  p1 = p1
  p2 = p2
  Procs = {p1, p2}
  NoProc = NoProc
  N = 2
  Args = {1}
  Steps = {1, 2}
  MaxFaults = 1
SPECIFICATION Spec
CHECK_DEADLOCK FALSE
SYMMETRY Symmetry
INVARIANTS SchemaMatchesVersion HistoryTruthful InterruptStops
PROPERTIES OneRunAtATime
