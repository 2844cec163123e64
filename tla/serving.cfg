CONSTANTS
  r1 = r1
  r2 = r2
  Calls = {r1, r2}
  Loops = {"drain"}
  MaxBytes = 1
  MaxPanics = 1
  Rests = {r1}
  Ids = {"me", "u7"}
  NoId = NoId
SPECIFICATION GatewaySpec
CHECK_DEADLOCK FALSE
INVARIANTS HandlerEntitled MetricsAddUp ClosedInOrder RoutedAsNamed
PROPERTIES ShutdownCompletes RequestsAnswered
