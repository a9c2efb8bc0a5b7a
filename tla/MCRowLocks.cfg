CONSTANTS
  Procs = {1, 2, 3}
  Works <- Multisets
  Orders <- IdOrders
  Connections = 4
SPECIFICATION Spec
INVARIANTS TypeOK RepositoryLastNeverCircle NeverStandStill
CHECK_DEADLOCK FALSE
