CONSTANTS
  a = a
  b = b
  Clients = {a, b}
  Keys = {k1, k2}
  Ops = {"put"}
  RankOf <- Ranks12
  MaxTs = 2
  MaxWrites <- B21
  MaxConns <- B11
  MaxLoads <- B11
  MaxPrunes = 0
  PushLimit = 2
  WritesBetween = FALSE
SPECIFICATION Spec
INVARIANTS Converged PendingPutsShow
CHECK_DEADLOCK FALSE
