CONSTANTS
  a = a
  b = b
  Clients = {a, b}
  Keys = {k1, k2}
  Ops = {"put"}
  RankOf <- Ranks12
  MaxTs = 1
  MaxWrites <- B02
  MaxConns <- B21
  MaxLoads <- B11
  MaxPrunes = 0
  PushLimit = 2
  WritesBetween = FALSE
SPECIFICATION Spec
INVARIANT Converged
CHECK_DEADLOCK FALSE
