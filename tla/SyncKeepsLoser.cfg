CONSTANTS
  a = a
  b = b
  Clients = {a}
  Keys = {k1}
  Ops = {"put", "delete"}
  RankOf <- Ranks12
  MaxTs = 2
  MaxWrites <- B30
  MaxConns <- B11
  MaxLoads <- B11
  MaxPrunes = 0
  PushLimit = 3
  WritesBetween = FALSE
SPECIFICATION Spec
INVARIANT Converged
CHECK_DEADLOCK FALSE
