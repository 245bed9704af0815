CONSTANTS
  a = a
  b = b
  Clients = {a, b}
  Keys = {k1}
  Ops = {"put"}
  RankOf <- Ranks12
  MaxTs = 2
  MaxWrites <- B02
  MaxConns <- B21
  MaxLoads <- B11
  MaxPrunes = 1
  PushLimit = 2
  WritesBetween = FALSE
SPECIFICATION Spec
INVARIANT Converged
CHECK_DEADLOCK FALSE
