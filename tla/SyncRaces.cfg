CONSTANTS
  a = a
  b = b
  Clients = {a, b}
  Keys = {k1}
  Ops = {"put"}
  RankOf <- Ranks12
  MaxTs = 2
  MaxWrites <- B11
  MaxConns <- B11
  MaxLoads <- B11
  MaxPrunes = 0
  PushLimit = 2
  WritesBetween = TRUE
SPECIFICATION Spec
PROPERTY RemoteNeverRegresses
CHECK_DEADLOCK FALSE
