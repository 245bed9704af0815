CONSTANTS
  a = a
  b = b
  Clients = {a}
  Keys = {k1}
  Ops = {"put", "delete"}
  RankOf <- Ranks13x2
  MaxTs = 2
  MaxWrites <- B20
  MaxConns <- B21
  MaxLoads <- B21
  MaxPrunes = 0
  PushLimit = 1
  WritesBetween = TRUE
SPECIFICATION FairSpec
INVARIANTS NothingLost
PROPERTY SettlesDown
CHECK_DEADLOCK FALSE
