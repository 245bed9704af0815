CONSTANTS
  mine = mine
  open = open
  s1 = s1
  s2 = s2
  u1 = u1
  Tables = {mine, open}
  Users = {u1}
  Accounts = {}
  Settings <- MCSettings
  Batches <- MCBatches
  Anonymous = Anonymous
  Admin = Admin
  NoOwner = NoOwner
  Sockets = {s1, s2}
  Limit = 1
  MaxPending = 2
  MaxMessages = 4
SPECIFICATION Spec
INVARIANT CountsActive
CHECK_DEADLOCK FALSE
