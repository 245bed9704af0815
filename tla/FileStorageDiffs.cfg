CONSTANTS
  mine = mine
  open = open
  r1 = r1
  r2 = r2
  u1 = u1
  w1 = w1
  w2 = w2
  Tables = {mine, open}
  Users = {u1}
  Settings <- MCSettings
  Anonymous = Anonymous
  Admin = Admin
  NoOwner = NoOwner
  Shared = Shared
  Workers = {w1, w2}
  Ids = {r1, r2}
  Batches <- MCBatches
  Kinds = {"apply", "diff"}
  KeepCounts = {0, 1}
  Clock = {1}
  MaxHistory = 1
  Slack = 0
  MaxRecords = 1
  MaxJobs = 3
  MaxCrashes = 0
SPECIFICATION Spec
INVARIANT DiffIsComplete
CHECK_DEADLOCK FALSE
