CONSTANTS
  private = private
  open1 = open1
  s1 = s1
  s2 = s2
  c1 = c1
  Server = Server
  Command = Command
  Jobs <- MCJobs
  Tables = {private, open1}
  Users = {u1}
  Settings <- MCSettings
  Anonymous = Anonymous
  Admin = Admin
  NoOwner = NoOwner
  Shared = Shared
  Ids = {r1, r2}
  r1 = r1
  r2 = r2
  MaxTs = 1
  MaxSeq = 3
  Batches <- MCBatches
  MaxRestarts = 1
  MaxJobs = 4
  MaxHistory = 1
  Slack = 0
  MaxRecords = 1
  KeepCounts = {0, 1}
SYMMETRY MCSymmetry
SPECIFICATION Spec
INVARIANTS DiffIsComplete SnapshotIsReplay DeletedLeaveNothing NoOrphans
PROPERTY NumbersAreFresh
CHECK_DEADLOCK FALSE
