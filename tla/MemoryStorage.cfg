CONSTANTS
  private = private
  open = open
  Tables = {private, open}
  Users = {u1}
  Settings <- MCSettings
  Anonymous = Anonymous
  Admin = Admin
  NoOwner = NoOwner
  Shared = Shared
  Ids = {r1}
  ClientIds = {1}
  MaxTs = 2
  MaxSeq = 3
  MaxBatch = 2
  MaxHistory = 1
  Slack = 1
  MaxRecords = 1
  KeepCounts = {0, 1}
SPECIFICATION Spec
INVARIANTS SeqsAreUnique Inductive DiffIsComplete RecordsReplayHistory
PROPERTY ImplementsStore
CHECK_DEADLOCK FALSE
