SPECIFICATION Spec
CONSTANTS
  t1 = t1
  t2 = t2
  u1 = u1
  u2 = u2
  None = None
  Guest = Guest
  Tabs <- TwoTabs
  Users <- TwoUsers
  Modes <- KeepOrClear
  Guarded <- FirstGuarded
  MaxOps = 2
  MaxWrites = 2
  MaxLoads = 1
  MaxTroubles = 1
  MaxEvents = 3
SYMMETRY Alike
INVARIANTS NothingLost TabsAgree BatchAnswered
CHECK_DEADLOCK FALSE
