CONSTANTS
  n1 = n1
  n2 = n2
  p1 = p1
  p2 = p2
  c1 = c1
  c2 = c2
  None = None
  Nothing = Nothing
  Engines = {"memory", "file", "sqlite"}
  Names = {n1, n2}
  Passwords = {p1, p2}
  Callers = {c1, c2}
  Kinds = {"register", "login", "token", "create", "declare", "rename", "delete"}
  First <- FirstAccount
  MaxJobs = 4
  MaxTime = 3
  Window = 1
  MaxRequests = 2
  MaxFailures = 1
  InitialBackoff = 1
  MaxBackoff = 2
  MaxEntries = 1
  u1 = u1
  u2 = u2
  t1 = t1
  t2 = t2
  Users = {u1, u2}
  Tasks = {t1, t2}
  Changes <- Partials
  Stores = {"file", "sqlite"}
  MaxAsked = 3
  MaxPuts = 1
  MaxStarts = 2
SPECIFICATION MCSpec
SYMMETRY Alike
INVARIANT OneNameOneAccount
INVARIANT TokensFollowPassword
INVARIANT BackoffKept
INVARIANT SettingsStand
INVARIANT PrivateStays
CHECK_DEADLOCK FALSE
