CONSTANTS
  p1 = p1
  p2 = p2
  Processes = {p1, p2}
  Missing = Missing
SPECIFICATION LockSpec
INVARIANT Exclusive
