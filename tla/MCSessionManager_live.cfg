SPECIFICATION MFairSpec
CONSTANTS
  p1 = p1
  p2 = p2
  k1 = k1
  k2 = k2
  IDs = {1, 2}
  Clients = {p1, p2}
  Closers = {k1, k2}
  Locks = {1, 2, 3, 4}
  MaxLen = 0
  Times = {0}
  Absent = Absent
  Nobody = Nobody
  NoLock = NoLock
  Ops <- LockingOps
INVARIANTS CloseSound
PROPERTIES ManagerReturns
CHECK_DEADLOCK FALSE
