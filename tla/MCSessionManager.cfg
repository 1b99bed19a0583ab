SPECIFICATION MSpec
CONSTANTS
  p1 = p1
  p2 = p2
  k1 = k1
  k2 = k2
  IDs = {1, 2}
  Clients = {p1, p2}
  Closers = {}
  Locks = {1, 2, 3, 4}
  MaxLen = 1
  Times = {0, 1}
  Absent = Absent
  Nobody = Nobody
  NoLock = NoLock
  Ops <- WriteOps
SYMMETRY Symmetric
INVARIANTS LeasesSound
PROPERTIES SessionsOnlyGrow AtomicSessions
CHECK_DEADLOCK FALSE
