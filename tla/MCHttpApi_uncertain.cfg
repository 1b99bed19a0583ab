CONSTANTS
  t1 = t1
  t2 = t2
  c1 = c1
  c2 = c2
  IDs = {1, 2, 3, 4}
  Clients = {t1, t2, c1, c2}
  Turns = {t1, t2}
  Times = {1}
  MaxLen = 3
  Absent = Absent
  Nobody = Nobody
  Scenarios <- MCScenarios
  MaxRequests = 2
  MaxRuns = 1
  MaxEncodes = 1
  PageLimit = 2
  Attempts = 2
  Unreadable = {2}
SPECIFICATION HFairSpec
INVARIANT ErrMeansNotCommitted
CHECK_DEADLOCK FALSE
