SPECIFICATION FSpec
CONSTANTS
  live = live
  dry = dry
  s1 = s1
  v1 = v1
  v2 = v2
  t1 = t1
  t2 = t2
  i1 = i1
  i2 = i2
  Procs = {live, dry}
  DryRuns = {dry}
  IDs = {s1}
  Values = {v1, v2}
  Temps = {t1, t2}
  Inodes = {i1, i2}
  Marker = Marker
  Format = Format
  Absent = Absent
  Torn = Torn
  NoFile = NoFile
  Nobody = Nobody
SYMMETRY Symmetric
INVARIANTS PromisesKept AcknowledgedStoreReopens
