SPECIFICATION MSpec
CONSTANTS
  IDs = {s1, s2}
  Backups = {b1, b2}
CONSTRAINT Small
SYMMETRY Symmetric
INVARIANT RestoreResumes
