SPECIFICATION Spec
CONSTANTS
  Keys = {k1, k2}
  Values = {v1, v2}
  Absent = Absent
  Inodes = {f1, f2, f3}
  NoFile = NoFile
  SyncMode = "periodic"
  ReadOnlyFiles = {}
  FsyncCommitsDirectory = TRUE
  RestoreMayFail = FALSE
  MaxMutations = 2
  MaxFaults = 0
SYMMETRY Symmetry
VIEW View
PROPERTY Implements
