SPECIFICATION Spec
CONSTANTS
  Keys = {k1, k2}
  Values = {v1}
  Absent = Absent
  Inodes = {f1, f2, f3, r1}
  NoFile = NoFile
  SyncMode = "every"
  ReadOnlyFiles = {r1}
  FsyncCommitsDirectory = TRUE
  RestoreMayFail = FALSE
  MaxMutations = 2
  MaxFaults = 2
SYMMETRY Symmetry
VIEW View
INVARIANTS TypeOK RecoverySafe ServesCurrent SyncedSurvives
PROPERTY ReadOnlyKeepsBytes
