CONSTANTS
  FromVersions = {3, 4}
  NoMigrationBackup = FALSE
  DirectoryFirst = TRUE
  OldRunsAgain = FALSE
  RollBackAnyTime = FALSE
  Inodes = {i1, i2, i3, i4, i5}
  NoFile = NoFile
  MaxWrites = 3
  MaxFaults = 1
SYMMETRY Symmetry
SPECIFICATION Spec
INVARIANTS TypeOK ContentsKept WayBack  NewRecordsNewHeader
PROPERTY BackupNeverReplaced
