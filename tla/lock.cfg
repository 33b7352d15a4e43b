CONSTANTS
  Openers = {o1, o2, o3}
  Inodes = {i1, i2}
  NoFile = NoFile
  NoOne = NoOne
SPECIFICATION Spec
INVARIANTS OneOwner HeldByTheLiving
