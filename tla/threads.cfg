SPECIFICATION Spec
CONSTANTS
  Keys = {k1, k2}
  Values = {v1, v2}
  Absent = Absent
  Clients = {c1, c2}
  Iterators = {c1}
  Tasks = {"syncTask", "compactionTask"}
  Blank = Blank
  MaxMutations = 3
INVARIANTS TypeOK CacheCoherent GetsCurrent ForEachComplete
SYMMETRY Symmetry
