SPECIFICATION Spec
CONSTANTS
  Keys = {k1, k2}
  Values = {v1}
  Absent = Absent
  Clients = {c1, c2}
  Iterators = {c1, c2}
  Tasks = {}
  Blank = Blank
  MaxMutations = 2
INVARIANT ForEachComplete
