SPECIFICATION FairSpec
CONSTANTS
  Keys = {k1}
  Values = {v1}
  Absent = Absent
  Clients = {c1, c2}
  Iterators = {c1}
  Tasks = {"syncTask", "compactionTask"}
  Blank = Blank
  MaxMutations = 2
PROPERTY CallsReturn
