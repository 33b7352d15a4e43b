CONSTANTS
  Keys = {k1, k2, k3}
  Fields = {tag, note}
  Indexed = {tag}
  AttrValues = {a, b}
  NoValue = none
  MaxPuts = 4
SPECIFICATION Spec
INVARIANTS TypeOK SecondaryExact SortedFresh
