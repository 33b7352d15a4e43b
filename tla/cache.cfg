CONSTANTS
  Keys = {k1, k2, k3, k4}
  Values = {u, v}
  Capacities = {0, 1, 2, 3}
  Nothing = nothing
SPECIFICATION Spec
INVARIANTS TypeOK MapMatchesList MostRecentlyUsed HitsAreLatest
