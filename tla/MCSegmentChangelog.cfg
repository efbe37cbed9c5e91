\* Ids whose geometries match: two of them with both threads running cycles, two
\* with SQLite, and three for longer; two buckets.
CONSTANTS
  a = a
  b = b
  c = c
  Ids = {a, b, c}
  Twins <- AllTwins
  Buckets = {1, 2}
  Window = 1
  Lookback = 1
  None = None
  Settings <- Scenes
  MaxTime = 3
  MaxMishaps = 1
SPECIFICATION Spec
SYMMETRY Symmetry
INVARIANTS NothingForgotten PointsKept MarkedMeansMoved InheritedOnce
PROPERTIES InheritanceKept HandlerWaits
CHECK_DEADLOCK FALSE
