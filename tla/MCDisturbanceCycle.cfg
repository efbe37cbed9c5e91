\* Two disturbances, each in a layer of its own; a cached answer is good for
\* two cycles.
CONSTANTS
  d1 = d1
  d2 = d2
  areas = areas
  points = points
  Disturbances = {d1, d2}
  Layers = {areas, points}
  LayerOf <- InTwoLayers
  Modes = {"sqlite", "json"}
  MaxCacheAge = 2
  None = None
  MaxMishaps = 3
SPECIFICATION FairSpec
INVARIANTS PauseIsIdle EndedDelisted StaleBound
PROPERTIES DroppedExplained Listed
