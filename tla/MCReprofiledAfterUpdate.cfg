SPECIFICATION Spec
CONSTANTS
  Segments = {s1}
  Dates = {d1, d2}
  None = None
  Permits = 1
  MaxCycleErrors = 2
  MaxErrors = 2
  Failing = {s1}
  MaxOrphans = 1
PROPERTY ReprofiledAfterUpdate
