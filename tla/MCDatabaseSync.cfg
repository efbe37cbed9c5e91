\* Both readers, both stores, two saves, three uploads, two failures.
CONSTANTS
  Kinds = {"monitor", "orchestrator"}
  Stores = {"gcs", "local"}
  MaxErrors = 2
  Absent = Absent
  Bare = Bare
  Pages = Pages
  Header = Header
  None = None
  MaxSaves = 2
  MaxUploads = 3
  MaxMishaps = 2
SPECIFICATION FairSpec
INVARIANTS MalformedDiscarded
PROPERTIES ReadsPublished Converges
CHECK_DEADLOCK FALSE
