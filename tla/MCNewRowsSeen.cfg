\* The orchestrator and GCS; no failures.
CONSTANTS
  Kinds = {"orchestrator"}
  Stores = {"gcs"}
  MaxErrors = 2
  Absent = Absent
  Bare = Bare
  Pages = Pages
  Header = Header
  None = None
  MaxSaves = 2
  MaxUploads = 3
  MaxMishaps = 0
SPECIFICATION Spec
PROPERTY NewRowsSeen
CHECK_DEADLOCK FALSE
