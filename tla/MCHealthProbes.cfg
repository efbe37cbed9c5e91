\* One or two checks of a service at a time; any first conditions and pace, one change.
CONSTANTS
  Services = {"fcd-manager", "traffic-monitor", "orchestrator"}
  Watches <- MCWatches
  Places = {1, 2}
  Requests = {1, 2}
  Threshold = 2
  StartupThreshold = 2
  ReadyThreshold = 2
  None = None
  MaxChanges = 1
  MaxReads = 1
SPECIFICATION FairSpec
 
PROPERTIES  OutageNoticed
