SPECIFICATION FairSpec
CONSTANTS
  MaxRequests = 1
  Keys = {k1}
  Targets = {"mrs", "dataarts", "dry_run"}
  Actors = {alice, bob}
  Web = {web1}
  Workers = {w1, w2}
  MaxFaults = 1
  None = None
PROPERTIES
  QueuedIsServed
  WorkerComesBack
CHECK_DEADLOCK FALSE
