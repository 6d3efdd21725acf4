SPECIFICATION Spec
CONSTANTS
  MaxRequests = 2
  Keys = {k1, k2}
  Targets = {"mrs", "dataarts", "dry_run"}
  Actors = {alice, bob}
  Web = {web1}
  Workers = {w1}
  MaxFaults = 1
  None = None
SYMMETRY Symmetry
INVARIANTS
  SucceededIsEarned
  StrandedOnlyByFaults
  UntrackedOnlyByFaults
PROPERTIES
  ExecutedOnce
  EndedIsLeftAlone
CHECK_DEADLOCK FALSE
