SPECIFICATION Spec
CONSTANTS
  MaxRequests = 2
  Keys = {k1, k2}
  Targets = {"dataarts"}
  Actors = {alice, bob}
  Web = {web1}
  Workers = {w1, w2}
  MaxFaults = 0
  None = None
SYMMETRY Symmetry
INVARIANTS
  SucceededIsOwn
CHECK_DEADLOCK FALSE
