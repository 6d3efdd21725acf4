SPECIFICATION Spec
CONSTANTS
  MaxRequests = 2
  Keys = {k1, k2}
  Targets = {"mrs"}
  Actors = {alice, bob}
  Web = {web1}
  Workers = {w1, w2}
  MaxFaults = 0
  None = None
SYMMETRY Symmetry
INVARIANTS
  TypeOK
  FourEyes
  OneOwner
  OneJobPerKey
PROPERTIES
  WithdrawnIsFinal
  Implements
CHECK_DEADLOCK FALSE
