SPECIFICATION RunSpec
CONSTANTS
  Artifacts = {a1}
  Versions = {v1, v2}
  Resources = {r1}
  MaxReleases = 2
  MaxRequests = 1
  None = None
  Dimensions = {d1}
  Metrics = {m1}
  Rfc = rfc
SYMMETRY Symmetry
VIEW View
INVARIANTS
  TypeOK
  RunTypeOK
  RequestedWasApproved
  EvaluationApprovesNothing
  ReleasedIsWhole
  ReleasedIsSupported
  CompletedIsWhole
PROPERTIES
  HandoffIsBound
  ImplementsGate
CHECK_DEADLOCK FALSE
