SPECIFICATION Spec
CONSTANTS
  Artifacts = {a1}
  Versions = {v1, v2}
  Resources = {r1}
  MaxReleases = 1
  MaxRequests = 1
  None = None
SYMMETRY Symmetry
PROPERTIES
  ApprovalsAreCurrent
CHECK_DEADLOCK FALSE
