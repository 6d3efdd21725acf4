SPECIFICATION Spec
CONSTANTS
  MaxRequests = 1
  Keys = {k1}
  Targets = {"mrs"}
  Actors = {alice, bob}
  Web = {web1}
  Workers = {w1}
  MaxFaults = 0
  None = None
PROPERTIES
  TerminalIsFinal
CHECK_DEADLOCK FALSE
