SPECIFICATION FairSpec
CONSTANTS
  Comparisons = {1, 2}
  Archived = {1}
  NumCases = 2
  Full = 1
  MaxFailures = 2
  MaxReplays = 1
INVARIANTS
  TypeOK
  VerdictIsEarned
  VerdictAgrees
  FailuresAreKept
PROPERTIES
  SkippedIsClean
  EveryEvaluationEnds
CHECK_DEADLOCK FALSE
