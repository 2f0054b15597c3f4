CONSTANTS
  t1 = t1
  t2 = t2
  Callers = {t1, t2}
  Asks <- OneWriter
  Causes = {"unreachable"}
  MaxRevision = 2
  Seconds = {0, 2, 3}
  Second = 3
  Limit = 8
  Default = 5
SPECIFICATION Spec
INVARIANTS
  CodeTellsFirstFailure
  PodsCleanedUp
  LogsAreWhole
  NewestKept
  RunsAsAsked
