CONSTANTS
  t1 = t1
  t2 = t2
  t3 = t3
  s1 = s1
  s2 = s2
  s3 = s3
  Task = {t1, t2, t3}
  Signal = {s1, s2, s3}
  StageTimeout = 2
  MaxCloseFaults = 1
SPECIFICATION ShutdownSpec
CHECK_DEADLOCK FALSE
INVARIANTS ShutdownTypeOK ZeroIsGraceful WorkHasItsConnections OnlyTimeoutCutsOff
PROPERTY ShutdownEnds
