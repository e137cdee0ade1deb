SPECIFICATION FairSpec
CONSTANTS
  Handles = {k1}
  Sleepers = {s1, s2}
  Durations <- MCDurations
  Steps = {0, 1, 2}
  Wanted = 2
  MaxNow = 2
INVARIANTS
  TypeOK
  NothingOverdue
  SleepNotEarlyNorLeft
PROPERTIES
  BlockNotices
