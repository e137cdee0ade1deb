SPECIFICATION FairSpec
CONSTANTS
  Handles = {k1}
  Sleepers = {s1}
  Durations = {0, 1}
  Steps = {1}
  Wanted = 2
  MaxNow = 1
PROPERTIES
  BlockEnds
