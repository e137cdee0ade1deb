SPECIFICATION FairSpec
CONSTANTS
  Kinds = {"x509", "jwt", "bundle"}
  Args = {"good", "badSocket", "badFormat", "noAudience", "badType"}
  Refusals = {TRUE}
  MaxIssued = 4
CHECK_DEADLOCK FALSE
INVARIANTS
  TypeOK
PROPERTIES
  WatchesUntilInterrupted
  InterruptEnds
  Recovers
