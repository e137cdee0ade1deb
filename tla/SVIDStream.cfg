SPECIFICATION FairSpec
CONSTANTS
  Streams = {s1, s2}
  Prompt = {s1}
  X509SVIDTTL = 3
  X509SVIDRotateAt = 2
  AuthorityNotAfter = 5
  SVIDBackdatePeriod = 1
  Window = 2
  MaxTime = 8
INVARIANTS
  TypeOK
  HeldSVIDValid
  StaleAtMostRotateAt
PROPERTIES
  HandlerLeaves
