SPECIFICATION Spec
CONSTANTS
  t1 = t1
  t2 = t2
  w1 = w1
  c1 = c1
  c2 = c2
  TDs = {t1}
  Workloads = {w1}
  Calls = {c1}
  TrustDomainOf <- OneTrustDomainOf
  X509AuthorityTTL <- OneX509AuthorityTTL
  JWTAuthorityTTL <- OneJWTAuthorityTTL
  X509SVIDTTL <- OneX509SVIDTTL
  JWTSVIDTTL <- OneJWTSVIDTTL
  Backdate = 1
  SVIDBackdatePeriod = 2
  Federation = TRUE
  MaxTime = 1
INVARIANT JWTWithinAuthority
