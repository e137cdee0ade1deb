SPECIFICATION FairSpec
CONSTANTS
  t1 = t1
  t2 = t2
  w1 = w1
  c1 = c1
  c2 = c2
  TDs = {t1, t2}
  Workloads = {w1}
  Calls = {c1, c2}
  TrustDomainOf <- OneTrustDomainOf
  X509AuthorityTTL <- MCX509AuthorityTTL
  JWTAuthorityTTL <- MCJWTAuthorityTTL
  X509SVIDTTL <- OneX509SVIDTTL
  JWTSVIDTTL <- OneJWTSVIDTTL
  Backdate = 1
  SVIDBackdatePeriod = 2
  Federation = TRUE
  MaxTime = 1
INVARIANTS
  TypeOK
  NoDataRace
  MintFindsAuthority
  X509WithinAuthority
  JWTKeyIDsDistinct
  WorkloadBundleCurrent
PROPERTIES
  BundleVerifiesIssued
  ImplementsIssuance
  EverythingReturns
