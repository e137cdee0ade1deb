SPECIFICATION FairSpec
CONSTANTS
  a = a
  b = b
  w1 = w1
  w2 = w2
  w3 = w3
  x1 = x1
  x3 = x3
  Processes = {1, 2}
  TrustDomains = {a, b}
  WorkloadsOf <- MCWorkloadsOf
  SocketPath <- MCSocketPath
  Federation <- MCFederation
  Clients = {c1}
  MayFail <- MCMayFail
INVARIANTS
  TypeOK
  ServingReachable
  ReturnedClean
PROPERTIES
  ShutdownCompletes
  RestartServes
