SPECIFICATION FairSpec
CONSTANTS
  r1 = r1
  r2 = r2
  r3 = r3
  k1 = k1
  NoKey = NoKey
  Rows = {r1, r2}
  KeyOf <- OneKey
  Limit <- MCLimit
  Concurrency = 1
  BatchSize = 2
  MaxClaimErrors = 1
  PanicThreshold = 2
PROPERTIES
  JoinReturns
  PermitsComeBack
  ShutdownReturns
  LoopsStop
