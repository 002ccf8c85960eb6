SPECIFICATION Spec
CONSTANTS
  r1 = r1
  r2 = r2
  r3 = r3
  k1 = k1
  NoKey = NoKey
  Rows = {r1, r2, r3}
  KeyOf <- MCKeyOf
  Limit <- MCLimit
  Concurrency = 2
  BatchSize = 2
  MaxClaimErrors = 2
  PanicThreshold = 1
SYMMETRY Symmetry
INVARIANTS
  IInv
  KeyLimit
  SlotsExact
  PermitsExact
  RowsHavePermits
  CountedOnce
  DrainIsComplete
  ErrorsSurface
