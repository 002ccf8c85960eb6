SPECIFICATION Spec
CONSTANTS
  j1 = j1
  wA = wA
  wB = wB
  Jobs = {j1}
  Workers = {wA, wB}
  MaxAttempts <- MCMaxAttempts
  PanicPolicy <- MCPanicPolicy
  Decodes <- AllDecode
INVARIANT AtLeastOnce
