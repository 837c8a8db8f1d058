CONSTANTS
  c1 = c1
  c2 = c2
  k1 = k1
  k2 = k2
  v1 = v1
  v2 = v2
  w1 = w1
  w2 = w2
  w3 = w3
  NoKey = NoKey
  NoClient = NoClient
  Clients = {c1, c2}
  Keys = {k1}
  Values = {v1, v2}
  Works = {w1, w2}
  Signals <- OnOrOff
  LargeKeys = {k1}
  Asyncs = {TRUE, FALSE}
  Lifetimes <- AllLifetimes
  WorkIds = {TRUE, FALSE}
  MemoryFails = TRUE
  CanClose = TRUE
  MaxDeferred = 1
  MaxReaders = 3
SPECIFICATION Spec
INVARIANT TypeOK
INVARIANT LockBacked
INVARIANT OneAnswer
PROPERTY TargetStable
SYMMETRY Symmetry
CHECK_DEADLOCK FALSE
