CONSTANTS
  c1 = c1
  c2 = c2
  k1 = k1
  k2 = k2
  v1 = v1
  v2 = v2
  w1 = w1
  w2 = w2
  w3 = w3
  NoKey = NoKey
  NoClient = NoClient
  Clients = {c1, c2}
  Keys = {k1, k2}
  Values = {v1, v2}
  Works = {w1, w2}
  Signals <- NoSignals
  LargeKeys = {}
  Asyncs = {FALSE}
  Lifetimes = {"invoke"}
  WorkIds = {TRUE}
  MemoryFails = FALSE
  CanClose = FALSE
  MaxDeferred = 2
  MaxReaders = 3
SPECIFICATION FairSpec
INVARIANT WriteLocksOwned
INVARIANT ReadLocksOwned
INVARIANT Answered
PROPERTY Completes
CHECK_DEADLOCK FALSE
