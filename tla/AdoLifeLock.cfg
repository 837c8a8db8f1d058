CONSTANTS
  c1 = c1
  c2 = c2
  k1 = k1
  k2 = k2
  v1 = v1
  v2 = v2
  w1 = w1
  w2 = w2
  w3 = w3
  NoKey = NoKey
  NoClient = NoClient
  Clients = {c1, c2}
  Keys = {k1}
  Values = {v1, v2}
  Works = {w1, w2}
  Signals <- NoSignals
  LargeKeys = {}
  Asyncs = {FALSE}
  Lifetimes = {"life"}
  WorkIds = {TRUE}
  MemoryFails = FALSE
  CanClose = TRUE
  MaxDeferred = 2
  MaxReaders = 3
SPECIFICATION Spec
PROPERTY LifeLocksReleased
CHECK_DEADLOCK FALSE
