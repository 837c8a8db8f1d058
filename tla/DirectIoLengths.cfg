CONSTANTS
  c1 = c1
  c2 = c2
  k1 = k1
  k2 = k2
  t1 = t1
  t2 = t2
  t3 = t3
  v1 = v1
  v2 = v2
  NoTarget = NoTarget
  NoKey = NoKey
  NoClient = NoClient
  NoValue = NoValue
  Torn = Torn
  Clients = {c1, c2}
  Keys = {k1}
  Targets = {t1, t2, t3}
  Values = {v1, v2}
  Len <- TwoLengths
  MaxReaders = 3
  CanClose = TRUE
SPECIFICATION Spec
SYMMETRY Symmetry
INVARIANT TypeOK
INVARIANT LockInv
INVARIANT GrantBacked
PROPERTY ReadStable
