CONSTANTS
  p1 = p1
  p2 = p2
  c1 = c1
  c2 = c2
  a = a
  b = b
  NoData = NoData
  Producers = {p1, p2}
  Consumers = {c1, c2}
  Data = {a, b}
  Size = 2
  MaxSeq = 2
SPECIFICATION Spec
INVARIANT TypeOK
INVARIANT ExclusiveNode
INVARIANT QueueInv
PROPERTY ImplementsFifo
PROPERTY EmptyIsEmpty
SYMMETRY Symmetry
