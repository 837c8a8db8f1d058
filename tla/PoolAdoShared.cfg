CONSTANTS
  s1 = s1
  s2 = s2
  p = p
  q = q
  h1 = h1
  h2 = h2
  h3 = h3
  NoName = NoName
  NoHandle = NoHandle
  Sessions = {s1, s2}
  Names = {p, q}
  Handles = {h1, h2, h3}
  AdoModes = {TRUE}
  MaxRefs = 2
  MaxAdds = 3
  MaxPlugin = 1
SPECIFICATION Spec
INVARIANT AdoPerPool
CHECK_DEADLOCK FALSE
