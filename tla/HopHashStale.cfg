CONSTANTS
  ka = ka
  kb = kb
  kc = kc
  kd = kd
  ke = ke
  NoKey = NoKey
  Keys = {ka, kb, kc, kd, ke}
  HashOf <- Hashes
  OwnerSize = 2
  WordBits = 4
  BaseSize = 4
  MaxSegments = 2
  MaxCrashes = 1
SPECIFICATION Spec
PROPERTY NoResurrection
SYMMETRY Symmetry
