CONSTANTS
  ka = ka
  kb = kb
  kc = kc
  kd = kd
  ke = ke
  NoKey = NoKey
  Keys = {ka, kb, kc, kd, ke}
  HashOf <- Hashes
  OwnerSize = 2
  WordBits = 4
  BaseSize = 4
  MaxSegments = 2
  MaxCrashes = 2
SPECIFICATION Spec
INVARIANT TypeOK
INVARIANT ToldDurable
INVARIANT OneOwner
INVARIANT OwnedMarked
PROPERTY AtomicCalls
PROPERTY MovesApproach
SYMMETRY Symmetry
