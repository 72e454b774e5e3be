SPECIFICATION Spec
CONSTANTS
  Sizes = {0, 1, 17, 18, 19, 36, 1472}
  PeerIhl = {4, 5, 6, 15}
  Ttls = {0, 1, 255}
INVARIANTS HeadersContiguous PayloadIntact
