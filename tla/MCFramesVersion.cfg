SPECIFICATION Spec
CONSTANTS
  Sizes = {36}
  PeerIhl = {5}
  Ttls = {255}
INVARIANTS VersionReadBack
