SPECIFICATION Spec
CONSTANTS
  k1 = k1  k2 = k2  k3 = k3
  s1 = s1  s2 = s2
  p1 = p1  p2 = p2
  Key <- Keys
  Ssid <- Ssids
  Psk <- Psks
  DefaultPsk = p1
SYMMETRY Symmetry
INVARIANTS
  TypeOK TrustKept PairMeets
