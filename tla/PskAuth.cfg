CONSTANTS
  r1 = r1
  r2 = r2
  k1 = k1
  k2 = k2
  Req = {r1, r2}
  Call = {k1, k2}
  Sub = 2
  ClockSkew = 1
  MaxLag = 1
  Window = 6
  MaxTime = 8
SPECIFICATION Spec
SYMMETRY Symmetry
INVARIANTS
  NoReplay
  PskInv
