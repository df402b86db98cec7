CONSTANTS
  p1 = p1
  p2 = p2
  Proc = {p1, p2}
  Mays <- TwoHosts
  Sources = {"psk", "direct"}
  ReadFails = FALSE
  Life = 3
  Margin = 1
  MaxDelay = 1
  MaxKey = 2
  MaxTok = 1
SPECIFICATION Spec
INVARIANTS
  IdStable
