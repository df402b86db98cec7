CONSTANTS
  p1 = p1
  p2 = p2
  Proc = {p1, p2}
  Mays <- MCMays
  Sources = {"login", "pair", "load", "credentials", "psk", "direct"}
  ReadFails = FALSE
  Life = 3
  Margin = 1
  MaxDelay = 1
  MaxKey = 2
  MaxTok = 3
SPECIFICATION Spec
INVARIANTS
  IdStable
  Installed
PROPERTIES
  TokenFresh
  FileReplaced
