CONSTANTS
  p1 = p1
  p2 = p2
  Proc = {p1}
  Mays <- HostOnly
  Sources = {"login", "load"}
  ReadFails = FALSE
  Life = 3
  Margin = 1
  MaxDelay = 1
  MaxKey = 2
  MaxTok = 3
SPECIFICATION Spec
INVARIANTS
  FileUsable
