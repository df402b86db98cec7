CONSTANTS
  c1 = c1
  c2 = c2
  s1 = s1
  e1 = e1
  e2 = e2
  Conn = {c1, c2}
  Session = {s1}
  Exec = {e1, e2}
  NoSession = NoSession
  NoConn = NoConn
  NoExec = NoExec
  Limits = {0}
  MaxLimit = 0
  MaxLines = 2
  Buf = 1
SPECIFICATION Spec
SYMMETRY Symmetry
CHECK_DEADLOCK FALSE
INVARIANTS
  TypeOK
  Tracked
  OwnOutput
