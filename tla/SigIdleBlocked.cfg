CONSTANTS
  c1 = c1
  c2 = c2
  u1 = u1
  d1 = d1
  d2 = d2
  Conn = {c1, c2}
  User = {u1}
  Device = {d1, d2}
  None = None
  Cap = 2
  Buf = 1
  Claims = {d1}
  Faulty = {}
  MaxSend = 1
SPECIFICATION LiveSpec
PROPERTY
  IdleCapped
