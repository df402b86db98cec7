CONSTANTS
  u1 = u1
  u2 = u2
  a1 = a1
  a2 = a2
  User = {u1, u2}
  Admin = {a1, a2}
  Server = Server
  Register = {}
  Configs <- NoEntry
  Statements = 2
  NoUser = NoUser
  MaxSecret = 2
SPECIFICATION Spec
PROPERTIES
  AddRefuses
