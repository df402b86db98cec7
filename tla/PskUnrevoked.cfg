CONSTANTS
  u1 = u1
  u2 = u2
  a1 = a1
  a2 = a2
  User = {u1, u2}
  Admin = {a1}
  Server = Server
  Register = {}
  Configs <- OneEntry
  Statements = 2
  NoUser = NoUser
  MaxSecret = 2
SPECIFICATION Spec
INVARIANTS
  RevokedRefused
