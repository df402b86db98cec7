CONSTANTS
  Client = {c1}
  NoClient = NoClient
  NoReq = NoReq
  Modes = {"psk"}
  TTL = 1
  ShortTTL = 1
  DrainTTL = 1
  IdleTimeout = 2
  NetFails = FALSE
  Cap = 1
  MaxAttempts = 2
  MaxSessions = 1
  MaxInbox = 1
  MaxDials = 1
SPECIFICATION Spec
CHECK_DEADLOCK FALSE
PROPERTIES
  HeldOpen
