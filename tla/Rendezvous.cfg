CONSTANTS
  Client = {c1}
  NoClient = NoClient
  NoReq = NoReq
  Modes = {"wake", "psk"}
  TTL = 0
  ShortTTL = 1
  DrainTTL = 1
  IdleTimeout = 2
  NetFails = TRUE
  Cap = 1
  MaxAttempts = 2
  MaxSessions = 2
  MaxInbox = 1
  MaxDials = 2
SPECIFICATION FairSpec
INVARIANTS
  OneGrantOneConn
PROPERTIES
  WakeKept
  EveryWakeSurfaces
  PumpReturns
