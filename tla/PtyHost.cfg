CONSTANTS
  h1 = h1
  s1 = s1
  s2 = s2
  NoHandle = NoHandle
  NoStream = NoStream
  Handle = {h1}
  Stream = {s1, s2}
  SlowStream = {s1, s2}
  TypingStream = {}
  MayStop = TRUE
  MaxChunk = 2
  RingCap = 1
  IdleTimeout = 0
SPECIFICATION Spec
SYMMETRY StreamSymmetry
CHECK_DEADLOCK FALSE
INVARIANTS
  TypeOK
  RingIsTail
  LiveFollowsSnapshot
  NoChunkMissed
  AttachCountExact
  NoLiveAfterExit
PROPERTIES
  NoDisplacement
  SweepSparesAttached
