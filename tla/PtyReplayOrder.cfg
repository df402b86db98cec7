CONSTANTS
  h1 = h1
  s1 = s1
  s2 = s2
  NoHandle = NoHandle
  NoStream = NoStream
  Handle = {h1}
  Stream = {s1, s2}
  SlowStream = {}
  TypingStream = {}
  MayStop = TRUE
  MaxChunk = 2
  RingCap = 1
  IdleTimeout = 0
SPECIFICATION Spec
CHECK_DEADLOCK FALSE
INVARIANT ReplayBeforeLive
