CONSTANTS
  h1 = h1
  s1 = s1
  s2 = s2
  NoHandle = NoHandle
  NoStream = NoStream
  Handle = {h1}
  Stream = {s1, s2}
  SlowStream = {}
  TypingStream = {}
  MayStop = FALSE
  MaxChunk = 0
  RingCap = 1
  IdleTimeout = 0
SPECIFICATION FairSpec
CHECK_DEADLOCK FALSE
PROPERTY ExitReachesBound
