CONSTANTS
  MaxCap = 6
  MaxChunk = 14
  MaxOut = 40
SPECIFICATION Spec
INVARIANT RingKeepsTail
