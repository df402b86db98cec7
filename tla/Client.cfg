CONSTANTS
  t1 = t1
  t2 = t2
  h1 = h1
  None = None
  App <- MCApp
  Thread = {t1, t2}
  Main = Main
  Shell = {h1}
  Attempts = 5
  Reply <- MCReply
SPECIFICATION Spec
INVARIANTS
  ExitOnce
  FramesWhole
  TabHasItsShell
PROPERTIES
  CloseReturns
  ClosedReleases
