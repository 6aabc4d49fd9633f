SPECIFICATION FairSpec
CONSTANTS
  app = app
  server = server
  ml = ml
  Ref = {app, server, ml}
  rowOf <- MCRow
  Rows = 2
  Applying = {1, 2}
  MaxApply = 1
  None = None
  Latest = 2
  Last <- MCLast
  Major <- MCMajor
  Bad <- MCBad
  MaxAct = 1
  MaxFault = 1
PROPERTIES FailedIsHeld CoolsDown UpdatesArrive
