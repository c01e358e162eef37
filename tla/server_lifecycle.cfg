SPECIFICATION FairSpec
CONSTANTS
  c1 = c1
  c2 = c2
  h1 = h1
  h2 = h2
  b1 = b1
  b2 = b2
  None = None
  Conns <- TwoConns
  LowLevel = {c2}
  Broadcasts = {b1, b2}
  Reporting = {b2}
  Streams = {h1, h2}
  IdSpace = 2
  MaxConns = 2
CHECK_DEADLOCK FALSE
INVARIANTS
  PermitsMatchWork
  RunningIsRegistered
  
  

  
