SPECIFICATION FairSpec
CONSTANTS
  c1 = c1
  c2 = c2
  n1 = n1
  s1 = s1
  s2 = s2
  u1 = u1
  b1 = b1
  x1 = x1
  g1 = g1
  v1 = v1
  i1 = i1
  i2 = i2
  None = None
  Requests <- StopRequests
  Kind <- StopKind
  Entries <- StopEntries
  Target <- StopTarget
  SubIds <- OneId
  BufferCap = 1
  MaxSubs = 1
  MaxBatch = 2
  MaxFailures = 2
  MaxSinks = 1
  Policy = "CloseConnection"
  Faults = {"peer", "encrypt"}
CHECK_DEADLOCK FALSE
PROPERTIES
  
  EndedConnectionIsForgotten
