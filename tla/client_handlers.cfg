SPECIFICATION FairSpec
CONSTANTS
  c1 = c1
  c2 = c2
  c3 = c3
  s1 = s1
  s2 = s2
  n1 = n1
  None = None
  Senders <- TwoOps
  CallKind <- MixedPair
  MethodOf <- MethodOfTwo
  SubscriptionIds <- OneSubId
  Methods <- OneMethod
  IdSpace = 3
  BatchLen = 2
  QueueCap = 1
  SubCap = 1
  Faults = {"send", "read", "drop"}
PROPERTIES
  CallsComplete
CHECK_DEADLOCK FALSE
