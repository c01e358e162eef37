SPECIFICATION FairSpec
CONSTANTS
  c1 = c1
  c2 = c2
  x1 = x1
  Calls <- TwoCalls
  Strangers <- OneStranger
  Values <- MCValues
  ArgNames <- MCArgNames
  Ops <- MCOps
  MaxConcurrent = 1
  MaxRequestSize = 14
  MaxResponseSize = 9
  MaxContentLength = 32
  IdKind = "number"
  Url <- MCUrl
  Headers <- MCHeaders
  Replies <- MCReplies
  StrangeRequests <- MCStrangeRequests
  Methods <- MCMethods
  MethodKind <- MCMethodKind
  Signature <- MCSignature
  Style <- MCStyle
  ResultSize <- MCResultSize
  AllowOnly <- MCAllowOnly
  ProxyPairs <- MCProxyPairs
  MaxConnections = 1
  MaxRequestBody = 12
  MaxResponseBody = 8
  Configs <- MCConfigs
CHECK_DEADLOCK FALSE
INVARIANTS
  AnswersAreOwn
  PermitsMatchCalls
  GuardMatchesWork
  OnlyAdmittedIsServed
PROPERTIES
  ImplementsContract
  EveryCallEnds
