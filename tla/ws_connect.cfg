SPECIFICATION FairSpec
CONSTANTS
  a1 = a1
  a2 = a2
  b1 = b1
  NoHost = NoHost
  None = None
  Urls <- MCUrls
  Locations <- MCLocations
  Dns <- MCDns
  RedirectLimits = {0, 1, 2}
  SizeLimits = {2}
  BodySizes <- MCBodySizes
  PlatformStore = FALSE
CHECK_DEADLOCK FALSE
INVARIANTS
  TlsMatchesTarget
  AddressesBelongToTarget
  RoundsFollowRedirections
  WireHonoursBuilder
PROPERTIES
  ConnectingEnds
