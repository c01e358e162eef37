SPECIFICATION FairSpec
CONSTANTS
  None = None
  Absent = Absent
  m1 = m1
  m2 = m2
  s1 = s1
  c1 = c1
  c2 = c2
  Names <- MCNames
  MethodKinds = {"Blocking"}
  Modules = {m1, m2}
  Servers = {s1}
  MaxSubs = 1
  MaxOps = 5
  Descriptions <- MCDescriptions
  Codes <- Rendered
  Calls = {c1, c2}
CHECK_DEADLOCK FALSE
INVARIANTS
  GeneratedSidesAgree
  PairsStayTogether
  UnsubscribedIsForgotten
PROPERTIES
  RunningServersAreIsolated
  RegistrationAddsAllOrNothing
  DirectCallsEnd
