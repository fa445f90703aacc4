SPECIFICATION Spec
CONSTANTS
  None = None
  Wildcard = Wildcard
  EnvRef = EnvRef
  Unset = Unset
  u1 = u1
  u1b = u1b
  u2 = u2
  a1 = a1
  a2 = a2
  test = test
  prod = prod
  svc = svc
  key = key
  lit = lit
  projectA = projectA
  projectB = projectB
  Urls <- MCUrls
  Profiles = {test, prod}
  Services = {svc}
  Keys = {key}
  Decls = {lit}
  Addrs = {a1, a2}
  Dial <- MCDial
  Callers = {c1, c2}
  c1 = c1
  c2 = c2
  Projects = {projectA, projectB}
  Directories = {projectB}
  ServerRoot = projectA
  SharedFiles <- MCSharedFiles
  LocalFiles <- MCLocalFiles
  FirstFiles <- MCFirstFiles
  Environments <- MCEnvironments
  Limits <- MCLimits
  InvokeInputs <- MCInvokeInputs
  Payloads <- MCPayloads
  SessionIds = {s1, s2, s3}
  Cap = 2
  History = 1
  MaxCalls = 5
  Edited = {projectA}
  MaxEdits = 1
INVARIANTS SentWithinPolicy CallsKeepTheirPlace PlanHonoursSelection WireWithinLimits
PROPERTY ReplayIsACapture
ACTION_CONSTRAINT MCBounds
SYMMETRY Symmetry
CHECK_DEADLOCK FALSE
