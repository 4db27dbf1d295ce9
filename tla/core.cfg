\* Every order of edits and commits, no failures.
CONSTANTS
  s1 = s1  n1 = n1  n2 = n2  p1 = p1  p2 = p2  v1 = v1  v2 = v2
  Settings = {s1}  Nets = {n1}  Physes = {p1, p2}  Virts = {v1, v2}
  NetSettings <- OneNet  VirtNet <- TwoVirts
  Ifaces = {"eth"}  Ips = {}  Macs = {}  Dirs = {}  Rates = {}
  Rules <- AllRules  NULL = NULL
  NeedIp = FALSE  NeedMac = FALSE  IpVersion <- Empty  RemoteByIp = FALSE
  SameId = {}  SamePort = {}  BadRates = {}
  FaultKinds = {}  MaxFaults = 0
SPECIFICATION Spec
SYMMETRY PhysVirtSym
INVARIANTS TypeOK NoAssertFails NoDanglingPointers BooksMatchKernel AddsInOrder DestroysEmptyPa OkMeansInstalled CleanupLeavesNothing
PROPERTY UntouchedStays
