\* Addresses, checked and renewed; the abstract commit.
CONSTANTS
  s1 = s1  n1 = n1  n2 = n2  p1 = p1  p2 = p2  v1 = v1  v2 = v2
  Settings = {s1}  Nets = {n1}  Physes = {p1, p2}  Virts = {v1}
  NetSettings <- OneNet  VirtNet <- OneVirt
  Ifaces = {"eth"}  Ips = {"i4", "i6"}  Macs = {"m1"}  Dirs = {}  Rates = {}
  Rules <- AllRules  NULL = NULL
  NeedIp = TRUE  NeedMac = TRUE  IpVersion <- Ipv  RemoteByIp = FALSE
  SameId = {}  SamePort = {}  BadRates = {}
  FaultKinds = {}  MaxFaults = 0
SPECIFICATION Spec
SYMMETRY PhysSym
INVARIANT OkMeansInstalled
PROPERTY ImplementsAbs
