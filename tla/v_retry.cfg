\* One operation fails, the retry succeeds.
CONSTANTS
  s1 = s1  n1 = n1  n2 = n2  p1 = p1  p2 = p2  v1 = v1  v2 = v2
  Settings = {s1}  Nets = {n1}  Physes = {p1, p2}  Virts = {v1}
  NetSettings <- OneNet  VirtNet <- OneVirt
  Ifaces = {"eth"}  Ips = {}  Macs = {}  Dirs = {}  Rates = {}
  Rules <- AllRules  NULL = NULL
  NeedIp = FALSE  NeedMac = FALSE  IpVersion <- Empty  RemoteByIp = FALSE
  SameId = {}  SamePort = {}  BadRates = {}
  FaultKinds = {"NETLINK"}  MaxFaults = 1
SPECIFICATION Spec
INVARIANT OkMeansInstalled
