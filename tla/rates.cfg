\* Policing rates in both directions, and two failures of any kind.
CONSTANTS
  s1 = s1  n1 = n1  n2 = n2  p1 = p1  p2 = p2  v1 = v1  v2 = v2
  Settings = {s1}  Nets = {n1}  Physes = {p1}  Virts = {v1}
  NetSettings <- OneNet  VirtNet <- OneVirt
  Ifaces = {"eth"}  Ips = {}  Macs = {}  Dirs = {"in", "out"}  Rates = {"good", "bad"}
  Rules <- AllRules  NULL = NULL
  NeedIp = FALSE  NeedMac = FALSE  IpVersion <- Empty  RemoteByIp = FALSE
  SameId = {}  SamePort = {}  BadRates = {"bad"}
  FaultKinds = {"NETLINK", "NOMEM", "BROKEN", "CLEANUP", "MALLOC", "RATES", "NOIF", "SOCKET"}  MaxFaults = 2
SPECIFICATION Spec
INVARIANT FailuresReported
