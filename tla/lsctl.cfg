SPECIFICATION Spec
CONSTANTS
  MaxSettings = 1
  MaxNets = 2
  MaxPhyses = 1
  MaxVirts = 1
  n1 = n1
  n2 = n2
  p1 = p1
  NULL = NULL
  BAD = BAD
  MacMask = MacMask
  NetNames = {n1, n2}
  PhysNames = {p1}
  VirtLabels = {"v"}
  SettingsNames = {"default"}
  Types = {"vlan", "geneve/e2e"}
  Vids = {7}
  VidOf <- IdByName
  Ips = {"4"}
  Masks = {"m4", "m6"}
  Version <- IpVersions
  Ifaces = {"if"}
  Macs = {"mac"}
  Rates = {"r"}
  Prios = {1}
  Care <- AllCare
  MaxObjects = 4
  MaxAttrs = 1
SYMMETRY Names
INVARIANTS  ContextMatchesBlocks ShowRoundTrips
CHECK_DEADLOCK FALSE
