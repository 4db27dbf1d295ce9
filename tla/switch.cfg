\* Every order of network operations on two bridges; any rule may be refused.
CONSTANTS
  Nets = {"n1", "n2"}  Virts = {"v1", "v2"}  Rpas = {"r1", "r2"}  Rvirts = {"w1"}
  NetOf <- McNetOf  RpaOf <- McRpaOf  NoEntry = "-"
  MaxActs = 3  MaxChain = 3
  Refusals = {"tunnel", "dummy", "qdisc", "match", "fallback", "flood", "forward"}
SPECIFICATION Spec
INVARIANTS FloodsExact FloodsStayInNet TablesMatchFilters ForwardsExact TunnelCounted FreedEmpty
