\* Every order of edits and commits of a virt with firewall rules.
CONSTANTS
  Vrs = {"r1", "r2", "r3", "r4", "r5"}  Prios = {1}  Dirs = {"in", "out"}
  VrPrio <- McPrio  VrDir <- McDir  VrMask <- McMask  VrValue <- McValue
  Masked <- McMasked  MaxHandle = 4  MayRenew = FALSE  Refusals = TRUE
SPECIFICATION Spec
INVARIANTS NoRuleAborts RulesetsMatchFilters RulesInEffect VirtTakesItsRules
