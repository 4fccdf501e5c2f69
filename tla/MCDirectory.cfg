\* Two processes, three inodes, four calls, two disks.
CONSTANTS
  Procs = {p1, p2}
  None = None
  NINODES = 3
  Names = {"a", "b"}
  Paths <- MCPaths
  LinkPaths <- MCLinkPaths
  Chains <- MCChains
  MaxCalls = 4
SPECIFICATION Spec
INVARIANTS CountsAgree TreeSound CyclesOnlyInIput
SYMMETRY Symmetry
CHECK_DEADLOCK FALSE
