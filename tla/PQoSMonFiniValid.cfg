CONSTANTS
  g1 = g1
  m1 = m1
  m2 = m2
  p1 = p1
  p2 = p2
  Goroutines <- MCGoroutines
  Groups <- MCGroups
  Cores = {0}
  GoCores = {0}
  CUintMod = 4
  Pids <- MCPids
  MaxPolls = 2
  MaxBatch = 2
SPECIFICATION Spec
SYMMETRY MonSymmetry
INVARIANTS
  ValidOnlyWhileCounting
