CONSTANTS
  g1 = g1
  Goroutines <- MCGoroutines
  NumClasses = 2
  GoUints = {0, 1, 2}
  CUintMod = 4
  Cores = {0, 1}
  Masks = {1, 3}
  FullMask = 3
  MaxCos = 1
  CDPLevels = {"L3"}
  Tasks = {1}
  MBMaxes = {0, 3}
  MBLevels = {2, 3}
  MBFull = 3
  GoPids <- MCGoPids
SPECIFICATION Spec
INVARIANTS
  TypeOK
  CATRoundTrip
  AssocRoundTrip
  MBARoundTrip
VIEW AllocView
