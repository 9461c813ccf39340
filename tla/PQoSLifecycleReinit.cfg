CONSTANTS
  g1 = g1
  g2 = g2
  g3 = g3
  Goroutines <- MCGoroutines
INIT LifeInit
NEXT LifeNext
SYMMETRY LifeSymmetry
INVARIANTS
  NativeInitWhenInitialized
