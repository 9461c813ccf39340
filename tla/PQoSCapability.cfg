CONSTANTS
  g1 = g1
  g2 = g2
  Goroutines <- MCGoroutines
  CapTypes = {"L3CA", "MBA"}
  HwTypes = {"L3CA"}
SPECIFICATION Spec
INVARIANTS
  TypeOK
  InitAgreement
PROPERTIES
  CallsReturn
