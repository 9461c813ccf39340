CONSTANTS
  r1 = r1
  Readers <- MCReaders
  Vals = {0, 1}
  MaxPolls = 2
SPECIFICATION Spec
INVARIANTS
  SnapshotConsistent
