\* SQLite without any fault: a stale cache names the wrong host.
SPECIFICATION Spec
CONSTANTS
  Backend = "sqlite"
  Name <- MCThreeNames
  Message <- ThreeHosts
  Faults = {}
  MaxBatch = 2
  MaxId = 4
  MaxLog = 3
INVARIANT Attribution
