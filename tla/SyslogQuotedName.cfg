\* A second task on the same SQLite database.
SPECIFICATION Spec
CONSTANTS
  Backend = "sqlite"
  Name <- MCName
  Message <- HostlessMessages
  Faults = {}
  MaxBatch = 2
  MaxId = 4
  MaxLog = 3
INVARIANT IdentityFound
