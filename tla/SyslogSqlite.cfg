\* Every fault, on SQLite.
SPECIFICATION Spec
CONSTANTS
  Backend = "sqlite"
  Name <- MCName
  Message <- DataMessages
  Faults = {"open", "model", "statement", "commit"}
  MaxBatch = 2
  MaxId = 4
  MaxLog = 3
INVARIANTS
  ReferencesExist
  UniqueNames
PROPERTY ReportedIsStored
