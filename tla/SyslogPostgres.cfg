\* Every fault, on a database that keeps texts and serial ids.
SPECIFICATION Spec
CONSTANTS
  Backend = "postgres"
  Name <- MCName
  Message <- PlainMessages
  Faults = {"open", "model", "statement", "commit"}
  MaxBatch = 2
  MaxId = 3
  MaxLog = 2
INVARIANTS
  TypeOK
  Attribution
PROPERTY LogSpec
