\* A new database, with every fault of the disk and the database.
SPECIFICATION FairSpec
CONSTANTS
  Test = {"t1", "t2"}
  File = {"f1", "f2"}
  NameOf <- OneName
  SubFile = {"f2"}
  MdfFile = {"f1"}
  BedOf <- OneBed
  Existing = FALSE
  Faults = {"root", "list", "database", "commit", "crash"}
  Paths <- OneTest
  MaxTime = 1
  MaxTrouble = 2
  IdRing = 4
INVARIANTS
  TypeOK
  RowsBelong
PROPERTIES
  Recovers
  StopEnds
