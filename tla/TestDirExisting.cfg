\* Tests of another program are there; everything may fail but the scan of
\* the root directory and the COMMIT.
SPECIFICATION Spec
CONSTANTS
  Test = {"t1"}
  File = {"f1", "f2"}
  NameOf <- OwnNames
  SubFile = {"f2"}
  MdfFile = {"f1"}
  BedOf <- OneBed
  Existing = TRUE
  Faults = {"root", "list", "database", "mdf", "crash"}
  Paths <- AllPaths
  MaxTime = 2
  MaxTrouble = 2
  IdRing = 4
PROPERTIES
  OkIsStored
  KeepsStored
