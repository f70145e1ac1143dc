\* The filter of an update is the test.
SPECIFICATION Spec
CONSTANTS
  Test = {"t1"}
  File = {"f1", "f2"}
  NameOf <- OwnNames
  SubFile = {}
  MdfFile = {"f1"}
  BedOf <- NoBed
  Existing = TRUE
  Faults = {}
  Paths <- AllPaths
  MaxTime = 2
  MaxTrouble = 2
  IdRing = 5
INVARIANT UpdatesOneFile
