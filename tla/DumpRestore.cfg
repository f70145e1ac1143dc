CONSTANTS
  Models <- MCModels
  Sources <- MCSources
  Targets <- MCTargets
  Stems <- MCStems
  Writes <- MCWrites
  Faults = {"open", "file", "write", "statement", "begin", "commit", "crash"}
  MaxFaults = 2
  MaxChanges = 1
  MaxDumps = 1
  MaxReads = 2
SPECIFICATION Spec
INVARIANTS TypeOK StoredOnce ReferencesKept
PROPERTIES ReportedIsComplete KeepsRows CreatedIsRead
CHECK_DEADLOCK FALSE
