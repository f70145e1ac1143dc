\* Two files, quantities and units of another program, three troubles.
SPECIFICATION Spec
CONSTANTS
  Files <- MCFiles
  Contents <- MCContents
  NoMdf = NoMdf
  Others = {"flow", "l"}
  Faults = {"statement", "commit", "crash"}
  MaxCycles = 3
  MaxTrouble = 2
INVARIANTS
  TypeOK
  RefersToItsOwn
PROPERTIES
  ImportedCompletely
CHECK_DEADLOCK FALSE
