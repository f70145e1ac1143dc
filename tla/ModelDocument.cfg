CONSTANTS
  TableForms <- MCTableForms
  ColumnForms <- MCColumnForms
  EnumNames = {"E", "F"}
  ItemKeys = {0}
  RelationForms <- MCRelationForms
  RelationNames = {"R", "S"}
  Flags = {"unique"}
  Titles = {"U"}
  Opened <- MCOpened
  Imported <- MCImported
  Clips <- MCClips
  AtfxFiles <- MCAtfxFiles
  Upper <- MCUpper
  BaseFlags <- MCBaseFlags
  MaxTables = 998
  MaxEdits = 2
  MaxSteps = 2
SPECIFICATION Spec
INVARIANTS TypeOK DependenceOrder RoundTrip LastSaveOnDisk
PROPERTIES ImportedAsWritten PasteIsCopy EditIsNoticed
