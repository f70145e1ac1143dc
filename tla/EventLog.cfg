CONSTANTS
  Input = {"a", "b"}
  Content <- MCContent
  Faults = {"create", "open", "statement", "commit"}
  MaxSent = 2
  MaxFaults = 1
  MaxChanges = 3
SPECIFICATION Spec
INVARIANTS TypeOK TakenIsStored Attributed WorksWithModel
PROPERTIES StopEnds MessagesAreTaken
CHECK_DEADLOCK FALSE
