SPECIFICATION Spec

CONSTANTS
  Unset = Unset
  FormatIds <- MCFormatIds
  Configs <- MCConfigs
  MaxRows = 2

INVARIANTS
  TypeOK
  OwnAnswer
  OwnCalls
  FailureIsLocal
  CallsAreShown
  IndexInBounds
  FirstFormatApplies

PROPERTIES
  Refinement

\* A configuration that is refused keeps the server from starting.
CHECK_DEADLOCK FALSE
