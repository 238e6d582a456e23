SPECIFICATION Spec

CONSTANTS
  Unset = Unset
  FormatIds <- MCFormatIds
  Configs <- MCConfigs
  MaxRows = 2


INVARIANT BodyIsPosted

CHECK_DEADLOCK FALSE
