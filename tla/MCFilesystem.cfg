SPECIFICATION Spec

CONSTANTS
  x = x
  y = y
  a = a
  b = b
  i = i
  j = j
  Bytes <- MCBytes
  JSONBytes <- MCJSONBytes
  NoBytes = NoBytes
  Names = {"output"}
  Values <- MCValues
  TrimSpace <- MCTrim
  Unconfigured = Unconfigured
  Root = Root
  Entries = {a, b}
  Inodes = {i, j}
  Blocks = {x, y}
  Absent = Absent
  Dir = Dir
  NoInode = NoInode
  Configs <- MCConfigs
  Trees <- MCTrees
  Contents <- MCContents
  Asked = {Root, a}
  RawValues = {"raw", "RAW"}
  MaxChanges = 2

INVARIANTS
  TypeOK
  ContentJustified
  FailureJustified
  ListingJustified
  RawOnlyWhenAsked
  AnswerComplete

PROPERTIES
  AlwaysAnswers

\* The request has been answered.
CHECK_DEADLOCK FALSE
