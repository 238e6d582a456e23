SPECIFICATION Spec

CONSTANTS
  GET = GET
  POST = POST
  basic = basic
  NoKey = NoKey
  Names <- MCNames
  Keys <- MCKeys
  TaskIds <- MCTaskIds
  TaskConf <- MCTaskConf
  PlainTasks <- MCPlainTasks
  Configs <- MCConfigs
  StackLimit = 4

INVARIANTS
  AnyTaskEmbeds

\* A server that listens, refused to start or ran out of stack stops here.
CHECK_DEADLOCK FALSE
