SPECIFICATION Spec

CONSTANTS
  GET = GET
  get = get
  basic = basic
  ldap = ldap
  ghost = ghost
  both = both
  open = open
  spelled = spelled
  NoKey = NoKey
  NoEndpoint = NoEndpoint
  NoAnswer = NoAnswer
  Requests = {q1, q2}
  Hung = {q2}
  Names <- MCNames
  Defined = {basic, ldap}
  Keys <- MCKeys
  Upper <- MCUpper
  Endpoints <- MCEndpoints
  EndpointConf <- MCEndpointConf
  TaskStatuses = {200, 401}
  MaxEnv = 1

INVARIANTS
  TypeOK
  AuthorizedBeforeRun
  FirstRefusalDecides
  OneAnswer
  RunExplainsAnswer
  EnvFresh

PROPERTIES
  EveryRequestAnswered
  Refinement

\* Every request may have been answered.
CHECK_DEADLOCK FALSE
