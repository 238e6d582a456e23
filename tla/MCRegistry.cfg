SPECIFICATION Spec

CONSTANTS
  Main = Main
  handler = handler
  late = late
  basic = basic
  ldap = ldap
  None = None
  Procs <- MCProcs
  Late = {late}
  Collectors = {Main, handler}
  Ids <- MCIds
  Wanted <- MCIds
  Factories = {f}
  MaxCalls <- MainTwice

INVARIANTS
  TypeOK
  OneWinner
  ValidatedIsFound
  OnlyNestingBlocks

PROPERTIES
  StableWhileRead
  CallsReturn

\* Every goroutine may have made its calls, or wait for the lock for ever.
CHECK_DEADLOCK FALSE
