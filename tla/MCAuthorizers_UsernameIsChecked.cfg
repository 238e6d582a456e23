SPECIFICATION Spec

CONSTANTS
  ann = ann
  bob = bob
  right = right
  wrong = wrong
  Requests = {r1, r2}
  Users = {ann, bob}
  Passwords = {right, wrong}
  Fixed <- MCFixed
  Nobody = Nobody
  NoClaim = NoClaim
  Configs <- MCConfigs
  Accounts <- MCAccounts
  MaxChanges = 2

INVARIANTS
  UsernameIsChecked

\* A refused configuration, or all calls done.
CHECK_DEADLOCK FALSE
