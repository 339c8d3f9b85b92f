CONSTANTS
  Emails = {e1, e2}
  Devices = {d1, d2}
  CodeIds = {1, 2}
  SessionIds = {1, 2}
  Flows = {f1}
  Subjects = {p1}
  ProviderOf <- MCProviderOf
  MaxWaiting = 2
  MaxRestarts = 1
SYMMETRY Symmetry
SPECIFICATION Spec
INVARIANTS
  AccountsTypeOK
  SessionsAreEarned
  DialogFits
CONSTRAINT Shared
CHECK_DEADLOCK FALSE
