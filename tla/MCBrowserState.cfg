SPECIFICATION Spec
CONSTANTS
  Windows = {w1, w2}
  Alarm = alarm
  JobIds = {j1, j2}
  NoJob = NoJob
  Users = {u1, u2}
  NoUser = NoUser
  PaidRuns = 2
  ReleasedMax = 1
  MaxActs = 5
  w1 = w1
  w2 = w2
  u1 = u1
  u2 = u2
  j1 = j1
  j2 = j2
CONSTRAINT Exact
SYMMETRY Symmetry
INVARIANTS BalanceHolds TrialOncePerDevice PackageIsOwn
PROPERTY BindingHolds
CHECK_DEADLOCK FALSE
