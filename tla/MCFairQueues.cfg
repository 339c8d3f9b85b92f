CONSTANTS
  j1 = j1
  j2 = j2
  u1 = u1
  u2 = u2
  Jobs <- MCJobs
  Users <- MCUsers
  OwnerOf <- MCOwnerOf
  Items = {i1, i2}
  Creds = {c1}
  Workers = {w1, w2}
  NoCred = NoCred
  NoWorker = NoWorker
  NoJob = NoJob
  Cap = 1
  MaxAttempts = 2
  MaxFailures = 2
  MaxServed = 2
SPECIFICATION QueuesSpec
SYMMETRY Symmetry
INVARIANTS LeasesWithinCap LettersAreFinal
CHECK_DEADLOCK FALSE
