CONSTANTS
  Users = {u1, u2}
  Jobs = {j1, j2}
  Keys = {k1}
  Attempts = {a1, a2, a3}
  NoUser = NoUser
  NoJob = NoJob
  NoKey = NoKey
SPECIFICATION FairServiceSpec
INVARIANTS ClaimsAreBacked WaitingIsCovered BytesFollowTheJob
PROPERTIES
  WaitingSettles
