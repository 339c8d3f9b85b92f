CONSTANTS
  Users = {u1}
  Customer = u1
  Jobs = {s1, s2}
  Keys = {s1, s2}
  Attempts = {a1, a2}
  NoUser = NoUser
  NoJob = NoJob
  NoKey = NoKey
  Pending = Pending
  Total = 3
  MaxEffects = 1
SPECIFICATION Spec
SYMMETRY Symmetry
VIEW ProtocolView
INVARIANTS WindowRemembers
PROPERTIES
  OneSubmissionPerStart
