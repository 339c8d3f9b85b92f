CONSTANTS
  j1 = j1
  j2 = j2
  k1 = k1
  k2 = k2
  k3 = k3
  u1 = u1
  u2 = u2
  Jobs = {j1, j2}
  Keys = {k1, k2, k3}
  KeysOf <- MCKeysOf
  WorkerIds = {1, 2, 3, 4}
  CredIds = {1, 2, 3}
  Users = {u1, u2}
  Owner = u1
  MaxVersion = 3
  MaxCalls = 4
SPECIFICATION Spec
INVARIANTS JourneysAreHonest PresentArtifactsAreHeld AuditIsHonest CredentialsFollowRotation
CHECK_DEADLOCK FALSE
