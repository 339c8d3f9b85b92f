CONSTANTS
  u1 = u1
  u2 = u2
  a = a
  b = b
  x = x
  composed = composed
  decomposed = decomposed
  dot = dot
  dots = dots
  Segments <- MCSegments
  Skipped <- MCSkipped
  Evil <- MCEvil
  NoHint = NoHint
  NFC <- MCNFC
  Width <- MCWidth
  MaxPath = 6
  MaxDepth = 3
  MaxBytes = 8
  MaxEntries = 4
  MaxRatio = 4
  Jobs = {j1, j2, j3}
  Users = {u1, u2}
  NoUser = NoUser
  Keys = {k1, k2}
  NoKey = NoKey
  Payloads <- MCPayloads
SPECIFICATION FairSpec
INVARIANTS LedgerIsHonest JobsAreSingle
PROPERTIES
  QuotaIsKept
  UploadsMoveOn
