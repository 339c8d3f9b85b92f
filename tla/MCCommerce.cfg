CONSTANTS
  s1 = s1
  s2 = s2
  u1 = u1
  Sessions = {s1, s2}
  Users = {u1}
  Buyer <- MCBuyer
  Runs = 2
  EndTypes = {"refunded"}
  MaxCalls = 1
SPECIFICATION Spec
INVARIANTS BooksBalance
PROPERTIES
  RefundTakesEffect
CHECK_DEADLOCK FALSE
