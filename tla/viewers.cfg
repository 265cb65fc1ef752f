SPECIFICATION Spec
CONSTANTS
  u1 = u1
  a1 = a1
  Sockets = {u1, a1}
  Admins = {a1}
  Workers = {w1, w2}
  NoList = NoList
  Budget <- SmallBudget
INVARIANTS
  AmountOfViewers
SYMMETRY Alike
CHECK_DEADLOCK FALSE
