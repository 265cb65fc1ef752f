SPECIFICATION Spec
CONSTANTS
  u1 = u1
  u2 = u2
  junk = junk
  e1 = e1
  e2 = e2
  Users = {u1, u2}
  Cells = {u1, u2, junk}
  Guids = {g1, g2}
  NoGuid = none
  Events = {e1, e2}
  Files <- MCFiles
  Batch = 1
  Workers = {w1, w2}
  Clients = {q1, q2}
  MaxAttempts = 2
  Budgets <- MCBudgets
INVARIANTS
  MailedAreBound
  InvitationsSent
  BoundOnce
  ClaimedOnce
CHECK_DEADLOCK FALSE
