SPECIFICATION StreamSpec
CONSTANTS
  r1 = r1
  r2 = r2
  s1 = s1
  s2 = s2
  e1 = e1
  e10 = e10
  Setups = {r1, r2}
  Stages = {s1, s2}
  Events = {e1, e10}
  For <- MCFor
  EventOf <- MCEventOf
  Namesakes <- MCNamesakes
  NoSetup = none
  NoId = auto
  Faults = 1
  Clients = {q1, q2}
  Workers = {w1, w2}
  MaxAttempts = 2
  Budgets <- MCBudgets
INVARIANTS
  NothingForgotten
  StaysFinished
  PreviewsStop
  ScheduleKept
PROPERTIES
  Provisions
  QueueDrains
CHECK_DEADLOCK FALSE
