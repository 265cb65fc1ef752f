SPECIFICATION Spec
CONSTANTS
  s1 = s1
  s2 = s2
  s3 = s3
  s4 = s4
  r1 = r1
  r2 = r2
  r3 = r3
  r4 = r4
  Sockets = {s1, s2}
  Rooms = {r1, r2, r3}
  Workers = {w1, w2}
  Nobody = Nobody
  NoRoom = NoRoom
  FirstRooms = 1
  RepeatRooms = 1
  PoolLow = 0
  MaxAttempts = 2
  Starts <- FaultStarts
INVARIANTS
  GuestsCounted
SYMMETRY AnyOne
CHECK_DEADLOCK FALSE
