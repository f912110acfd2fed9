\* The review desks of surveys 2, 3 and 4.
SPECIFICATION Spec
CONSTANTS
  d1 = d1
  d2 = d2
  g1 = g1
  g2 = g2
  e1 = e1
  e2 = e2
  s1 = s1
  s2 = s2
  s3 = s3
  nothing = nothing
  Desks = {d1, d2}
  GroupOf <- MCGroupOf
  EventOf <- MCEventOf
  Bounds <- MCBounds
  Nothing = nothing
INVARIANTS TypeOK OffersAccepted QueueFollows BulkStaysInEvent
CHECK_DEADLOCK FALSE
