\* The forms of surveys 2, 3 and 4, with loads and submissions that overtake each other.
SPECIFICATION Spec
CONSTANTS
  games = games
  e1 = e1
  e2 = e2
  judo = judo
  chess = chess
  o1 = o1
  light = light
  heavy = heavy
  nothing = nothing
  EventType <- MCEventType
  SportsOf <- MCSportsOf
  Orgs <- OneOrg
  Names <- MCNames
  MaxCount = 1
  Bounds <- MCBounds
  Nothing = nothing
INVARIANTS
  TypeOK
  SuccessIsSaved
  TableListsSelected
  FreshAfterSubmit
CHECK_DEADLOCK FALSE
