\* Athletes' and a leader's wizard, with drafts, a team, and answers that are lost.
SPECIFICATION Spec
CONSTANTS
  admin = admin
  orga = orga
  o1 = o1
  p1 = p1
  p2 = p2
  games = games
  e1 = e1
  e2 = e2
  judo = judo
  sprint = sprint
  duo = duo
  nothing = nothing
  Users <- MCUsers
  Modes <- BothPages
  OrgOf <- MCOrgOf
  Persons <- MCPersons
  TypedBy <- MCTypedBy
  Types <- OneType
  EventType <- MCEventType
  Orgs <- OneOrg
  Categories <- MCCategories
  SportOf <- MCSportOf
  SizeOf <- MCSizeOf
  Bounds <- MCBounds
  Nothing = nothing
INVARIANTS
  TypeOK
  SelectionsFit
  OwnInput
  OneRegistration
  TeamFits
  DoublesAreForced
CHECK_DEADLOCK FALSE
