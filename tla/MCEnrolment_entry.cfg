\* Registrations against the event's cap, while a team comes and goes.
CONSTANTS
  w1 = w1
  w2 = w2
  p1 = p1
  o1 = o1
  s1 = s1
  s2 = s2
  c1 = c1
  n1 = n1
  NULL = NULL
  Workers <- MCWorkers
  People <- MCPeople
  Orgs <- MCOrgs
  Categories <- MCCategories
  Eligible <- MCEligible
  TeamNames <- OneName
  Sports <- TwoSports
  SportConfig <- EntryConfig
  CategoryRow <- TeamCategory
  participant_cap = 1
  Forms <- EntryForms
  TeamForms <- OneTeamForm
  Changes <- MoveToSport
  MaxEnrol = 4
  MaxTeams = 1
SPECIFICATION Spec
INVARIANTS
  TypeOK
  CapOvershootBounded
  LateEntriesBounded
SYMMETRY WorkerSymmetry
CHECK_DEADLOCK FALSE
