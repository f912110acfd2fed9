\* Athletes who register for a team, join one and leave it, while it comes and goes.
CONSTANTS
  w1 = w1
  w2 = w2
  p1 = p1
  o1 = o1
  s1 = s1
  s2 = s2
  c1 = c1
  n1 = n1
  NULL = NULL
  Workers <- MCWorkers
  People <- MCPeople
  Orgs <- MCOrgs
  Categories <- MCCategories
  Eligible <- MCEligible
  TeamNames <- OneName
  Sports <- OneSport
  SportConfig <- RosterConfig
  CategoryRow <- TeamCategory
  participant_cap = NULL
  Forms <- EitherForms
  TeamForms <- OneTeamForm
  Changes <- NoChanges
  MaxEnrol = 4
  MaxTeams = 1
SPECIFICATION Spec
INVARIANTS
  RosterOvershootBounded
  NoDanglingTeam
SYMMETRY WorkerSymmetry
CHECK_DEADLOCK FALSE
