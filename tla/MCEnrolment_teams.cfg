\* Teams made, renamed and deleted against the quota.
CONSTANTS
  w1 = w1
  w2 = w2
  p1 = p1
  o1 = o1
  s1 = s1
  s2 = s2
  c1 = c1
  n1 = n1
  NULL = NULL
  Workers <- MCWorkers
  People <- MCPeople
  Orgs <- MCOrgs
  Categories <- MCCategories
  Eligible <- MCEligible
  TeamNames <- OneName
  Sports <- OneSport
  SportConfig <- RosterConfig
  CategoryRow <- IndividualCategory
  participant_cap = NULL
  Forms <- RosterForms
  TeamForms <- OneTeamForm
  Changes <- NoChanges
  MaxEnrol = 2
  MaxTeams = 3
SPECIFICATION Spec
INVARIANTS
  TeamQuotaOvershootBounded
SYMMETRY WorkerSymmetry
CHECK_DEADLOCK FALSE
