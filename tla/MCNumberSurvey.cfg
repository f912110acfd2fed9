\* Submissions and reviews of one organisation, while its link comes and goes.
CONSTANTS
  w1 = w1
  w2 = w2
  o1 = o1
  s1 = s1
  NULL = NULL
  Workers <- MCWorkers
  Orgs <- MCOrgs
  Sports <- MCSports
  Forms <- MCForms
  Reviews <- SomeReviews
  MaxLinks = 2
  MaxRows = 3
SPECIFICATION NumberSpec
INVARIANTS
  NumberTypeOK
  TwinsBounded
PROPERTIES
  DecisionFinal
SYMMETRY WorkerSymmetry
CHECK_DEADLOCK FALSE
