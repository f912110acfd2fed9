\* The participants: their list, their pages, deletion and editing.
SPECIFICATION Spec
CONSTANTS
  d1 = d1
  d2 = d2
  v1 = v1
  v2 = v2
  nothing = nothing
  Desks = {d1, d2}
  Values = {v1, v2}
  Searches <- MCSearches
  PageSize = 1
  MaxPeople = 3
  Bounds <- MCBounds
  Nothing = nothing
INVARIANTS DeletedGone SavedShown
CHECK_DEADLOCK FALSE
