\* The open survey, filled while its fields are edited.
SPECIFICATION Spec
CONSTANTS
  e1 = e1
  e2 = e2
  u1 = u1
  u2 = u2
  red = red
  blue = blue
  word = word
  nothing = nothing
  Events <- TwoEvents
  Browsers <- TwoBrowsers
  Options <- TwoOptions
  Word = word
  MaxFields = 4
  MaxSends = 2
  MaxEdits = 3
  Forms <- MCForms
  Bounds <- MCBounds
  Nothing = nothing
INVARIANTS
  TypeOK
  OverviewExact
  FillFollows
  OrderAsMoved
CHECK_DEADLOCK FALSE
