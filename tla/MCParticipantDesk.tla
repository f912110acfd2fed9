------------------------- MODULE MCParticipantDesk --------------------------
\* Two desks, up to three participants, and pages of one, for TLC.
EXTENDS ParticipantDesk
CONSTANTS d1, d2, v1, v2, nothing
MCSearches == { {v1, v2}, {v1} }
Limits(desks, there, people, searches, mutations, sends, turns) ==
  [desks |-> desks, there |-> there, people |-> people, searches |-> searches,
   muts |-> mutations, sends |-> sends, turns |-> turns]
MCBounds == {
  Limits({d1}, 2, 2, MCSearches, 2, 2, 3),
  Limits({d1}, 3, 3, {}, 2, 2, 2),
  Limits({d1}, 1, 2, {}, 2, 2, 3),
  Limits({d1}, 2, 2, {}, 1, 1, 5),
  Limits({d1}, 1, 1, {}, 2, 2, 5),
  Limits({d1, d2}, 1, 1, {}, 2, 2, 2) }
=============================================================================
