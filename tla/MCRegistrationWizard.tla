------------------------ MODULE MCRegistrationWizard ------------------------
\* One administrator and one organisation at a browser, for TLC.
EXTENDS RegistrationWizard
CONSTANTS admin, orga, o1, p1, p2, games, e1, e2, judo, sprint, duo, nothing
MCUsers      == {admin, orga}
MCOrgOf      == [u \in Users |-> IF u = orga THEN o1 ELSE nothing]
MCPersons    == {p1, p2}
MCTypedBy    == [p \in MCPersons |-> IF p = p2 THEN orga ELSE admin]
MCEventType  == [e \in {e1, e2} |-> games]
MCCategories == {sprint, duo}
MCSportOf    == [c \in MCCategories |-> judo]
MCSizeOf     == [c \in MCCategories |-> IF c = duo THEN 2 ELSE 1]
OneType      == {games}
OneOrg       == {o1}
BothPages    == {"athlete", "leader"}

\* Drafts of two accounts; drafts and a registration; a team with two members;
\* two requests at a time for one person; two events; a leader.
Limits(storage, users, pages, events, categories, enrol, teams, pending) ==
  [storage |-> storage, users |-> users, pages |-> pages, events |-> events,
   categories |-> categories, enrol |-> enrol, teams |-> teams, reqs |-> pending]
MCBounds == { Limits(TRUE, MCUsers, {"athlete"}, {e1}, {sprint, duo}, 0, 0, 1),
              Limits(TRUE, {admin}, {"athlete"}, {e1}, {sprint, duo}, 1, 0, 1),
              Limits(FALSE, {admin}, {"athlete"}, {e1}, {sprint, duo}, 2, 1, 1),
              Limits(FALSE, {admin}, {"athlete"}, {e1}, {sprint}, 2, 0, 2),
              Limits(FALSE, {admin}, {"athlete"}, {e1, e2}, {sprint}, 2, 0, 1),
              Limits(TRUE, {orga}, {"leader"}, {e1}, {sprint}, 1, 0, 1) }
=============================================================================
