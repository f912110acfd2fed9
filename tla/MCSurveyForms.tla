--------------------------- MODULE MCSurveyForms ----------------------------
\* The survey forms at one browser, for TLC.
EXTENDS SurveyForms
CONSTANTS games, e1, e2, judo, chess, o1, light, heavy, nothing
MCEventType == [e \in {e1, e2} |-> games]
MCSportsOf  == [e \in {e1, e2} |-> IF e = e1 THEN {judo, chess} ELSE {judo}]
OneOrg      == {o1}
MCNames     == {light, heavy}

Limits(admin, org, sport, kinds, events, pending, sent, total, visits, moves, links) ==
  [admin |-> admin, org |-> org, sport |-> sport, kinds |-> kinds, events |-> events, loads |-> pending,
   subs |-> sent, sends |-> total, visits |-> visits, moves |-> moves, links |-> links]

\* An organisation in survey 2, with phases and reviews; in survey 2 and then 3,
\* with one event; in survey 3 with loads, and with submissions, that overtake
\* each other; an administrator in surveys 2 and 3; survey 4, by a federation,
\* twice, and by an administrator.
None == {}
All  == {e1, e2}
Both == {<<e1, o1, judo>>, <<e1, o1, chess>>}
MCBounds ==
  { Limits(FALSE, o1, nothing, {"sport"}, All, 1, 1, 1, 1, TRUE, None),
    Limits(FALSE, o1, nothing, {"sport", "number"}, {e1}, 1, 1, 2, 2, FALSE, None),
    Limits(FALSE, o1, nothing, {"number"}, All, 2, 0, 0, 1, FALSE, {<<e1, o1, judo>>}),
    Limits(FALSE, o1, nothing, {"number"}, {e1}, 1, 2, 2, 2, FALSE, Both),
    Limits(FALSE, o1, nothing, {"number"}, {e1}, 1, 1, 1, 1, TRUE, Both),
    Limits(TRUE, nothing, nothing, {"number"}, All, 1, 1, 1, 1, FALSE, Both),
    Limits(TRUE, nothing, nothing, {"sport"}, All, 1, 1, 1, 1, FALSE, {<<e1, o1, judo>>}),
    Limits(FALSE, nothing, judo, {"category"}, All, 1, 2, 2, 2, FALSE, None),
    Limits(TRUE, nothing, nothing, {"category"}, {e1}, 1, 1, 1, 1, FALSE, None) }
=============================================================================
