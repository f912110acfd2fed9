--------------------------- MODULE MCOpenSurvey ----------------------------
\* The open survey of two events, for TLC.
EXTENDS OpenSurvey
CONSTANTS e1, e2, u1, u2, red, blue, word, nothing
TwoEvents   == {e1, e2}
TwoBrowsers == {u1, u2}
TwoOptions  == {red, blue}

Column(type, options, required, order, active) ==
  [type |-> type, options |-> options, required |-> required, order |-> order, active |-> active]
Text1  == Column("text", {}, TRUE, 0, TRUE)
Remark == Column("text", {}, FALSE, 0, TRUE)
Pick   == Column("radio", {red, blue}, TRUE, 1, TRUE)
Boxes  == Column("checkbox", {red, blue}, FALSE, 1, TRUE)
Hidden == Column("text", {}, TRUE, 0, FALSE)

MCForms == { [type |-> "text", options |-> {}, required |-> TRUE],
             [type |-> "radio", options |-> {red}, required |-> FALSE] }

Limits(browsers, events, own, fields, sends, faults, phases, edits, does) ==
  [browsers |-> browsers, events |-> events, owner |-> own, field |-> fields, sends |-> sends,
   faults |-> faults, phases |-> phases, edits |-> edits, does |-> does]

\* Two members; one, twice, and one with fields added later; a choice whose
\* options change; two events, with faults, one closed meanwhile; moves, with
\* inactive fields and fields of one order; moves that fail, and edits.
MCBounds ==
  { Limits({u1, u2}, {e1}, <<e1>>, <<Text1>>, 1, FALSE, FALSE, 0, {}),
    Limits({u1}, {e1}, <<e1, e1>>, <<Text1, Remark>>, 2, FALSE, FALSE, 0, {}),
    Limits({u1}, {e1}, <<e1>>, <<Text1>>, 2, FALSE, FALSE, 1, {"add"}),
    Limits({u1}, {e1}, <<e1, e1>>, <<Pick, Boxes>>, 1, FALSE, FALSE, 1, {"edit", "deactivate"}),
    Limits({u1}, {e1, e2}, <<e1, e2>>, <<Text1, Pick>>, 1, TRUE, TRUE, 0, {}),
    Limits({}, {e1}, <<e1, e1, e1>>, <<Remark, Boxes, Hidden>>, 0, FALSE, FALSE, 2, {"move", "deactivate", "show"}),
    Limits({}, {e1}, <<e1, e1, e1>>, <<Remark, Boxes, Text1>>, 0, TRUE, FALSE, 2, {"move"}),
    Limits({}, {e1}, <<e1, e1>>, <<Remark, Boxes>>, 0, TRUE, FALSE, 2, {"move", "add", "edit"}) }
=============================================================================
