--------------------------- MODULE MCReviewDesks ----------------------------
\* Two desks and three submissions, of two groups and events, for TLC.
EXTENDS ReviewDesks
CONSTANTS d1, d2, g1, g2, e1, e2, s1, s2, s3, nothing
MCGroupOf == [s \in {s1, s2, s3} |-> IF s = s3 THEN g2 ELSE g1]
MCEventOf == [s \in {s1, s2, s3} |-> IF s = s2 THEN e2 ELSE e1]

Limits(kind, admins, owner, lag, comes, moves, there, mutations, sends) ==
  [kind |-> kind, admins |-> admins,
   owners |-> [d \in {d1, d2} |-> IF d \in admins THEN nothing ELSE owner],
   lag |-> lag, comes |-> comes, moves |-> moves, there |-> there,
   muts |-> mutations, sends |-> sends]

\* One administrator in survey 2, with a submission that comes and goes, with
\* two reviews under way, with a lagging replica; in survey 3 with one that is sent
\* back and submitted again, with two groups, with two reviews, with the organisation
\* looking on, and with two administrators; in survey 4 with one that is sent back
\* and submitted again, with another event, with two reviews.
MCBounds ==
  { Limits("sport", {d1}, nothing, FALSE, {s2}, {s2}, {s1}, 1, 2),
    Limits("sport", {d1}, nothing, FALSE, {}, {}, {s1, s2}, 2, 2),
    Limits("sport", {d1}, nothing, TRUE, {}, {}, {s1}, 1, 2),
    Limits("number", {d1}, nothing, FALSE, {}, {s1}, {s1}, 1, 2),
    Limits("number", {d1}, nothing, FALSE, {s3}, {s3}, {s1, s2}, 1, 1),
    Limits("number", {d1}, nothing, FALSE, {}, {}, {s1}, 2, 2),
    Limits("number", {d1}, g1, FALSE, {}, {}, {s1}, 1, 1),
    Limits("number", {d1, d2}, nothing, FALSE, {}, {}, {s1}, 1, 1),
    Limits("category", {d1}, nothing, FALSE, {}, {s1}, {s1}, 1, 1),
    Limits("category", {d1}, nothing, FALSE, {s2}, {}, {s1}, 1, 1),
    Limits("category", {d1}, nothing, FALSE, {}, {}, {s1}, 2, 2) }
=============================================================================
