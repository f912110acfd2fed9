------------------------- MODULE NumberReviewDesk ---------------------------
(***************************************************************************)
(* The review of survey 3, the numbers of an organisation: for an          *)
(* administrator a queue of organisations, the submissions of one, and one *)
(* submission; for an organisation the list of its own, and one of them.   *)
(***************************************************************************)
EXTENDS ReviewDesk

\* Fault: a submission sent back can be rejected as well.
RejectsSentBack ==
  [status \in Status |->
     CASE status = "SUBMITTED"                       -> {"approve", "reject", "flag"}
       [] status \in {"FLAGGED", "REVISION_REQUESTED"} -> {"approve", "reject"}
       [] OTHER                                      -> {}]

\* ALLOWED: the transitions of the server, but for submit and request_revision.
NumberAllowed ==
  [status \in Status |->
     CASE status = "SUBMITTED"          -> {"approve", "reject", "flag"}
       [] status = "FLAGGED"            -> {"approve", "reject"}
       [] status = "REVISION_REQUESTED" -> {"approve"}
       [] OTHER                         -> {}]

\* groupParticipationsByOrg
NumberPending(rows) == {s \in Present(rows) : rows[s] = "SUBMITTED"}

OpenNumberOrg(d, g) ==
  /\ d \in cap.admins
  /\ \E filter \in {{status} : status \in Status} \union {Status} : OpenGroup(d, g, filter)

OpenNumberRow(d, s) ==
  /\ d \in cap.admins /\ desk[d].screen = "group"
  /\ OpenRow(d, s, Group(d), Unread)

\* ParticipationList: an organisation opens a submission of its own, on the
\* same screen with the same buttons; it cannot withdraw one, as only
\* administrators get that button and they get another list.
OpenOwnRow(d, s) ==
  /\ d \notin cap.admins /\ RowsShown(d)
  /\ OpenRow(d, s, desk[d].list.data, Unread)

\* A bulk review takes all submissions of the organisation, whatever the event.
NumberOrgReview(d, action) ==
  /\ desk[d].screen = "group" /\ action \in {"approve", "reject"}
  /\ action = "approve" => NumberPending(Group(d)) # {}
  /\ ReviewGroup(d, action, Nothing)

NumberReasonAsked(d, action) ==
  /\ \/ desk[d].screen = "group" /\ action = "reject" /\ NumberPending(Group(d)) # {}
     \/ desk[d].screen = "detail" /\ action \in NumberAllowed[desk[d].own] \ {"approve"}
  /\ AskReason(d, action)

NumberRowReview(d, action) ==
  /\ desk[d].screen = "detail" /\ action \in {"approve", "reject", "flag"}
  /\ action = "approve" => "approve" \in NumberAllowed[desk[d].own]
  /\ ReviewRow(d, action)

-----------------------------------------------------------------------------
\* The server

\* review_participation_per_sport: administrators only.
ReviewParticipation(m) ==
  /\ m \in muts /\ m.what = "one" /\ m.at = "sent"
  /\ IF m.desk \in cap.admins /\ There(m.row) /\ Accepted(m.action, db[m.row], m.note)
     THEN Served(m, {m.row}, REVIEW_TRANSITIONS[m.action].to)
     ELSE Refused(m)

\* review_bulk_by_org, one transaction here; NumberSurvey takes it apart.
ReviewBulkByOrg(m) ==
  /\ m \in muts /\ m.what = "bulk" /\ m.at = "sent"
  /\ Served(m, {s \in OfGroup(m.group) : db[s] = "SUBMITTED"}, BulkTarget[m.action])

-----------------------------------------------------------------------------
\* Its answers

NumberRowReviewed(m) ==
  m.what = "one" /\ Heard(m, [desk[m.desk] EXCEPT !.own = m.result])

NumberOrgReviewed(m) ==
  m.what = "bulk" /\ Heard(m, desk[m.desk])

NumberDesk(d) ==
  \/ \E g \in Groups : OpenNumberOrg(d, g)
  \/ \E s \in Subs : OpenNumberRow(d, s) \/ OpenOwnRow(d, s)
  \/ \E a \in Actions : \/ NumberOrgReview(d, a) \/ NumberRowReview(d, a)
                        \/ NumberReasonAsked(d, a)

NumberReview ==
  /\ cap.kind = "number"
  /\ \/ \E d \in InUse : NumberDesk(d)
     \/ \E m \in muts : \/ ReviewParticipation(m) \/ ReviewBulkByOrg(m)
                        \/ NumberRowReviewed(m) \/ NumberOrgReviewed(m)
=============================================================================
