------------------------ MODULE CategoryReviewDesk --------------------------
(***************************************************************************)
(* The review of survey 4, the categories of a sport: the queue of sports, *)
(* the submissions of one, by event, and one submission, whose categories  *)
(* and status are read again when it is opened.                            *)
(***************************************************************************)
EXTENDS ReviewDesk

\* ALLOWED
CategoryAllowed ==
  [status \in Status |->
     CASE status = "SUBMITTED"          -> {"approve", "reject", "flag"}
       [] status = "FLAGGED"            -> {"approve", "reject"}
       [] status = "REVISION_REQUESTED" -> {"approve"}
       [] OTHER                         -> {}]

\* groupCategorySubmissionsBySport
CategoryPending(rows) == {s \in Present(rows) : rows[s] = "SUBMITTED"}

OpenSportGroup(d, g) ==
  \E filter \in {{status} : status \in Status} \union {Status} : OpenGroup(d, g, filter)

\* The submission as it is shown is opened, and it is read again.
OpenCategoryRow(d, s) ==
  desk[d].screen = "group" /\ OpenRow(d, s, Group(d), Asked(Unread))

\* get_category_submission: of one that is gone there is an error, and what is
\* shown of it stays.
DetailServed(d) ==
  /\ desk[d].detail.fetch = "asked" /\ There(desk[d].row)
  /\ desk' = [desk EXCEPT ![d].detail.fetch = "answered",
                          ![d].detail.answer = db[desk[d].row]]
  /\ UNCHANGED <<muts, sent, db, replica, cap>>

DetailArrives(d) ==
  /\ desk[d].detail.fetch = "answered"
  /\ desk' = [desk EXCEPT ![d].detail = Received(@, TRUE)]
  /\ UNCHANGED <<muts, sent, db, replica, cap>>

DetailFails(d) ==
  /\ desk[d].detail.fetch # "idle"
  /\ desk' = [desk EXCEPT ![d].detail = Failed(@, TRUE)]
  /\ UNCHANGED <<muts, sent, db, replica, cap>>

\* The status on screen: of its review, else as read again, else as opened.
CategoryShown(d) ==
  IF desk[d].reviewed # Nothing THEN desk[d].reviewed
  ELSE IF desk[d].detail.data # Nothing THEN desk[d].detail.data ELSE desk[d].own

\* Fault: of every event.
EveryEvent(d) == Nothing

\* A bulk review keeps to the event on screen, if there is only one.
CategoryScope(d) ==
  LET events == {EventOf[s] : s \in Present(Group(d))}
  IN IF Cardinality(events) = 1 THEN CHOOSE e \in events : TRUE ELSE Nothing

CategorySportReview(d, action) ==
  /\ desk[d].screen = "group" /\ action \in {"approve", "reject"}
  /\ action = "approve" => CategoryPending(Group(d)) # {}
  /\ ReviewGroup(d, action, CategoryScope(d))

CategoryReasonAsked(d, action) ==
  /\ \/ desk[d].screen = "group" /\ action = "reject" /\ CategoryPending(Group(d)) # {}
     \/ desk[d].screen = "detail" /\ action \in CategoryAllowed[CategoryShown(d)] \ {"approve"}
  /\ AskReason(d, action)

CategoryRowReview(d, action) ==
  /\ desk[d].screen = "detail" /\ action \in {"approve", "reject", "flag"}
  /\ action = "approve" => "approve" \in CategoryAllowed[CategoryShown(d)]
  /\ ReviewRow(d, action)

-----------------------------------------------------------------------------
\* The server

\* CategorySurveyService.review
ReviewCategory(m) ==
  /\ m \in muts /\ m.what = "one" /\ m.at = "sent"
  /\ IF There(m.row) /\ Accepted(m.action, db[m.row], m.note)
     THEN Served(m, {m.row}, REVIEW_TRANSITIONS[m.action].to)
     ELSE Refused(m)

\* review_bulk_by_sport
ReviewBulkBySport(m) ==
  /\ m \in muts /\ m.what = "bulk" /\ m.at = "sent"
  /\ Served(m, {s \in OfGroup(m.group) : db[s] = "SUBMITTED" /\ m.event \in {EventOf[s], Nothing}},
            BulkTarget[m.action])

-----------------------------------------------------------------------------
\* Its answers: a review is shown from then on, whatever is read after it.

CategoryRowReviewed(m) ==
  m.what = "one" /\ Heard(m, [desk[m.desk] EXCEPT !.reviewed = m.result])

CategorySportReviewed(m) ==
  m.what = "bulk" /\ Heard(m, desk[m.desk])

CategoryDesk(d) ==
  \/ \E g \in Groups : OpenSportGroup(d, g)
  \/ \E s \in Subs : OpenCategoryRow(d, s)
  \/ DetailServed(d) \/ DetailArrives(d) \/ DetailFails(d)
  \/ \E a \in Actions : \/ CategorySportReview(d, a) \/ CategoryRowReview(d, a)
                        \/ CategoryReasonAsked(d, a)

CategoryReview ==
  /\ cap.kind = "category"
  /\ \/ \E d \in cap.admins : CategoryDesk(d)
     \/ \E m \in muts : \/ ReviewCategory(m) \/ ReviewBulkBySport(m)
                        \/ CategoryRowReviewed(m) \/ CategorySportReviewed(m)
=============================================================================
