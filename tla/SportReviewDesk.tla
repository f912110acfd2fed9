-------------------------- MODULE SportReviewDesk ---------------------------
(***************************************************************************)
(* The review of survey 2, the sports of an organisation: the queue of     *)
(* organisations, the sports of one, and one sport.  The queue is read     *)
(* from the replica.                                                       *)
(***************************************************************************)
EXTENDS ReviewDesk

\* ALLOWED
SportAllowed ==
  [status \in Status |-> IF status = "SUBMITTED" THEN {"approve", "reject"} ELSE {}]

\* groupSubmissionsByOrg: what is neither approved nor rejected is pending.
SportPending(rows) == {s \in Present(rows) : rows[s] \notin Final}

\* The organisations of the list, of all submissions or those in one status.
OpenSportOrg(d, g) ==
  \E filter \in {{status} : status \in {"SUBMITTED"} \union Final} \union {Status} :
    OpenGroup(d, g, filter)

OpenSportRow(d, s) ==
  desk[d].screen = "group" /\ OpenRow(d, s, Group(d), Unread)

\* A bulk review keeps to the event on screen, if there is only one.
SportScope(d) ==
  LET events == {EventOf[s] : s \in Present(Group(d))}
  IN IF Cardinality(events) = 1 THEN CHOOSE e \in events : TRUE ELSE Nothing

SportOrgReview(d, action) ==
  /\ desk[d].screen = "group" /\ action \in {"approve", "reject"}
  /\ action = "approve" => SportPending(Group(d)) # {}
  /\ ReviewGroup(d, action, SportScope(d))

SportRejectAsked(d) ==
  /\ \/ desk[d].screen = "group" /\ SportPending(Group(d)) # {}
     \/ desk[d].screen = "detail" /\ "reject" \in SportAllowed[desk[d].own]
  /\ AskReason(d, "reject")

SportRowReview(d, action) ==
  /\ desk[d].screen = "detail" /\ action \in {"approve", "reject"}
  /\ action = "approve" => "approve" \in SportAllowed[desk[d].own]
  /\ ReviewRow(d, action)

-----------------------------------------------------------------------------
\* The server

\* review_sport_org: whatever the status of the submission is.
ReviewSportOrg(m) ==
  /\ m \in muts /\ m.what = "one" /\ m.at = "sent"
  /\ IF There(m.row) THEN Served(m, {m.row}, BulkTarget[m.action]) ELSE Refused(m)

\* review_sport_org_bulk
ReviewSportOrgBulk(m) ==
  /\ m \in muts /\ m.what = "bulk" /\ m.at = "sent"
  /\ Served(m, {s \in OfGroup(m.group) : db[s] = "SUBMITTED" /\ m.event \in {EventOf[s], Nothing}},
            BulkTarget[m.action])

-----------------------------------------------------------------------------
\* Its answers: the row on screen takes over the status, the list is fetched again.

SportRowReviewed(m) ==
  m.what = "one" /\ Heard(m, [desk[m.desk] EXCEPT !.own = m.result])

SportOrgReviewed(m) ==
  m.what = "bulk" /\ Heard(m, desk[m.desk])

SportDesk(d) ==
  \/ \E g \in Groups : OpenSportOrg(d, g)
  \/ \E s \in Subs : OpenSportRow(d, s)
  \/ \E a \in Actions : SportOrgReview(d, a) \/ SportRowReview(d, a)
  \/ SportRejectAsked(d)

SportReview ==
  /\ cap.kind = "sport"
  /\ \/ \E d \in cap.admins : SportDesk(d)
     \/ \E m \in muts : \/ ReviewSportOrg(m) \/ ReviewSportOrgBulk(m)
                        \/ SportRowReviewed(m) \/ SportOrgReviewed(m)
=============================================================================
