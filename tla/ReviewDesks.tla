---------------------------- MODULE ReviewDesks -----------------------------
(***************************************************************************)
(* The three review desks together: what a reviewer is shown and offered,  *)
(* and what becomes of the decisions.                                      *)
(***************************************************************************)
EXTENDS SportReviewDesk, NumberReviewDesk, CategoryReviewDesk

Next ==
  \/ SportReview \/ NumberReview \/ CategoryReview
  \/ \E d \in InUse : \/ ListServed(d) \/ ListArrives(d) \/ ListFails(d)
                      \/ Refocus(d) \/ Back(d) \/ CloseDialog(d)
  \/ \E m \in muts : Fails(m)
  \/ \E s \in Subs : NewSubmission(s) \/ Withdrawn(s) \/ SentBack(s) \/ Resubmitted(s)
  \/ Replicate

Spec == Init /\ [][Next]_vars

-----------------------------------------------------------------------------
(* Properties.                                                             *)

\* The status on the screen of a submission, and the decisions it offers.
Shown(d) == IF cap.kind = "category" THEN CategoryShown(d) ELSE desk[d].own
Offered(d) ==
  CASE cap.kind = "sport"    -> SportAllowed[Shown(d)]
    [] cap.kind = "number"   -> NumberAllowed[Shown(d)]
    [] cap.kind = "category" -> CategoryAllowed[Shown(d)]

\* "Mirror of the backend FSM": if the status on an administrator's screen is
\* that of the submission, whatever it has been through, the server accepts
\* every decision the screen offers.
OffersAccepted ==
  \A d \in cap.admins :
    desk[d].screen = "detail" /\ db[desk[d].row] = Shown(d)
    => \A a \in Offered(d) : Accepted(a, db[desk[d].row], TRUE)

\* A decision a desk has been told of is not undone by its lists: none that has
\* come since has the submission as pending, even if the decision came while
\* another screen was open or a list was on its way; unless the submission was
\* sent back and submitted again since, that list was answered before the
\* decision or by a replica that lags, or reading it again has failed, where a
\* group on screen rests on what was read before.
QueueFollows ==
  \A d \in InUse :
    /\ ~cap.lag /\ ~desk[d].list.old /\ ~desk[d].list.failed
    /\ desk[d].list.fetch = "idle" /\ desk[d].list.data # Nothing
    => \A s \in desk[d].decided : desk[d].list.data[s] # "SUBMITTED"

\* A bulk review sent from a screen with the submissions of one event decides
\* none of another event, though such may have come in the meantime.  (That of
\* survey 3 has no scope.)
BulkStaysInEvent ==
  \A m \in muts :
    m.what = "bulk" /\ m.at = "done" /\ cap.kind # "number" /\ Cardinality(m.seen) = 1
    => {EventOf[s] : s \in m.touched} \subseteq m.seen
=============================================================================
