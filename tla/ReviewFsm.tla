----------------------------- MODULE ReviewFsm ------------------------------
(***************************************************************************)
(* The review of a submission: REVIEW_TRANSITIONS, which survey 3 and      *)
(* survey 4 have in common, and the target of a bulk review.               *)
(***************************************************************************)

Status == {"DRAFT", "SUBMITTED", "APPROVED", "REJECTED", "FLAGGED", "REVISION_REQUESTED"}

\* action -> valid current statuses, target, note required
REVIEW_TRANSITIONS ==
  [submit  |-> [from |-> {"DRAFT", "REVISION_REQUESTED"},
                to |-> "SUBMITTED", note |-> FALSE],
   approve |-> [from |-> {"SUBMITTED", "FLAGGED", "REVISION_REQUESTED"},
                to |-> "APPROVED", note |-> FALSE],
   reject  |-> [from |-> {"SUBMITTED", "FLAGGED"}, to |-> "REJECTED", note |-> TRUE],
   flag    |-> [from |-> {"SUBMITTED"}, to |-> "FLAGGED", note |-> TRUE],
   request_revision |->
               [from |-> {"SUBMITTED", "FLAGGED"}, to |-> "REVISION_REQUESTED", note |-> TRUE]]

Actions == DOMAIN REVIEW_TRANSITIONS

\* A review of a submission in that status passes the checks.
Accepted(action, status, note) ==
  /\ status \in REVIEW_TRANSITIONS[action].from
  /\ REVIEW_TRANSITIONS[action].note => note

\* What a bulk action makes of a submission.
BulkTarget == [approve |-> "APPROVED", reject |-> "REJECTED"]

\* The statuses no transition leads out of.
Final == {"APPROVED", "REJECTED"}
=============================================================================
