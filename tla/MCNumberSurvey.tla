--------------------------- MODULE MCNumberSurvey ---------------------------
(* One event with one sport and one organisation; the cfgs choose the      *)
(* review actions.                                                         *)
EXTENDS NumberSurvey, TLC

CONSTANTS w1, w2, o1, s1

MCWorkers == {w1, w2}
\* The workers are alike; the run checks invariants and an action property only.
WorkerSymmetry == Permutations(MCWorkers)
MCOrgs    == {o1}
MCSports  == {s1}
MCForms   == { [sport |-> s1, org |-> o1, host |-> o1] }
\* The single reviews that lead back to SUBMITTED; a bulk review can always approve
\* or reject.
SomeReviews == {"request_revision", "submit"}
=============================================================================
