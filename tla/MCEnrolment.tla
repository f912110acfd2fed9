---------------------------- MODULE MCEnrolment -----------------------------
(* One event with one or two sports and one organisation.  The cfgs choose *)
(* the forms, the limits and the bounds of each run.                       *)
EXTENDS Enrolment, TLC

CONSTANTS w1, w2, p1, o1, s1, s2, c1, n1

MCWorkers == {w1, w2}
\* The workers are alike; the runs that use it check invariants only.
WorkerSymmetry == Permutations(MCWorkers)
MCPeople  == {p1}
MCOrgs    == {o1}
OneSport  == {s1}
TwoSports == {s1, s2}
MCCategories == {c1}
OneName  == {n1}

\* All sports alike, with that many teams per organisation.
LimitedConfig(seats, athletes, teams) ==
  [s \in Sports |-> [mode |-> "team", team_size_max |-> seats,
                     quota_athletes_per_org |-> athletes, quota_teams_per_org |-> teams]]
EntryConfig  == LimitedConfig(2, 2, 1)
RosterConfig == LimitedConfig(2, NULL, 1)

\* c1 is a category of s1: one of teams of so many.
TeamsOf(seats) == [c \in MCCategories |-> [sport |-> s1, team_size_max |-> seats]]
TeamCategory       == TeamsOf(2)
IndividualCategory == TeamsOf(1)

MCEligible == { <<s1, o1>> }

Form(role, cat, t, force) ==
  [person |-> p1, role |-> role, sport |-> s1, org |-> o1, cat |-> cat, team |-> t,
   force |-> force]

\* An athlete for a team, in spite of the duplicate warning, and a leader, whose
\* choice of team is ignored.
EntryForms  == { Form("athlete", c1, 1, TRUE), Form("leader", NULL, 1, FALSE) }
RosterForms == { Form("athlete", c1, NULL, TRUE) }

OneTeamForm == { [sport |-> s1, org |-> o1, category |-> c1, name |-> n1] }

EitherForms == { Form("athlete", c1, t, TRUE) : t \in {NULL, 1} }

NoChanges   == {}
MoveToSport == { [person |-> NULL, sport |-> s2, org |-> NULL, cat |-> NULL] }
=============================================================================
