------------------------------ MODULE Enrolment -----------------------------
(***************************************************************************)
(* Registration and team management on the same tables, by several workers *)
(* at a time, with requests that fail or are abandoned at any statement.   *)
(***************************************************************************)
EXTENDS Registration, TeamRoster

Init ==
  /\ part = [e \in Enrols |-> NULL]
  /\ nextEnrol = 1
  /\ team = [t \in TeamIds |-> NULL]
  /\ nextTeam = 1
  /\ category = Categories
  /\ open = FALSE
  /\ late = 0
  /\ req = [w \in Workers |-> Idle]

\* An exception, a statement timeout or a lost client before the commit: the
\* session is rolled back.
Abandon(w) == req[w] # Idle /\ Reject(w)

Next ==
  \/ \E w \in Workers : RegistrationStep(w) \/ RosterStep(w) \/ Abandon(w)
  \/ \E e \in Enrols : DeleteEntrant(e)
  \/ \E t \in TeamIds : DeleteTeam(t)
  \/ \E t \in TeamIds, n \in TeamNames, c \in Categories \cup {NULL} : UpdateTeam(t, n, c)
  \/ \E c \in Categories : DeleteCategory(c)
  \/ SwitchPhase

Spec == Init /\ [][Next]_vars

-----------------------------------------------------------------------------
(* Properties.                                                             *)

TypeOK ==
  /\ part \in [Enrols -> Row \cup {NULL}]
  /\ nextEnrol \in Nat \ {0}
  /\ team \in [TeamIds -> Team \cup {NULL}]
  /\ nextTeam \in Nat \ {0}
  /\ category \subseteq Categories
  /\ open \in BOOLEAN
  /\ late \in Nat
  /\ req \in [Workers -> Request]

\* What the check-then-insert of n concurrent requests can let through beyond
\* a limit: the one that is entitled to the last place, and the n - 1 others
\* that counted before it committed.
Slack == Cardinality(Workers) - 1

\* Rule 0 of validate_registration, as far as it holds: the participants of the
\* event exceed its cap by at most the requests that counted at the same time,
\* whatever is deleted, updated or abandoned meanwhile.
CapOvershootBounded ==
  participant_cap # NULL => Cardinality(Entrants) <= participant_cap + Slack

\* Rule 1, as far as it holds: once registration is closed at most one entry per
\* worker still gets in, and none after those requests are over.
LateEntriesBounded == ~ open => late <= Cardinality(Workers)

\* Every limit that lets an athlete into a team: add_member asks the sport's,
\* a registration with a team asks its category's.
SeatLimits(t) ==
  {Limit(team[t].sport, "team_size_max")}
    \cup { CategoryRow[c].team_size_max :
             c \in { d \in Categories : CategoryRow[d].sport = team[t].sport } }

\* TEAM_FULL, as far as it holds: when every limit is set, a roster exceeds the
\* largest of them by at most the requests that counted at the same time.
RosterOvershootBounded ==
  \A t \in Teams :
    NULL \notin SeatLimits(t) =>
      \E seats \in SeatLimits(t) : Cardinality(Roster(t)) <= seats + Slack

\* create_team's quota, as far as it holds.
TeamQuotaOvershootBounded ==
  \A s \in Sports, o \in Orgs :
    Limit(s, "quota_teams_per_org") # NULL =>
      Cardinality(OwnTeams(s, o)) <= Limit(s, "quota_teams_per_org") + Slack

\* No registration is ever on a team that does not exist, although it is checked
\* long before the row is written and the team may be deleted in between.
NoDanglingTeam == \A e \in Entrants : part[e].team # NULL => part[e].team \in Teams
=============================================================================
