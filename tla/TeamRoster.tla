----------------------------- MODULE TeamRoster -----------------------------
(***************************************************************************)
(* Teams and their rosters (src/services/team_service.py).  A member of a  *)
(* team is an athlete_participation row whose team_id names it.  None of   *)
(* these operations is repeated after an integrity error or locks a row.   *)
(***************************************************************************)
EXTENDS EnrolmentDb

\* create_team: the phase is open and the sport has teams.
CreateTeam(w, f) ==
  /\ req[w] = Idle
  /\ open
  /\ Limit(f.sport, "mode") \in {"team", "both"}
  /\ req' = [req EXCEPT ![w] = [at |-> "team_quota", form |-> f]]
  /\ UNCHANGED tables

OwnTeams(s, o) == { t \in Teams : team[t].sport = s /\ team[t].org = o }

\* Fault: the quota is compared with the organisation's teams of the category.
CountTeamsOfCategory(w) ==
  /\ req[w].at = "team_quota"
  /\ LET f == req[w].form
     IN  IF Reached(Limit(f.sport, "quota_teams_per_org"),
                    Cardinality({ t \in OwnTeams(f.sport, f.org) :
                                    team[t].category = f.category }))
         THEN Answer(w) ELSE Continue(w, "team_name")
  /\ UNCHANGED tables

CountTeams(w) ==
  /\ req[w].at = "team_quota"
  /\ LET f == req[w].form
     IN  IF Reached(Limit(f.sport, "quota_teams_per_org"),
                    Cardinality(OwnTeams(f.sport, f.org)))
         THEN Answer(w) ELSE Continue(w, "team_name")
  /\ UNCHANGED tables

\* Taken, or taken twice (MultipleResultsFound): either way no team is made.
CheckTeamName(w) ==
  /\ req[w].at = "team_name"
  /\ IF \E t \in Teams : team[t] = req[w].form
     THEN Answer(w) ELSE Continue(w, "team_insert")
  /\ UNCHANGED tables

InsertTeam(w) ==
  /\ req[w].at = "team_insert"
  /\ nextTeam \in TeamIds
  /\ IF req[w].form.category \in category \cup {NULL}
     THEN /\ team' = [team EXCEPT ![nextTeam] = req[w].form]
          /\ nextTeam' = nextTeam + 1
     ELSE UNCHANGED <<team, nextTeam>>
  /\ Answer(w)
  /\ UNCHANGED <<part, nextEnrol, category, open, late>>

\* add_member reads the team once and keeps it for the whole request.
AddMember(w, t, e) ==
  /\ req[w] = Idle
  /\ t \in Teams
  /\ req' = [req EXCEPT ![w] =
               [at |-> "count", entrant |-> e, team |-> t, loaded |-> team[t]]]
  /\ UNCHANGED tables

\* Fault: an off-by-one in TEAM_FULL.
CountMembersStrict(w) ==
  /\ req[w].at = "count"
  /\ LET seats == Limit(req[w].loaded.sport, "team_size_max")
     IN  IF seats # NULL /\ Cardinality(Roster(req[w].team)) > seats
         THEN Answer(w) ELSE Continue(w, "match")
  /\ UNCHANGED tables

\* TEAM_FULL, counted against the sport's team_size_max.
CountMembers(w) ==
  /\ req[w].at = "count"
  /\ IF Reached(Limit(req[w].loaded.sport, "team_size_max"),
                Cardinality(Roster(req[w].team)))
     THEN Answer(w) ELSE Continue(w, "match")
  /\ UNCHANGED tables

\* The athlete is in the team's sport and organisation, in no team, and in the
\* team's category if it has one.
MatchMember(w) ==
  /\ req[w].at = "match"
  /\ LET e == req[w].entrant
         t == req[w].loaded
     IN  IF /\ e \in Athletes(t.sport, t.org)
            /\ part[e].team = NULL
            /\ t.category \in {NULL, part[e].cat}
         THEN Continue(w, "join") ELSE Answer(w)
  /\ UNCHANGED tables

\* Fault: no foreign key from a participation to its team.
JoinTeamUnchecked(w) ==
  /\ req[w].at = "join"
  /\ LET e == req[w].entrant
     IN  part' = IF e \in Entrants
                 THEN [part EXCEPT ![e].team = req[w].team] ELSE part
  /\ Answer(w)
  /\ UNCHANGED <<nextEnrol, team, nextTeam, category, open, late>>

\* UPDATE ... SET team_id by primary key.  A participation that is gone is a
\* stale-data error, a team that is gone breaks the foreign key.
JoinTeam(w) ==
  /\ req[w].at = "join"
  /\ LET e == req[w].entrant
     IN  part' = IF e \in Entrants /\ req[w].team \in Teams
                 THEN [part EXCEPT ![e].team = req[w].team] ELSE part
  /\ Answer(w)
  /\ UNCHANGED <<nextEnrol, team, nextTeam, category, open, late>>

\* remove_member reads the participation while it is on the team ...
RemoveMember(w, t, e) ==
  /\ req[w] = Idle
  /\ t \in Teams /\ e \in Roster(t)
  /\ req' = [req EXCEPT ![w] = [at |-> "leave", entrant |-> e]]
  /\ UNCHANGED tables

\* ... and clears team_id by primary key, whatever it says by then.
LeaveTeam(w) ==
  /\ req[w].at = "leave"
  /\ LET e == req[w].entrant
     IN  part' = IF e \in Entrants THEN [part EXCEPT ![e].team = NULL] ELSE part
  /\ Answer(w)
  /\ UNCHANGED <<nextEnrol, team, nextTeam, category, open, late>>

\* Members are detached, also those that join while the delete waits for them
\* (ON DELETE SET NULL); their registrations stay.
DeleteTeam(t) ==
  /\ t \in Teams
  /\ team' = [team EXCEPT ![t] = NULL]
  /\ part' = [e \in Enrols |-> IF e \in Roster(t) THEN [part[e] EXCEPT !.team = NULL]
                                ELSE part[e]]
  /\ UNCHANGED <<nextEnrol, nextTeam, category, open, late, req>>

\* A new name or category is stored as it comes.
UpdateTeam(t, name, cat) ==
  /\ t \in Teams
  /\ cat \in category \cup {NULL}
  /\ team' = [team EXCEPT ![t].name = name, ![t].category = cat]
  /\ UNCHANGED <<part, nextEnrol, nextTeam, category, open, late, req>>

\* A category is removed, by an admin or by a new answer to the category survey:
\* the rows that name it stay without one (ON DELETE SET NULL).
DeleteCategory(c) ==
  /\ c \in category
  /\ category' = category \ {c}
  /\ part' = [e \in Enrols |->
                IF e \in Entrants /\ part[e].cat = c THEN [part[e] EXCEPT !.cat = NULL]
                ELSE part[e]]
  /\ team' = [t \in TeamIds |->
                IF t \in Teams /\ team[t].category = c THEN [team[t] EXCEPT !.category = NULL]
                ELSE team[t]]
  /\ UNCHANGED <<nextEnrol, nextTeam, open, late, req>>

RosterStep(w) ==
  \/ \E f \in TeamForms : CreateTeam(w, f)
  \/ CountTeams(w)
  \/ CheckTeamName(w)
  \/ InsertTeam(w)
  \/ \E t \in TeamIds, e \in Enrols : AddMember(w, t, e) \/ RemoveMember(w, t, e)
  \/ CountMembers(w)
  \/ MatchMember(w)
  \/ JoinTeam(w)
  \/ LeaveTeam(w)
=============================================================================
