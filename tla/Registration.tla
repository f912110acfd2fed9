---------------------------- MODULE Registration ----------------------------
(***************************************************************************)
(* Registering, updating and deleting a participant                        *)
(* (app/application/participants).  A registration runs the rules of       *)
(* validate_registration one query after the other, then inserts and       *)
(* commits; the bulk importer sends each row through the same use case.    *)
(*                                                                         *)
(* The rules that look only at the form and at the event's fixed columns - *)
(* age window, documents, guardian consent, file references - change no    *)
(* state and depend on none that changes: Forms holds forms that pass them.*)
(***************************************************************************)
EXTENDS EnrolmentDb

\* Fault: the registration phase is not looked at.
RegisterAnyTime(w, f) ==
  /\ req[w] = Idle
  /\ req' = [req EXCEPT ![w] = [at |-> "cap", form |-> f]]
  /\ UNCHANGED tables

\* Rule 1: the event is read once, and its phase must be open.
Register(w, f) ==
  /\ req[w] = Idle
  /\ open
  /\ req' = [req EXCEPT ![w] = [at |-> "cap", form |-> f]]
  /\ UNCHANGED tables

\* Fault: an off-by-one in Rule 0.
CheckCapStrict(w) ==
  /\ req[w].at = "cap"
  /\ IF participant_cap # NULL /\ Cardinality(Entrants) > participant_cap
     THEN Answer(w) ELSE Continue(w, "sport")
  /\ UNCHANGED tables

\* Rule 0: athletes and leaders of the event against its cap.
CheckCap(w) ==
  /\ req[w].at = "cap"
  /\ IF Reached(participant_cap, Cardinality(Entrants))
     THEN Answer(w) ELSE Continue(w, "sport")
  /\ UNCHANGED tables

\* Rule 6b: an athlete's category is one of the sport's.
CategoryFits(f) == f.cat \in category /\ CategoryRow[f.cat].sport = f.sport

\* Rule 4: the organisation has a place left in the sport.
QuotaLeft(f) ==
  ~ Reached(Limit(f.sport, "quota_athletes_per_org"), Cardinality(Athletes(f.sport, f.org)))

\* Rules 6a, 6b and 4.
CheckSport(w) ==
  /\ req[w].at = "sport"
  /\ LET f == req[w].form
     IN  IF /\ <<f.sport, f.org>> \in Eligible
            /\ f.role = "athlete" => CategoryFits(f) /\ QuotaLeft(f)
         THEN Continue(w, IF f.role = "athlete" /\ f.team # NULL THEN "team" ELSE "duplicate")
         ELSE Answer(w)
  /\ UNCHANGED tables

\* The seats of a category's teams, NULL or 1 when it has no teams.
CategorySeats(f) == CategoryRow[f.cat].team_size_max

\* The category has teams, and the chosen team is one of the athlete's own.
OwnTeam(f) ==
  /\ f.cat \in category /\ CategorySeats(f) \notin {NULL, 0, 1}
  /\ f.team \in Teams
  /\ team[f.team].sport = f.sport
  /\ team[f.team].org = f.org
  /\ team[f.team].category = f.cat

CheckTeam(w) ==
  /\ req[w].at = "team"
  /\ IF OwnTeam(req[w].form) THEN Continue(w, "seats") ELSE Answer(w)
  /\ UNCHANGED tables

\* TEAM_FULL, counted against the category's team_size_max.
CheckSeats(w) ==
  /\ req[w].at = "seats"
  /\ LET f == req[w].form
     IN  IF Reached(CategorySeats(f), Cardinality(Roster(f.team)))
         THEN Answer(w) ELSE Continue(w, "duplicate")
  /\ UNCHANGED tables

\* Rule 5: soft duplicate, skipped with force.
CheckDuplicate(w) ==
  /\ req[w].at = "duplicate"
  /\ LET f == req[w].form
     IN  IF ~ f.force /\ \E e \in Entrants : part[e].person = f.person
         THEN Answer(w) ELSE Continue(w, "insert")
  /\ UNCHANGED tables

\* Fault: the team chosen is stored whatever the role.
NewRowWithTeam(f) ==
  [person |-> f.person, role |-> f.role, sport |-> f.sport, org |-> f.org,
   cat  |-> IF f.role = "athlete" THEN f.cat ELSE NULL,
   team |-> f.team]

\* What _create_athlete or _create_leader stores.
NewRow(f) ==
  [person |-> f.person, role |-> f.role, sport |-> f.sport, org |-> f.org,
   cat  |-> IF f.role = "athlete" THEN f.cat ELSE NULL,
   team |-> IF f.role = "athlete" THEN f.team ELSE NULL]

\* The inserts and the commit.  A team or category deleted in the meantime fails
\* its foreign key and the registration is rolled back.
InsertEntrant(w) ==
  /\ req[w].at = "insert"
  /\ nextEnrol \in Enrols
  /\ LET row == NewRow(req[w].form)
     IN  IF row.team \in Teams \cup {NULL} /\ row.cat \in category \cup {NULL}
         THEN /\ part' = [part EXCEPT ![nextEnrol] = row]
              /\ nextEnrol' = nextEnrol + 1
              /\ late' = IF open THEN late ELSE late + 1
         ELSE UNCHANGED <<part, nextEnrol, late>>
  /\ Answer(w)
  /\ UNCHANGED <<team, nextTeam, category, open>>

\* UpdateParticipant reads the enrolment and its participation ...
LoadEntrant(w, e, ch) ==
  /\ req[w] = Idle
  /\ e \in Entrants
  /\ req' = [req EXCEPT ![w] =
               [at |-> "update", entrant |-> e, loaded |-> part[e], change |-> ch]]
  /\ UNCHANGED tables

\* ... and writes, by primary key, the columns whose value differs from the
\* one it read.  No registration rule is applied and team_id is left alone; a
\* category that is gone fails the foreign key.
Overlay(row, loaded, ch) ==
  [row EXCEPT
     !.person = IF ch.person \in {NULL, loaded.person} THEN @ ELSE ch.person,
     !.sport  = IF ch.sport \in {NULL, loaded.sport} THEN @ ELSE ch.sport,
     !.org    = IF ch.org \in {NULL, loaded.org} THEN @ ELSE ch.org,
     !.cat    = IF row.role # "athlete" \/ ch.cat \in {NULL, loaded.cat}
                THEN @ ELSE ch.cat]

UpdateEntrant(w) ==
  /\ req[w].at = "update"
  /\ LET e   == req[w].entrant
         new == Overlay(part[e], req[w].loaded, req[w].change)
     IN  part' = IF e \in Entrants /\ new.cat \in category \cup {NULL}
                 THEN [part EXCEPT ![e] = new] ELSE part
  /\ Answer(w)
  /\ UNCHANGED <<nextEnrol, team, nextTeam, category, open, late>>

\* DELETE of the enrolment and everything under it.
DeleteEntrant(e) ==
  /\ e \in Entrants
  /\ part' = [part EXCEPT ![e] = NULL]
  /\ UNCHANGED <<nextEnrol, team, nextTeam, category, open, late, req>>

\* The admin, or the calendar, opens or closes the registration phase.
SwitchPhase ==
  /\ open' = ~ open
  /\ late' = 0
  /\ UNCHANGED <<part, nextEnrol, team, nextTeam, category, req>>

RegistrationStep(w) ==
  \/ \E f \in Forms : Register(w, f)
  \/ CheckCap(w)
  \/ CheckSport(w)
  \/ CheckTeam(w)
  \/ CheckSeats(w)
  \/ CheckDuplicate(w)
  \/ InsertEntrant(w)
  \/ \E e \in Enrols, ch \in Changes : LoadEntrant(w, e, ch)
  \/ UpdateEntrant(w)
=============================================================================
