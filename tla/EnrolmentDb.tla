----------------------------- MODULE EnrolmentDb ----------------------------
(***************************************************************************)
(* The tables that registration and team management share, for one event,  *)
(* and the requests the workers have in hand.  Registration and TeamRoster *)
(* add the operations; Enrolment composes them.                            *)
(*                                                                         *)
(* A worker serves one request at a time in one session.  PostgreSQL runs  *)
(* at READ COMMITTED and the services take no row locks, so every SELECT   *)
(* on rows that others change is a step that sees what is committed then;  *)
(* a request's writes become visible at its commit and are one step.       *)
(***************************************************************************)
EXTENDS Integers, FiniteSets

CONSTANTS
  Workers,          \* concurrent requests the API serves
  People,           \* a name and date of birth
  Orgs, Sports, Categories, TeamNames,
  NULL,
  SportConfig,      \* sports_events: the event's configuration of a sport, or NULL
  CategoryRow,      \* the sport and team_size_max of a row of categories
  Eligible,         \* sports_event_org: the <<sport, org>> selected in survey 2
  participant_cap,  \* events.participant_cap, NULL when there is no cap
  Forms,            \* registration requests clients may send
  TeamForms,        \* team creation requests clients may send
  Changes,          \* participant updates clients may send
  MaxEnrol,         \* bound: participants ever registered
  MaxTeams          \* bound: teams ever created

Limits == Nat \cup {NULL}
Enrols == 1 .. MaxEnrol
TeamIds == 1 .. MaxTeams

\* A row of athlete_participation or leader_participation with the person it
\* belongs to.  A leader has neither category nor team; an athlete is registered
\* with a category, which is gone when the category is.
Row ==
  [person : People, role : {"athlete"}, sport : Sports, org : Orgs,
   cat : Categories \cup {NULL}, team : TeamIds \cup {NULL}]
    \cup [person : People, role : {"leader"}, sport : Sports, org : Orgs,
          cat : {NULL}, team : {NULL}]

Team == [sport : Sports, org : Orgs, category : Categories \cup {NULL}, name : TeamNames]

Config == [mode : {"individual", "team", "both"}, team_size_max : Limits,
           quota_athletes_per_org : Limits, quota_teams_per_org : Limits]

ASSUME DbAssumption ==
  /\ IsFiniteSet(Workers) /\ Workers # {}
  /\ MaxEnrol \in Nat /\ MaxTeams \in Nat
  /\ NULL \notin Nat /\ NULL \notin Row /\ NULL \notin Team /\ NULL \notin Categories
  /\ participant_cap \in Limits
  /\ SportConfig \in [Sports -> Config \cup {NULL}]
  /\ CategoryRow \in [Categories -> [sport : Sports, team_size_max : Limits]]
  /\ Forms \subseteq [person : People, role : {"athlete", "leader"}, sport : Sports,
                      org : Orgs, cat : Categories \cup {NULL},
                      team : TeamIds \cup {NULL}, force : BOOLEAN]
  /\ TeamForms \subseteq Team
  /\ Changes \subseteq [person : People \cup {NULL}, sport : Sports \cup {NULL},
                        org : Orgs \cup {NULL}, cat : Categories \cup {NULL}]

VARIABLES
  part,         \* part[e]: the participation of enrolment e, NULL if there is none
  nextEnrol,    \* next value of the enrolment id sequence
  team,         \* team[t]: row t of teams, NULL if there is none
  nextTeam,
  category,     \* the rows of categories
  open,         \* registration_is_open of the event
  late,         \* registrations committed since registration was last closed
  req           \* req[w]: the request worker w has in hand, and how far it is

tables == <<part, nextEnrol, team, nextTeam, category, open, late>>
vars == <<part, nextEnrol, team, nextTeam, category, open, late, req>>

-----------------------------------------------------------------------------
(* What the queries return.                                                *)

Entrants == { e \in Enrols : part[e] # NULL }
Teams    == { t \in TeamIds : team[t] # NULL }

\* member_count's rows.
Roster(t) == { e \in Entrants : part[e].team = t }

\* The athletes an organisation has in a sport.
Athletes(s, o) ==
  { e \in Entrants : part[e].role = "athlete" /\ part[e].sport = s /\ part[e].org = o }

\* A column of the sport's configuration; no row means no limit.
Limit(s, column) == IF SportConfig[s] = NULL THEN NULL ELSE SportConfig[s][column]

\* A limit that is not configured is never reached.
Reached(limit, used) == limit # NULL /\ used >= limit

-----------------------------------------------------------------------------
(* Requests.                                                               *)

Idle == [at |-> "idle"]

\* at names the statement the request executes next.
RegisterPoints == {"cap", "sport", "team", "seats", "duplicate", "insert"}

Request ==
  {Idle}
    \cup [at : RegisterPoints, form : Forms]
    \cup [at : {"update"}, entrant : Enrols, loaded : Row, change : Changes]
    \cup [at : {"team_quota", "team_name", "team_insert"}, form : TeamForms]
    \cup [at : {"count", "match", "join"}, entrant : Enrols, team : TeamIds, loaded : Team]
    \cup [at : {"leave"}, entrant : Enrols]

\* w goes on to another statement of its request.
Continue(w, at) == req' = [req EXCEPT ![w].at = at]

\* w answers: with success, with an error after a rollback, or not at all.
Answer(w) == req' = [req EXCEPT ![w] = Idle]

\* A rejection changes no table.
Reject(w) == Answer(w) /\ UNCHANGED tables
=============================================================================
