---------------------------- MODULE NumberSurvey ----------------------------
(***************************************************************************)
(* Survey 3 of one event: an organisation announces how many it will send  *)
(* for a sport, and an administrator reviews the announcement              *)
(* (participation_per_sport_service.py).  A submission hangs on a row of   *)
(* sports_event_org, which survey 2 adds and removes as well.              *)
(*                                                                         *)
(* Requests are served by Workers, each in a session at READ COMMITTED     *)
(* without row locks: a SELECT is a step that sees what is committed then, *)
(* a request's writes are one step with its commit.  The announced numbers *)
(* and the text of notes are left out: no decision depends on them.        *)
(***************************************************************************)
EXTENDS ReviewFsm, Integers, FiniteSets

CONSTANTS
  Workers,          \* concurrent requests the API serves
  Orgs, Sports,
  NULL,
  Forms,            \* submissions clients may send
  Reviews,          \* review actions administrators may take
  MaxLinks,         \* bound: rows of sports_event_org ever created
  MaxRows           \* bound: rows of participation_per_sport ever created

LinkIds == 1 .. MaxLinks
RowIds  == 1 .. MaxRows

\* A row of sports_event_org: the organisation takes part in the sport.
Link == [sport : Sports, org : Orgs]

\* A row of participation_per_sport.  Both columns are nullable.
Row == [link : LinkIds \cup {NULL}, org : Orgs \cup {NULL}, status : Status]

ASSUME SurveyAssumption ==
  /\ IsFiniteSet(Workers)
  /\ MaxLinks \in Nat /\ MaxRows \in Nat
  /\ NULL \notin Nat /\ NULL \notin Link /\ NULL \notin Row /\ NULL \notin Orgs
  \* org is org_id and host is organization_id of ParticipationPerSportCreate
  /\ Forms \subseteq [sport : Sports, org : Orgs, host : Orgs]
  /\ Reviews \subseteq Actions

VARIABLES
  seo,        \* seo[l]: row l of sports_event_org, NULL if there is none
  nextLink,
  pps,        \* pps[r]: row r of participation_per_sport, NULL if there is none
  nextRow,
  moved,      \* history: the rows whose org_id a PATCH has changed
  open,       \* survey_number_is_open of the event
  req         \* req[w]: the request worker w has in hand, and how far it is

tables == <<seo, nextLink, pps, nextRow, moved, open>>
numberVars == <<seo, nextLink, pps, nextRow, moved, open, req>>

Links       == { l \in LinkIds : seo[l] # NULL }
Submissions == { r \in RowIds : pps[r] # NULL }

\* find-or-create and upsert look rows up by these columns.
LinksOf(s, o) == { l \in Links : seo[l] = [sport |-> s, org |-> o] }
RowsOf(l, o)  == { r \in Submissions : pps[r].link = l /\ pps[r].org = o }

-----------------------------------------------------------------------------
(* Requests.                                                               *)

Idle == [at |-> "idle"]

Request ==
  {Idle}
    \cup [at : {"find_link", "insert_link"}, form : Forms]
    \cup [at : {"find_row", "insert_row"}, form : Forms, link : LinkIds]
    \cup [at : {"patch"}, row : RowIds, org : Orgs \cup {NULL}]
    \cup [at : {"delete"}, row : RowIds]
    \cup [at : {"decide"}, rows : SUBSET RowIds, target : Status, bulk : BOOLEAN]

Begin(w, request) == req[w] = Idle /\ req' = [req EXCEPT ![w] = request]
Answer(w) == req' = [req EXCEPT ![w] = Idle]

-----------------------------------------------------------------------------
(* POST: create.                                                           *)

\* The event is read, and its phase must be open.
Submit(w, f) ==
  /\ open
  /\ Begin(w, [at |-> "find_link", form |-> f])
  /\ UNCHANGED tables

FindLink(w) ==
  /\ req[w].at = "find_link"
  /\ LET f == req[w].form
         found == LinksOf(f.sport, f.host)
     IN  req' = [req EXCEPT ![w] =
           IF found = {} THEN [at |-> "insert_link", form |-> f]
           ELSE [at |-> "find_row", form |-> f, link |-> CHOOSE l \in found : TRUE]]
  /\ UNCHANGED tables

\* The INSERT and a commit of its own; a link another request has made in the
\* meantime violates uix_event_sport_org and the request fails.
InsertLink(w) ==
  /\ req[w].at = "insert_link"
  /\ nextLink \in LinkIds
  /\ LET f == req[w].form
     IN  IF LinksOf(f.sport, f.host) = {}
         THEN /\ seo' = [seo EXCEPT ![nextLink] = [sport |-> f.sport, org |-> f.host]]
              /\ nextLink' = nextLink + 1
              /\ req' = [req EXCEPT ![w] = [at |-> "find_row", form |-> f, link |-> nextLink]]
         ELSE Answer(w) /\ UNCHANGED <<seo, nextLink>>
  /\ UNCHANGED <<pps, nextRow, moved, open>>

\* Fault: the submission is always inserted.
FindNoRow(w) ==
  /\ req[w].at = "find_row"
  /\ req' = [req EXCEPT ![w].at = "insert_row"]
  /\ UNCHANGED tables

\* No row: one is inserted.  One: its numbers are overwritten and the review
\* is left as it is.  Several: MultipleResultsFound.
FindRow(w) ==
  /\ req[w].at = "find_row"
  /\ IF RowsOf(req[w].link, req[w].form.org) = {}
     THEN req' = [req EXCEPT ![w].at = "insert_row"]
     ELSE Answer(w)
  /\ UNCHANGED tables

\* Fault: the column default is forgotten.
NewRowWithoutDefault(l, o) == [link |-> l, org |-> o, status |-> NULL]

NewRow(l, o) == [link |-> l, org |-> o, status |-> "SUBMITTED"]

\* A link that is gone fails the foreign key.
InsertRow(w) ==
  /\ req[w].at = "insert_row"
  /\ nextRow \in RowIds
  /\ IF req[w].link \in Links
     THEN /\ pps' = [pps EXCEPT ![nextRow] = NewRow(req[w].link, req[w].form.org)]
          /\ nextRow' = nextRow + 1
     ELSE UNCHANGED <<pps, nextRow>>
  /\ Answer(w)
  /\ UNCHANGED <<seo, nextLink, moved, open>>

-----------------------------------------------------------------------------
(* PATCH and DELETE of one submission: the row is read, must have an       *)
(* organisation, and is written by primary key.  Neither asks for a phase. *)

\* A PATCH that gives the row another org_id, or null; any other changes numbers only.
LoadForPatch(w, r, o) ==
  /\ r \in Submissions /\ pps[r].org # NULL /\ o # pps[r].org
  /\ Begin(w, [at |-> "patch", row |-> r, org |-> o])
  /\ UNCHANGED tables

Patch(w) ==
  /\ req[w].at = "patch"
  /\ LET r == req[w].row
     IN  IF r \in Submissions
         THEN /\ pps' = [pps EXCEPT ![r].org = req[w].org]
              /\ moved' = moved \cup {r}
         ELSE UNCHANGED <<pps, moved>>
  /\ Answer(w)
  /\ UNCHANGED <<seo, nextLink, nextRow, open>>

LoadForDelete(w, r) ==
  /\ r \in Submissions /\ pps[r].org # NULL
  /\ Begin(w, [at |-> "delete", row |-> r])
  /\ UNCHANGED tables

Delete(w) ==
  /\ req[w].at = "delete"
  /\ pps' = [pps EXCEPT ![req[w].row] = NULL]
  /\ Answer(w)
  /\ UNCHANGED <<seo, nextLink, nextRow, moved, open>>

-----------------------------------------------------------------------------
(* Review: the rows are read and checked, then written by primary key.     *)

\* One submission, along REVIEW_TRANSITIONS.
Review(w, r, action, note) ==
  /\ r \in Submissions
  /\ Accepted(action, pps[r].status, note)
  /\ Begin(w, [at |-> "decide", rows |-> {r},
               target |-> REVIEW_TRANSITIONS[action].to, bulk |-> FALSE])
  /\ UNCHANGED tables

\* Fault: the status is left out of the WHERE.
PendingOrDecided(o) == { r \in Submissions : pps[r].org = o }

\* The SELECT of review_bulk_by_org.
Pending(o) == { r \in Submissions : pps[r].org = o /\ pps[r].status = "SUBMITTED" }

\* All pending submissions of an organisation.
ReviewBulk(w, o, action) ==
  /\ Pending(o) # {}
  /\ Begin(w, [at |-> "decide", rows |-> Pending(o),
               target |-> BulkTarget[action], bulk |-> TRUE])
  /\ UNCHANGED tables

\* The commit.  When a row has been deleted the UPDATE matches fewer rows than
\* the session expects and the transaction fails; a driver that does not count
\* the rows of a batch lets the others through.
Decide(w) ==
  /\ req[w].at = "decide"
  /\ LET present == req[w].rows \cap Submissions
     IN  \/ /\ present = req[w].rows \/ Cardinality(req[w].rows) > 1
            /\ pps' = [r \in RowIds |->
                         IF r \in present THEN [pps[r] EXCEPT !.status = req[w].target]
                         ELSE pps[r]]
         \/ present # req[w].rows /\ UNCHANGED pps
  /\ Answer(w)
  /\ UNCHANGED <<seo, nextLink, nextRow, moved, open>>

-----------------------------------------------------------------------------
(* Survey 2 on the same links, and the phase.                              *)

\* add_org_to_event_sport: a link that exists is refused, by its lookup or by the
\* unique constraint.  The phase of survey 2 may be open at any time.
AddLink(s, o) ==
  /\ nextLink \in LinkIds
  /\ LinksOf(s, o) = {}
  /\ seo' = [seo EXCEPT ![nextLink] = [sport |-> s, org |-> o]]
  /\ nextLink' = nextLink + 1
  /\ UNCHANGED <<pps, nextRow, moved, open, req>>

\* DELETE of links; the submissions on them stay, ON DELETE SET NULL.
RemoveLinks(gone) ==
  /\ gone # {}
  /\ seo' = [l \in LinkIds |-> IF l \in gone THEN NULL ELSE seo[l]]
  /\ pps' = [r \in RowIds |->
               IF r \in Submissions /\ pps[r].link \in gone
               THEN [pps[r] EXCEPT !.link = NULL] ELSE pps[r]]
  /\ UNCHANGED <<nextLink, nextRow, moved, open, req>>

RemoveOrgFromSport(l) == RemoveLinks({l} \cap Links)
RemoveOrgFromEvent(o) == RemoveLinks({ l \in Links : seo[l].org = o })

SwitchPhase ==
  /\ open' = ~ open
  /\ UNCHANGED <<seo, nextLink, pps, nextRow, moved, req>>

\* An exception, a time limit or a lost client before the next commit.
Abandon(w) ==
  /\ req[w] # Idle
  /\ Answer(w)
  /\ UNCHANGED tables

-----------------------------------------------------------------------------
NumberInit ==
  /\ seo = [l \in LinkIds |-> NULL] /\ nextLink = 1
  /\ pps = [r \in RowIds |-> NULL] /\ nextRow = 1
  /\ moved = {}
  /\ open = FALSE
  /\ req = [w \in Workers |-> Idle]

WorkerStep(w) ==
  \/ \E f \in Forms : Submit(w, f)
  \/ FindLink(w)
  \/ InsertLink(w)
  \/ FindRow(w)
  \/ InsertRow(w)
  \/ \E r \in RowIds, o \in Orgs \cup {NULL} : LoadForPatch(w, r, o)
  \/ Patch(w)
  \/ \E r \in RowIds : LoadForDelete(w, r)
  \/ Delete(w)
  \/ \E r \in RowIds, action \in Reviews, note \in BOOLEAN : Review(w, r, action, note)
  \/ \E o \in Orgs, action \in DOMAIN BulkTarget : ReviewBulk(w, o, action)
  \/ Decide(w)
  \/ Abandon(w)

NumberNext ==
  \/ \E w \in Workers : WorkerStep(w)
  \/ \E s \in Sports, o \in Orgs : AddLink(s, o)
  \/ \E l \in LinkIds : RemoveOrgFromSport(l)
  \/ \E o \in Orgs : RemoveOrgFromEvent(o)
  \/ SwitchPhase

NumberSpec == NumberInit /\ [][NumberNext]_numberVars

-----------------------------------------------------------------------------
(* Properties.                                                             *)

NumberTypeOK ==
  /\ seo \in [LinkIds -> Link \cup {NULL}]
  /\ nextLink \in Nat \ {0}
  /\ pps \in [RowIds -> Row \cup {NULL}]
  /\ nextRow \in Nat \ {0}
  /\ moved \subseteq RowIds
  /\ open \in BOOLEAN
  /\ req \in [Workers -> Request]

\* "Upsert (update if exists for same org+sport_event)", as far as it holds:
\* the lookup is not a constraint, so requests that look at the same time each
\* insert a row of their own, but no more than there are such requests; rows
\* that a PATCH has given to the organisation come on top.
TwinsBounded ==
  \A l \in LinkIds, o \in Orgs :
    Cardinality(RowsOf(l, o) \ moved) <= Cardinality(Workers)

\* Someone has read r and is about to write a decision.
InReview(r) == \E w \in Workers : req[w].at = "decide" /\ r \in req[w].rows

DecisionTaken(r) == r \in Submissions /\ pps[r].status \in Final /\ ~ InReview(r)

\* No transition leads out of APPROVED or REJECTED, but a review writes without
\* looking again.  Once those who had already looked are done, the decision
\* stands: no review, bulk review, new submission, PATCH or removal of the sport
\* changes it, until the submission is deleted.
DecisionFinal ==
  [][\A r \in RowIds :
       DecisionTaken(r) => \/ pps'[r] = NULL
                           \/ DecisionTaken(r)' /\ pps'[r].status = pps[r].status]_numberVars
=============================================================================
