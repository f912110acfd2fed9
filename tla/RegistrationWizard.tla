-------------------------- MODULE RegistrationWizard --------------------------
(***************************************************************************)
(* The registration wizard of the web client                               *)
(* (src/frontend/src/modules/registration), for athletes and for leaders,  *)
(* with the draft it keeps in the browser, against what the registration   *)
(* endpoint does with its requests                                         *)
(* (src/backend/app/application/participants).                             *)
(*                                                                         *)
(* One browser, one wizard at a time.  A participant's personal data are a *)
(* member of Persons; the photo and the identity documents are one flag.   *)
(* The wizard goes on while its request is under way: the user may step    *)
(* back and edit, and the answer finds the wizard as it is then.           *)
(***************************************************************************)
EXTENDS Naturals, Sequences, FiniteSets, SequencesExt

CONSTANTS
  Users, Modes,        \* accounts; {"athlete"}, {"leader"} or both pages
  OrgOf,               \* the organisation of an account, Nothing for an administrator
  Persons, TypedBy,    \* personal data, and the account that types them
  Types, EventType,    \* event types, and the type of each event
  Orgs,
  Categories, SportOf, \* categories and the sport of each
  SizeOf,              \* team_size_max of each category, 1 when it is not a team's
  Bounds,              \* bounds to choose from
  Nothing

Events == DOMAIN EventType
Sports == {SportOf[c] : c \in Categories}

\* A browser with or without local storage, the accounts, the pages, the events
\* and the categories in use, and how many registrations, teams, and requests at
\* a time there may be.
Bound == [storage: BOOLEAN, users: SUBSET Users, pages: SUBSET Modes,
          events: SUBSET Events, categories: SUBSET Categories, enrol: Nat, teams: Nat, reqs: Nat]
TeamIds == Nat \ {0}

Maybe(S) == S \union {Nothing}

Form == [type: Maybe(Types), event: Maybe(Events), org: Maybe(Orgs),
         sport: Maybe(Sports), category: Maybe(Categories), team: Maybe(TeamIds),
         person: Maybe(Persons), leaderRole: {Nothing}, papers: BOOLEAN,
         force: BOOLEAN]

Team == [org: Orgs, sport: Sports, category: Categories]
Enrolled == [person: Persons, event: Events, org: Orgs, sport: Sports,
             category: Maybe(Categories), team: Maybe(TeamIds), excused: BOOLEAN]

Steps == {"event", "category", "team", "personal", "documents", "review"}

\* What is rendered of the mutation is pending; latest is the request it
\* follows; twice says that Submit was clicked again before pending was shown,
\* and lasts until nothing is under way.
View == [user: Users, mode: Modes, screen: {"loading", "form", "success"},
         step: Steps, team: Maybe(TeamIds), added: BOOLEAN, dup: BOOLEAN,
         shut: BOOLEAN, uploading: BOOLEAN, making: Maybe(Team),
         pending: BOOLEAN, latest: Nat, twice: BOOLEAN]

Request == [f: Form, nr: Nat, mine: BOOLEAN,
            at: {"sent", "judged", "ok", "duplicate", "refused"}]

ASSUME WizardAssumption ==
  /\ OrgOf \in [Users -> Orgs \union {Nothing}]
  /\ TypedBy \in [Persons -> Users]
  /\ SizeOf \in [Categories -> Nat \ {0}]
  /\ Modes \subseteq {"athlete", "leader"}
  /\ Bounds \subseteq Bound
  /\ Nothing \notin Users \union Persons \union Types \union Events \union Orgs
                    \union Categories \union Sports
  /\ Nothing \notin TeamIds \union View

VARIABLES
  view,   \* the state of RegisterForm and its steps, or Nothing
  form,   \* the values of the form
  dirty,  \* an autosave is due
  draft,  \* localStorage: user and mode -> saved form, or Nothing
  reqs,   \* registration requests not yet answered
  db,     \* the server: teams, registrations
  cap     \* the bounds of this behaviour

vars == <<view, form, dirty, draft, reqs, db, cap>>

\* Fault: no team is 0, not null.
ZeroTeam == [type |-> Nothing, event |-> Nothing, org |-> Nothing, sport |-> Nothing,
             category |-> Nothing, team |-> 0, person |-> Nothing,
             leaderRole |-> Nothing, papers |-> FALSE, force |-> FALSE]

\* defaultValues of useRegisterForm
Blank == [type |-> Nothing, event |-> Nothing, org |-> Nothing, sport |-> Nothing,
          category |-> Nothing, team |-> Nothing, person |-> Nothing,
          leaderRole |-> Nothing, papers |-> FALSE, force |-> FALSE]

TypeOK ==
  /\ view = Nothing \/ view \in View
  /\ form \in Form
  /\ dirty \in BOOLEAN
  /\ draft \in [Users \X Modes -> Form \union {Nothing}]
  /\ reqs \subseteq Request
  /\ cap \in Bounds
  /\ db \in [teams: Seq(Team), rows: Seq(Enrolled)]

Init ==
  /\ view = Nothing /\ form = Blank /\ dirty = FALSE
  /\ draft = [k \in Users \X Modes |-> Nothing]
  /\ reqs = {} /\ cap \in Bounds
  /\ db = [teams |-> <<>>, rows |-> <<>>]

-----------------------------------------------------------------------------
\* What the form shows and accepts

\* Fault: the draft is kept for the browser, not for the user.
SharedKey(v) == <<CHOOSE u \in Users : TRUE, v.mode>>

\* draftKey
DraftKey(v) == <<v.user, v.mode>>

\* categoryIsTeam: the size of the category decides, not the sport.
IsTeam(f) == f.category # Nothing /\ SizeOf[f.category] > 1

\* FORM_STEPS
FormSteps(v, f) ==
  CASE v.mode = "leader" -> <<"event", "personal", "documents", "review">>
    [] v.mode = "athlete" /\ IsTeam(f) ->
         <<"event", "category", "team", "personal", "documents", "review">>
    [] OTHER -> <<"event", "category", "personal", "documents", "review">>

\* FORM_STEPS.indexOf, -1 when the step is gone: here 0 is the missing index.
At(v, f) == LET s == FormSteps(v, f)
            IN IF \E i \in DOMAIN s : s[i] = v.step
               THEN CHOOSE i \in DOMAIN s : s[i] = v.step ELSE 0

\* The requests this wizard waits for.
Mine == {r \in reqs : r.mine}

\* The mutation that useMutation follows, the last one sent, is pending.
Waiting == \E r \in Mine : r.nr = view.latest

\* Fault: the button stays enabled while the request is under way.
EnabledAlways == TRUE

\* RegisterFormNavButtons: Submit is shown on the last step, and disabled by
\* what is rendered of the mutation or by the registration window; consent is
\* not asked.
SubmitEnabled == ~view.pending

\* The step on screen takes the user's input: the dialog is modal.
OnStep(s) == /\ view # Nothing
             /\ view.screen = "form" /\ view.step = s /\ ~view.dup

\* handleNext: what each step validates before the next one is shown.
\* leaderRole is validated for a leader; no step has a field for it.
\* rosterValid is TRUE: TeamRosterStep never calls onValidationChange.
StepDone(s, v, f) ==
  CASE s = "event"     -> Nothing \notin {f.type, f.event, f.org, f.sport}
    [] s = "category"  -> f.category # Nothing
    [] s = "team"      -> v.team # Nothing
    [] s = "personal"  -> f.person # Nothing /\ (v.mode = "leader" => f.leaderRole # Nothing)
    [] s = "documents" -> f.papers
    [] OTHER           -> TRUE

\* registerSchema, which handleSubmit applies to the whole form.
SchemaAccepts(v, f) ==
  /\ Nothing \notin {f.type, f.event, f.org, f.sport, f.person}
  /\ v.mode = "athlete" => f.category # Nothing
  /\ v.mode = "leader" => f.leaderRole # Nothing

\* formDataToPayload, sent by mutateAsync under the first free number, with v
\* on the page: useMutation leaves the mutation before and follows this one.
Free(n) == \A r \in reqs : r.nr # n
Post(v, f) ==
  \E n \in 1..cap.reqs :
    /\ Free(n) /\ \A m \in 1..(n - 1) : ~Free(m)
    /\ reqs' = reqs \union {[f |-> f, nr |-> n, mine |-> TRUE, at |-> "sent"]}
    /\ view' = [v EXCEPT !.latest = n, !.twice = @ \/ (Mine # {} /\ ~v.pending)]

\* A value is set: form.watch puts an autosave off until 600 ms have passed.
Change(f) == form' = f /\ dirty' = TRUE

\* checkWindow, by the effect on [eventId]: a look-up that fails counts as open.
Recheck(v, event) ==
  \E closed \in IF event = Nothing THEN {FALSE} ELSE BOOLEAN :
    view' = [v EXCEPT !.shut = closed]

-----------------------------------------------------------------------------
\* Mounting, the draft, leaving

Open(u, m) ==
  /\ view = Nothing /\ u \in cap.users /\ m \in cap.pages
  /\ view' = [user |-> u, mode |-> m, screen |-> "loading", step |-> "event",
              team |-> Nothing, added |-> FALSE, dup |-> FALSE,
              shut |-> FALSE, uploading |-> FALSE, making |-> Nothing,
              pending |-> FALSE, latest |-> 0, twice |-> FALSE]
  /\ form' = Blank
  /\ UNCHANGED <<dirty, draft, reqs, db, cap>>

\* The reference data have come: the draft is restored, then the role and the
\* organisation of the account are set, which is a change to save.
Ready ==
  /\ view # Nothing /\ view.screen = "loading"
  /\ LET saved == draft[DraftKey(view)]
         base  == IF saved = Nothing THEN form ELSE saved
         own   == OrgOf[view.user]
         f     == IF own = Nothing THEN base ELSE [base EXCEPT !.org = own]
     IN /\ form' = f
        /\ dirty' = (view.mode = "leader" \/ own # Nothing)
        /\ Recheck([view EXCEPT !.screen = "form"], f.event)
  /\ UNCHANGED <<draft, reqs, db, cap>>

\* A browser that refuses to store is ignored.
SaveDraft ==
  /\ view # Nothing /\ dirty /\ cap.storage
  /\ draft' = [draft EXCEPT ![DraftKey(view)] = form]
  /\ dirty' = FALSE
  /\ UNCHANGED <<view, form, reqs, db, cap>>

\* Navigation away, a reload or a sign-out: the timer dies with the component,
\* the request does not.
Leave ==
  /\ view # Nothing
  /\ view' = Nothing /\ form' = Blank /\ dirty' = FALSE
  /\ reqs' = {[r EXCEPT !.mine = FALSE] : r \in reqs}
  /\ UNCHANGED <<draft, db, cap>>

-----------------------------------------------------------------------------
\* The steps

ChooseType(ty) ==
  /\ OnStep("event")
  /\ Change([form EXCEPT !.type = ty, !.event = Nothing, !.sport = Nothing,
                         !.category = Nothing])
  /\ Recheck(view, Nothing)
  /\ UNCHANGED <<draft, reqs, db, cap>>

ChooseEvent(e) ==
  /\ OnStep("event") /\ e \in cap.events
  /\ form.type # Nothing /\ EventType[e] = form.type
  /\ Change([form EXCEPT !.event = e, !.sport = Nothing, !.category = Nothing])
  /\ IF e = form.event THEN UNCHANGED view ELSE Recheck(view, e)
  /\ UNCHANGED <<draft, reqs, db, cap>>

\* Administrators only: an organisation registers for itself.
ChooseOrg(o) ==
  /\ OnStep("event") /\ OrgOf[view.user] = Nothing
  /\ Change([form EXCEPT !.org = o, !.sport = Nothing, !.category = Nothing])
  /\ UNCHANGED <<view, draft, reqs, db, cap>>

\* Fault: the category of the old sport stays.
KeepCategory(f, s) == [f EXCEPT !.sport = s]

WithSport(f, s) == [f EXCEPT !.sport = s, !.category = Nothing]

\* SelectableGrid: a second click takes the choice back.
ChooseSport(s) ==
  /\ OnStep("event") /\ form.event # Nothing /\ form.org # Nothing
  /\ Change(WithSport(form, IF form.sport = s THEN Nothing ELSE s))
  /\ UNCHANGED <<view, draft, reqs, db, cap>>

ChooseCategory(c) ==
  /\ OnStep("category") /\ SportOf[c] = form.sport /\ c \in cap.categories
  /\ Change([form EXCEPT !.category = c])
  /\ UNCHANGED <<view, draft, reqs, db, cap>>

TypePerson(p) ==
  /\ OnStep("personal") /\ TypedBy[p] = view.user /\ form.person # p
  /\ Change([form EXCEPT !.person = p])
  /\ UNCHANGED <<view, draft, reqs, db, cap>>

PickFile ==
  /\ OnStep("documents") /\ ~view.uploading /\ ~form.papers
  /\ view' = [view EXCEPT !.uploading = TRUE]
  /\ UNCHANGED <<form, dirty, draft, reqs, db, cap>>

\* handleFile goes on after the upload wherever the wizard is by then.
FileUploaded ==
  /\ view # Nothing /\ view.uploading
  /\ view' = [view EXCEPT !.uploading = FALSE]
  /\ \/ Change([form EXCEPT !.papers = TRUE])
     \/ UNCHANGED <<form, dirty>>
  /\ UNCHANGED <<draft, reqs, db, cap>>

\* The preview and its "remove" are there from the start of the upload.
RemoveFile ==
  /\ OnStep("documents") /\ (form.papers \/ view.uploading)
  /\ Change([form EXCEPT !.papers = FALSE])
  /\ UNCHANGED <<view, draft, reqs, db, cap>>

-----------------------------------------------------------------------------
\* Moving between the steps

\* goToStep.  maxVisitedStep is at least the step on screen and holds nobody
\* back from an earlier one.
Goto(v, f, i) == [v EXCEPT !.step = FormSteps(v, f)[i]]

GoNext ==
  /\ \E s \in Steps \ {"review"} : OnStep(s) /\ StepDone(s, view, form)
  /\ ~view.shut
  /\ view' = Goto(view, form, At(view, form) + 1)
  /\ UNCHANGED <<form, dirty, draft, reqs, db, cap>>

GoBack ==
  /\ \E s \in Steps : OnStep(s)
  /\ At(view, form) > 1
  /\ view' = Goto(view, form, At(view, form) - 1)
  /\ UNCHANGED <<form, dirty, draft, reqs, db, cap>>

\* The step indicator and the edit buttons of the review: backwards only.
ClickStep(i) ==
  /\ \E s \in Steps : OnStep(s)
  /\ i < At(view, form)
  /\ view' = Goto(view, form, i)
  /\ UNCHANGED <<form, dirty, draft, reqs, db, cap>>

-----------------------------------------------------------------------------
\* The team step

Members(t) == {i \in DOMAIN db.rows : db.rows[i].team = t}

\* setSelectedTeam, and the effect that copies the id into the form.
Select(t) == view' = [view EXCEPT !.team = t] /\ Change([form EXCEPT !.team = t])

\* The list holds the teams of the organisation, of every sport and category.
PickTeam(t) ==
  /\ OnStep("team") /\ db.teams[t].org = form.org
  /\ Select(IF view.team = t THEN Nothing ELSE t)
  /\ UNCHANGED <<draft, reqs, db, cap>>

CreateTeam ==
  /\ OnStep("team") /\ view.making = Nothing /\ Len(db.teams) < cap.teams
  /\ Nothing \notin {form.org, form.sport, form.category}
  /\ view' = [view EXCEPT !.making = [org |-> form.org, sport |-> form.sport,
                                      category |-> form.category]]
  /\ UNCHANGED <<form, dirty, draft, reqs, db, cap>>

\* handleCreate after its await: the team is selected though the user may have
\* chosen another sport since.
TeamCreated ==
  /\ view # Nothing /\ view.making # Nothing
  /\ \/ LET t == Len(db.teams) + 1
        IN /\ t <= cap.teams
           /\ db' = [db EXCEPT !.teams = Append(@, view.making)]
           /\ view' = [view EXCEPT !.team = t, !.making = Nothing]
           /\ Change([form EXCEPT !.team = t])
     \/ /\ view' = [view EXCEPT !.making = Nothing]
        /\ UNCHANGED <<form, dirty, db>>
  /\ UNCHANGED <<draft, reqs, cap>>

\* The form keeps the values of the member before.
AddMember ==
  /\ OnStep("team") /\ view.team # Nothing /\ IsTeam(form)
  /\ Cardinality(Members(view.team)) < SizeOf[form.category]
  /\ view' = Goto([view EXCEPT !.added = FALSE], form,
                  At([view EXCEPT !.step = "personal"], form))
  /\ UNCHANGED <<form, dirty, draft, reqs, db, cap>>

EditMember ==
  /\ OnStep("team") /\ view.team # Nothing /\ Members(view.team) # {}
  /\ view' = [view EXCEPT !.added = FALSE, !.step = "personal"]
  /\ UNCHANGED <<form, dirty, draft, reqs, db, cap>>

RemoveMember ==
  /\ OnStep("team") /\ view.team # Nothing
  /\ \E i \in Members(view.team) : db' = [db EXCEPT !.rows[i].team = Nothing]
  /\ UNCHANGED <<view, form, dirty, draft, reqs, cap>>

-----------------------------------------------------------------------------
\* Submitting

\* The resolver of handleSubmit is done before the next event is handled, the
\* rendering of isPending is not: a second click finds the button as it was.
Submit ==
  /\ OnStep("review") /\ SubmitEnabled /\ ~view.shut
  /\ SchemaAccepts(view, form)
  /\ Post(view, form)
  /\ UNCHANGED <<form, dirty, draft, db, cap>>

\* useMutation notifies on a timer, and the page is rendered again.
RenderPending ==
  /\ view # Nothing /\ view.pending # Waiting
  /\ view' = [view EXCEPT !.pending = Waiting]
  /\ UNCHANGED <<form, dirty, draft, reqs, db, cap>>

\* Fault: a team of another category is accepted.
TeamOfSport(f) == db.teams[f.team].sport = f.sport

\* TEAM_MODE_DISALLOWED ... TEAM_CATEGORY_MISMATCH
TeamMatches(f) ==
  /\ IsTeam(f)
  /\ db.teams[f.team] = [org |-> f.org, sport |-> f.sport, category |-> f.category]

\* Fault: nobody is a duplicate.
NoDuplicate(p, e) == FALSE

\* check_duplicate, on the names and the date of birth, within the event
IsDuplicate(p, e) ==
  \E i \in DOMAIN db.rows : db.rows[i].person = p /\ db.rows[i].event = e

\* The rules of validate_registration a form of the wizard can break.
Accepts(f) ==
  /\ f.papers
  /\ f.team # Nothing =>
       TeamMatches(f) /\ Cardinality(Members(f.team)) < SizeOf[f.category]

\* validate_registration.  Capacity, quota, age, eligibility and the close of
\* registration are any refusal.
Judge(r) ==
  /\ r.at = "sent"
  /\ \E verdict \in {"judged", "duplicate", "refused"} :
       /\ verdict # "refused" =>
            /\ Accepts(r.f)
            /\ ((verdict = "duplicate") <=>
                  (~r.f.force /\ IsDuplicate(r.f.person, r.f.event)))
       /\ reqs' = (reqs \ {r}) \union {[r EXCEPT !.at = verdict]}
  /\ UNCHANGED <<view, form, dirty, draft, db, cap>>

Commit(r) ==
  /\ r.at = "judged" /\ Len(db.rows) < cap.enrol
  /\ db' = [db EXCEPT !.rows = Append(@,
              [person |-> r.f.person, event |-> r.f.event, org |-> r.f.org,
               sport |-> r.f.sport, category |-> r.f.category, team |-> r.f.team,
               excused |-> r.f.force \/ ~r.mine \/ view.twice])]
  /\ reqs' = (reqs \ {r}) \union {[r EXCEPT !.at = "ok"]}
  /\ UNCHANGED <<view, form, dirty, draft, cap>>

\* Request r is answered, and v is on the page.
Heard(v, r) == [v EXCEPT !.twice = @ /\ Mine # {r}]

\* The connection breaks, before or after the server has done its work: the
\* client has its error, and a request under way goes on without it.
Lose(r) ==
  /\ r.mine
  /\ view' = Heard(view, r)
  /\ reqs' = (reqs \ {r}) \union {[r EXCEPT !.mine = FALSE]}
  /\ IF r.at # "ok" THEN UNCHANGED db
     ELSE \E i \in DOMAIN db.rows :
            /\ db.rows[i].person = r.f.person /\ db.rows[i].event = r.f.event
            /\ db' = [db EXCEPT !.rows[i].excused = TRUE]
  /\ UNCHANGED <<form, dirty, draft, cap>>

\* The effect on [isSuccess, memberRegistered] clears the draft when either
\* of them changes and one of them is set.
DraftAfter(v) ==
  IF /\ <<v.screen, v.added>> # <<view.screen, view.added>>
     /\ v.screen = "success" \/ v.added
  THEN [draft EXCEPT ![DraftKey(view)] = Nothing] ELSE draft

IsSuccess(r) == r.at = "ok"

\* handleRegistrationSuccess, or onError of useRegisterForm: a duplicate asks
\* the user, anything else is shown as a message.
Reply(r) ==
  /\ r.mine /\ r.at \in {"ok", "duplicate", "refused"}
  /\ LET v == IF IsSuccess(r)
              THEN IF view.team # Nothing
                   THEN [view EXCEPT !.added = TRUE, !.step = "team"]
                   ELSE [view EXCEPT !.screen = "success"]
              ELSE [view EXCEPT !.dup = r.at = "duplicate"]
     IN view' = Heard(v, r) /\ draft' = DraftAfter(v)
  /\ reqs' = reqs \ {r}
  /\ UNCHANGED <<form, dirty, db, cap>>

\* Nobody waits for the answer.
Unheard(r) ==
  /\ ~r.mine /\ r.at \in {"ok", "duplicate", "refused"}
  /\ reqs' = reqs \ {r}
  /\ UNCHANGED <<view, form, dirty, draft, db, cap>>

\* The soft-duplicate dialog: "yes" sets force, which nothing resets before
\* the form is, and submits the form as it is now, on whatever step.
Override ==
  /\ view # Nothing /\ view.dup
  /\ Change([form EXCEPT !.force = TRUE])
  /\ LET v == [view EXCEPT !.dup = FALSE]
     IN IF SchemaAccepts(v, form) THEN Post(v, [form EXCEPT !.force = TRUE])
                                  ELSE view' = v /\ UNCHANGED reqs
  /\ UNCHANGED <<draft, db, cap>>

Decline ==
  /\ view # Nothing /\ view.dup
  /\ view' = [view EXCEPT !.dup = FALSE]
  /\ Change([form EXCEPT !.force = FALSE])
  /\ UNCHANGED <<draft, reqs, db, cap>>

\* form.reset with the context of the last participant.
RegisterAnother ==
  /\ view # Nothing /\ view.screen = "success"
  /\ LET f == [Blank EXCEPT !.type = form.type, !.event = form.event, !.org = form.org,
                            !.sport = form.sport, !.category = form.category,
                            !.team = view.team]
     IN /\ Change(f)
        /\ view' = [view EXCEPT !.screen = "form", !.step = "personal"]
        /\ draft' = DraftAfter(view')
  /\ UNCHANGED <<reqs, db, cap>>

-----------------------------------------------------------------------------
Next ==
  \/ \E u \in Users, m \in Modes : Open(u, m)
  \/ Ready \/ SaveDraft \/ Leave
  \/ \E ty \in Types : ChooseType(ty)
  \/ \E e \in Events : ChooseEvent(e)
  \/ \E o \in Orgs : ChooseOrg(o)
  \/ \E s \in Sports : ChooseSport(s)
  \/ \E c \in Categories : ChooseCategory(c)
  \/ \E p \in Persons : TypePerson(p)
  \/ PickFile \/ FileUploaded \/ RemoveFile
  \/ GoNext \/ GoBack \/ \E i \in 1..5 : ClickStep(i)
  \/ \E t \in DOMAIN db.teams : PickTeam(t)
  \/ CreateTeam \/ TeamCreated \/ AddMember \/ EditMember \/ RemoveMember
  \/ Submit \/ RenderPending \/ Override \/ Decline \/ RegisterAnother
  \/ \E r \in reqs : Judge(r) \/ Commit(r) \/ Lose(r) \/ Reply(r) \/ Unheard(r)

Spec == Init /\ [][Next]_vars

-----------------------------------------------------------------------------
\* Properties

\* What is chosen fits together, in the form, in every draft and in every
\* request: the sport has its event and organisation, the category its sport.
\* Steps back, restored drafts and a new participant all have to keep it.
Fits(f) ==
  /\ f.event # Nothing => EventType[f.event] = f.type
  /\ f.sport # Nothing => f.event # Nothing /\ f.org # Nothing
  /\ f.category # Nothing => SportOf[f.category] = f.sport
SelectionsFit ==
  /\ Fits(form)
  /\ \A k \in DOMAIN draft : draft[k] # Nothing => Fits(draft[k])
  /\ \A r \in reqs : Fits(r.f)

\* Nobody is shown what another account has typed in the same browser.
OwnInput == view # Nothing /\ form.person # Nothing => TypedBy[form.person] = view.user

\* A wizard has at most one registration under way, unless Submit was clicked
\* a second time before the page showed that it waits: steps back, the dialog,
\* lost answers and further participants do not start another.
OneRegistration == view # Nothing /\ ~view.twice => Cardinality(Mine) <= 1

\* A registration is on a team of its own organisation, sport and category,
\* although the wizard keeps the team when the user goes back and changes them.
TeamFits ==
  \A i \in DOMAIN db.rows :
    LET e == db.rows[i]
    IN e.team # Nothing =>
         db.teams[e.team] = [org |-> e.org, sport |-> e.sport, category |-> e.category]

\* The wizard sends no idempotency key.  A person is registered twice for an
\* event only when a duplicate was forced, when a request went on after the
\* wizard had given it up (lost connection, reload), or when Submit was clicked
\* twice before the page showed that it waits.
DoublesAreForced ==
  \A i, j \in DOMAIN db.rows :
    LET a == db.rows[i]
        b == db.rows[j]
    IN i < j /\ a.person = b.person /\ a.event = b.event => a.excused \/ b.excused
=============================================================================
