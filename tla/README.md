# Formal models of the registration platform

TLA+ models of the games registration platform, its API (`src/backend`, FastAPI on
PostgreSQL and Redis) and its web client (`src/frontend`, Next.js with TanStack
Query), the TLC runs that check them on small instances, and the proofs, checked by
TLAPS, that some of the properties hold for every instance. In the text, paths of
Python files are relative to `src/backend/src` or `src/backend` and those of
TypeScript files to `src/frontend/src`, unless they start with `src/`.

## 1. The system

Administrators set up an event, its sports and its phases, and ask open questions
(survey 1). Organisations select sports (survey 2) and announce numbers (survey 3),
federations declare the categories of their sport (survey 4), administrators review
the three, and while the registration phase is open organisations register athletes
and leaders and put athletes on teams. Requests run concurrently in several API
processes, each in a database session of its own at READ COMMITTED; the services
take no row locks. Background workers purge and erase data, render reports and send
e-mail. The web client holds what it shows in caches of its own (TanStack Query,
five-minute caches of the survey modules, drafts in local storage) and keeps its
session in cookies that all tabs of a browser share.

| Component | State | Operations | What is hard | What makes it correct |
|---|---|---|---|---|
| Audit chain (`app/application/audit`) | `audit_log`, advisory lock, SIEM copies | append, verify | concurrent appends, rollback after shipping, crash while holding the lock | no fork, tampering shows, SIEM never contradicts, waiting appenders are served |
| Participants (`app/application/participants`) | `enrollments`, `*_participation` | register, update, delete | a dozen checks before the insert, none locked | cap, quota, phase, duplicates, eligibility |
| Teams (`services/team_service.py`) | `teams`, `team_id` of athletes | create, add, remove, delete, update | check-then-write by primary key, two seat limits | rosters within their size, no dangling member |
| Event phases (`models/events.py`, `events_service.py`) | status and dates per phase | open, close, AUTO | a phase closes under a request | nothing is accepted long after closing |
| Sport selection (`routes/events.py`) | `sports_event_org` | add, review, remove | links made by two services | an organisation registers only for sports it selected |
| Survey by number | `participation_per_sport` | submit, patch, review, bulk review | read-then-write review, duplicate rows, two commits | a final decision stands, rows per link are few |
| Survey by category | `categories`, `category_survey_review` | submit, review, bulk review | delete-and-insert by a stale list | the list is the one submitted |
| Open survey (`open_survey_service.py`) | fields, answers | define, edit, move, upsert | no unique constraint, fields change under answers | the overview counts exactly, moves give the order shown |
| Sessions and second factors (`auth_service.py`) | `refresh_tokens`, users, MFA | login, verify, refresh, logout | two commits per refresh, reuse detection | a session ends when it is ended, and not otherwise |
| Idempotency, import (`core/idempotency.py`, `import_service.py`) | Redis keys | check, store | crash and retry between commit and store | a request is executed once |
| Dashboard cache (`core/cache.py`) | Redis keys | compute, invalidate | stale set after delete | stale for at most the time to live |
| Rate limiter (`core/ratelimit.py`) | sorted set per key | check | equal time stamps, refused requests count | at most so many per window |
| Jobs (`app/workers`) | arq queue, artefacts | enqueue, run, poll | at-least-once execution | a job ends, its result is found |
| Retention and erasure | all tables with personal data | purge, erase | one transaction over many policies | all or nothing, always audited |
| Policies (`app/domain/policies`) | none | authorize | rule order | deny overrides |
| Client: session (`core/auth`, `core/api`, `proxy.ts`) | cookies, expiry hint, context, query cache | restore, sign in, second factor, refresh, sign out | a refresh shared by requests, requests that outlive a session, tabs | signing out lasts and leaves no data, loading ends |
| Client: wizard (`modules/registration`) | form, draft, open request | steps, teams, uploads, submit, override | stale choices, drafts of others, answers that are lost | choices fit, no unforced doubles |
| Client: survey forms (`modules/survey`, `bynumber`, `bycategory`) | form, adapters' caches | choose, load, submit | parallel requests refused one by one, loads that overtake, caches of two modules | a success screen is true, the table is the organisation's |
| Client: review desks (`modules/sportreview`, `participation`, `categoryreview`) | lists, details, mutations | decide one, decide a group | lists read again behind a decision, a lagging replica | what is offered is accepted, decisions do not come back |
| Client: open survey (`modules/opensurvey`) | form, field list, patches | fill, submit, edit fields, move | form and list refilled by late answers | a saved answer is shown, a move gives its order |
| Client: participants (`modules/registration/components/Participant*`) | lists, details, mutations | search, page, edit, delete | optimistic deletion and its rollback | deleted stays away, saved is shown |
| Notifications, organizers, reports, cards, search, files, the rest of the client | - | - | little shared state | - |

The components meet in the database: the deletion of a category (survey 4)
changes registrations and teams, a registration names a team, deleting an account
touches the audit log, and the purge and the erasure append to it. In the client they
meet in the caches: surveys 2 and 3 empty each other's, a sign-out empties all, and
the deletion of a participant rewrites lists that other pages read. `PROJECT.json`
lists every component with what is left out of it, and every hazard with the line
where it bites.

## 2. The modules

    AuditLog            abstract: an append-only history of whole transactions
    AuditChain          the hash chain in the database          (implements AuditLog)
    AuditChainProof     its theorems
    EnrolmentDb         tables, constants, requests
      Registration      app/application/participants            (extends EnrolmentDb)
      TeamRoster        services/team_service.py                (extends EnrolmentDb)
        Enrolment       both at work on the same tables, and the properties
    EnrolmentProof      its theorems
    ReviewFsm             REVIEW_TRANSITIONS, common to surveys 3 and 4
      NumberSurvey        participation_per_sport_service.py     (extends ReviewFsm)

    WebSession            tabs of a browser, cookies, auth_service.py
    WebSessionProof       its theorems
    RegistrationWizard    the wizard, its drafts, the registration endpoint
    RegistrationWizardProof its theorems
    SurveyPage            the page, the caches and the endpoints of surveys 2, 3, 4
      SurveyBySport, SurveyByNumber, SurveyByCategory
        SurveyForms       the three forms in one browser, and the properties
        SurveyFormsProof  its theorems
    QueryCache            one query of TanStack Query
      ReviewDesk          queue, group, detail, mutations        (extends ReviewFsm too)
        SportReviewDesk, NumberReviewDesk, CategoryReviewDesk
          ReviewDesks     the three desks, and the properties
      ParticipantDesk     list, pages, detail, edit, deletion of participants
      ParticipantDeskProof  its theorems
    ReviewProof           the theorems of NumberSurvey and ReviewDesks, the two on ReviewFsm
    OpenSurveyDb          fields and answers
      OpenSurveyFill, OpenSurveyBuilder
        OpenSurvey        members who answer, an administrator who edits
        OpenSurveyProof   its theorems

Every composed specification has an `MC` module with its instance for TLC.

### The API

**One step, one statement.** A worker serves one request at a time. A `SELECT`
on rows that others change is a step: it sees what is committed then. A
request's writes become visible at its commit, and they are one step with it. A
request that reads several things no action tells apart in between (the
eligibility, category and quota of a registration) reads them in one step.
`Abandon` and `Rollback` are what an exception, a statement timeout, a lost
connection or a killed process leaves behind: nothing but spent ids.

**AuditChain.** `tx[w]` is the open transaction of worker `w` and the statement of
`AuditLogWriter.append` it executes next: `AskLock` and `TakeLock` are
`pg_advisory_xact_lock`, granted first come first served, `ReadLastHash` the
`ORDER BY id DESC LIMIT 1`, `InsertRow` the flush (the id is drawn from the
sequence), `ShipEvent` the post to the SIEM, which may fail, `AppendAgain` the next
policy of the purge, `Commit` and `Rollback` what the job does at its end.
`DeleteUser` is `DELETE FROM users`: the foreign key's SET NULL is an UPDATE of
`audit_log` that the append-only trigger refuses. A hash stands for the sequence of
contents it commits to, so that two hashes are equal only when their inputs are:
SHA-256 is assumed free of collisions.

**Registration.** `Register` reads the event and its phase; `CheckCap`,
`CheckSport`, `CheckTeam`, `CheckSeats`, `CheckDuplicate` are the rules of
`validate_registration` that depend on what others change, in the order of the
code; `InsertEntrant` is the insert and the commit, which fails when the team or
the category is gone. The rules that look only at the form (age, documents,
consent, file references) are passed by every form in `Forms`. An update is
`LoadEntrant` and `UpdateEntrant`: the ORM writes, by primary key, the columns
whose value differs from the one it read. The importer sends each row through the
same use case, so an import is a sequence of registrations.

**TeamRoster.** `create_team` is `CreateTeam`, `CountTeams`, `CheckTeamName`,
`InsertTeam`; `add_member` is `AddMember`, `CountMembers`, `MatchMember`,
`JoinTeam`; `remove_member` is `RemoveMember`, `LeaveTeam`. `finalize_team` reads
and answers. `DeleteCategory` is the deletion of a category by an administrator or
by a new answer to survey 4, with the SET NULL of its foreign keys.

**NumberSurvey.** Survey 3 of one event. `create` is `Submit` (the event and its
phase), `FindLink` and `InsertLink` (find-or-create of the `sports_event_org` row,
with a commit of its own), `FindRow` and `InsertRow` (the upsert). `Review` and
`ReviewBulk` read rows and check their status, `Decide` writes them by primary key;
`LoadForPatch`/`Patch` and `LoadForDelete`/`Delete` are the two by-id routes, which ask
for no phase. `AddLink` and `RemoveLinks` are survey 2 and the withdrawal of an
organisation: the submissions on a removed link stay, with a NULL reference. The
announced numbers and the text of notes are left out, because no decision depends on
them; so the update branch of the upsert only answers. `moved` is a history variable: a
PATCH may give a row another `org_id`, and rows that come to an organisation that way
were not made by its submissions. Whether the driver counts the rows of a batch
UPDATE is not fixed: `Decide` allows both.

**Held constant.** The cap, the configuration of the sports, the size of a
category's teams and the selection of sports are constants: an administrator can
edit them, and a limit lowered below what is already registered is not an error
of the code. New categories are not added during a behaviour.

### The web client

**What a step is.** JavaScript runs to completion: what a handler does between two
`await`s is a step, and so is the continuation that an answer, a timer or a render
starts. A request is a record that travels: sent, served (a step of the server, which
reads and writes what is committed then), arrived. It may fail before the server has
seen it or after, and it outlives the component that sent it. A render that sets
state (an effect) belongs to the step that caused it. `cap`, chosen by `Init` from
`Bounds`, limits a behaviour: who takes part, what they do, how many requests are
sent. A run covers several bounds at once, each large where the others are small.

**WebSession.** Session `n` is the pair of an access and a refresh token minted
together. `jar` are the cookies of the browser, `hint` the expiry in local storage,
`tab[t]` what the contexts and the query cache of a tab hold, `task[t][k]` the request
that `restore`, the login form or a page waits for, `req[t]` the refreshes: the promise
that all requests of a tab share (`performRefresh`) and the one `restore` makes on its
own. `RefreshCheck`, `RefreshRotate`, `RefreshIssue` are the statements of
`refresh_tokens` in `auth_service.py` with its two commits; a revoked token used again
revokes all of the user's. `Retry` is the response interceptor, `Call` and `Interceptor`
the request interceptor, `Load` a page load behind `proxy.ts`, `PushLogin` the effect of
`useRequireAuth`. An answer with cookies takes effect twice: `StoreRefresh` and
`StoreAnswer` are the browser, which stores the cookies when the headers arrive,
`RefreshGranted`, `RestoreRefreshed`, `SignInReply` and `LogoutReply` the continuations
that write the hint (`recordAccessTokenExpiry`); in between other tabs act and the page may
be loaded anew, and then its hint is never written. `Age` and `Expire` let tokens come into
the 60-second buffer (`EXPIRY_BUFFER_SECONDS`) and expire, in the order they were minted.
Two variables are history: `closed`, signed out with nothing under way that signs in again,
and `torn`, the last answer with cookies crossed another one whose hint was due, or a page
was left with a hint due.

**RegistrationWizard.** `view` is the state of `RegisterForm` and its steps, `form` the
values of the form, `draft` the saved forms, by user and mode, `reqs` the registrations
under way, `db` teams and registrations. `Ready` restores the draft and then sets the
account's own organisation; `Choose...`, `TypePerson`, `PickFile`, `PickTeam` are the
fields, `GoNext`, `GoBack`, `ClickStep` the navigation with what each step validates;
`Submit`, `Override` (the duplicate dialog) and `RegisterAnother` send or start anew.
The button is disabled by what is rendered of the mutation: `pending` follows the last
request sent (`latest`) with a step of its own, `RenderPending`, and a click before it sends
a second request. `twice` says that this has happened and that its requests are not all
answered. `Judge` and `Commit` are the server, as two steps; it looks for a duplicate within
the event. A person is one value, photo and documents are one flag; capacity, quota, age and
phase are any refusal. An `excused` registration is one that was forced, was clicked twice,
or whose request the wizard had given up.

**SurveyForms.** `page` is the form that is open, `loads` the reads and `subs` the
submissions under way, `cache` the adapters' caches, `db` the server's links, numbers,
categories and phases. A submission is a set of requests, one per sport (`todo`), that
are served in any order; `Answered` lets each be refused, lost on the way, or lost on
the way back. In survey 3 a load asks for the sports of the organisation, then looks
each up (`LookUp`); it goes on when the page is left, for the cache.

**ReviewDesks.** A desk is a browser with a queue of groups, the submissions of one
group and one submission. `list` and `detail` are queries of `QueryCache`; `muts` the
mutations, whose hook's `onSuccess` runs always and whose caller's only while the
component is there (`home`). `replica` is what the read replica of survey 2's queue has
of `db`, and `Replicate` lets it catch up. `NewSubmission`, `Withdrawn`, `SentBack` and
`Resubmitted` are what others do meanwhile; the last two are the `request_revision` and the
`submit` of the review routes of surveys 3 and 4, which no screen offers. `ListFails` and
`DetailFails` end a read whose retries are used up: the lists show an error in place of
their rows (`RowsShown`), the group and the submission on screen stay as they were. A
submission that is submitted again is no longer one the desks were told is decided
(`decided`), nor one an answer on its way tells of (`told`).

**QueryCache.** The rules of TanStack Query with `staleTime` and `gcTime` 0 that the
hooks rely on: what an invalidation, a cancellation, a mount and an unmount do to the
data and to the fetch under way. A fetch that fails is retried three times, the default
that the configuration leaves (`core/api/queryClient.ts:30`), and is still under way until
then; when the last retry fails (`Failed`) the query rests with the data it had and an error
(`failed`). `old` marks an answer that the server gave before a
change the client was told of. The library is not part of the repository; the
configuration is (`core/api/queryClient.ts`, the options, keys and callbacks of the hooks).

**OpenSurvey.** `OpenSurveyDb` has the fields of an event and the rows of one
organisation; a submission reads the fields and the rows, then writes (`UpsertReads`,
`UpsertWrites`), and nothing makes a row unique. `OpenSurveyFill` is the form of a
member, refilled whenever its view is answered (`Rendered`); `OpenSurveyBuilder` the
administrator's list, whose move is a set of parallel patches (`HandleMove`, `Loads`,
`Commits`, `Reordered`). Select is as radio and number as text; labels are left out.

**ParticipantDesk.** `lists` by search and page, `people` by id, `kept` and `keptPeople` the
queries that a rollback has made anew (they get the default time to live), `form` the edit
dialog's values, `gone` and `saved` what the desk was told. `Delete` is `onMutate` (cancel,
remember, remove the row), `DeleteFails` is `onError` and `onSettled`; the key they work on,
`registrations.all`, is the prefix of the lists and of the participants, so that both are
remembered (`previous`, `persons`), put back (`RolledBack`) and read again. `ListFails` and
`DetailFails` are reads that have failed: the list shows an error, the page of a participant
does not look for one. The editable fields are one value; a search is the set of values it
matches.

## 3. The runs

| Run | Bounds | Result |
|---|---|---|
| `audit_chain` | 2 workers, 3 transactions of at most 2 appends, 1 account and the system actor | holds: `TypeOK`, `ChainVerifies`, `TamperEvident`, `SiemAgrees`, `RefinesAuditLog`, `AppendersServed` |
| `enrolment_entry` | 2 workers, cap 1, at most 4 registrations and 1 team, 2 sports | holds: at most `cap + 1` participants, at most one late entry per worker |
| `enrolment_rosters` | 2 workers, 2 seats, at most 4 registrations and 1 team | holds: at most `seats + 1` members, nobody on a team that is gone |
| `enrolment_teams` | 2 workers, quota 1, at most 3 teams | holds: at most `quota + 1` teams |
| `number_survey` | 2 workers, 1 organisation, 2 links and 3 rows ever, reviews that lead back to SUBMITTED and both bulk reviews | holds: at most one row per worker and link, a final decision stands |
| `session` | 1 tab, 2 accounts, one with a second factor, 2 sessions | holds: no refresh is forced on a valid session, signing out lasts and leaves no data, loading ends |
| `wizard` | 6 bounds: drafts of two accounts; drafts and a registration; a team with two members; two requests at a time; two events; a leader | holds: choices fit, no input of another account, one registration under way unless Submit is clicked twice, teams fit, doubles are forced |
| `forms` | 9 bounds: the forms alone and in pairs, for an organisation, a federation and an administrator, with phases that close and loads and submissions that overtake | holds: a success screen is true, the table lists selected sports, saved sports are not hidden by a cache |
| `desk` | 11 bounds: one or two desks, 3 submissions of 2 groups and 2 events, up to 2 mutations under way, reads that fail, one submission sent back and submitted again | holds: offers are accepted, decisions do not return to the queue unless they are submitted again, a bulk review stays in its event |
| `open_survey` | 8 bounds: one or two members, one or two events, up to 3 fields, up to 2 edits or moves | holds: the overview is exact, saved answers are shown, moves give the order shown |
| `participants` | 6 bounds: one or two desks, 3 participants, pages of one, 2 mutations under way, reads that fail | holds: deleted stays away, saved is shown unless reading it again has failed |
| `session_mfa` | the same as `session` | **violated**: a second factor is judged |

*Why the bounds are enough.* A race between a check and a write needs two
requests; a limit of one or two, and room for more rows than the limit and the
race together allow, lets the bound be reached and, were it wrong, passed: with
a cap of 1 and 4 registrations there are two to spare. Three transactions are
enough for one to commit, one to fail and one to find what both left. Three rows for
one link are one more than two workers can make, and two links let one be removed and
made again under a request that holds the first. `MaxTxns`, `MaxBatch`, `MaxEnrol`,
`MaxTeams`, `MaxLinks` and `MaxRows` are the only bounds of the API's models.

In the client, a stale answer needs a read that is under way while one write is made
and heard, and a second read after it: one or two requests of each kind at a time. Two
events let a choice change while the first is loading; two accounts let one find what
the other left; two sessions let one be rotated once, in one tab (the theorems of
`WebSession` are about any number of tabs and sessions, and two tabs with
`LoadingEnds` are beyond TLC). A comment at the bounds of each MC module says what its
members are for.

`CHECK_DEADLOCK FALSE` because a bounded behaviour stops when its transactions, ids or
requests are used up.

*Properties that hold "as far as they hold".* The limits of the API are checks
without locks, so the exact limit is not an invariant: two registrations that have both
counted exceed a cap by one. What is true, and what a test would hardly reach, is how far
they can be exceeded: by one entry for each other request that counted before the commit.
That bound is also what breaks first when a check is dropped, moved or off by one. In the
client the same holds of what is shown: `SuccessIsSaved`, `TableListsSelected`,
`NoForcedRefresh`, `QueueFollows`, `FillFollows`, `SavedShown` and `OverviewExact` each name the
situation in which the code does not keep the promise (an older submission still under
way, loads that raced, an answer that was already on its way, a read that failed, submissions
that overlapped), and say that there is no other.

*Fairness.* `AppendersServed` needs `WF_vars(Proceed(w))`, that a worker
inside `append` goes on. Its statements have time limits (`command_timeout` in
`core/database.py`, 5 seconds for the SIEM in `siem.py`) and the number of policies
is finite. That a transaction starts, succeeds or fails is left open. The lock is
granted in the order of its queue, as PostgreSQL's lock manager does. `LoadingEnds` needs
that every request is served or fails and that the event loop runs what has arrived; what
the user does and how time passes is not promised. The client sets no time-out of its own
(`core/api/client.ts`): that a request ends rests on the time limits of the API's
statements and on the browser, to which a connection that breaks is an error. The property
is stated for a user who does not reload the page for ever, because every load starts anew.

*Mutants.* For each property of a passing run `PROJECT.json` names a fault, defined
beside the definition it replaces, under which TLC finds the property violated.

## 4. What the runs found

**A second factor is turned away** (`session_mfa`). `core/csrf.py:40` exempts login,
refresh and logout from the CSRF check and not `/auth/mfa/verify`, which
`api/v1/routes/mfa.py:3` describes as the second leg of login, for a caller who has no
session yet. Such a caller has no `csrf_token` cookie, and is answered 403: a user with a
second factor gets in only from a browser that still holds the cookie of an earlier
session.

Seen while modelling, with no property of their own. In the API:

- *Accounts that have acted cannot be deleted.* `models/audit_log.py:42` wants the record
  kept when the actor is deleted; the trigger of
  `alembic/versions/d403a1b2c3d4_pii_encryption_audit_chain.py:168` raises on the UPDATE
  that ON DELETE SET NULL makes. Had it not, the deletion would change hashed content and
  break the chain: `RefinesAuditLog` fails with the fault `DeleteUserSetNull`.
- *Limits without locks.* Concurrent registrations exceed the cap, concurrent `add_member`s
  take an athlete from one team to another although the route promises that the athlete is
  on none, and two limits govern one roster: `add_member` asks the sport's `team_size_max`,
  a registration with a team the category's.
- *A bulk review flips a decision.* `participation_per_sport_service.py:202` selects pending
  rows, `:220` updates them by primary key. What does hold is `DecisionFinal`: once those
  who had read the row are done, nothing changes an APPROVED or REJECTED status any more.
- *Twins.* Two first submissions at once leave two rows for one link (`TwinsBounded` says
  how many at most), after which every submission for it fails with
  `MultipleResultsFound`; the same becomes of two teams of one name. In the open survey
  two overlapping submissions leave two rows per field, and `open_survey_service.py:212-236`
  counts rows: an organisation with a twin may be complete with a required field
  unanswered.
- *Surveys after the decision.* A submission or PATCH changes the numbers and not the
  status; PATCH and DELETE ask for no phase; survey 2's review (`routes/events.py:410-434`)
  accepts a decision from any status, while `SportSubmissionDetail.tsx:20` calls its table
  the mirror of the server's.
- *Moves without rules.* `update` moves an athlete to another sport or organisation without
  leaving the team and without a quota; `remove_member` clears a `team_id` that may name
  another team by then; nothing sets the status APPROVED that `get_my_eligible_sports`
  asks for.
- *Refresh in two commits.* The old token is revoked before the new one is stored: a
  failure in between, or a lost answer, ends the session, and the retry counts as theft
  of the token, as do two tabs that refresh at once.

In the client:

- *`proxy.ts:132-134`* leads from the login page to the dashboard whenever there is an access
  cookie. When the server has ended the session and the cookie has not expired, the
  "log in" button leads back to where it is until it does.
- *A hint that is behind its cookies.* `core/auth/tokenExpiry.ts:20` says of the hint that it
  must never be able to force a refresh on a session that is still valid. It can: the cookies
  of a sign-in or a refresh are stored with the headers of the answer, the hint is written by
  the code that goes on from it, and a page that is loaded in between, or another tab, reads
  the hint of the session before and refreshes the new one. When two answers cross, or the
  page is gone before it has written, the hint stays behind until the next refresh. That
  there is no other way is `NoForcedRefresh`.
- *A restore that is overtaken.* `restore` may end after a sign-in and sign the user out
  again in the context; the data of the new session then stay in the query cache (`late`
  in `SignedOutHoldsNoData`).
- *The force flag stays.* `Override` sets `force` in the form and nothing resets it
  (`registration.schema.ts:190`): after a step back a different person is registered
  without the check for duplicates. The team, too, stays selected when the sport changes;
  the server refuses it (`TeamFits`).
- *A second click.* Nothing but the rendered `isPending` keeps Submit from being clicked
  again: a click that is handled before it is rendered sends a second request, and
  `check_duplicate` and the insert are two statements without a lock, so that both may be
  registered. The two properties of the wizard except these clicks (`twice`) and no others.
- *The leader's wizard* validates `leaderRole`, for which no step has a field: it cannot pass
  the step of personal data.
- *Survey 3's table* may show the sports of the event or organisation chosen before, when
  their load ends last (`past.raced`), and a second submission of the form can be overtaken
  by the first (`past.crossed`). When one of several requests fails the caches are not
  emptied, although the others have been saved.
- *An empty page of participants.* After the last row of the last page is deleted the list
  stays on a page that no longer exists, and the pagination is hidden when what is left
  fits on one page.
- *A participant that could not be read again.* `ParticipantDetail.tsx:31` takes the data of
  its query and not the error: when the reads after a save fail to the last retry, the page
  rests on what it showed before the save, and says nothing of it. The list shows an error
  instead (`ListPage.tsx:65`). `SavedShown` excepts the page with a failed read and no other.
- *Decisions by group, after a failed read.* The group and the submission on a review screen
  stay as they were when reading the list again has failed; only the list itself shows the
  error. `QueueFollows` excepts it.
- *Lost updates.* The edit dialog sends all fields with the values it was mounted with:
  what another desk saved in between is written over.

## 5. What is proved

For every number of workers, tabs, sessions and accounts, every cap, limit, form and bound
that satisfies `ChainAssumption`, `DbAssumption`, `SurveyAssumption`, `SessionAssumption`,
`WizardAssumption`, `DeskAssumption`, `PageAssumption` and `ParticipantDeskAssumption`,
and, in the open survey, its own `DbAssumption`, `FillAssumption`, `BuilderAssumption` and
`BoundAssumption`:

| Theorem | States |
|---|---|
| `AuditChainProof!TypeCorrect` | `Spec => []TypeOK` |
| `AuditChainProof!ChainNeverForks` | `Spec => []ChainVerifies` |
| `AuditChainProof!SiemNeverContradicts` | `Spec => []SiemAgrees` |
| `AuditChainProof!TamperingShows` | `Spec => []TamperEvident` |
| `AuditChainProof!ImplementsAuditLog` | `Spec => RefinesAuditLog` |
| `EnrolmentProof!EnrolmentTypeCorrect` | `Spec => []TypeOK` |
| `EnrolmentProof!CapHolds` | `Spec => []CapOvershootBounded` |
| `EnrolmentProof!ClosedMeansClosed` | `Spec => []LateEntriesBounded` |
| `EnrolmentProof!NoTeamDangles` | `Spec => []NoDanglingTeam` |
| `EnrolmentProof!TeamQuotaHolds` | `Spec => []TeamQuotaOvershootBounded` |
| `EnrolmentProof!RosterHolds` | `Spec => []RosterOvershootBounded` |
| `ReviewProof!NumberSurveyTypeCorrect` | `NumberSpec => []NumberTypeOK` |
| `ReviewProof!TwinsHold` | `NumberSpec => []TwinsBounded` |
| `ReviewProof!DecisionsStand` | `NumberSpec => DecisionFinal` |
| `WebSessionProof!SessionTypeCorrect` | `Spec => []TypeOK` |
| `WebSessionProof!SignedOutForGood` | `Spec => LogoutSticks` |
| `WebSessionProof!NothingLeftBehind` | `Spec => []SignedOutHoldsNoData` |
| `WebSessionProof!NoRefreshForced` | `Spec => NoForcedRefresh` |
| `RegistrationWizardProof!WizardTypeCorrect` | `Spec => []TypeOK` |
| `RegistrationWizardProof!SelectionsHold` | `Spec => []SelectionsFit` |
| `RegistrationWizardProof!OwnInputHolds` | `Spec => []OwnInput` |
| `RegistrationWizardProof!OneRegistrationHolds` | `Spec => []OneRegistration` |
| `RegistrationWizardProof!TeamFitsHolds` | `Spec => []TeamFits` |
| `RegistrationWizardProof!DoublesAreForcedHolds` | `Spec => []DoublesAreForced` |
| `ReviewProof!DesksTypeCorrect` | `Spec => []TypeOK` |
| `ReviewProof!OffersHold` | `Spec => []OffersAccepted` |
| `ReviewProof!QueueHolds` | `Spec => []QueueFollows` |
| `ReviewProof!BulkHolds` | `Spec => []BulkStaysInEvent` |
| `SurveyFormsProof!FormsTypeCorrect` | `Spec => []TypeOK` |
| `SurveyFormsProof!SuccessHolds` | `Spec => []SuccessIsSaved` |
| `SurveyFormsProof!TableHolds` | `Spec => []TableListsSelected` |
| `SurveyFormsProof!FreshHolds` | `Spec => []FreshAfterSubmit` |
| `OpenSurveyProof!OpenSurveyTypeCorrect` | `Spec => []TypeOK` |
| `OpenSurveyProof!OverviewHolds` | `Spec => []OverviewExact` |
| `OpenSurveyProof!FillFollowsHolds` | `Spec => []FillFollows` |
| `OpenSurveyProof!MovesHold` | `Spec => []OrderAsMoved` |
| `ParticipantDeskProof!ParticipantDeskTypeCorrect` | `Spec => []TypeOK` |
| `ParticipantDeskProof!DeletedStayGone` | `Spec => []DeletedGone` |
| `ParticipantDeskProof!SavesAreShown` | `Spec => []SavedShown` |

*Audit chain.* The inductive invariant says that only the holder of the lock is between the
read of the last hash and the end of its transaction, that the committed rows and the
holder's own are in the order of their ids and below `nextId`, that each points at its
predecessor, and that the hash the holder has read is still the last one. `ChainVerifies`
alone is not inductive: it says nothing of the rows not yet committed. The invariant also
counts: the hash of the k-th row stands for k contents, so that after a row is taken out or
moved the one behind it points at a hash of another length than verify_chain computes,
which is `TamperEvident`. The refinement follows because a commit appends a batch of at
most `MaxBatch` rows that are newer than all others, so that the order by id is the order
of commits.

*Enrolment.* `CapOvershootBounded` is not inductive either: it does not count the
requests that have passed the check. `CapInv` does: the participants and the requests
past `CheckCap` are at most the cap and the workers but one. A request passes the
check only while the participants are below the cap, so that at that moment all
workers together cannot reach beyond it; later it can only add the place it already
counts for. `LateInv` is the same for requests past the phase check, `FreshInv` that
ids not yet drawn are free, `JoinInv` that a request to join is about an athlete.

*Teams and rosters.* `QuotaInv` and `RosterInv` repeat the argument with one count per
organisation and sport, and one per team. A roster is harder: there are two ways into a
team, which ask different limits, and a request holds what it has read of the team while
others rename it, delete it or take away its category. `HeldInv` says what stays true of
that: ids of teams are taken in order and never again, so that the team a request holds
is the one it has read or none at all, and of the sport whose limit it was counted
against. `RosterInv` then bounds members and counted requests by every number that no
limit of the team exceeds; a team that is new has neither, which needs `NoDanglingTeam`.

*Survey by number.* `TwinsInv` adds to the rows of a key the requests that saw none and
are about to insert one: a request joins them only when the key has no row, and then
all workers together are within the bound. `DecisionFinal` needs that ids are not used
again (`FreshInv`) and that no transition, single or bulk, starts from APPROVED or
REJECTED (`AcceptedNotFinal`).

*Session.* The invariant `IInv` is `TypeOK` with three parts: the tokens of an answer in
flight were minted for an account (`OwnedInv`); after a sign-out no refresh
under way can still be answered with a session (`ClosedInv`); a tab that is signed out
holds no data unless a restore was overtaken (`DataInv`). `LogoutSticks` and
`SignedOutHoldsNoData` do not survive a step on their own: what a tab sets is decided by
the refresh it waits for, and what it stores by the context it will find.
`NoForcedRefresh` rests on a second invariant above the first, `HintInv`: unless the history
is `torn`, every hint that is still to be written is of the session in the cookies, in
whichever tab it is due, and so is the hint itself once none is due. It is carried by the
store steps, which may only find no other hint due, and by the steps that write.

*Wizard.* `FormOk` says of a form that its choices fit, that its team exists and that its
account typed the person in it. It holds of the form while a wizard is open (`FormInv`) and
of the draft of every account and page (`DraftInv`), which is what `Ready` restores.
`MineInv` strengthens `OneRegistration`: unless Submit was clicked twice, no request is
under way while the duplicate dialog is open, so that an override may send one. `ReqInv`
remembers what the server has judged, that the team of a judged request is of its sport and
category, and `SingleInv` that a request judged to be no duplicate in its event still is
none when it is committed, except for rows whose requests were forced, given up or clicked
twice: with one request at a time, no other registration of this wizard can come between
the two. That is the part of `DoublesAreForced` that is not inductive.

*Review desks.* `QueueFollows` speaks of what a list has, and is not inductive: the answer
on its way becomes what the list has. `ListOk` says the same of that answer, unless the
desk was told of a decision after the list was answered (`old`), and that a list nobody
observes and nobody fetches has no data: an invalidation leaves such a list alone, and it is
read anew when it is opened. A list whose reading failed may have what it had before, and is
excepted in both. What a desk decided stays decided (`Settled`) until it is submitted again,
and from then on no desk counts it as decided (`Resubmitted`). `SendingOk` says which
decisions the screens send and what a served one has done, `ScopeOk` that the event of a
bulk review is the one that was on screen; `PageOk` that a screen has a status to show, in
which the tables of the client and `REVIEW_TRANSITIONS` agree.

*Survey forms.* The three properties speak of what is shown or cached in the end, and the
invariant of what is still on its way to it. `RowsOk` says of a table that is being read
sport by sport that it lists only what is linked, that what was confirmed before it began
is listed or still to be looked up, as long as no look-up has failed and nothing was saved
meanwhile (`known`), and that it is of the form's event and organisation unless reads have
raced; when it ends, it becomes `TableInv` of the form and `CacheInv` of the cache.
`SubOk` says that a submission that has heard no refusal has a link for every request that
is done, which makes what it confirms part of what is linked; `AloneOk` that a submission
that crossed no other one is the only one there is, and still finds in the tables exactly
what each of its done requests wrote, because the requests of one submission write
different rows. `StepInv`, that a page is on a step of its own form, is needed for the
types alone. No action of this model removes a link (`Grows`): a
rejected one is there still. An administrator's removal of a link, which is
`NumberSurvey`'s subject, is left out here: it takes back what a success screen or a table
has said before, and the three properties are about what the forms do themselves.

*Open survey.* `Completed` counts rows and `Answered` asks for fields, so that the two
agree only while a field has one row (`OneRow`): `CountExact` derives the property from
that, by the bijection of the rows counted and their fields. No constraint of the table
keeps `OneRow`; what does, unless submissions have overlapped, is that at most one
submission is between its read and its write and that it still finds all the rows there
are of its fields (`Exact`, both in `AloneInv`). `FillFollows` speaks of the view on
screen. `ViewInv` says the same of the view on its way, unless it was read before the
answer that told of the save (`old`), and `SavedInv` that what a browser has heard is what
the rows hold until another submission is written. That one writes every row it has found
is why the last that was written is the one that counts (`RowsAfter`); that fields are only
added, and stay of their event (`Grown`), is why no edit, move or deactivation disturbs
any of it. The lists are in the order of `Sorted`, whose ranks are those of a total order
of a finite set (`Ranks`).

`OrderAsMoved` compares two lists before and after any number of steps. `MoveInv` says what
holds at each of them: every field of the move has its number or a patch that will write
it, a patch that has seen nothing to write is right about that as long as the move lasts
(`Patch`), and nothing else that is under way writes an order. A deactivation that was
loaded before is, because only what differs is written (`ActiveOnly`); an edit is not,
which is why an edit ends what the property says of a move. Once the patches are served
the numbers increase along the list, and `Sorted` follows them.

*Participants.* `DeletedGone` and `SavedShown` speak of what is on screen at rest, and what
comes to rest was on its way before. `ListOk` and `PersonOk` say of an answer on its way
that it is good, with no row of a participant the desk was told is gone and none older than
what it was told is saved, unless it is marked as read before (`old`); `ListCalm` and
`PersonCalm` say the same of what is on screen and at rest, unless its last read has
failed. A list is excepted while a deletion of its desk is under way, because the rollback
of a deletion puts back what it remembered, rows of another deletion among them; a
participant that it puts back is read again in the same step. That this cannot last is the
step of the proof that is about `AllInvalidated`: whoever ends a mutation, with success or
not, leaves nothing on screen at rest, and marks every answer that is still to come. The
answer read after that is good because what a desk was told is true of the server
(`TellsTrue`, and `DoneOk` for what it is about to be told): ids are not used again, and
revisions of a participant only grow.

*Only model-checked.* `AppendersServed` and `LoadingEnds`, which are liveness.

## 6. What is not modelled

*Left out of the models.* The open survey has one organisation and is edited at one event;
labels, and the failure of the builder's reads, are left out, as is the endpoint that
creates fields in bulk, which no client calls. The forms' reads are answered from the
primary database; only survey 2's queue lags. The wizard's photo and documents are one
flag and the administrator's quick edit is left out. The editable fields of a participant
are one value. Upserting categories is one step (`category_survey_service.py:60`): two
uploads that interleave within it are not modelled. Edits of events, phases by the
calendar, quotas and settings of a sport are constants or a switch.

*Hazards without a property.* Idempotency keys and the crash between commit and store
(`core/idempotency.py:52`, `routes/participant.py:162`) are not reached: the web client
sends no key, and what it does instead, to send again, is in `DoublesAreForced`. The
importer (`import_service.py:212`) sends every row through the registration that is
modelled. The dashboard's cache (`core/cache.py:71`) and the rate limiter
(`core/ratelimit.py:126`) have properties of real time. Failed sign-ins
(`auth_service.py:133`) and recovery codes (`mfa/service.py:130`) are read and written
without a lock, jobs run at least once (`workers/report_worker.py:36`), team names are
looked up and not constrained (`team_service.py:84`). Of `quota_athletes_per_org`
(`validation.py:128`) no bound holds, because an update moves athletes into a sport
without asking for it. `PROJECT.json` has the note of each.

*Not planned.* Reports, cards, spreadsheets, search, encryption, file access, e-mail,
notifications, organizers, the dashboard and the layout: read-only queries, presentation,
cryptography or stateless filters.

*What could come next.* A refinement of the three review desks by one abstract desk; the
submission of a registration with idempotency keys over an abstract "at most once"; the
upsert of categories in its statements.
