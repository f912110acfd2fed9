----------------------------- MODULE SurveyPage -----------------------------
(***************************************************************************)
(* What the three survey forms of the web client have in common: the page  *)
(* that is open in one browser, the answers it waits for, the adapters'    *)
(* caches, which outlive the page, and the endpoints its requests reach.   *)
(*                                                                         *)
(* A handler of the server is one step here; what happens inside one is    *)
(* NumberSurvey's subject.  A request and its answer are one step too, so  *)
(* requests of one submission are served in any order, some of them long   *)
(* after the page has moved on.                                            *)
(***************************************************************************)
EXTENDS Naturals, Sequences, FiniteSets

CONSTANTS
  EventType,       \* the type of each event
  SportsOf,        \* the sports of each event
  Orgs,
  Names,           \* names of categories
  MaxCount,        \* bound: the largest number announced
  Bounds,          \* bounds to choose from
  Nothing

Maybe(S) == S \union {Nothing}

Events == DOMAIN EventType
Types  == {EventType[e] : e \in Events}
Sports == UNION {SportsOf[e] : e \in Events}
Counts == 0 .. MaxCount
Kinds  == {"sport", "number", "category"}

\* The account at the browser, the forms it opens, the events whose surveys run,
\* how many loads and submissions may be under way, how many are sent in all,
\* how often a form is opened or started again, whether phases and links change
\* meanwhile, and the links there are at first.
Bound == [admin: BOOLEAN, org: Maybe(Orgs), sport: Maybe(Sports),
          kinds: SUBSET Kinds, events: SUBSET Events, loads: Nat, subs: Nat, sends: Nat, visits: Nat,
          moves: BOOLEAN, links: SUBSET (Events \X Orgs \X Sports)]

Rows == UNION {[S -> Counts] : S \in SUBSET Sports}

Form == [event: Maybe(Events), org: Maybe(Orgs), sport: Maybe(Sports),
         picked: SUBSET Sports, rows: Rows, names: SUBSET Names]

Steps == {"event_type", "event", "organization", "sports", "sport", "categories", "review"}

Places == Events \X Orgs
Slots  == Events \X Orgs \X Sports

\* A form that is open.
Page == [kind: Kinds, screen: {"form", "success"}, step: Steps, type: Maybe(Types),
         ready: BOOLEAN, events: SUBSET Events, offered: SUBSET Sports,
         busy: BOOLEAN, previous: BOOLEAN, sent: Form]

\* A read under way: of one answer, or of the table of survey 3, sport by sport.
Load    == [ask: {"offer", "existing", "previous", "copy"}, event: Maybe(Events),
            org: Maybe(Orgs), sport: Maybe(Sports)]
RowLoad == [ask: {"rows"}, nr: Nat, event: Events, org: Orgs, home: BOOLEAN,
            todo: SUBSET Sports, got: SUBSET Sports, known: BOOLEAN]

\* A submission, the adapters' caches, the server, and what is remembered of the past.
Sub    == [kind: Kinds, f: Form, todo: SUBSET Sports, home: BOOLEAN, failed: BOOLEAN]
Cache  == [events: [Kinds -> Maybe(SUBSET Events)], existing: [Places -> Maybe(SUBSET Sports)],
           rows: [Places -> Maybe([got: SUBSET Sports, known: BOOLEAN])]]
Tables == [links: [Slots -> {Nothing, "SUBMITTED", "APPROVED", "REJECTED"}],
           numbers: [Slots -> Maybe(Counts)], cats: [Events \X Sports -> SUBSET Names],
           open: [Kinds -> SUBSET Events]]
Past   == [confirmed: [Places -> SUBSET Sports], raced: BOOLEAN, crossed: BOOLEAN,
           visits: Nat, sends: Nat]

ASSUME PageAssumption ==
  /\ SportsOf \in [Events -> SUBSET Sports]
  /\ MaxCount \in Nat
  /\ Bounds \subseteq Bound
  /\ Nothing \notin Types \union Events \union Sports \union Orgs \union Nat \union Page
  /\ Nothing \notin {"SUBMITTED", "APPROVED", "REJECTED"}

VARIABLES
  page,    \* the form that is open, or Nothing
  form,    \* its values
  loads,   \* reads of the server under way
  subs,    \* submissions under way
  cache,   \* the adapters' caches
  db,      \* the server
  past,    \* history
  cap      \* the bounds of this behaviour

vars == <<page, form, loads, subs, cache, db, past, cap>>

\* Fault: no event is 0, not undefined.
ZeroEvent == [event |-> 0, org |-> Nothing, sport |-> Nothing,
              picked |-> {}, rows |-> <<>>, names |-> {}]

\* defaultValues of the three forms
Blank == [event |-> Nothing, org |-> Nothing, sport |-> Nothing,
          picked |-> {}, rows |-> <<>>, names |-> {}]

TypeOK ==
  /\ page \in Maybe(Page) /\ form \in Form
  /\ loads \subseteq Load \union RowLoad /\ subs \subseteq Sub
  /\ cache \in Cache /\ db \in Tables /\ past \in Past /\ cap \in Bounds

-----------------------------------------------------------------------------
\* The server

\* get_org_event_sports: approved links only.
ApprovedLinks(e, o) == {s \in Sports : db.links[<<e, o, s>>] = "APPROVED"}

\* add_org_to_event_sport: 403 outside the phase, 400 when the link exists.
AddLink(e, o, s) ==
  IF e \notin db.open["sport"] THEN [code |-> 403, db |-> db]
  ELSE IF db.links[<<e, o, s>>] # Nothing THEN [code |-> 400, db |-> db]
  ELSE [code |-> 201, db |-> [db EXCEPT !.links[<<e, o, s>>] = "SUBMITTED"]]

\* create of survey 3: the link is found or made, the numbers are overwritten.
Announce(e, o, s, n) ==
  IF e \notin db.open["number"] THEN [code |-> 403, db |-> db]
  ELSE [code |-> 200,
        db |-> [db EXCEPT !.numbers[<<e, o, s>>] = n,
                          !.links[<<e, o, s>>] = IF @ = Nothing THEN "SUBMITTED" ELSE @]]

\* upsert_categories: names that are not in the payload are deleted.
Upsert(e, s, names) ==
  IF e \notin db.open["category"] THEN [code |-> 403, db |-> db]
  ELSE [code |-> 200, db |-> [db EXCEPT !.cats[<<e, s>>] = names]]

\* The events a form offers: the phase of its survey is open.
Eligible(kind) == db.open[kind]

-----------------------------------------------------------------------------
\* The page

On(kind) == page # Nothing /\ page.kind = kind /\ page.screen = "form" /\ page.ready
OnStep(kind, step) == On(kind) /\ page.step = step

\* isSubmitting of the form that is open
Pending == \E s \in subs : s.home /\ ~s.failed

IndexOf(steps, step) == CHOOSE i \in DOMAIN steps : steps[i] = step

\* goToStep
GoToStep(step) == /\ page' = [page EXCEPT !.step = step]
                  /\ UNCHANGED <<form, loads, subs, cache, db, past, cap>>

\* The next step, once this one is filled in; an earlier one at any time: the
\* step indicator disables the later ones.
Forward(steps, done) ==
  LET i == IndexOf(steps, page.step)
  IN i < Len(steps) /\ done /\ GoToStep(steps[i + 1])
Backward(steps) ==
  \E i \in DOMAIN steps : i < IndexOf(steps, page.step) /\ GoToStep(steps[i])

\* A form is opened, and asks for the events; loading hides it until they are there.
OpenPage(kind, first, f, asked) ==
  /\ page = Nothing /\ kind \in cap.kinds /\ past.visits < cap.visits
  /\ page' = [kind |-> kind, screen |-> "form", step |-> first, type |-> Nothing,
              ready |-> FALSE, events |-> {}, offered |-> {}, busy |-> FALSE,
              previous |-> FALSE, sent |-> Blank]
  /\ form' = f /\ loads' = loads \union asked
  /\ past' = [past EXCEPT !.visits = @ + 1]
  /\ UNCHANGED <<subs, cache, db, cap>>

\* fetchEvents: from the cache while it is fresh, or asked for again; no
\* events when the request fails, and that is not cached.
ShowEvents(kind) ==
  /\ page # Nothing /\ page.kind = kind /\ ~page.ready
  /\ \/ /\ cache.events[kind] # Nothing
        /\ page' = [page EXCEPT !.ready = TRUE, !.events = cache.events[kind]]
        /\ UNCHANGED cache
     \/ /\ page' = [page EXCEPT !.ready = TRUE, !.events = Eligible(kind)]
        /\ cache' = [cache EXCEPT !.events[kind] = Eligible(kind)]
     \/ /\ page' = [page EXCEPT !.ready = TRUE] /\ UNCHANGED cache
  /\ UNCHANGED <<form, loads, subs, db, past, cap>>

\* The user leaves.  Loads of survey 3 go on, for the cache; those of the other
\* forms have nothing left to do.
Leave ==
  /\ page # Nothing
  /\ page' = Nothing /\ form' = Blank
  /\ loads' = {[l EXCEPT !.home = FALSE] : l \in {m \in loads : m.ask = "rows"}}
  /\ subs' = {[s EXCEPT !.home = FALSE] : s \in subs}
  /\ UNCHANGED <<cache, db, past, cap>>

-----------------------------------------------------------------------------
\* Submissions

\* The form is valid and nothing of it is pending.
Send(kind, todo) ==
  /\ ~Pending /\ Cardinality(subs) < cap.subs /\ past.sends < cap.sends
  /\ subs' = subs \union {[kind |-> kind, f |-> form, todo |-> todo,
                           home |-> TRUE, failed |-> FALSE]}
  /\ page' = [page EXCEPT !.sent = form]
  /\ past' = [past EXCEPT !.crossed = subs # {}, !.sends = @ + 1]
  /\ UNCHANGED <<form, loads, cache, db, cap>>

\* One request of a submission: what the server answers, or an error on the
\* way, before it or after.  The first failure is shown at once; the other
\* requests go on.
Answered(sub, s, answer, done) ==
  \E arrives \in BOOLEAN, heard \in BOOLEAN :
    LET ok == arrives /\ heard /\ answer.code \in done
        rest == [sub EXCEPT !.todo = @ \ {s}, !.failed = @ \/ ~ok]
    IN /\ db' = IF arrives THEN answer.db ELSE db
       /\ subs' = (subs \ {sub}) \union
                  (IF rest.todo = {} /\ rest.failed THEN {} ELSE {rest})
       /\ UNCHANGED <<page, form, loads, cache, past, cap>>

\* All requests have succeeded: the success screen, and the caches.
Succeed(sub, cleared, confirmed) ==
  /\ sub \in subs /\ sub.todo = {}
  /\ subs' = subs \ {sub}
  /\ page' = IF sub.home THEN [page EXCEPT !.screen = "success"] ELSE page
  /\ cache' = cleared
  /\ past' = [past EXCEPT !.confirmed = confirmed]
  /\ loads' = {IF l.ask = "rows" /\ l.event = sub.f.event /\ l.org = sub.f.org
               THEN [l EXCEPT !.known = FALSE] ELSE l : l \in loads}
  /\ UNCHANGED <<form, db, cap>>

\* "Register another": the form's defaults, without the organisation or the
\* sport the effects had filled in.
Restart(kind, first) ==
  /\ page # Nothing /\ page.kind = kind /\ page.screen = "success"
  /\ page' = [page EXCEPT !.screen = "form", !.step = first, !.type = Nothing,
                          !.offered = {}, !.previous = FALSE, !.sent = Blank]
  /\ past.visits < cap.visits
  /\ past' = [past EXCEPT !.visits = @ + 1]
  /\ form' = Blank
  /\ loads' = {l \in loads : l.ask \notin {"offer", "existing"}}
  /\ UNCHANGED <<subs, cache, db, cap>>

-----------------------------------------------------------------------------
\* The administration

SwitchPhase(kind, e) ==
  /\ cap.moves /\ kind \in cap.kinds /\ e \in cap.events
  /\ db' = [db EXCEPT !.open[kind] = IF e \in @ THEN @ \ {e} ELSE @ \union {e}]
  /\ UNCHANGED <<page, form, loads, subs, cache, past, cap>>

ReviewLink(e, o, s, status) ==
  /\ cap.moves /\ db.links[<<e, o, s>>] # Nothing
  /\ db' = [db EXCEPT !.links[<<e, o, s>>] = status]
  /\ UNCHANGED <<page, form, loads, subs, cache, past, cap>>

Init ==
  /\ cap \in Bounds
  /\ page = Nothing /\ form = Blank /\ loads = {} /\ subs = {}
  /\ cache = [events |-> [k \in Kinds |-> Nothing],
              existing |-> [p \in Places |-> Nothing],
              rows |-> [p \in Places |-> Nothing]]
  /\ db = [links |-> [x \in Slots |-> IF x \in cap.links THEN "APPROVED" ELSE Nothing],
           numbers |-> [x \in Slots |-> Nothing],
           cats |-> [x \in Events \X Sports |-> {}], open |-> [k \in Kinds |-> cap.events]]
  /\ past = [confirmed |-> [p \in Places |-> {}], raced |-> FALSE, crossed |-> FALSE,
             visits |-> 0, sends |-> 0]
=============================================================================
