--------------------------- MODULE SurveyFormsProof ---------------------------
(***************************************************************************)
(* The survey forms: proofs for any events, sports, organisations and      *)
(* names, and any number of reads and submissions under way.               *)
(***************************************************************************)
EXTENDS SurveyForms, FiniteSetTheorems, TLAPS

\* The sports of which an organisation has a link at an event.
Linked(e, o) == {s \in Sports : db.links[<<e, o, s>>] # Nothing}

\* Event and organisation of the form are chosen.
Chosen == form.event # Nothing /\ form.org # Nothing

\* A table on its way: it lists what is linked, and what was confirmed before it
\* began; and it is of the form's event and organisation, if it is the last.
RowsOk(l) ==
  /\ l.got \subseteq Linked(l.event, l.org)
  /\ l.known => past.confirmed[<<l.event, l.org>>] \intersect SportsOf[l.event]
                  \subseteq l.got \union l.todo
  /\ l.home => page # Nothing /\ page.kind = "number"
  /\ l.home /\ Chosen /\ ~ past.raced => l.event = form.event /\ l.org = form.org

\* Another read, which ends with its page.
PlainOk(l) ==
  /\ page # Nothing
  /\ l.ask \in {"offer", "existing"} => l.event # Nothing
  /\ l.ask = "existing" => l.org # Nothing
  /\ l.ask \in {"previous", "copy"} => l.sport # Nothing

LoadsInv ==
  \A l \in loads : (l.ask = "rows" => RowsOk(l)) /\ (l.ask # "rows" => PlainOk(l))

HomeRows == {l \in loads : l.ask = "rows" /\ l.home}

\* The table of the form.
TableInv ==
  page # Nothing /\ page.kind = "number" /\ Chosen /\ ~ past.raced /\ HomeRows = {}
    => DOMAIN form.rows \subseteq Linked(form.event, form.org)

\* What a submission asks for, one request each, and what comes of one.
Goals(kind, f) == CASE kind = "sport"  -> f.picked
                    [] kind = "number" -> DOMAIN f.rows
                    [] OTHER           -> {f.sport}
Kept(kind, f, s) == CASE kind = "sport"  -> db.links[<<f.event, f.org, s>>] # Nothing
                      [] kind = "number" -> db.numbers[<<f.event, f.org, s>>] = f.rows[s]
                      [] OTHER           -> db.cats[<<f.event, s>>] = f.names

\* A form that is complete.
FormOk(kind, f) ==
  /\ f.event \in Events /\ (kind # "category" => f.org \in Orgs)
  /\ kind = "category" => f.sport \in Sports

\* A submission: what it has been told of is linked.
SubOk(b) ==
  /\ FormOk(b.kind, b.f) /\ b.todo \subseteq Goals(b.kind, b.f)
  /\ b.failed => b.todo # {}
  /\ b.home => page # Nothing
  /\ ~ b.failed /\ b.kind # "category" =>
       Goals(b.kind, b.f) \ b.todo \subseteq Linked(b.f.event, b.f.org)

\* The only one there is has what it has been told of, and is the page's.
AloneOk(b) ==
  /\ \A c \in subs : c = b
  /\ b.home => page.screen = "form" /\ page.sent = b.f /\ page.kind = b.kind
  /\ b.home /\ ~ b.failed => \A s \in Goals(b.kind, b.f) \ b.todo : Kept(b.kind, b.f, s)

SubsInv == \A b \in subs : SubOk(b) /\ (~ past.crossed => AloneOk(b))

SuccessInv ==
  page # Nothing /\ page.screen = "success" /\ ~ past.crossed =>
    /\ subs = {} /\ FormOk(page.kind, page.sent)
    /\ \A s \in Goals(page.kind, page.sent) : Kept(page.kind, page.sent, s)

\* What the caches have of tables, and what was confirmed.
CachedOk(e, o) ==
  LET c == cache.rows[<<e, o>>]
  IN c # Nothing =>
       /\ c.got \subseteq Linked(e, o)
       /\ c.known => past.confirmed[<<e, o>>] \intersect SportsOf[e] \subseteq c.got
CacheInv ==
  \A e \in Events, o \in Orgs :
    CachedOk(e, o) /\ past.confirmed[<<e, o>>] \subseteq Linked(e, o)

\* The steps of a form.
StepsOf(kind) == IF kind = "category" THEN CategorySteps ELSE SportSteps
OnPath(kind, step) == \E i \in DOMAIN StepsOf(kind) : StepsOf(kind)[i] = step
StepInv == page # Nothing => OnPath(page.kind, page.step)

TypeInv == TypeOK /\ IsFiniteSet(loads)

IInv == /\ TypeInv /\ LoadsInv /\ TableInv /\ SubsInv /\ SuccessInv /\ CacheInv /\ StepInv

-----------------------------------------------------------------------------
(* Types.                                                                  *)

LEMMA Apart ==
  /\ Nothing \notin Events /\ Nothing \notin Sports /\ Nothing \notin Orgs
  /\ Nothing \notin Page /\ Nothing \notin Types
  /\ SportsOf \in [Events -> SUBSET Sports] /\ Bounds \subseteq Bound /\ MaxCount \in Nat
  /\ "SUBMITTED" # Nothing /\ "APPROVED" # Nothing /\ "REJECTED" # Nothing
BY PageAssumption

LEMMA CapOk ==
  ASSUME TypeInv
  PROVE  /\ cap.org \in Maybe(Orgs) /\ cap.sport \in Maybe(Sports) /\ cap.kinds \subseteq Kinds
         /\ cap.events \subseteq Events /\ cap.loads \in Nat
<1>1. cap \in Bound
  BY Apart DEF TypeInv, TypeOK
<1> QED BY <1>1 DEF Bound

LEMMA PageFields ==
  ASSUME NEW x \in Page
  PROVE  /\ x.kind \in Kinds /\ x.screen \in {"form", "success"} /\ x.step \in Steps
         /\ x.type \in Maybe(Types) /\ x.ready \in BOOLEAN /\ x.events \subseteq Events
         /\ x.offered \subseteq Sports /\ x.busy \in BOOLEAN /\ x.previous \in BOOLEAN
         /\ x.sent \in Form
BY DEF Page

LEMMA FormFields ==
  ASSUME NEW f \in Form
  PROVE  /\ f.event \in Maybe(Events) /\ f.org \in Maybe(Orgs) /\ f.sport \in Maybe(Sports)
         /\ f.picked \subseteq Sports /\ f.rows \in Rows /\ f.names \subseteq Names
         /\ DOMAIN f.rows \subseteq Sports /\ \A s \in DOMAIN f.rows : f.rows[s] \in Counts
<1>1. f.rows \in Rows
  BY DEF Form
<1>2. DOMAIN f.rows \subseteq Sports /\ \A s \in DOMAIN f.rows : f.rows[s] \in Counts
  BY <1>1 DEF Rows
<1> QED BY <1>1, <1>2 DEF Form

LEMMA LoadFields ==
  ASSUME NEW l \in Load \union RowLoad
  PROVE  /\ l.ask = "rows" => l \in RowLoad
         /\ l.ask # "rows" => l \in Load
         /\ l \in RowLoad => /\ l.ask = "rows" /\ l.nr \in Nat /\ l.event \in Events
                             /\ l.org \in Orgs /\ l.home \in BOOLEAN /\ l.todo \subseteq Sports
                             /\ l.got \subseteq Sports /\ l.known \in BOOLEAN
         /\ l \in Load => /\ l.ask \in {"offer", "existing", "previous", "copy"}
                          /\ l.event \in Maybe(Events) /\ l.org \in Maybe(Orgs)
                          /\ l.sport \in Maybe(Sports)
BY DEF Load, RowLoad

LEMMA SubFields ==
  ASSUME NEW b \in Sub
  PROVE  /\ b.kind \in Kinds /\ b.f \in Form /\ b.todo \subseteq Sports
         /\ b.home \in BOOLEAN /\ b.failed \in BOOLEAN
BY DEF Sub

LEMMA Parts ==
  ASSUME TypeInv
  PROVE  /\ page \in Maybe(Page) /\ form \in Form /\ loads \subseteq Load \union RowLoad
         /\ subs \subseteq Sub /\ cache \in Cache /\ db \in Tables /\ past \in Past
         /\ IsFiniteSet(loads) /\ cap \in Bounds
BY DEF TypeInv, TypeOK

LEMMA Fields ==
  ASSUME TypeInv
  PROVE  /\ cache.events \in [Kinds -> Maybe(SUBSET Events)]
         /\ cache.existing \in [Places -> Maybe(SUBSET Sports)]
         /\ cache.rows \in [Places -> Maybe([got: SUBSET Sports, known: BOOLEAN])]
         /\ db.links \in [Slots -> {Nothing, "SUBMITTED", "APPROVED", "REJECTED"}]
         /\ db.numbers \in [Slots -> Maybe(Counts)]
         /\ db.cats \in [Events \X Sports -> SUBSET Names]
         /\ db.open \in [Kinds -> SUBSET Events]
         /\ past.confirmed \in [Places -> SUBSET Sports] /\ past.raced \in BOOLEAN
         /\ past.crossed \in BOOLEAN /\ past.visits \in Nat /\ past.sends \in Nat
BY Parts DEF Cache, Tables, Past

LEMMA BlankOk ==
  /\ Blank \in Form
  /\ \A o \in Maybe(Orgs) : [Blank EXCEPT !.org = o] \in Form
  /\ \A s \in Maybe(Sports) : [Blank EXCEPT !.sport = s] \in Form
<1>1. <<>> \in Rows
  <2>1. <<>> \in [{} -> Counts]
    OBVIOUS
  <2> QED BY <2>1 DEF Rows
<1>2. Blank \in Form
  BY <1>1 DEF Blank, Form, Maybe
<1> QED BY <1>2 DEF Form

LEMMA ImageFinite ==
  ASSUME NEW S, IsFiniteSet(S), NEW T, NEW f \in [S -> T], \A t \in T : \E s \in S : f[s] = t
  PROVE  IsFiniteSet(T) /\ Cardinality(T) <= Cardinality(S)
<1>1. f \in Surjection(S, T)
  BY DEF Surjection
<1> QED BY <1>1, FS_Surjection

LEMMA AllZeroOk ==
  ASSUME NEW f \in Form, NEW S \in SUBSET Sports
  PROVE  /\ [f EXCEPT !.rows = AllZero(S)] \in Form
         /\ [f EXCEPT !.rows = AllZero(S)].event = f.event
         /\ [f EXCEPT !.rows = AllZero(S)].org = f.org
         /\ DOMAIN [f EXCEPT !.rows = AllZero(S)].rows = S
<1>1. AllZero(S) \in [S -> Counts]
  BY Apart DEF AllZero, Counts
<1>2. AllZero(S) \in Rows
  BY <1>1 DEF Rows
<1> QED BY <1>1, <1>2 DEF Form

-----------------------------------------------------------------------------
(* The parts of the invariant that a step leaves alone.                    *)

\* No link is ever removed.
Grows == \A x \in Slots : db.links[x] # Nothing => db'.links[x] # Nothing

LEMMA LinkedGrows ==
  ASSUME Grows, NEW e \in Events, NEW o \in Orgs
  PROVE  Linked(e, o) \subseteq Linked(e, o)'
BY DEF Grows, Linked, Slots

\* Submissions, when no request of theirs is served and none is sent.
LEMMA SubsFrame ==
  ASSUME SubsInv, SuccessInv, TypeInv, Grows, subs' = subs, past'.crossed = past.crossed,
         db'.numbers = db.numbers, db'.cats = db.cats,
         page \in Page, page' \in Page, page'.kind = page.kind, page'.screen = page.screen,
         page'.sent = page.sent
  PROVE  SubsInv' /\ SuccessInv'
<1>1. ASSUME NEW kind \in Kinds, NEW f \in Form, FormOk(kind, f), NEW s \in Goals(kind, f),
             Kept(kind, f, s)
      PROVE  Kept(kind, f, s)'
  <2>1. s \in Sports
    BY <1>1, FormFields DEF Goals, FormOk, Kinds
  <2> QED BY <1>1, <2>1 DEF Kept, Grows, Slots, FormOk, Kinds
<1>2. ASSUME NEW b \in subs PROVE SubOk(b)'
  <2>1. SubOk(b) /\ b.kind \in Kinds
    BY Parts, SubFields DEF SubsInv
  <2>2. b.kind # "category" => Linked(b.f.event, b.f.org) \subseteq Linked(b.f.event, b.f.org)'
    BY <2>1, LinkedGrows DEF SubOk, FormOk
  <2>3. page' # Nothing
    BY Apart
  <2> QED BY <2>1, <2>2, <2>3 DEF SubOk
<1>3. ASSUME NEW b \in subs, ~ past.crossed PROVE AloneOk(b)'
  <2>1. AloneOk(b) /\ SubOk(b) /\ b.kind \in Kinds /\ b.f \in Form
    BY <1>3, Parts, SubFields DEF SubsInv
  <2>2. \A s \in Goals(b.kind, b.f) : Kept(b.kind, b.f, s) => Kept(b.kind, b.f, s)'
    BY <1>1, <2>1 DEF SubOk
  <2> QED BY <2>1, <2>2 DEF AloneOk
<1>4. SubsInv'
  BY <1>2, <1>3 DEF SubsInv
<1>5. SuccessInv'
  <2> SUFFICES ASSUME page.screen = "success", ~ past.crossed
               PROVE  \A s \in Goals(page.kind, page.sent) : Kept(page.kind, page.sent, s)'
    BY Apart DEF SuccessInv
  <2>1. FormOk(page.kind, page.sent) /\ \A s \in Goals(page.kind, page.sent) : Kept(page.kind, page.sent, s)
    BY Apart DEF SuccessInv
  <2>2. page.kind \in Kinds /\ page.sent \in Form
    BY PageFields
  <2> QED BY <1>1, <2>1, <2>2
<1> QED BY <1>4, <1>5

\* What is linked and what was confirmed.
LEMMA CacheFrame ==
  ASSUME CacheInv, TypeInv, Grows, cache'.rows = cache.rows, past'.confirmed = past.confirmed
  PROVE  CacheInv'
<1> SUFFICES ASSUME NEW e \in Events, NEW o \in Orgs
             PROVE  CachedOk(e, o)' /\ past'.confirmed[<<e, o>>] \subseteq Linked(e, o)'
  BY DEF CacheInv
<1>1. Linked(e, o) \subseteq Linked(e, o)'
  BY LinkedGrows
<1>2. CachedOk(e, o) /\ past.confirmed[<<e, o>>] \subseteq Linked(e, o)
  BY DEF CacheInv
<1> QED BY <1>1, <1>2 DEF CachedOk

\* A read that was there before, on a page of the same form.
LEMMA LoadFrame ==
  ASSUME LoadsInv, TypeInv, Grows, past'.confirmed = past.confirmed, past'.raced = past.raced,
         page \in Page, page' \in Page, page'.kind = page.kind,
         page.kind = "number" => form'.event = form.event /\ form'.org = form.org,
         NEW l \in loads
  PROVE  (l.ask = "rows" => RowsOk(l)') /\ (l.ask # "rows" => PlainOk(l)')
<1>1. page' # Nothing
  BY Apart
<1>2. l \in Load \union RowLoad
  BY Parts
<1>3. CASE l.ask = "rows"
  <2>1. RowsOk(l) /\ l.event \in Events /\ l.org \in Orgs
    BY <1>2, <1>3, LoadFields DEF LoadsInv
  <2>2. Linked(l.event, l.org) \subseteq Linked(l.event, l.org)'
    BY <2>1, LinkedGrows
  <2> QED BY <1>1, <1>3, <2>1, <2>2 DEF RowsOk, Chosen
<1>4. CASE l.ask # "rows"
  BY <1>1, <1>4 DEF LoadsInv, PlainOk
<1> QED BY <1>3, <1>4

\* A step of the page that leaves the table, the submissions and the server alone.
LEMMA PageStep ==
  ASSUME IInv, page \in Page, page' \in Page, page'.kind = page.kind,
         page'.screen = page.screen, page'.sent = page.sent, OnPath(page.kind, page'.step),
         form' \in Form,
         page.kind = "number" => /\ form'.event = form.event /\ form'.org = form.org
                                 /\ DOMAIN form'.rows = DOMAIN form.rows,
         cache' \in Cache, cache'.rows = cache.rows,
         loads' \subseteq Load \union RowLoad, IsFiniteSet(loads'),
         \A l \in loads' : l \in loads \/ (l.ask # "rows" /\ PlainOk(l)'),
         \A l \in loads : l.ask = "rows" => l \in loads',
         UNCHANGED <<subs, db, past, cap>>
  PROVE  IInv'
<1>1. TypeInv /\ Grows
  BY DEF IInv, Grows
<1>2. TypeInv'
  BY Parts, <1>1 DEF TypeInv, TypeOK, Maybe
<1>3. LoadsInv'
  <2>1. \A l \in loads : (l.ask = "rows" => RowsOk(l)') /\ (l.ask # "rows" => PlainOk(l)')
    BY <1>1, LoadFrame DEF IInv
  <2> QED BY <2>1 DEF LoadsInv
<1>4. TableInv'
  <2>1. HomeRows' = HomeRows
    BY DEF HomeRows
  <2>2. page # Nothing
    BY Apart
  <2> QED BY <2>1, <2>2 DEF IInv, TableInv, Chosen, Linked
<1>5. SubsInv' /\ SuccessInv'
  BY <1>1, SubsFrame DEF IInv
<1>6. CacheInv'
  BY <1>1, CacheFrame DEF IInv
<1>7. StepInv'
  BY DEF StepInv, OnPath, StepsOf, CategorySteps, SportSteps
<1> QED BY <1>2, <1>3, <1>4, <1>5, <1>6, <1>7 DEF IInv

\* The reads, when the server gains links.
LEMMA GrowFrame ==
  ASSUME LoadsInv, TableInv, TypeInv, Grows, UNCHANGED <<page, form, loads, past>>
  PROVE  LoadsInv' /\ TableInv'
<1>1. \A e \in Events, o \in Orgs : Linked(e, o) \subseteq Linked(e, o)'
  BY LinkedGrows
<1>2. LoadsInv'
  <2> SUFFICES ASSUME NEW l \in loads
               PROVE  (l.ask = "rows" => RowsOk(l)') /\ (l.ask # "rows" => PlainOk(l)')
    BY DEF LoadsInv
  <2>1. l \in Load \union RowLoad
    BY Parts
  <2>2. CASE l.ask = "rows"
    <3>1. RowsOk(l) /\ l.event \in Events /\ l.org \in Orgs
      BY <2>1, <2>2, LoadFields DEF LoadsInv
    <3> QED BY <1>1, <2>2, <3>1 DEF RowsOk, Chosen
  <2>3. CASE l.ask # "rows"
    BY <2>3 DEF LoadsInv, PlainOk
  <2> QED BY <2>2, <2>3
<1>3. TableInv'
  <2> SUFFICES ASSUME page # Nothing, page.kind = "number", Chosen, ~ past.raced, HomeRows = {}
               PROVE  DOMAIN form.rows \subseteq Linked(form.event, form.org)'
    BY DEF TableInv, Chosen, HomeRows
  <2>1. form.event \in Events /\ form.org \in Orgs
    BY Parts, FormFields DEF Chosen, Maybe
  <2> QED BY <1>1, <2>1 DEF TableInv
<1> QED BY <1>2, <1>3

\* A step of the administration.
LEMMA TableStep ==
  ASSUME IInv, db' \in Tables, Grows, db'.numbers = db.numbers, db'.cats = db.cats,
         UNCHANGED <<page, form, loads, subs, cache, past, cap>>
  PROVE  IInv'
<1>1. TypeInv /\ TypeInv'
  BY DEF IInv, TypeInv, TypeOK
<1>2. StepInv'
  BY DEF IInv, StepInv, OnPath, StepsOf, CategorySteps, SportSteps
<1>3. CacheInv'
  BY <1>1, CacheFrame DEF IInv
<1>4. LoadsInv' /\ TableInv'
  BY <1>1, GrowFrame DEF IInv
<1>5. SubsInv' /\ SuccessInv'
  <2>1. CASE page \in Page
    BY <1>1, <2>1, SubsFrame DEF IInv
  <2>2. CASE page = Nothing
    <3>1. SuccessInv'
      BY <2>2 DEF SuccessInv
    <3>2. ASSUME NEW b \in subs PROVE SubOk(b)' /\ (~ past.crossed => AloneOk(b)')
      <4>1. SubOk(b) /\ (~ past.crossed => AloneOk(b)) /\ b.kind \in Kinds
        BY <1>1, Parts, SubFields DEF IInv, SubsInv
      <4>2. ~ b.home
        BY <2>2, <4>1 DEF SubOk
      <4>3. b.kind # "category" => Linked(b.f.event, b.f.org) \subseteq Linked(b.f.event, b.f.org)'
        BY <4>1, LinkedGrows DEF SubOk, FormOk
      <4> QED BY <4>1, <4>2, <4>3 DEF SubOk, AloneOk
    <3> QED BY <3>1, <3>2 DEF SubsInv
  <2> QED BY <1>1, <2>1, <2>2, Parts DEF Maybe
<1> QED BY <1>1, <1>2, <1>3, <1>4, <1>5 DEF IInv

-----------------------------------------------------------------------------
(* Steps of a page.                                                        *)

LEMMA PathOk ==
  ASSUME NEW kind, NEW i \in DOMAIN StepsOf(kind)
  PROVE  /\ StepsOf(kind)[i] \in Steps /\ OnPath(kind, StepsOf(kind)[i])
         /\ i + 1 \in DOMAIN StepsOf(kind) \/ ~ (i < Len(StepsOf(kind)))
<1>1. CategorySteps \in Seq(Steps)
  BY DEF CategorySteps, Steps
<1>2. <<"event_type", "event", "organization", "sports", "review">> \in Seq(Steps)
  BY DEF Steps
<1>3. <<"event_type", "event", "sports", "review">> \in Seq(Steps)
  BY DEF Steps
<1>4. StepsOf(kind) \in Seq(Steps)
  BY <1>1, <1>2, <1>3 DEF StepsOf, SportSteps
<1> QED BY <1>4 DEF OnPath

\* The next step or an earlier one.
LEMMA WalkOk ==
  ASSUME IInv, page \in Page, NEW done, NEW steps, steps = StepsOf(page.kind),
         Forward(steps, done) \/ Backward(steps)
  PROVE  IInv'
<1>1. PICK j \in DOMAIN steps : GoToStep(steps[j])
  <2>1. CASE Forward(steps, done)
    <3> DEFINE i == IndexOf(steps, page.step)
    <3>1. i < Len(steps) /\ GoToStep(steps[i + 1])
      BY <2>1 DEF Forward
    <3>2. OnPath(page.kind, page.step)
      BY Apart DEF IInv, StepInv
    <3>3. i \in DOMAIN steps
      BY <3>2 DEF OnPath, IndexOf
    <3> HIDE DEF i
    <3>4. i + 1 \in DOMAIN steps
      BY <3>1, <3>3, PathOk
    <3> QED BY <3>1, <3>4
  <2>2. CASE Backward(steps)
    BY <2>2 DEF Backward
  <2> QED BY <2>1, <2>2
<1>2. steps[j] \in Steps /\ OnPath(page.kind, steps[j])
  BY PathOk
<1> DEFINE x == [page EXCEPT !.step = steps[j]]
<1>3. /\ x \in Page /\ x.kind = page.kind /\ x.screen = page.screen /\ x.sent = page.sent
      /\ x.step = steps[j]
  BY <1>2 DEF Page
<1>4. page' = x /\ UNCHANGED <<form, loads, subs, cache, db, past, cap>>
  BY <1>1 DEF GoToStep
<1> HIDE DEF x
<1>5. form \in Form /\ cache \in Cache /\ loads \subseteq Load \union RowLoad /\ IsFiniteSet(loads)
  BY Parts DEF IInv
<1> QED BY <1>2, <1>3, <1>4, <1>5, PageStep

\* Something is filled in or shown; the page stays on its step.
LEMMA FillStep ==
  ASSUME IInv, page \in Page, NEW x \in Page, page' = x, x.kind = page.kind,
         x.screen = page.screen, x.sent = page.sent, x.step = page.step, form' \in Form,
         page.kind = "number" => /\ form'.event = form.event /\ form'.org = form.org
                                 /\ DOMAIN form'.rows = DOMAIN form.rows,
         cache' \in Cache, cache'.rows = cache.rows,
         loads' \subseteq Load \union RowLoad, IsFiniteSet(loads'),
         \A l \in loads' : l \in loads \/ (l.ask # "rows" /\ PlainOk(l)'),
         \A l \in loads : l.ask = "rows" => l \in loads',
         UNCHANGED <<subs, db, past, cap>>
  PROVE  IInv'
<1>1. OnPath(page.kind, page.step)
  BY Apart DEF IInv, StepInv
<1> QED BY <1>1, PageStep

\* Only the page, only the form.
LEMMA ShowStep ==
  ASSUME IInv, page \in Page, NEW x \in Page, page' = x, x.kind = page.kind,
         x.screen = page.screen, x.sent = page.sent, x.step = page.step,
         cache' \in Cache, cache'.rows = cache.rows,
         UNCHANGED <<form, loads, subs, db, past, cap>>
  PROVE  IInv'
BY FillStep, Parts DEF IInv

LEMMA TypeStep ==
  ASSUME IInv, page \in Page, NEW f \in Form, form' = f,
         page.kind = "number" => /\ f.event = form.event /\ f.org = form.org
                                 /\ DOMAIN f.rows = DOMAIN form.rows,
         UNCHANGED <<page, loads, subs, cache, db, past, cap>>
  PROVE  IInv'
BY FillStep, Parts DEF IInv

LEMMA EventsOk ==
  ASSUME IInv, NEW kind \in Kinds, ShowEvents(kind)
  PROVE  IInv'
<1>1. page \in Page /\ page.kind = kind /\ cache \in Cache /\ TypeInv
  BY Parts DEF IInv, ShowEvents, Maybe
<1>2. db.open[kind] \in SUBSET Events /\ cache.events[kind] \in Maybe(SUBSET Events)
      /\ cache.events \in [Kinds -> Maybe(SUBSET Events)]
  BY <1>1, Fields
<1>3. PICK shown \in SUBSET Events :
        /\ page' = [page EXCEPT !.ready = TRUE, !.events = shown]
        /\ cache' \in {cache, [cache EXCEPT !.events[kind] = db.open[kind]]}
        /\ UNCHANGED <<form, loads, subs, db, past, cap>>
  <2>1. page' = [page EXCEPT !.ready = TRUE]
          => page' = [page EXCEPT !.ready = TRUE, !.events = page.events]
    BY <1>1 DEF Page
  <2>2. page.events \in SUBSET Events
    BY <1>1, PageFields
  <2> QED BY <1>2, <2>1, <2>2 DEF ShowEvents, Eligible, Maybe
<1>4. cache' \in Cache /\ cache'.rows = cache.rows
  BY <1>1, <1>2, <1>3 DEF Cache, Maybe
<1> DEFINE x == [page EXCEPT !.ready = TRUE, !.events = shown]
<1>5. /\ x \in Page /\ x.kind = page.kind /\ x.screen = page.screen /\ x.sent = page.sent
      /\ x.step = page.step
  BY <1>1 DEF Page
<1>6. page' = x
  BY <1>3
<1> HIDE DEF x
<1> QED BY <1>1, <1>3, <1>4, <1>5, <1>6, ShowStep

\* The type of event.
LEMMA ChooseTypeOk ==
  ASSUME IInv, NEW t \in Types, ChooseSportType(t) \/ ChooseNumberType(t)
  PROVE  IInv'
<1>1. page \in Page /\ cache \in Cache
  BY Parts DEF IInv, ChooseSportType, ChooseNumberType, OnStep, On, Maybe
<1> DEFINE x == [page EXCEPT !.type = t]
<1>2. page' = x /\ UNCHANGED <<form, loads, subs, cache, db, past, cap>>
  BY DEF ChooseSportType, ChooseNumberType
<1>3. /\ x \in Page /\ x.kind = page.kind /\ x.screen = page.screen /\ x.sent = page.sent
      /\ x.step = page.step
  BY <1>1 DEF Page, Maybe
<1> HIDE DEF x
<1> QED BY <1>1, <1>2, <1>3, ShowStep

-----------------------------------------------------------------------------
(* Reads of surveys 2 and 4, and what is filled in.                        *)

\* A read begins or ends, and something is shown or filled in.
LEMMA ReadStep ==
  ASSUME IInv, page \in Page, page' \in Page, page'.kind = page.kind,
         page'.screen = page.screen, page'.sent = page.sent, page'.step = page.step,
         form' \in Form,
         page.kind = "number" => /\ form'.event = form.event /\ form'.org = form.org
                                 /\ DOMAIN form'.rows = DOMAIN form.rows,
         cache' \in Cache, cache'.rows = cache.rows,
         NEW n \in Load, n \in loads' => PlainOk(n)', loads' \subseteq loads \union {n},
         \A l \in loads : l.ask = "rows" => l \in loads',
         UNCHANGED <<subs, db, past, cap>>
  PROVE  IInv'
<1>1. IsFiniteSet(loads) /\ loads \subseteq Load \union RowLoad
  BY Parts DEF IInv
<1>2. IsFiniteSet(loads \union {n})
  BY <1>1, FS_AddElement
<1>3. IsFiniteSet(loads')
  BY <1>2, FS_Subset
<1>4. loads' \subseteq Load \union RowLoad
  BY <1>1
<1>5. \A l \in loads' : l \in loads \/ (l.ask # "rows" /\ PlainOk(l)')
  <2>1. n.ask # "rows"
    BY LoadFields
  <2> QED BY <2>1
<1> QED BY <1>3, <1>4, <1>5, FillStep

LEMMA ChooseSportEventOk ==
  ASSUME IInv, NEW e \in Events, ChooseSportEvent(e)
  PROVE  IInv'
<1>1. page \in Page /\ page.kind = "sport" /\ form \in Form /\ cache \in Cache
  BY Parts DEF IInv, ChooseSportEvent, OnStep, On, Maybe
<1> DEFINE n == [ask |-> "offer", event |-> e, org |-> Nothing, sport |-> Nothing]
           f == [form EXCEPT !.event = e]
<1>2. /\ page' = page /\ form' = f
      /\ loads' = {l \in loads : l.ask \notin {"offer", "existing"}} \union {n}
      /\ UNCHANGED <<subs, cache, db, past, cap>>
  BY DEF ChooseSportEvent
<1>3. n \in Load /\ n.ask = "offer" /\ n.event = e
  BY DEF Load, Maybe
<1>4. f \in Form
  BY <1>1 DEF Form, Maybe
<1> HIDE DEF n, f
<1>5. PlainOk(n)'
  BY <1>1, <1>2, <1>3, Apart DEF PlainOk
<1> QED BY <1>1, <1>2, <1>3, <1>4, <1>5, ReadStep

\* What is typed or ticked.
LEMMA InputsOk ==
  ASSUME IInv,
         \/ \E o \in Orgs : ChooseSportOrg(o)
         \/ \E s \in Sports : Toggle(s)
         \/ \E s \in Sports, n \in Counts : TypeCount(s, n)
         \/ \E name \in Names : EditRow(name)
  PROVE  IInv'
<1>1. page \in Page /\ form \in Form
  BY Parts DEF IInv, ChooseSportOrg, Toggle, TypeCount, EditRow, OnStep, On, Maybe
<1>2. UNCHANGED <<page, loads, subs, cache, db, past, cap>>
  BY DEF ChooseSportOrg, Toggle, TypeCount, EditRow
<1>3. ASSUME NEW o \in Orgs, ChooseSportOrg(o) PROVE IInv'
  <2> DEFINE f == [form EXCEPT !.org = o]
  <2>1. form' = f /\ page.kind = "sport"
    BY <1>3 DEF ChooseSportOrg, OnStep, On
  <2>2. f \in Form
    BY <1>1 DEF Form, Maybe
  <2> HIDE DEF f
  <2> QED BY <1>1, <1>2, <2>1, <2>2, TypeStep
<1>4. ASSUME NEW s \in Sports, Toggle(s) PROVE IInv'
  <2> DEFINE p == IF s \in form.picked THEN form.picked \ {s} ELSE form.picked \union {s}
             f == [form EXCEPT !.picked = p]
  <2>1. form' = f /\ page.kind = "sport"
    BY <1>4 DEF Toggle, OnStep, On
  <2>2. p \subseteq Sports
    BY <1>1, FormFields
  <2> HIDE DEF p
  <2>3. f \in Form
    BY <1>1, <2>2 DEF Form
  <2> HIDE DEF f
  <2> QED BY <1>1, <1>2, <2>1, <2>3, TypeStep
<1>5. ASSUME NEW s \in Sports, NEW n \in Counts, TypeCount(s, n) PROVE IInv'
  <2> DEFINE r == [form.rows EXCEPT ![s] = n]
             f == [form EXCEPT !.rows = r]
  <2>1. form' = f
    BY <1>5 DEF TypeCount
  <2>2. r \in Rows /\ DOMAIN r = DOMAIN form.rows
    <3>1. PICK S \in SUBSET Sports : form.rows \in [S -> Counts]
      BY <1>1, FormFields DEF Rows
    <3>2. r \in [S -> Counts] /\ DOMAIN r = S /\ DOMAIN form.rows = S
      BY <3>1
    <3> HIDE DEF r
    <3> QED BY <3>2 DEF Rows
  <2> HIDE DEF r
  <2>3. f \in Form /\ f.event = form.event /\ f.org = form.org /\ DOMAIN f.rows = DOMAIN form.rows
    BY <1>1, <2>2 DEF Form
  <2> HIDE DEF f
  <2> QED BY <1>1, <1>2, <2>1, <2>3, TypeStep
<1>6. ASSUME NEW name \in Names, EditRow(name) PROVE IInv'
  <2> DEFINE s == IF name \in form.names THEN form.names \ {name} ELSE form.names \union {name}
             f == [form EXCEPT !.names = s]
  <2>1. form' = f /\ page.kind = "category"
    BY <1>6 DEF EditRow, OnStep, On
  <2>2. s \subseteq Names
    BY <1>1, FormFields
  <2> HIDE DEF s
  <2>3. f \in Form
    BY <1>1, <2>2 DEF Form
  <2> HIDE DEF f
  <2> QED BY <1>1, <1>2, <2>1, <2>3, TypeStep
<1> QED BY <1>3, <1>4, <1>5, <1>6

LEMMA ThePlainLoad ==
  ASSUME IInv, NEW l \in loads, l.ask # "rows"
  PROVE  /\ l \in Load /\ PlainOk(l) /\ page \in Page /\ page # Nothing
         /\ l.ask \in {"offer", "existing"} => l.event \in Events
         /\ l.ask = "existing" => l.org \in Orgs
         /\ l.ask \in {"previous", "copy"} => l.sport \in Sports
<1>1. l \in Load \union RowLoad /\ page \in Maybe(Page) /\ PlainOk(l)
  BY Parts DEF IInv, LoadsInv
<1>2. /\ l \in Load /\ l.event \in Maybe(Events) /\ l.org \in Maybe(Orgs)
      /\ l.sport \in Maybe(Sports)
  BY <1>1, LoadFields
<1> QED BY <1>1, <1>2, Apart DEF PlainOk, Maybe

LEMMA OfferOk ==
  ASSUME IInv, NEW l \in loads, OfferArrives(l)
  PROVE  IInv'
<1>1. /\ l.ask = "offer" /\ l \in Load /\ page \in Page /\ page # Nothing /\ l.event \in Events
      /\ form \in Form /\ cache \in Cache
  BY ThePlainLoad, Parts DEF OfferArrives, IInv
<1>2. PICK sports \in SUBSET Sports : page' = [page EXCEPT !.offered = sports]
  BY <1>1, Apart DEF OfferArrives
<1> DEFINE x == [page EXCEPT !.offered = sports]
<1>3. /\ x \in Page /\ x.kind = page.kind /\ x.screen = page.screen /\ x.sent = page.sent
      /\ x.step = page.step
  BY <1>1 DEF Page
<1>4. form.org \in Maybe(Orgs)
  BY <1>1, FormFields
<1>5. PICK n \in Load : /\ n = [l EXCEPT !.ask = "existing", !.org = form.org]
                       /\ n.ask = "existing" /\ n.event = l.event /\ n.org = form.org
  <2> DEFINE k == [l EXCEPT !.ask = "existing", !.org = form.org]
  <2>1. k \in Load /\ k.ask = "existing" /\ k.event = l.event /\ k.org = form.org
    BY <1>1, <1>4 DEF Load
  <2> QED BY <2>1
<1>6. /\ loads' = (loads \ {l}) \union (IF form.org = Nothing THEN {} ELSE {n})
      /\ UNCHANGED <<form, subs, cache, db, past, cap>>
  BY <1>5 DEF OfferArrives
<1>7. page' = x
  BY <1>2
<1> HIDE DEF x
<1>8. page' # Nothing
  BY <1>3, <1>7, Apart
<1>9. PICK m \in {l, n} : loads' \subseteq loads \union {m} /\ PlainOk(m)'
  <2>1. CASE form.org # Nothing
    BY <1>1, <1>5, <1>6, <1>8, <2>1, Apart DEF PlainOk
  <2>2. CASE form.org = Nothing
    BY <1>1, <1>6, <1>8, <2>2, Apart DEF PlainOk
  <2> QED BY <2>1, <2>2
<1>10. m \in Load
  BY <1>1, <1>5
<1>11. \A k \in loads : k.ask = "rows" => k \in loads'
  BY <1>1, <1>6
<1>12. cache' \in Cache /\ cache'.rows = cache.rows /\ form' = form /\ UNCHANGED <<subs, db, past, cap>>
  BY <1>1, <1>6
<1>13. /\ page \in Page /\ page' \in Page /\ page'.kind = page.kind /\ page'.screen = page.screen
       /\ page'.sent = page.sent /\ page'.step = page.step
  BY <1>1, <1>3, <1>7
<1>14. form' \in Form /\ form'.event = form.event /\ form'.org = form.org
       /\ DOMAIN form'.rows = DOMAIN form.rows
  BY <1>1, <1>12
<1>15. loads' \subseteq loads \union {m} /\ PlainOk(m)'
  BY <1>9
<1> QED BY <1>10, <1>11, <1>12, <1>13, <1>14, <1>15, ReadStep

\* A read ends: another stays what it is.
LEMMA EndsOk ==
  ASSUME IInv, NEW l \in loads, l.ask # "rows", page' \in Page, page'.kind = page.kind,
         page'.screen = page.screen, page'.sent = page.sent, page'.step = page.step,
         form' \in Form, form'.event = form.event, form'.org = form.org,
         DOMAIN form'.rows = DOMAIN form.rows,
         cache' \in Cache, cache'.rows = cache.rows, loads' = loads \ {l},
         UNCHANGED <<subs, db, past, cap>>
  PROVE  IInv'
<1>1. l \in Load /\ page \in Page
  BY ThePlainLoad
<1>2. \A k \in loads : k.ask = "rows" => k \in loads'
  OBVIOUS
<1>3. loads' \subseteq loads \union {l} /\ l \notin loads'
  OBVIOUS
<1> QED BY <1>1, <1>2, <1>3, ReadStep

LEMMA ExistingOk ==
  ASSUME IInv, NEW l \in loads, ExistingArrives(l)
  PROVE  IInv'
<1>1. /\ l.ask = "existing" /\ page \in Page /\ l.event \in Events /\ l.org \in Orgs
      /\ form \in Form /\ cache \in Cache
  BY ThePlainLoad, Parts DEF ExistingArrives, IInv
<1> DEFINE p == <<l.event, l.org>>
<1>2. p \in Places /\ cache.existing[p] \in Maybe(SUBSET Sports)
      /\ ApprovedLinks(l.event, l.org) \in SUBSET Sports
  BY <1>1, Fields DEF Places, IInv, ApprovedLinks
<1>3. /\ loads' = loads \ {l} /\ UNCHANGED <<page, subs, db, past, cap>>
      /\ cache' \in {cache, [cache EXCEPT !.existing[p] = ApprovedLinks(l.event, l.org)]}
  BY DEF ExistingArrives
<1>4. PICK more \in SUBSET Sports : form' = [form EXCEPT !.picked = form.picked \union more]
  <2>1. form = [form EXCEPT !.picked = form.picked \union {}]
    BY <1>1 DEF Form
  <2>2. \/ cache.existing[p] # Nothing /\ form' = [form EXCEPT !.picked = form.picked \union cache.existing[p]]
        \/ form' = [form EXCEPT !.picked = form.picked \union ApprovedLinks(l.event, l.org)]
        \/ form' = form
    BY DEF ExistingArrives
  <2>3. {} \in SUBSET Sports
    OBVIOUS
  <2>4. cache.existing[p] # Nothing => cache.existing[p] \in SUBSET Sports
    BY <1>2 DEF Maybe
  <2> QED BY <1>2, <2>1, <2>2, <2>3, <2>4
<1>5. cache' \in Cache /\ cache'.rows = cache.rows
  <2>1. cache.existing \in [Places -> Maybe(SUBSET Sports)]
    BY Fields DEF IInv
  <2>2. [cache.existing EXCEPT ![p] = ApprovedLinks(l.event, l.org)]
          \in [Places -> Maybe(SUBSET Sports)]
    BY <1>2, <2>1 DEF Maybe
  <2> QED BY <1>1, <1>3, <2>2 DEF Cache
<1>6. form.picked \subseteq Sports
  BY <1>1, FormFields
<1>7. /\ form' \in Form /\ form'.event = form.event /\ form'.org = form.org
      /\ form'.rows = form.rows
  BY <1>1, <1>4, <1>6 DEF Form
<1>8. l.ask # "rows" /\ page' \in Page /\ page' = page
  BY <1>1, <1>3
<1> QED BY <1>3, <1>5, <1>7, <1>8, EndsOk

LEMMA PreviousOk ==
  ASSUME IInv, NEW l \in loads, PreviousArrives(l)
  PROVE  IInv'
<1>1. l.ask = "previous" /\ l.ask # "rows" /\ page \in Page /\ form \in Form /\ cache \in Cache
  BY ThePlainLoad, Parts DEF PreviousArrives, IInv
<1>2. PICK b \in BOOLEAN : page' = [page EXCEPT !.previous = b]
  BY DEF PreviousArrives
<1>3. /\ page' \in Page /\ page'.kind = page.kind /\ page'.screen = page.screen
      /\ page'.sent = page.sent /\ page'.step = page.step
  BY <1>1, <1>2 DEF Page
<1>4. loads' = loads \ {l} /\ UNCHANGED <<form, subs, cache, db, past, cap>>
  BY DEF PreviousArrives
<1> QED BY <1>1, <1>3, <1>4, EndsOk

LEMMA CopyOk ==
  ASSUME IInv, NEW l \in loads, CopyArrives(l)
  PROVE  IInv'
<1>1. /\ l.ask = "copy" /\ l.ask # "rows" /\ l.sport \in Sports /\ page \in Page /\ form \in Form
      /\ cache \in Cache
  BY ThePlainLoad, Parts DEF CopyArrives, IInv
<1>2. Earlier(l) \subseteq SUBSET Names
  <2>1. db.cats \in [Events \X Sports -> SUBSET Names]
    BY Fields DEF IInv
  <2> QED BY <1>1, <2>1 DEF Earlier
<1>3. PICK names \in SUBSET Names : form' = form \/ form' = [form EXCEPT !.names = names]
  BY <1>2 DEF CopyArrives
<1>4. /\ form' \in Form /\ form'.event = form.event /\ form'.org = form.org
      /\ form'.rows = form.rows
  BY <1>1, <1>3 DEF Form
<1>5. page' = [page EXCEPT !.busy = FALSE] /\ loads' = loads \ {l}
      /\ UNCHANGED <<subs, cache, db, past, cap>>
  BY DEF CopyArrives
<1>6. /\ page' \in Page /\ page'.kind = page.kind /\ page'.screen = page.screen
      /\ page'.sent = page.sent /\ page'.step = page.step
  BY <1>1, <1>5 DEF Page
<1> QED BY <1>1, <1>4, <1>5, <1>6, EndsOk

\* A read for a sport.
LEMMA AsksOk ==
  ASSUME NEW ask \in {"previous", "copy"}, NEW f \in Form, f.sport # Nothing
  PROVE  /\ Read(ask, f) \in Load /\ Read(ask, f).ask = ask /\ Read(ask, f).sport = f.sport
<1>1. f.event \in Maybe(Events) /\ f.sport \in Maybe(Sports)
  BY FormFields
<1> QED BY <1>1 DEF Read, Load, Maybe

LEMMA CopyPreviousOk ==
  ASSUME IInv, CopyPrevious
  PROVE  IInv'
<1>1. page \in Page /\ form \in Form /\ cache \in Cache /\ form.sport # Nothing
  BY Parts DEF IInv, CopyPrevious, OnStep, On, Maybe
<1>2. /\ page' = [page EXCEPT !.busy = TRUE] /\ loads' = loads \union {Read("copy", form)}
      /\ UNCHANGED <<form, subs, cache, db, past, cap>>
  BY DEF CopyPrevious
<1>3. /\ page' \in Page /\ page'.kind = page.kind /\ page'.screen = page.screen
      /\ page'.sent = page.sent /\ page'.step = page.step
  BY <1>1, <1>2 DEF Page
<1>4. PICK n \in Load : n = Read("copy", form) /\ n.ask = "copy" /\ n.sport = form.sport
  BY <1>1, AsksOk
<1>5. page' # Nothing
  BY <1>3, Apart
<1>6. PlainOk(n)'
  BY <1>1, <1>4, <1>5, Apart DEF PlainOk
<1>7. loads' \subseteq loads \union {n} /\ \A k \in loads : k.ask = "rows" => k \in loads'
  BY <1>2, <1>4
<1> QED BY <1>1, <1>2, <1>3, <1>6, <1>7, ReadStep

LEMMA ChooseCategoryEventOk ==
  ASSUME IInv, NEW e \in Events, ChooseCategoryEvent(e)
  PROVE  IInv'
<1>1. page \in Page /\ page.kind = "category" /\ form \in Form /\ cache \in Cache
  BY Parts DEF IInv, ChooseCategoryEvent, OnStep, On, Maybe
<1>2. form' = [form EXCEPT !.event = e] /\ UNCHANGED <<page, subs, cache, db, past, cap>>
  BY DEF ChooseCategoryEvent
<1>3. form' \in Form /\ form'.sport = form.sport
  BY <1>1, <1>2 DEF Form, Maybe
<1>4. CASE cap.admin /\ form.sport # Nothing
  <2>1. PICK n \in Load : n = Read("previous", form') /\ n.ask = "previous" /\ n.sport = form.sport
    BY <1>3, <1>4, AsksOk
  <2>2. loads' \subseteq loads \union {n} /\ \A k \in loads : k.ask = "rows" => k \in loads'
    BY <1>4, <2>1 DEF ChooseCategoryEvent
  <2>3. PlainOk(n)'
    BY <1>1, <1>2, <1>4, <2>1, Apart DEF PlainOk
  <2> QED BY <1>1, <1>2, <1>3, <2>2, <2>3, ReadStep
<1>5. CASE ~ (cap.admin /\ form.sport # Nothing)
  <2>1. loads' = loads
    BY <1>5 DEF ChooseCategoryEvent
  <2> QED BY <1>1, <1>2, <1>3, <2>1, TypeStep
<1> QED BY <1>4, <1>5

-----------------------------------------------------------------------------
(* A form is opened, left, or started again.                               *)

LEMMA WalksOk ==
  ASSUME IInv, \/ SportNext \/ SportBack \/ NumberNext \/ NumberBack
               \/ CategoryNext \/ CategoryBack
  PROVE  IInv'
<1>1. page \in Page
  BY Parts DEF IInv, SportNext, SportBack, NumberNext, NumberBack, CategoryNext, CategoryBack,
               On, Maybe
<1>2. CASE SportNext \/ SportBack
  <2>1. SportSteps = StepsOf(page.kind)
    BY <1>2 DEF SportNext, SportBack, On, StepsOf
  <2>2. Forward(SportSteps, SportStepDone) \/ Backward(SportSteps)
    BY <1>2 DEF SportNext, SportBack
  <2> QED BY <1>1, <2>1, <2>2, WalkOk
<1>3. CASE NumberNext \/ NumberBack
  <2>1. NumberSteps = StepsOf(page.kind)
    BY <1>3 DEF NumberNext, NumberBack, On, StepsOf, NumberSteps, SportSteps
  <2>2. Forward(NumberSteps, NumberStepDone) \/ Backward(NumberSteps)
    BY <1>3 DEF NumberNext, NumberBack
  <2> QED BY <1>1, <2>1, <2>2, WalkOk
<1>4. CASE CategoryNext \/ CategoryBack
  <2>1. CategorySteps = StepsOf(page.kind)
    BY <1>4 DEF CategoryNext, CategoryBack, On, StepsOf
  <2>2. Forward(CategorySteps, CategoryStepDone) \/ Backward(CategorySteps)
    BY <1>4 DEF CategoryNext, CategoryBack
  <2> QED BY <1>1, <2>1, <2>2, WalkOk
<1> QED BY <1>2, <1>3, <1>4

\* The form is blank, or no form is open.
LEMMA FreshStep ==
  ASSUME IInv, form' \in Form, form'.event = Nothing, page' \in Maybe(Page),
         page' # Nothing => page'.screen = "form" /\ OnPath(page'.kind, page'.step),
         loads' \subseteq Load \union RowLoad, IsFiniteSet(loads'), subs' \subseteq Sub,
         LoadsInv', SubsInv', past' \in Past, past'.confirmed = past.confirmed,
         UNCHANGED <<cache, db, cap>>
  PROVE  IInv'
<1>1. TypeInv /\ Grows
  BY DEF IInv, Grows
<1>2. TypeInv'
  BY <1>1, Parts DEF TypeInv, TypeOK
<1>3. CacheInv'
  BY <1>1, CacheFrame DEF IInv
<1>4. TableInv' /\ SuccessInv'
  BY DEF TableInv, SuccessInv, Chosen
<1>5. StepInv'
  BY DEF StepInv, OnPath, StepsOf, CategorySteps, SportSteps
<1> QED BY <1>2, <1>3, <1>4, <1>5 DEF IInv

LEMMA OpenPageOk ==
  ASSUME IInv, NEW kind \in Kinds, NEW first \in Steps, OnPath(kind, first), NEW f \in Form,
         f.event = Nothing, NEW asked \in SUBSET Load, IsFiniteSet(asked),
         \A l \in asked : l.ask = "previous" /\ l.sport # Nothing,
         OpenPage(kind, first, f, asked)
  PROVE  IInv'
<1> DEFINE x == [kind |-> kind, screen |-> "form", step |-> first, type |-> Nothing,
                 ready |-> FALSE, events |-> {}, offered |-> {}, busy |-> FALSE,
                 previous |-> FALSE, sent |-> Blank]
<1>1. /\ page = Nothing /\ page' = x /\ form' = f /\ loads' = loads \union asked
      /\ past' = [past EXCEPT !.visits = past.visits + 1]
      /\ UNCHANGED <<subs, cache, db, cap>>
  BY DEF OpenPage
<1>2. x \in Page /\ x.screen = "form" /\ x.kind = kind /\ x.step = first
  BY BlankOk DEF Page, Maybe
<1> HIDE DEF x
<1>3. page' # Nothing
  BY <1>1, <1>2, Apart
<1>4. past \in Past /\ loads \subseteq Load \union RowLoad /\ IsFiniteSet(loads) /\ subs \subseteq Sub
  BY Parts DEF IInv
<1>5. past' \in Past /\ past'.confirmed = past.confirmed /\ past'.crossed = past.crossed
  BY <1>1, <1>4 DEF Past
<1>6. LoadsInv'
  <2> SUFFICES ASSUME NEW l \in loads'
               PROVE  (l.ask = "rows" => RowsOk(l)') /\ (l.ask # "rows" => PlainOk(l)')
    BY DEF LoadsInv
  <2>1. CASE l \in loads
    <3>1. (l.ask = "rows" => RowsOk(l)) /\ (l.ask # "rows" => PlainOk(l))
      BY <2>1 DEF IInv, LoadsInv
    <3>2. l.ask = "rows" /\ ~ l.home
      BY <1>1, <2>1, <3>1, <1>4, LoadFields DEF PlainOk, RowsOk
    <3> QED BY <1>1, <1>5, <3>1, <3>2 DEF RowsOk, Linked
  <2>2. CASE l \in asked
    <3>1. l.ask = "previous" /\ l.sport # Nothing
      BY <2>2
    <3> QED BY <1>3, <3>1 DEF PlainOk
  <2> QED BY <1>1, <2>1, <2>2
<1>7. SubsInv'
  <2> SUFFICES ASSUME NEW b \in subs PROVE SubOk(b)' /\ (~ past.crossed => AloneOk(b)')
    BY <1>1, <1>5 DEF SubsInv
  <2>1. SubOk(b) /\ (~ past.crossed => AloneOk(b))
    BY DEF IInv, SubsInv
  <2>2. ~ b.home
    BY <1>1, <2>1 DEF SubOk
  <2> QED BY <1>1, <2>1, <2>2 DEF SubOk, AloneOk, Linked
<1>8. IsFiniteSet(loads') /\ loads' \subseteq Load \union RowLoad
  BY <1>1, <1>4, FS_Union
<1>9. form' \in Form /\ form'.event = Nothing /\ page' \in Maybe(Page)
      /\ page'.screen = "form" /\ OnPath(page'.kind, page'.step) /\ subs' \subseteq Sub
  BY <1>1, <1>2, <1>4 DEF Maybe
<1> QED BY <1>1, <1>5, <1>6, <1>7, <1>8, <1>9, FreshStep

LEMMA OpensOk ==
  ASSUME IInv, OpenSport \/ OpenNumber \/ OpenCategory
  PROVE  IInv'
<1>1. /\ OnPath("sport", "event_type") /\ OnPath("number", "event_type")
      /\ OnPath("category", "event")
  <2>1. SportSteps[1] = "event_type" /\ 1 \in DOMAIN SportSteps
    BY DEF SportSteps
  <2>2. CategorySteps[1] = "event" /\ 1 \in DOMAIN CategorySteps
    BY DEF CategorySteps
  <2> QED BY <2>1, <2>2 DEF OnPath, StepsOf
<1>2. "event_type" \in Steps /\ "event" \in Steps /\ "sport" \in Kinds /\ "number" \in Kinds
      /\ "category" \in Kinds
  BY DEF Steps, Kinds
<1>3. cap.org \in Maybe(Orgs) /\ cap.sport \in Maybe(Sports)
  BY CapOk DEF IInv
<1>4. CASE OpenSport \/ OpenNumber
  <2>1. PICK f \in Form : f = [Blank EXCEPT !.org = cap.org]
    BY <1>3, BlankOk
  <2>2. f.event = Nothing
    BY <2>1 DEF Blank
  <2>3. OpenPage("sport", "event_type", f, {}) \/ OpenPage("number", "event_type", f, {})
    BY <1>4, <2>1 DEF OpenSport, OpenNumber
  <2>4. {} \in SUBSET Load /\ IsFiniteSet({})
    BY FS_EmptySet
  <2> QED BY <1>1, <1>2, <2>2, <2>3, <2>4, OpenPageOk
<1>5. CASE OpenCategory
  <2>1. PICK f \in Form : f = [Blank EXCEPT !.sport = cap.sport]
    BY <1>3, BlankOk
  <2>2. f.event = Nothing /\ f.sport = cap.sport
    BY <2>1 DEF Blank
  <2>3. PICK asked \in SUBSET Load :
          /\ asked = (IF cap.sport = Nothing THEN {} ELSE {Read("previous", f)})
          /\ IsFiniteSet(asked)
          /\ \A l \in asked : l.ask = "previous" /\ l.sport # Nothing
    <3>1. CASE cap.sport = Nothing
      BY <3>1, FS_EmptySet
    <3>2. CASE cap.sport # Nothing
      <4>1. /\ Read("previous", f) \in Load /\ Read("previous", f).ask = "previous"
            /\ Read("previous", f).sport = f.sport
        BY <2>2, <3>2, AsksOk
      <4>2. IsFiniteSet({Read("previous", f)})
        BY FS_Singleton
      <4>3. {Read("previous", f)} \in SUBSET Load
        BY <4>1
      <4> QED BY <2>2, <3>2, <4>1, <4>2, <4>3
    <3> QED BY <3>1, <3>2
  <2>4. OpenPage("category", "event", f, asked)
    BY <1>5, <2>1, <2>3 DEF OpenCategory
  <2> QED BY <1>1, <1>2, <2>2, <2>3, <2>4, OpenPageOk
<1> QED BY <1>4, <1>5

LEMMA LeaveOk ==
  ASSUME IInv, Leave
  PROVE  IInv'
<1> DEFINE away(l) == [l EXCEPT !.home = FALSE]
           rest == {m \in loads : m.ask = "rows"}
<1>1. /\ page' = Nothing /\ form' = Blank /\ loads' = {away(l) : l \in rest}
      /\ subs' = {[b EXCEPT !.home = FALSE] : b \in subs} /\ UNCHANGED <<cache, db, past, cap>>
  BY DEF Leave
<1>2. past \in Past /\ loads \subseteq Load \union RowLoad /\ IsFiniteSet(loads) /\ subs \subseteq Sub
  BY Parts DEF IInv
<1>3. IsFiniteSet(loads')
  <2>1. IsFiniteSet(rest)
    BY <1>2, FS_Subset
  <2> DEFINE f == [l \in rest |-> away(l)]
  <2>2. f \in [rest -> loads'] /\ \A t \in loads' : \E l \in rest : f[l] = t
    BY <1>1
  <2> HIDE DEF f, rest
  <2> QED BY <2>1, <2>2, ImageFinite
<1>4. ASSUME NEW l \in rest
      PROVE  /\ away(l) \in RowLoad /\ away(l).event = l.event /\ away(l).org = l.org
             /\ away(l).got = l.got /\ away(l).todo = l.todo /\ away(l).known = l.known
             /\ away(l).home = FALSE /\ away(l).ask = "rows" /\ RowsOk(l)
  <2>1. l \in RowLoad /\ RowsOk(l)
    BY <1>2, LoadFields DEF IInv, LoadsInv
  <2> QED BY <2>1 DEF RowLoad
<1> HIDE DEF away
<1>5. LoadsInv'
  <2> SUFFICES ASSUME NEW l \in rest
               PROVE  away(l).ask = "rows" /\ RowsOk(away(l))'
    BY <1>1 DEF LoadsInv
  <2> QED BY <1>1, <1>4 DEF RowsOk, Linked
<1>6. SubsInv' /\ subs' \subseteq Sub
  <2>1. ASSUME NEW b \in subs, NEW c, c = [b EXCEPT !.home = FALSE]
        PROVE  c \in Sub /\ SubOk(c)' /\ (~ past.crossed => AloneOk(c)')
    <3>1. SubOk(b) /\ (~ past.crossed => AloneOk(b)) /\ b \in Sub
      BY <1>2 DEF IInv, SubsInv
    <3>2. /\ c \in Sub /\ c.kind = b.kind /\ c.f = b.f /\ c.todo = b.todo /\ c.home = FALSE
          /\ c.failed = b.failed
      BY <2>1, <3>1 DEF Sub
    <3>3. SubOk(c)'
      BY <1>1, <3>1, <3>2 DEF SubOk, Linked
    <3>4. ASSUME ~ past.crossed PROVE \A d \in subs' : d = c
      BY <1>1, <2>1, <3>1, <3>4 DEF AloneOk
    <3> QED BY <1>1, <3>2, <3>3, <3>4 DEF AloneOk
  <2> QED BY <1>1, <2>1 DEF SubsInv
<1>7. form' \in Form /\ form'.event = Nothing /\ page' \in Maybe(Page)
  BY <1>1, BlankOk DEF Blank, Maybe
<1>8. loads' \subseteq Load \union RowLoad
  BY <1>1, <1>4
<1> QED BY <1>1, <1>2, <1>3, <1>5, <1>6, <1>7, <1>8, FreshStep

LEMMA RestartOk ==
  ASSUME IInv, NEW kind \in Kinds, NEW first \in Steps, OnPath(kind, first),
         Restart(kind, first)
  PROVE  IInv'
<1> DEFINE x == [page EXCEPT !.screen = "form", !.step = first, !.type = Nothing,
                             !.offered = {}, !.previous = FALSE, !.sent = Blank]
<1>1. /\ page # Nothing /\ page.kind = kind /\ page.screen = "success" /\ page' = x
      /\ form' = Blank /\ loads' = {l \in loads : l.ask \notin {"offer", "existing"}}
      /\ past' = [past EXCEPT !.visits = past.visits + 1]
      /\ UNCHANGED <<subs, cache, db, cap>>
  BY DEF Restart
<1>2. /\ past \in Past /\ loads \subseteq Load \union RowLoad /\ IsFiniteSet(loads)
      /\ subs \subseteq Sub /\ page \in Page
  BY <1>1, Parts DEF IInv, Maybe
<1>3. x \in Page /\ x.screen = "form" /\ x.kind = kind /\ x.step = first
  BY <1>1, <1>2, BlankOk DEF Page, Maybe
<1> HIDE DEF x
<1>4. page' # Nothing
  BY <1>1, <1>3, Apart
<1>5. past' \in Past /\ past'.confirmed = past.confirmed /\ past'.crossed = past.crossed
  BY <1>1, <1>2 DEF Past
<1>6. form' \in Form /\ form'.event = Nothing
  BY <1>1, BlankOk DEF Blank
<1>7. LoadsInv'
  <2> SUFFICES ASSUME NEW l \in loads
               PROVE  (l.ask = "rows" => RowsOk(l)') /\ (l.ask # "rows" => PlainOk(l)')
    BY <1>1 DEF LoadsInv
  <2>1. (l.ask = "rows" => RowsOk(l)) /\ (l.ask # "rows" => PlainOk(l))
    BY DEF IInv, LoadsInv
  <2> QED BY <1>1, <1>3, <1>4, <1>5, <1>6, <2>1 DEF RowsOk, PlainOk, Linked, Chosen
<1>8. SubsInv'
  <2> SUFFICES ASSUME NEW b \in subs PROVE SubOk(b)' /\ past.crossed
    BY <1>1, <1>5 DEF SubsInv
  <2>1. SubOk(b)
    BY DEF IInv, SubsInv
  <2>2. past.crossed
    BY <1>1 DEF IInv, SuccessInv
  <2> QED BY <1>1, <1>4, <2>1, <2>2 DEF SubOk, Linked
<1>9. IsFiniteSet(loads') /\ loads' \subseteq Load \union RowLoad
  BY <1>1, <1>2, FS_Subset
<1>10. page' \in Maybe(Page) /\ page'.screen = "form" /\ OnPath(page'.kind, page'.step)
       /\ subs' \subseteq Sub
  BY <1>1, <1>2, <1>3 DEF Maybe
<1> QED BY <1>1, <1>5, <1>6, <1>7, <1>8, <1>9, <1>10, FreshStep

LEMMA RestartsOk ==
  ASSUME IInv, AnotherSport \/ AnotherNumber \/ AnotherCategory
  PROVE  IInv'
<1>1. /\ OnPath("sport", "event_type") /\ OnPath("number", "event_type")
      /\ OnPath("category", "event")
  <2>1. SportSteps[1] = "event_type" /\ 1 \in DOMAIN SportSteps
    BY DEF SportSteps
  <2>2. CategorySteps[1] = "event" /\ 1 \in DOMAIN CategorySteps
    BY DEF CategorySteps
  <2> QED BY <2>1, <2>2 DEF OnPath, StepsOf
<1>2. "event_type" \in Steps /\ "event" \in Steps /\ "sport" \in Kinds /\ "number" \in Kinds
      /\ "category" \in Kinds
  BY DEF Steps, Kinds
<1> QED BY <1>1, <1>2, RestartOk DEF AnotherSport, AnotherNumber, AnotherCategory

-----------------------------------------------------------------------------
(* The table of survey 3.                                                  *)

\* Submissions, when page and server stay what they are.
LEMMA SubsSame ==
  ASSUME SubsInv, SuccessInv, UNCHANGED <<page, subs, db>>, past'.crossed = past.crossed
  PROVE  SubsInv' /\ SuccessInv'
BY DEF SubsInv, SuccessInv, SubOk, AloneOk, Kept, Linked

\* A step of the table: reads, the form and the cache may change, the server and the
\* submissions do not.
LEMMA NumberStep ==
  ASSUME IInv, form' \in Form, cache' \in Cache, past' \in Past,
         page' = page \/ /\ page \in Page /\ page' \in Page /\ page'.kind = page.kind
                         /\ page'.screen = page.screen /\ page'.sent = page.sent
                         /\ page'.step = page.step,
         loads' \subseteq Load \union RowLoad, IsFiniteSet(loads'), LoadsInv', TableInv', CacheInv',
         past'.crossed = past.crossed, UNCHANGED <<subs, db, cap>>
  PROVE  IInv'
<1>1. TypeInv /\ Grows
  BY DEF IInv, Grows
<1>2. page' \in Maybe(Page)
  BY <1>1, Parts DEF Maybe
<1>3. TypeInv'
  BY <1>1, <1>2, Parts DEF TypeInv, TypeOK
<1>4. SubsInv' /\ SuccessInv'
  <2>1. CASE page' = page
    BY <2>1, SubsSame DEF IInv
  <2>2. CASE page' # page
    BY <1>1, <2>2, SubsFrame DEF IInv
  <2> QED BY <2>1, <2>2
<1>5. StepInv'
  <2>1. page' # Nothing => page # Nothing /\ page'.kind = page.kind /\ page'.step = page.step
    BY Apart
  <2>2. page' # Nothing => OnPath(page'.kind, page'.step)
    BY <2>1 DEF IInv, StepInv
  <2> QED BY <2>2 DEF StepInv, OnPath, StepsOf, CategorySteps, SportSteps
<1> QED BY <1>3, <1>4, <1>5 DEF IInv

\* The read of a table that is there, when nothing but the page or the form changes:
\* it stays one of the form's, or another one is known to be the last.
LEMMA TableRead ==
  ASSUME IInv, NEW l \in loads, UNCHANGED db, past'.confirmed = past.confirmed,
         page' = page \/ (page \in Page /\ page' \in Page /\ page'.kind = page.kind),
         \/ form'.event = form.event /\ form'.org = form.org /\ past'.raced = past.raced
         \/ form'.event = Nothing \/ form'.org = Nothing
         \/ past'.raced = (\E k \in RowLoads : k.home)
  PROVE  (l.ask = "rows" => RowsOk(l)') /\ (l.ask # "rows" => PlainOk(l)')
<1>1. (l.ask = "rows" => RowsOk(l)) /\ (l.ask # "rows" => PlainOk(l))
  BY DEF IInv, LoadsInv
<1>2. page # Nothing => page' # Nothing /\ page'.kind = page.kind
  BY Apart
<1>3. CASE l.ask = "rows"
  <2>1. l.home /\ Chosen' /\ ~ past'.raced => l.event = form'.event /\ l.org = form'.org
    BY <1>1, <1>3 DEF RowsOk, Chosen, RowLoads
  <2> QED BY <1>1, <1>2, <1>3, <2>1 DEF RowsOk, Linked
<1>4. CASE l.ask # "rows"
  BY <1>1, <1>2, <1>4 DEF PlainOk
<1> QED BY <1>3, <1>4

\* There is a number for one more read.
LEMMA FreeNumber ==
  ASSUME IInv
  PROVE  \E n \in 0 .. Cardinality(RowLoads) : \A l \in RowLoads : l.nr # n
<1>1. IsFiniteSet(loads) /\ loads \subseteq Load \union RowLoad
  BY Parts DEF IInv
<1>2. IsFiniteSet(RowLoads)
  BY <1>1, FS_Subset DEF RowLoads
<1>3. Cardinality(RowLoads) \in Nat
  BY <1>2, FS_CardinalityType
<1> DEFINE N == {l.nr : l \in RowLoads}
           f == [l \in RowLoads |-> l.nr]
           I == 0 .. Cardinality(RowLoads)
<1>4. f \in [RowLoads -> N] /\ \A n \in N : \E l \in RowLoads : f[l] = n
  OBVIOUS
<1> HIDE DEF f
<1>5. IsFiniteSet(N) /\ Cardinality(N) <= Cardinality(RowLoads)
  <2> HIDE DEF N
  <2> QED BY <1>2, <1>4, ImageFinite
<1>6. IsFiniteSet(I) /\ Cardinality(I) = Cardinality(RowLoads) + 1
  BY <1>3, FS_Interval
<1>7. ~ (I \subseteq N)
  <2> SUFFICES ASSUME I \subseteq N PROVE FALSE
    OBVIOUS
  <2> HIDE DEF I, N
  <2>1. Cardinality(I) <= Cardinality(N)
    BY <1>5, FS_Subset
  <2>2. Cardinality(N) \in Nat
    BY <1>5, FS_CardinalityType
  <2> QED BY <1>3, <1>5, <1>6, <2>1, <2>2
<1> QED BY <1>7

LEMMA LoadRowsOk ==
  ASSUME IInv, page \in Page, page.kind = "number", NEW f \in Form, LoadRows(f),
         UNCHANGED <<subs, cache, db, cap>>
  PROVE  IInv'
<1>1. /\ loads \subseteq Load \union RowLoad /\ IsFiniteSet(loads) /\ cache \in Cache
      /\ past \in Past /\ page # Nothing /\ TypeInv /\ Grows
  BY Parts, Apart DEF IInv, Grows
<1>2. CASE f.event = Nothing \/ f.org = Nothing
  <2>1. form' = f /\ UNCHANGED <<page, loads, past>>
    BY <1>2 DEF LoadRows
  <2>2. LoadsInv'
    <3>1. \A l \in loads : (l.ask = "rows" => RowsOk(l)') /\ (l.ask # "rows" => PlainOk(l)')
      BY <1>2, <2>1, TableRead
    <3> QED BY <2>1, <3>1 DEF LoadsInv
  <2>3. TableInv'
    BY <1>2, <2>1 DEF TableInv, Chosen
  <2>4. CacheInv'
    BY <1>1, <2>1, CacheFrame DEF IInv
  <2> QED BY <1>1, <2>1, <2>2, <2>3, <2>4, NumberStep
<1>3. CASE f.event # Nothing /\ f.org # Nothing
  <2> DEFINE known == cache.rows[<<f.event, f.org>>]
  <2>1. past' = [past EXCEPT !.raced = \E l \in RowLoads : l.home]
    BY <1>3 DEF LoadRows
  <2>2. /\ past' \in Past /\ past'.confirmed = past.confirmed /\ past'.crossed = past.crossed
        /\ past'.raced = (\E l \in RowLoads : l.home)
    <3> DEFINE r == \E l \in RowLoads : l.home
    <3>1. r \in BOOLEAN
      OBVIOUS
    <3>2. past' = [past EXCEPT !.raced = r]
      BY <2>1
    <3> HIDE DEF r
    <3>3. past' \in Past /\ past'.raced = r
      BY <1>1, <3>1, <3>2 DEF Past
    <3>4. past'.confirmed = past.confirmed /\ past'.crossed = past.crossed
      BY <1>1, <3>2 DEF Past
    <3> QED BY <3>3, <3>4 DEF r
  <2>3. f.event \in Events /\ f.org \in Orgs
    BY <1>3, FormFields DEF Maybe
  <2>4. CacheInv'
    BY <1>1, <2>2, CacheFrame DEF IInv
  <2>5. ASSUME NEW b \in BOOLEAN, NEW x, x = [page EXCEPT !.busy = b]
        PROVE  /\ x \in Page /\ x.kind = page.kind /\ x.screen = page.screen /\ x.sent = page.sent
               /\ x.step = page.step
    BY <2>5 DEF Page
  <2>6. CASE /\ known # Nothing /\ form' = [f EXCEPT !.rows = AllZero(known.got)]
             /\ page' = [page EXCEPT !.busy = FALSE] /\ UNCHANGED loads
    <3>1. known.got \subseteq Linked(f.event, f.org) /\ known.got \subseteq Sports
      BY <2>3, <2>6 DEF IInv, CacheInv, CachedOk, Linked
    <3>2. /\ form' \in Form /\ form'.event = f.event /\ form'.org = f.org
          /\ DOMAIN form'.rows = known.got
      BY <2>6, <3>1, AllZeroOk
    <3>3. /\ page' \in Page /\ page'.kind = page.kind /\ page'.screen = page.screen
          /\ page'.sent = page.sent /\ page'.step = page.step
      BY <2>5, <2>6
    <3>4. LoadsInv'
      <4>1. \A l \in loads : (l.ask = "rows" => RowsOk(l)') /\ (l.ask # "rows" => PlainOk(l)')
        BY <2>2, <3>3, TableRead
      <4> QED BY <2>6, <4>1 DEF LoadsInv
    <3>5. TableInv'
      BY <3>1, <3>2 DEF TableInv, Linked
    <3> HIDE DEF known
    <3> QED BY <1>1, <2>2, <2>4, <2>6, <3>2, <3>3, <3>4, <3>5, NumberStep
  <2>7. CASE ~ (/\ known # Nothing /\ form' = [f EXCEPT !.rows = AllZero(known.got)]
                /\ page' = [page EXCEPT !.busy = FALSE] /\ UNCHANGED loads)
    <3>1. PICK n \in Nat : n = CHOOSE k \in 0 .. Cardinality(RowLoads) : \A l \in RowLoads : l.nr # k
      BY FreeNumber
    <3>2. PICK m \in RowLoad : m = [ask |-> "rows", event |-> f.event, org |-> f.org,
                                    home |-> TRUE, nr |-> n, todo |-> SportsOf[f.event],
                                    got |-> {}, known |-> TRUE]
      BY <2>3, Apart DEF RowLoad
    <3>3. /\ form' = f /\ page' = [page EXCEPT !.busy = TRUE] /\ loads' = loads \union {m}
      BY <1>3, <2>7, <3>1, <3>2 DEF LoadRows, RowsKey
    <3>4. /\ page' \in Page /\ page'.kind = page.kind /\ page'.screen = page.screen
          /\ page'.sent = page.sent /\ page'.step = page.step
      BY <2>5, <3>3
    <3>5. RowsOk(m)' /\ m.ask = "rows" /\ m.home
      BY <3>2, <3>3, <3>4, <1>1, Apart, PageAssumption DEF RowsOk
    <3>6. LoadsInv'
      <4>1. \A l \in loads : (l.ask = "rows" => RowsOk(l)') /\ (l.ask # "rows" => PlainOk(l)')
        BY <2>2, <3>4, TableRead
      <4> QED BY <3>3, <3>5, <4>1 DEF LoadsInv
    <3>7. TableInv'
      BY <3>3, <3>5 DEF TableInv, HomeRows
    <3>8. IsFiniteSet(loads') /\ loads' \subseteq Load \union RowLoad
      BY <1>1, <3>3, FS_AddElement
    <3> QED BY <1>1, <2>2, <2>4, <3>3, <3>4, <3>6, <3>7, <3>8, NumberStep
  <2> QED BY <2>6, <2>7
<1> QED BY <1>2, <1>3

LEMMA NumberChoicesOk ==
  ASSUME IInv, (\E e \in Events : ChooseNumberEvent(e)) \/ (\E o \in Orgs : ChooseNumberOrg(o))
  PROVE  IInv'
<1>1. page \in Page /\ page.kind = "number" /\ form \in Form
  BY Parts DEF IInv, ChooseNumberEvent, ChooseNumberOrg, OnStep, On, Maybe
<1>2. UNCHANGED <<subs, cache, db, cap>>
  BY DEF ChooseNumberEvent, ChooseNumberOrg
<1>3. ASSUME NEW e \in Events, ChooseNumberEvent(e) PROVE IInv'
  <2>1. [form EXCEPT !.event = e] \in Form
    BY <1>1 DEF Form, Maybe
  <2>2. LoadRows([form EXCEPT !.event = e])
    BY <1>3 DEF ChooseNumberEvent
  <2> QED BY <1>1, <1>2, <2>1, <2>2, LoadRowsOk
<1>4. ASSUME NEW o \in Orgs, ChooseNumberOrg(o) PROVE IInv'
  <2>1. [form EXCEPT !.org = o] \in Form
    BY <1>1 DEF Form, Maybe
  <2>2. LoadRows([form EXCEPT !.org = o])
    BY <1>4 DEF ChooseNumberOrg
  <2> QED BY <1>1, <1>2, <2>1, <2>2, LoadRowsOk
<1> QED BY <1>3, <1>4

LEMMA TheRowLoad ==
  ASSUME IInv, NEW l \in RowLoads
  PROVE  /\ l \in loads /\ l \in RowLoad /\ l.ask = "rows" /\ RowsOk(l) /\ l.event \in Events
         /\ l.org \in Orgs /\ l.home \in BOOLEAN /\ l.todo \subseteq Sports
         /\ l.got \subseteq Sports /\ l.known \in BOOLEAN
<1>1. l \in loads /\ l.ask = "rows" /\ l \in Load \union RowLoad /\ RowsOk(l)
  BY Parts DEF RowLoads, IInv, LoadsInv
<1> QED BY <1>1, LoadFields

LEMMA LookUpOk ==
  ASSUME IInv, NEW l \in RowLoads, NEW s \in l.todo, LookUp(l, s)
  PROVE  IInv'
<1>1. PICK heard \in BOOLEAN :
        LET there == heard /\ db.links[<<l.event, l.org, s>>] # Nothing
        IN loads' = (loads \ {l}) \union
             {[l EXCEPT !.todo = l.todo \ {s}, !.known = l.known /\ heard,
                        !.got = IF there THEN l.got \union {s} ELSE l.got]}
  BY DEF LookUp
<1>2. /\ l \in loads /\ l \in RowLoad /\ l.ask = "rows" /\ RowsOk(l) /\ l.event \in Events
      /\ l.org \in Orgs /\ l.todo \subseteq Sports /\ l.got \subseteq Sports /\ l.known \in BOOLEAN
  BY TheRowLoad
<1>3. UNCHANGED <<page, form, subs, cache, db, past, cap>>
  BY DEF LookUp
<1> DEFINE there == heard /\ db.links[<<l.event, l.org, s>>] # Nothing
           g == IF there THEN l.got \union {s} ELSE l.got
           k == l.known /\ heard
           t == l.todo \ {s}
<1>4. g \subseteq Sports /\ k \in BOOLEAN /\ t \subseteq Sports
  BY <1>2
<1>5. g \subseteq Linked(l.event, l.org)
  BY <1>2 DEF RowsOk, Linked
<1>6. k => past.confirmed[<<l.event, l.org>>] \intersect SportsOf[l.event] \subseteq g \union t
  <2> SUFFICES ASSUME l.known, heard,
                      NEW u \in past.confirmed[<<l.event, l.org>>] \intersect SportsOf[l.event]
               PROVE  u \in g \union t
    OBVIOUS
  <2>1. u \in l.got \union l.todo
    BY <1>2 DEF RowsOk
  <2>2. u \in Linked(l.event, l.org)
    BY <1>2 DEF IInv, CacheInv
  <2> QED BY <2>1, <2>2 DEF Linked
<1> DEFINE m == [l EXCEPT !.todo = t, !.known = k, !.got = g]
<1>7. loads' = (loads \ {l}) \union {m}
  BY <1>1
<1> HIDE DEF g, k, t, there
<1>8. /\ m \in RowLoad /\ m.ask = "rows" /\ m.event = l.event /\ m.org = l.org /\ m.home = l.home
      /\ m.got = g /\ m.todo = t /\ m.known = k
  BY <1>2, <1>4 DEF RowLoad
<1> HIDE DEF m
<1>9. PICK n \in RowLoad : /\ n = m
  BY <1>8
<1>10. RowsOk(n)
  BY <1>2, <1>5, <1>6, <1>8, <1>9 DEF RowsOk
<1>11. RowsOk(n)'
  BY <1>3, <1>10 DEF RowsOk, Linked, Chosen
<1>12. LoadsInv'
  <2>1. \A j \in loads : (j.ask = "rows" => RowsOk(j)') /\ (j.ask # "rows" => PlainOk(j)')
    BY <1>3, TableRead
  <2> QED BY <1>7, <1>8, <1>9, <1>11, <2>1 DEF LoadsInv
<1>13. TableInv'
  <2>1. HomeRows' = {} => HomeRows = {}
    BY <1>2, <1>7, <1>8 DEF HomeRows
  <2> QED BY <1>3, <2>1 DEF IInv, TableInv, Chosen, Linked
<1>14. loads \subseteq Load \union RowLoad /\ IsFiniteSet(loads) /\ form \in Form /\ cache \in Cache
       /\ past \in Past
  BY Parts DEF IInv
<1>15. loads' \subseteq Load \union RowLoad
  BY <1>7, <1>8, <1>14
<1>16. IsFiniteSet(loads')
  <2>1. IsFiniteSet(loads \ {l})
    BY <1>14, FS_RemoveElement
  <2> QED BY <1>7, <2>1, FS_AddElement
<1>17. CacheInv'
  BY <1>3 DEF IInv, CacheInv, CachedOk, Linked
<1> QED BY <1>3, <1>12, <1>13, <1>14, <1>15, <1>16, <1>17, NumberStep

\* The table, or an empty one, is shown.
LEMMA ShowRowsOk ==
  ASSUME IInv, NEW l \in RowLoads, NEW got \in SUBSET l.got, ShowRows(l, got), cache' \in Cache,
         CacheInv', cap' = cap
  PROVE  IInv'
<1>1. /\ l \in loads /\ l \in RowLoad /\ l.ask = "rows" /\ RowsOk(l) /\ l.event \in Events
      /\ l.org \in Orgs /\ l.got \subseteq Sports /\ l.home \in BOOLEAN
  BY TheRowLoad
<1>2. loads' = loads \ {l} /\ UNCHANGED <<subs, db, past, cap>>
  BY DEF ShowRows
<1>3. loads \subseteq Load \union RowLoad /\ IsFiniteSet(loads) /\ form \in Form /\ past \in Past
      /\ page \in Maybe(Page)
  BY Parts DEF IInv
<1>4. IsFiniteSet(loads') /\ loads' \subseteq Load \union RowLoad
  BY <1>2, <1>3, FS_RemoveElement
<1>5. CASE l.home
  <2>1. page \in Page
    BY <1>1, <1>3, <1>5 DEF RowsOk, Maybe
  <2>2. form' = [form EXCEPT !.rows = AllZero(got)] /\ page' = [page EXCEPT !.busy = FALSE]
    BY <1>5 DEF ShowRows
  <2>3. /\ form' \in Form /\ form'.event = form.event /\ form'.org = form.org
        /\ DOMAIN form'.rows = got
    BY <1>1, <1>3, <2>2, AllZeroOk
  <2>4. /\ page' \in Page /\ page'.kind = page.kind /\ page'.screen = page.screen
        /\ page'.sent = page.sent /\ page'.step = page.step
    BY <2>1, <2>2 DEF Page
  <2>5. LoadsInv'
    <3>1. \A j \in loads : (j.ask = "rows" => RowsOk(j)') /\ (j.ask # "rows" => PlainOk(j)')
      BY <1>2, <2>1, <2>3, <2>4, TableRead
    <3> QED BY <1>2, <3>1 DEF LoadsInv
  <2>6. TableInv'
    <3> SUFFICES ASSUME Chosen, ~ past.raced PROVE got \subseteq Linked(form.event, form.org)
      BY <1>2, <2>3 DEF TableInv, Chosen, Linked
    <3> QED BY <1>1, <1>5 DEF RowsOk
  <2> QED BY <1>2, <1>3, <1>4, <2>1, <2>3, <2>4, <2>5, <2>6, NumberStep
<1>6. CASE ~ l.home
  <2>1. UNCHANGED <<page, form>>
    BY <1>6 DEF ShowRows
  <2>2. LoadsInv'
    <3>1. \A j \in loads : (j.ask = "rows" => RowsOk(j)') /\ (j.ask # "rows" => PlainOk(j)')
      BY <1>2, <2>1, TableRead
    <3> QED BY <1>2, <3>1 DEF LoadsInv
  <2>3. TableInv'
    <3>1. HomeRows' = HomeRows
      BY <1>2, <1>6 DEF HomeRows
    <3> QED BY <1>2, <2>1, <3>1 DEF IInv, TableInv, Chosen, Linked
  <2> QED BY <1>2, <1>3, <1>4, <2>1, <2>2, <2>3, NumberStep
<1> QED BY <1>5, <1>6

LEMMA RowsEndOk ==
  ASSUME IInv, NEW l \in RowLoads, RowsArrive(l) \/ RowsFail(l)
  PROVE  IInv'
<1>1. /\ l \in loads /\ l \in RowLoad /\ l.ask = "rows" /\ RowsOk(l) /\ l.event \in Events
      /\ l.org \in Orgs /\ l.got \subseteq Sports /\ l.known \in BOOLEAN
  BY TheRowLoad
<1>2. cache \in Cache /\ cache.rows \in [Places -> Maybe([got: SUBSET Sports, known: BOOLEAN])]
  BY Parts, Fields DEF IInv
<1>3. CASE RowsArrive(l)
  <2> DEFINE p == <<l.event, l.org>>
             c == [got |-> l.got, known |-> l.known]
             r == [cache.rows EXCEPT ![p] = c]
  <2>1. l.todo = {} /\ cache' = [cache EXCEPT !.rows = r] /\ ShowRows(l, l.got)
    BY <1>3 DEF RowsArrive, RowsKey
  <2>2. p \in Places /\ c \in Maybe([got: SUBSET Sports, known: BOOLEAN])
    BY <1>1 DEF Places, Maybe
  <2>3. r \in [Places -> Maybe([got: SUBSET Sports, known: BOOLEAN])] /\ r[p] = c
    BY <1>2, <2>2
  <2>4. cache' \in Cache /\ cache'.rows = r
    <3> HIDE DEF r
    <3> QED BY <1>2, <2>1, <2>3 DEF Cache
  <2>5. UNCHANGED <<db, past, cap>>
    BY <2>1, <1>3 DEF ShowRows, RowsArrive
  <2>6. CacheInv'
    <3> SUFFICES ASSUME NEW e \in Events, NEW o \in Orgs
                 PROVE  CachedOk(e, o)' /\ past.confirmed[<<e, o>>] \subseteq Linked(e, o)
      BY <2>5 DEF CacheInv, Linked
    <3>1. CachedOk(e, o) /\ past.confirmed[<<e, o>>] \subseteq Linked(e, o)
      BY DEF IInv, CacheInv
    <3>2. CASE e = l.event /\ o = l.org
      <4>1. cache'.rows[<<e, o>>] = c
        BY <2>3, <2>4, <3>2
      <4>2. c.got = l.got /\ c.known = l.known
        OBVIOUS
      <4>3. /\ l.got \subseteq Linked(e, o)
            /\ l.known => past.confirmed[<<e, o>>] \intersect SportsOf[e] \subseteq l.got
        BY <1>1, <2>1, <3>2 DEF RowsOk
      <4> HIDE DEF c
      <4> QED BY <2>5, <3>1, <4>1, <4>2, <4>3 DEF CachedOk, Linked
    <3>3. CASE ~ (e = l.event /\ o = l.org)
      <4>1. cache'.rows[<<e, o>>] = cache.rows[<<e, o>>]
        BY <1>2, <2>4, <3>3 DEF Places
      <4> QED BY <2>5, <3>1, <4>1 DEF CachedOk, Linked
    <3> QED BY <3>1, <3>2, <3>3
  <2> QED BY <2>1, <2>4, <2>5, <2>6, ShowRowsOk
<1>4. CASE RowsFail(l)
  <2>1. ShowRows(l, {}) /\ UNCHANGED <<cache, db, past, cap>>
    BY <1>4 DEF RowsFail, ShowRows
  <2>2. CacheInv'
    BY <2>1 DEF IInv, CacheInv, CachedOk, Linked
  <2> QED BY <1>2, <2>1, <2>2, ShowRowsOk
<1> QED BY <1>3, <1>4

-----------------------------------------------------------------------------
(* Submissions.                                                            *)

LEMMA SendOk ==
  ASSUME IInv, NEW kind \in Kinds, OnStep(kind, "review"), FormOk(kind, form),
         Send(kind, Goals(kind, form))
  PROVE  IInv'
<1>1. /\ page \in Page /\ page.kind = kind /\ page.screen = "form" /\ form \in Form
      /\ subs \subseteq Sub /\ past \in Past /\ TypeInv /\ page # Nothing
  BY Parts DEF IInv, OnStep, On, Maybe
<1>2. UNCHANGED <<form, loads, cache, db, cap>>
  BY DEF Send
<1>3. Goals(kind, form) \subseteq Sports
  BY <1>1, FormFields DEF Goals, FormOk, Kinds
<1>4. PICK n \in Sub :
        /\ n = [kind |-> kind, f |-> form, todo |-> Goals(kind, form), home |-> TRUE,
                failed |-> FALSE]
        /\ n.kind = kind /\ n.f = form /\ n.todo = Goals(kind, form) /\ n.home /\ ~ n.failed
  <2> DEFINE n == [kind |-> kind, f |-> form, todo |-> Goals(kind, form),
                   home |-> TRUE, failed |-> FALSE]
  <2>1. n \in Sub
    BY <1>1, <1>3 DEF Sub
  <2>2. n.kind = kind /\ n.f = form /\ n.todo = Goals(kind, form) /\ n.home /\ ~ n.failed
    OBVIOUS
  <2> QED BY <2>1, <2>2
<1>5. subs' = subs \union {n}
  <2>1. subs' = subs \union {[kind |-> kind, f |-> form, todo |-> Goals(kind, form), home |-> TRUE,
                             failed |-> FALSE]}
    BY DEF Send
  <2>2. n = [kind |-> kind, f |-> form, todo |-> Goals(kind, form), home |-> TRUE, failed |-> FALSE]
    BY <1>4
  <2> QED BY <2>1, <2>2
<1> DEFINE x == [page EXCEPT !.sent = form]
           more == subs # {}
           q == [past EXCEPT !.crossed = more, !.sends = past.sends + 1]
<1>6. page' = x /\ past' = q
  BY DEF Send
<1>7. /\ x \in Page /\ x.kind = kind /\ x.screen = "form" /\ x.sent = form /\ x.step = page.step
  BY <1>1 DEF Page
<1>8. more \in BOOLEAN
  OBVIOUS
<1> HIDE DEF more
<1>9. q \in Past /\ q.crossed = more /\ q.confirmed = past.confirmed /\ q.raced = past.raced
  <2>1. past.sends + 1 \in Nat
    BY <1>1, Fields
  <2>2. q \in Past
    BY <1>1, <1>8, <2>1 DEF Past
  <2>3. q.crossed = more
    BY <1>1 DEF Past
  <2>4. q.confirmed = past.confirmed /\ q.raced = past.raced
    BY <1>1 DEF Past
  <2> QED BY <2>2, <2>3, <2>4
<1> HIDE DEF x, q
<1>10. more <=> subs # {}
  BY DEF more
<1>11. page' # Nothing
  BY <1>6, <1>7, Apart
<1>12. TypeInv'
  BY <1>1, <1>2, <1>5, <1>6, <1>7, <1>9, Parts DEF TypeInv, TypeOK, Maybe
<1>13. Grows
  BY <1>2 DEF Grows
<1>14. LoadsInv'
  <2>1. \A l \in loads : (l.ask = "rows" => RowsOk(l)') /\ (l.ask # "rows" => PlainOk(l)')
    BY <1>1, <1>2, <1>6, <1>7, <1>9, <1>13, LoadFrame DEF IInv
  <2> QED BY <1>2, <2>1 DEF LoadsInv
<1>15. TableInv'
  BY <1>1, <1>2, <1>6, <1>7, <1>9 DEF IInv, TableInv, Chosen, HomeRows, Linked
<1>16. CacheInv'
  BY <1>1, <1>2, <1>6, <1>9, <1>13, CacheFrame DEF IInv
<1>17. SubsInv'
  <2>1. ASSUME NEW b \in subs PROVE SubOk(b)' /\ past'.crossed
    <3>1. SubOk(b)
      BY DEF IInv, SubsInv
    <3> QED BY <1>2, <1>6, <1>9, <1>10, <1>11, <3>1 DEF SubOk, Linked
  <2>2. SubOk(n)'
    BY <1>4, <1>11 DEF SubOk
  <2>3. ~ past'.crossed => AloneOk(n)'
    BY <1>4, <1>5, <1>6, <1>7, <1>9, <1>10 DEF AloneOk
  <2> QED BY <1>5, <2>1, <2>2, <2>3 DEF SubsInv
<1>18. SuccessInv'
  BY <1>6, <1>7 DEF SuccessInv
<1>19. StepInv'
  <2>1. OnPath(page'.kind, page'.step)
    BY <1>1, <1>6, <1>7 DEF IInv, StepInv
  <2> QED BY <1>2, <2>1 DEF StepInv, OnPath, StepsOf, CategorySteps, SportSteps
<1> QED BY <1>12, <1>14, <1>15, <1>16, <1>17, <1>18, <1>19 DEF IInv

LEMMA SendsOk ==
  ASSUME IInv, SubmitSport \/ SubmitNumber \/ SubmitCategory
  PROVE  IInv'
<1>1. form \in Form
  BY Parts DEF IInv
<1>2. form.event \in Maybe(Events) /\ form.org \in Maybe(Orgs) /\ form.sport \in Maybe(Sports)
  BY <1>1, FormFields
<1>3. "sport" \in Kinds /\ "number" \in Kinds /\ "category" \in Kinds
  BY DEF Kinds
<1>4. CASE SubmitSport
  <2>1. FormOk("sport", form)
    BY <1>2, <1>4 DEF SubmitSport, SportValid, FormOk, Maybe
  <2>2. OnStep("sport", "review") /\ Send("sport", Goals("sport", form))
    BY <1>4 DEF SubmitSport, Goals
  <2> QED BY <1>3, <2>1, <2>2, SendOk
<1>5. CASE SubmitNumber
  <2>1. FormOk("number", form)
    BY <1>2, <1>5 DEF SubmitNumber, NumberValid, FormOk, Maybe
  <2>2. OnStep("number", "review") /\ Send("number", Goals("number", form))
    BY <1>5 DEF SubmitNumber, Goals
  <2> QED BY <1>3, <2>1, <2>2, SendOk
<1>6. CASE SubmitCategory
  <2>1. FormOk("category", form)
    BY <1>2, <1>6 DEF SubmitCategory, CategoryValid, FormOk, Maybe
  <2>2. OnStep("category", "review") /\ Send("category", Goals("category", form))
    BY <1>6 DEF SubmitCategory, Goals
  <2> QED BY <1>3, <2>1, <2>2, SendOk
<1> QED BY <1>4, <1>5, <1>6

\* What the server's answer to one request of a submission may be: it takes no link away,
\* changes only what was asked for, and does that when it says so.
AnswerOk(b, s, answer, done) ==
  /\ answer.db \in Tables
  /\ \A y \in Slots : db.links[y] # Nothing => answer.db.links[y] # Nothing
  /\ \A y \in Slots : y # <<b.f.event, b.f.org, s>> => answer.db.numbers[y] = db.numbers[y]
  /\ \A y \in Events \X Sports : y # <<b.f.event, s>> => answer.db.cats[y] = db.cats[y]
  /\ b.kind # "number" => answer.db.numbers = db.numbers
  /\ answer.code \in done =>
       /\ b.kind # "category" => answer.db.links[<<b.f.event, b.f.org, s>>] # Nothing
       /\ b.kind = "number" => answer.db.numbers[<<b.f.event, b.f.org, s>>] = b.f.rows[s]
       /\ b.kind = "category" => answer.db.cats[<<b.f.event, s>>] = b.f.names

LEMMA TheSub ==
  ASSUME IInv, NEW b \in subs
  PROVE  /\ b \in Sub /\ b.kind \in Kinds /\ b.f \in Form /\ b.f.event \in Events
         /\ (b.kind # "category" => b.f.org \in Orgs) /\ (b.kind = "category" => b.f.sport \in Sports)
         /\ SubOk(b) /\ b.todo \subseteq Goals(b.kind, b.f) /\ b.todo \subseteq Sports
         /\ (~ past.crossed => AloneOk(b)) /\ b.home \in BOOLEAN /\ b.failed \in BOOLEAN
         /\ Goals(b.kind, b.f) \subseteq Sports
         /\ (b.home => page \in Page /\ page # Nothing)
<1>1. b \in Sub /\ SubOk(b) /\ (~ past.crossed => AloneOk(b)) /\ page \in Maybe(Page)
  BY Parts DEF IInv, SubsInv
<1>2. b.kind \in Kinds /\ b.f \in Form /\ b.todo \subseteq Sports /\ b.home \in BOOLEAN /\ b.failed \in BOOLEAN
  BY <1>1, SubFields
<1>3. Goals(b.kind, b.f) \subseteq Sports
  BY <1>1, <1>2, FormFields DEF Goals, SubOk, FormOk, Kinds
<1> QED BY <1>1, <1>2, <1>3 DEF SubOk, FormOk, Maybe

LEMMA AnsweredOk ==
  ASSUME IInv, NEW b \in subs, NEW s \in b.todo, NEW answer, NEW done,
         AnswerOk(b, s, answer, done), Answered(b, s, answer, done)
  PROVE  IInv'
<1>1. /\ b \in Sub /\ b.kind \in Kinds /\ b.f \in Form /\ b.f.event \in Events
      /\ (b.kind # "category" => b.f.org \in Orgs) /\ (b.kind = "category" => b.f.sport \in Sports)
      /\ SubOk(b) /\ b.todo \subseteq Goals(b.kind, b.f) /\ b.todo \subseteq Sports
      /\ (~ past.crossed => AloneOk(b)) /\ b.failed \in BOOLEAN
      /\ Goals(b.kind, b.f) \subseteq Sports
  BY TheSub
<1>2. TypeInv /\ subs \subseteq Sub /\ db \in Tables
  BY Parts DEF IInv
<1>3. PICK ok \in BOOLEAN :
        /\ db' = db \/ db' = answer.db
        /\ ok => db' = answer.db /\ answer.code \in done
        /\ LET rest == [b EXCEPT !.todo = b.todo \ {s}, !.failed = b.failed \/ ~ ok]
           IN subs' = (subs \ {b}) \union (IF rest.todo = {} /\ rest.failed THEN {} ELSE {rest})
        /\ UNCHANGED <<page, form, loads, cache, past, cap>>
  <2>1. PICK arrives \in BOOLEAN, heard \in BOOLEAN :
          LET ok == arrives /\ heard /\ answer.code \in done
              rest == [b EXCEPT !.todo = b.todo \ {s}, !.failed = b.failed \/ ~ ok]
          IN /\ db' = IF arrives THEN answer.db ELSE db
             /\ subs' = (subs \ {b}) \union (IF rest.todo = {} /\ rest.failed THEN {} ELSE {rest})
             /\ UNCHANGED <<page, form, loads, cache, past, cap>>
    BY DEF Answered
  <2> DEFINE ok == arrives /\ heard /\ answer.code \in done
  <2>2. ok \in BOOLEAN /\ (ok => arrives /\ answer.code \in done)
    OBVIOUS
  <2>3. LET rest == [b EXCEPT !.todo = b.todo \ {s}, !.failed = b.failed \/ ~ ok]
        IN  subs' = (subs \ {b}) \union (IF rest.todo = {} /\ rest.failed THEN {} ELSE {rest})
    BY <2>1
  <2>4. (db' = IF arrives THEN answer.db ELSE db) /\ UNCHANGED <<page, form, loads, cache, past, cap>>
    BY <2>1
  <2> HIDE DEF ok
  <2> QED BY <2>2, <2>3, <2>4
<1> DEFINE t == b.todo \ {s}
           g == b.failed \/ ~ ok
           r == [b EXCEPT !.todo = t, !.failed = g]
<1>4. g \in BOOLEAN
  OBVIOUS
<1>5. /\ r \in Sub /\ r.kind = b.kind /\ r.f = b.f /\ r.todo = t /\ r.home = b.home /\ r.failed = g
  BY <1>1, <1>4 DEF Sub
<1>6. /\ \A c \in subs' : (c \in subs /\ c # b) \/ (c = r /\ ~ (t = {} /\ g))
      /\ UNCHANGED <<page, form, loads, cache, past, cap>>
  BY <1>3, <1>5
<1> HIDE DEF r, g
<1>7. Grows /\ db' \in Tables
  BY <1>2, <1>3 DEF AnswerOk, Grows
<1>8. TypeInv'
  <2>1. subs' \subseteq Sub
    BY <1>2, <1>5, <1>6
  <2> QED BY <1>2, <1>6, <1>7, <2>1 DEF TypeInv, TypeOK
<1>9. LoadsInv' /\ TableInv'
  BY <1>2, <1>6, <1>7, GrowFrame DEF IInv
<1>10. CacheInv'
  BY <1>2, <1>6, <1>7, CacheFrame DEF IInv
<1>11. StepInv'
  BY <1>6 DEF IInv, StepInv, OnPath, StepsOf, CategorySteps, SportSteps
<1>12. SuccessInv'
  BY <1>6 DEF IInv, SuccessInv
<1>13. ASSUME NEW c \in subs PROVE SubOk(c)'
  <2>1. SubOk(c) /\ c.f.event \in Events /\ (c.kind # "category" => c.f.org \in Orgs)
    BY TheSub
  <2>2. c.kind # "category" => Linked(c.f.event, c.f.org) \subseteq Linked(c.f.event, c.f.org)'
    BY <1>7, <2>1, LinkedGrows
  <2> QED BY <1>6, <2>1, <2>2 DEF SubOk
<1>14. g = (b.failed \/ ~ ok)
  BY DEF g
<1>15. b.kind # "category" => <<b.f.event, b.f.org, s>> \in Slots
  BY <1>1 DEF Slots
<1>16. ASSUME ~ (t = {} /\ g) PROVE SubOk(r)'
  <2>1. FormOk(r.kind, r.f) /\ r.todo \subseteq Goals(r.kind, r.f) /\ (r.failed => r.todo # {})
        /\ (r.home => page' # Nothing)
    BY <1>1, <1>5, <1>6, <1>16 DEF SubOk
  <2>2. ASSUME ~ r.failed, r.kind # "category"
        PROVE  Goals(r.kind, r.f) \ r.todo \subseteq Linked(r.f.event, r.f.org)'
    <3>1. ~ b.failed /\ ok
      BY <1>5, <1>14, <2>2
    <3>2. Goals(b.kind, b.f) \ b.todo \subseteq Linked(b.f.event, b.f.org)'
      BY <1>5, <1>13, <2>2, <3>1 DEF SubOk
    <3>3. s \in Linked(b.f.event, b.f.org)'
      BY <1>1, <1>3, <1>5, <2>2, <3>1 DEF AnswerOk, Linked
    <3> QED BY <1>5, <3>2, <3>3
  <2> QED BY <2>1, <2>2 DEF SubOk
<1>17. ASSUME ~ past.crossed PROVE \A c \in subs' : c = r
  BY <1>1, <1>6, <1>17 DEF AloneOk
<1>18. ASSUME ~ past.crossed PROVE AloneOk(r)'
  <2>1. AloneOk(b)
    BY <1>1, <1>18
  <2>2. r.home => page'.screen = "form" /\ page'.sent = r.f /\ page'.kind = r.kind
    BY <1>5, <1>6, <2>1 DEF AloneOk
  <2>3. ASSUME r.home, ~ r.failed, NEW u \in Goals(r.kind, r.f) \ r.todo
        PROVE  Kept(r.kind, r.f, u)'
    <3>1. ~ b.failed /\ ok /\ db' = answer.db /\ answer.code \in done /\ b.home
      BY <1>3, <1>5, <1>14, <2>3
    <3>2. CASE u = s
      BY <1>1, <1>5, <3>1, <3>2 DEF AnswerOk, Kept, Kinds
    <3>3. CASE u # s
      <4>1. u \in Goals(b.kind, b.f) \ b.todo /\ u \in Sports
        BY <1>1, <1>5, <2>3, <3>3
      <4>2. Kept(b.kind, b.f, u)
        BY <2>1, <3>1, <4>1 DEF AloneOk
      <4>3. b.kind # "category" => <<b.f.event, b.f.org, u>> \in Slots
                                   /\ <<b.f.event, b.f.org, u>> # <<b.f.event, b.f.org, s>>
        BY <1>1, <3>3, <4>1 DEF Slots
      <4>4. <<b.f.event, u>> \in Events \X Sports /\ <<b.f.event, u>> # <<b.f.event, s>>
        BY <1>1, <3>3, <4>1
      <4>5. CASE b.kind = "sport"
        BY <1>5, <3>1, <4>2, <4>3, <4>5 DEF AnswerOk, Kept
      <4>6. CASE b.kind = "number"
        BY <1>5, <3>1, <4>2, <4>3, <4>6 DEF AnswerOk, Kept
      <4>7. CASE b.kind = "category"
        BY <1>5, <3>1, <4>2, <4>4, <4>7 DEF AnswerOk, Kept
      <4> QED BY <1>1, <4>5, <4>6, <4>7 DEF Kinds
    <3> QED BY <3>2, <3>3
  <2> QED BY <1>17, <1>18, <2>2, <2>3 DEF AloneOk
<1>19. SubsInv'
  BY <1>6, <1>13, <1>16, <1>17, <1>18 DEF SubsInv
<1> QED BY <1>8, <1>9, <1>10, <1>11, <1>12, <1>19 DEF IInv

LEMMA PostLinkOk ==
  ASSUME IInv, NEW b \in subs, NEW s \in b.todo, PostLink(b, s)
  PROVE  IInv'
<1> DEFINE e == b.f.event
           o == b.f.org
           y == <<e, o, s>>
<1>1. /\ b.kind = "sport" /\ e \in Events /\ o \in Orgs /\ s \in Sports
      /\ Answered(b, s, AddLink(e, o, s), LinkAccepted)
  BY TheSub DEF PostLink
<1>2. db \in Tables /\ db.links \in [Slots -> {Nothing, "SUBMITTED", "APPROVED", "REJECTED"}]
  BY Parts, Fields DEF IInv
<1>3. y \in Slots /\ "SUBMITTED" # Nothing
  BY <1>1, Apart DEF Slots
<1> HIDE DEF y
<1>4. AddLink(e, o, s).code \in LinkAccepted => AddLink(e, o, s).db.links[y] # Nothing
  BY <1>2, <1>3 DEF AddLink, LinkAccepted, Tables, y
<1>5. /\ AddLink(e, o, s).db \in Tables
      /\ \A z \in Slots : db.links[z] # Nothing => AddLink(e, o, s).db.links[z] # Nothing
      /\ AddLink(e, o, s).db.numbers = db.numbers /\ AddLink(e, o, s).db.cats = db.cats
  <2> DEFINE l == [db.links EXCEPT ![y] = "SUBMITTED"]
             d == [db EXCEPT !.links = l]
  <2>1. l \in [Slots -> {Nothing, "SUBMITTED", "APPROVED", "REJECTED"}]
        /\ \A z \in Slots : db.links[z] # Nothing => l[z] # Nothing
    BY <1>2, <1>3
  <2> HIDE DEF l
  <2>2. d \in Tables /\ d.links = l /\ d.numbers = db.numbers /\ d.cats = db.cats
    BY <1>2, <2>1 DEF Tables
  <2>3. AddLink(e, o, s).db = db \/ AddLink(e, o, s).db = d
    BY DEF AddLink, l, y
  <2> HIDE DEF d
  <2> QED BY <1>2, <2>1, <2>2, <2>3
<1>6. AnswerOk(b, s, AddLink(e, o, s), LinkAccepted)
  BY <1>1, <1>4, <1>5 DEF AnswerOk, y
<1> QED BY <1>1, <1>6, AnsweredOk

LEMMA PostCountOk ==
  ASSUME IInv, NEW b \in subs, NEW s \in b.todo, PostCount(b, s)
  PROVE  IInv'
<1> DEFINE e == b.f.event
           o == b.f.org
           n == b.f.rows[s]
           y == <<e, o, s>>
<1>1. /\ b.kind = "number" /\ e \in Events /\ o \in Orgs /\ s \in Sports /\ b.f \in Form
      /\ s \in DOMAIN b.f.rows
      /\ Answered(b, s, Announce(e, o, s, n), {200, 400})
  BY TheSub DEF PostCount, Goals
<1>2. n \in Counts
  BY <1>1, FormFields
<1>3. /\ db \in Tables /\ db.links \in [Slots -> {Nothing, "SUBMITTED", "APPROVED", "REJECTED"}]
      /\ db.numbers \in [Slots -> Maybe(Counts)]
  BY Parts, Fields DEF IInv
<1>4. y \in Slots /\ "SUBMITTED" # Nothing
  BY <1>1, Apart DEF Slots
<1> HIDE DEF n
<1> DEFINE l == [db.links EXCEPT ![y] = IF db.links[y] = Nothing THEN "SUBMITTED" ELSE db.links[y]]
           m == [db.numbers EXCEPT ![y] = n]
           d == [db EXCEPT !.numbers = m, !.links = l]
<1>5. \/ Announce(e, o, s, n).code = 403 /\ Announce(e, o, s, n).db = db
      \/ Announce(e, o, s, n).db = d
  BY DEF Announce
<1> HIDE DEF y
<1>6. /\ l \in [Slots -> {Nothing, "SUBMITTED", "APPROVED", "REJECTED"}] /\ l[y] # Nothing
      /\ \A z \in Slots : db.links[z] # Nothing => l[z] # Nothing
  BY <1>3, <1>4
<1>7. m \in [Slots -> Maybe(Counts)] /\ m[y] = n /\ \A z \in Slots : z # y => m[z] = db.numbers[z]
  BY <1>2, <1>3, <1>4 DEF Maybe
<1> HIDE DEF l, m
<1>8. d \in Tables /\ d.links = l /\ d.numbers = m /\ d.cats = db.cats
  BY <1>3, <1>6, <1>7 DEF Tables
<1> HIDE DEF d
<1>9. AnswerOk(b, s, Announce(e, o, s, n), {200, 400})
  <2>1. CASE Announce(e, o, s, n).code = 403 /\ Announce(e, o, s, n).db = db
    BY <1>1, <1>3, <2>1 DEF AnswerOk
  <2>2. CASE Announce(e, o, s, n).db = d
    BY <1>1, <1>3, <1>6, <1>7, <1>8, <2>2 DEF AnswerOk, y, n
  <2> QED BY <1>5, <2>1, <2>2
<1> QED BY <1>1, <1>9, AnsweredOk DEF n

LEMMA PostCategoriesOk ==
  ASSUME IInv, NEW b \in subs, NEW s \in b.todo, PostCategories(b, s)
  PROVE  IInv'
<1> DEFINE e == b.f.event
           names == b.f.names
           y == <<e, s>>
<1>1. /\ b.kind = "category" /\ e \in Events /\ s \in Sports /\ b.f \in Form
      /\ Answered(b, s, Upsert(e, s, names), {200})
  BY TheSub DEF PostCategories
<1>2. names \subseteq Names
  BY <1>1, FormFields
<1>3. db \in Tables /\ db.cats \in [Events \X Sports -> SUBSET Names]
  BY Parts, Fields DEF IInv
<1>4. y \in Events \X Sports
  BY <1>1
<1> HIDE DEF names
<1> DEFINE c == [db.cats EXCEPT ![y] = names]
           d == [db EXCEPT !.cats = c]
<1>5. \/ Upsert(e, s, names).code = 403 /\ Upsert(e, s, names).db = db
      \/ Upsert(e, s, names).db = d
  BY DEF Upsert
<1> HIDE DEF y
<1>6. /\ c \in [Events \X Sports -> SUBSET Names] /\ c[y] = names
      /\ \A z \in Events \X Sports : z # y => c[z] = db.cats[z]
  BY <1>2, <1>3, <1>4
<1> HIDE DEF c
<1>7. d \in Tables /\ d.links = db.links /\ d.numbers = db.numbers /\ d.cats = c
  BY <1>3, <1>6 DEF Tables
<1> HIDE DEF d
<1>8. AnswerOk(b, s, Upsert(e, s, names), {200})
  <2>1. CASE Upsert(e, s, names).code = 403 /\ Upsert(e, s, names).db = db
    BY <1>1, <1>3, <2>1 DEF AnswerOk
  <2>2. CASE Upsert(e, s, names).db = d
    BY <1>1, <1>3, <1>6, <1>7, <2>2 DEF AnswerOk, y, names
  <2> QED BY <1>5, <2>1, <2>2
<1> QED BY <1>1, <1>8, AnsweredOk DEF names

\* What is forgotten and what is noted when all requests have succeeded.
LEMMA SucceedOk ==
  ASSUME IInv, NEW b \in subs, NEW cleared \in Cache, NEW confirmed \in [Places -> SUBSET Sports],
         \A e \in Events, o \in Orgs :
           /\ confirmed[<<e, o>>] \subseteq Linked(e, o)
           /\ \/ cleared.rows[<<e, o>>] = Nothing
              \/ /\ cleared.rows[<<e, o>>] = cache.rows[<<e, o>>]
                 /\ confirmed[<<e, o>>] = past.confirmed[<<e, o>>]
           /\ (e = b.f.event /\ o = b.f.org) \/ confirmed[<<e, o>>] = past.confirmed[<<e, o>>],
         Succeed(b, cleared, confirmed)
  PROVE  IInv'
<1>1. /\ b.todo = {} /\ subs' = subs \ {b} /\ cache' = cleared
      /\ page' = (IF b.home THEN [page EXCEPT !.screen = "success"] ELSE page)
      /\ past' = [past EXCEPT !.confirmed = confirmed]
      /\ UNCHANGED <<form, db, cap>>
  BY DEF Succeed
<1>2. /\ SubOk(b) /\ b.kind \in Kinds /\ (b.home => page \in Page)
      /\ (~ past.crossed => AloneOk(b)) /\ b.home \in BOOLEAN
  BY TheSub
<1>3. /\ page \in Maybe(Page) /\ loads \subseteq Load \union RowLoad /\ IsFiniteSet(loads)
      /\ subs \subseteq Sub /\ past \in Past /\ form \in Form /\ db \in Tables /\ cap \in Bounds
      /\ cache \in Cache /\ TypeInv
  BY Parts DEF IInv
<1>4. /\ past' \in Past /\ past'.confirmed = confirmed /\ past'.crossed = past.crossed
      /\ past'.raced = past.raced
  BY <1>1, <1>3 DEF Past
<1>5. /\ page' \in Maybe(Page) /\ (page # Nothing => page' # Nothing)
      /\ (page' # Nothing => page # Nothing /\ page'.kind = page.kind /\ page'.sent = page.sent
                             /\ page'.step = page.step)
      /\ (b.home => page' # Nothing /\ page'.screen = "success")
      /\ (~ b.home => page' = page)
  <2>1. CASE b.home
    <3> DEFINE x == [page EXCEPT !.screen = "success"]
    <3>1. page' = x
      BY <1>1, <2>1
    <3>2. /\ x \in Page /\ x.kind = page.kind /\ x.sent = page.sent /\ x.step = page.step
          /\ x.screen = "success"
      BY <1>2, <2>1 DEF Page
    <3>3. page \in Page /\ page # Nothing
      BY <1>2, <2>1, Apart
    <3> HIDE DEF x
    <3>4. x # Nothing
      BY <3>2, Apart
    <3> QED BY <2>1, <3>1, <3>2, <3>3, <3>4 DEF Maybe
  <2>2. CASE ~ b.home
    BY <1>1, <1>3, <2>2
  <2> QED BY <2>1, <2>2
<1> DEFINE m(l) == IF l.ask = "rows" /\ l.event = b.f.event /\ l.org = b.f.org
                   THEN [l EXCEPT !.known = FALSE] ELSE l
<1>6. loads' = {m(l) : l \in loads}
  BY DEF Succeed
<1>7. ASSUME NEW l \in loads
      PROVE  /\ m(l).ask = l.ask /\ m(l) \in Load \union RowLoad
             /\ l.ask # "rows" => m(l) = l
             /\ l.ask = "rows" =>
                  /\ m(l).event = l.event /\ m(l).org = l.org /\ m(l).home = l.home
                  /\ m(l).got = l.got /\ m(l).todo = l.todo
                  /\ m(l).known => l.known /\ ~ (l.event = b.f.event /\ l.org = b.f.org)
                  /\ l.event \in Events /\ l.org \in Orgs
  <2>1. CASE l.ask # "rows"
    BY <1>3, <2>1
  <2>2. CASE l.ask = "rows"
    <3>1. l \in RowLoad /\ l.event \in Events /\ l.org \in Orgs
      BY <1>3, <2>2, LoadFields
    <3> QED BY <2>2, <3>1 DEF RowLoad
  <2> QED BY <2>1, <2>2
<1> HIDE DEF m
<1>8. IsFiniteSet(loads')
  <2> DEFINE f == [l \in loads |-> m(l)]
  <2>1. f \in [loads -> loads'] /\ \A t \in loads' : \E l \in loads : f[l] = t
    BY <1>6
  <2> HIDE DEF f
  <2> QED BY <1>3, <2>1, ImageFinite
<1>9. TypeInv'
  <2>1. loads' \subseteq Load \union RowLoad
    BY <1>6, <1>7
  <2> QED BY <1>1, <1>3, <1>4, <1>5, <1>8, <2>1 DEF TypeInv, TypeOK
<1>10. LoadsInv'
  <2> SUFFICES ASSUME NEW l \in loads
               PROVE  (m(l).ask = "rows" => RowsOk(m(l))') /\ (m(l).ask # "rows" => PlainOk(m(l))')
    BY <1>6 DEF LoadsInv
  <2>1. (l.ask = "rows" => RowsOk(l)) /\ (l.ask # "rows" => PlainOk(l))
    BY DEF IInv, LoadsInv
  <2>2. CASE l.ask = "rows"
    <3>1. m(l).known => /\ l.known
                        /\ past'.confirmed[<<l.event, l.org>>] = past.confirmed[<<l.event, l.org>>]
      BY <1>4, <1>7, <2>2
    <3> QED BY <1>1, <1>4, <1>5, <1>7, <2>1, <2>2, <3>1 DEF RowsOk, Linked, Chosen
  <2>3. CASE l.ask # "rows"
    BY <1>5, <1>7, <2>1, <2>3 DEF PlainOk
  <2> QED BY <2>2, <2>3
<1>11. TableInv'
  <2>1. HomeRows' = {} => HomeRows = {}
    BY <1>6, <1>7 DEF HomeRows
  <2> QED BY <1>1, <1>4, <1>5, <2>1 DEF IInv, TableInv, Chosen, Linked
<1>12. CacheInv'
  <2> SUFFICES ASSUME NEW e \in Events, NEW o \in Orgs
               PROVE  CachedOk(e, o)' /\ confirmed[<<e, o>>] \subseteq Linked(e, o)
    BY <1>1, <1>4 DEF CacheInv, Linked
  <2>1. CachedOk(e, o)
    BY DEF IInv, CacheInv
  <2>2. CachedOk(e, o)'
    <3>1. CASE cleared.rows[<<e, o>>] = Nothing
      BY <1>1, <3>1 DEF CachedOk
    <3>2. CASE /\ cleared.rows[<<e, o>>] = cache.rows[<<e, o>>]
               /\ confirmed[<<e, o>>] = past.confirmed[<<e, o>>]
      BY <1>1, <1>4, <2>1, <3>2 DEF CachedOk, Linked
    <3> QED BY <3>1, <3>2
  <2> QED BY <2>2
<1>13. SubsInv'
  <2> SUFFICES ASSUME NEW c \in subs, c # b PROVE SubOk(c)' /\ past.crossed
    BY <1>1, <1>4 DEF SubsInv
  <2>1. SubOk(c)
    BY DEF IInv, SubsInv
  <2> QED BY <1>1, <1>2, <1>5, <2>1 DEF SubOk, AloneOk, Linked
<1>14. SuccessInv'
  <2> SUFFICES ASSUME page' # Nothing, page'.screen = "success", ~ past.crossed
               PROVE  /\ subs' = {} /\ FormOk(page'.kind, page'.sent)
                      /\ \A s \in Goals(page'.kind, page'.sent) : Kept(page.kind, page.sent, s)'
    BY <1>4 DEF SuccessInv, FormOk, Goals
  <2>1. AloneOk(b)
    BY <1>2
  <2>2. b.home
    BY <1>1, <1>5 DEF IInv, SuccessInv
  <2>3. page'.sent = b.f /\ page'.kind = b.kind
    BY <1>5, <2>1, <2>2 DEF AloneOk
  <2>4. ~ b.failed /\ Goals(b.kind, b.f) \ b.todo = Goals(b.kind, b.f)
    BY <1>1, <1>2 DEF SubOk
  <2>5. \A s \in Goals(b.kind, b.f) : Kept(b.kind, b.f, s)
    BY <2>1, <2>2, <2>4 DEF AloneOk
  <2>6. \A s \in Goals(b.kind, b.f) : Kept(page.kind, page.sent, s)'
    BY <1>1, <2>3, <2>5 DEF Kept
  <2>7. subs' = {}
    BY <1>1, <2>1 DEF AloneOk
  <2> QED BY <1>2, <2>3, <2>6, <2>7 DEF SubOk
<1>15. StepInv'
  <2>1. page' # Nothing => OnPath(page'.kind, page'.step)
    BY <1>5 DEF IInv, StepInv
  <2> QED BY <1>1, <2>1 DEF StepInv, OnPath, StepsOf, CategorySteps, SportSteps
<1> QED BY <1>9, <1>10, <1>11, <1>12, <1>13, <1>14, <1>15 DEF IInv

\* What a submission of survey 2 or 3 has been granted.
LEMMA GrantedOk ==
  ASSUME IInv, NEW b \in subs, b.todo = {}, b.kind # "category"
  PROVE  /\ Granted(b) \in [Places -> SUBSET Sports]
         /\ \A e \in Events, o \in Orgs :
              /\ Granted(b)[<<e, o>>] \subseteq Linked(e, o)
              /\ (e = b.f.event /\ o = b.f.org) \/ Granted(b)[<<e, o>>] = past.confirmed[<<e, o>>]
<1> DEFINE p == <<b.f.event, b.f.org>>
           g == past.confirmed[p] \union Goals(b.kind, b.f)
<1>1. /\ p \in Places /\ Goals(b.kind, b.f) \subseteq Sports /\ SubOk(b)
      /\ b.kind \in Kinds
  BY TheSub DEF Places
<1>2. past.confirmed \in [Places -> SUBSET Sports]
  BY Fields DEF IInv
<1>3. Granted(b) = [past.confirmed EXCEPT ![p] = g]
  BY <1>1 DEF Granted, Goals, Kinds
<1>4. Goals(b.kind, b.f) \subseteq Linked(b.f.event, b.f.org)
  BY <1>1 DEF SubOk
<1>5. \A e \in Events, o \in Orgs : past.confirmed[<<e, o>>] \subseteq Linked(e, o)
  BY DEF IInv, CacheInv
<1>6. g \in SUBSET Sports
  BY <1>1, <1>2
<1>7. Granted(b) \in [Places -> SUBSET Sports] /\ Granted(b)[p] = g
  BY <1>1, <1>2, <1>3, <1>6
<1>8. ASSUME NEW e \in Events, NEW o \in Orgs
      PROVE  /\ Granted(b)[<<e, o>>] \subseteq Linked(e, o)
             /\ (e = b.f.event /\ o = b.f.org) \/ Granted(b)[<<e, o>>] = past.confirmed[<<e, o>>]
  <2>1. CASE e = b.f.event /\ o = b.f.org
    BY <1>4, <1>5, <1>7, <2>1
  <2>2. CASE ~ (e = b.f.event /\ o = b.f.org)
    <3>1. <<e, o>> \in Places /\ <<e, o>> # p
      BY <2>2 DEF Places
    <3>2. Granted(b)[<<e, o>>] = past.confirmed[<<e, o>>]
      BY <1>2, <1>3, <3>1
    <3> QED BY <1>5, <3>2
  <2> QED BY <2>1, <2>2
<1> QED BY <1>7, <1>8

LEMMA SavedOk ==
  ASSUME IInv, NEW b \in subs, SportSaved(b) \/ NumberSaved(b) \/ CategorySaved(b)
  PROVE  IInv'
<1>1. b.todo = {}
  BY DEF SportSaved, NumberSaved, CategorySaved, Succeed
<1>2. /\ cache \in Cache /\ cache.events \in [Kinds -> Maybe(SUBSET Events)]
      /\ cache.rows \in [Places -> Maybe([got: SUBSET Sports, known: BOOLEAN])]
      /\ past.confirmed \in [Places -> SUBSET Sports]
  BY Parts, Fields DEF IInv
<1>3. CASE SportSaved(b)
  <2>1. /\ BothCaches \in Cache
        /\ \A e \in Events, o \in Orgs : BothCaches.rows[<<e, o>>] = Nothing
    <3> DEFINE v == [cache.events EXCEPT !["sport"] = Nothing, !["number"] = Nothing]
    <3>1. v \in [Kinds -> Maybe(SUBSET Events)]
      BY <1>2 DEF Maybe
    <3>2. /\ NoRows \in [Places -> Maybe(SUBSET Sports)]
          /\ NoRows \in [Places -> Maybe([got: SUBSET Sports, known: BOOLEAN])]
          /\ \A e \in Events, o \in Orgs : NoRows[<<e, o>>] = Nothing
      BY DEF NoRows, Maybe, Places
    <3>3. BothCaches = [existing |-> NoRows, rows |-> NoRows, events |-> v]
      BY DEF BothCaches
    <3> HIDE DEF v
    <3> QED BY <3>1, <3>2, <3>3 DEF Cache
  <2>2. Succeed(b, BothCaches, Granted(b)) /\ b.kind # "category"
    BY <1>3 DEF SportSaved
  <2>3. /\ Granted(b) \in [Places -> SUBSET Sports]
        /\ \A e \in Events, o \in Orgs :
             /\ Granted(b)[<<e, o>>] \subseteq Linked(e, o)
             /\ (e = b.f.event /\ o = b.f.org) \/ Granted(b)[<<e, o>>] = past.confirmed[<<e, o>>]
    BY <1>1, <2>2, GrantedOk
  <2> QED BY <2>1, <2>2, <2>3, SucceedOk
<1>4. CASE NumberSaved(b)
  <2> DEFINE p == <<b.f.event, b.f.org>>
             r == [cache.rows EXCEPT ![p] = Nothing]
             c == [cache EXCEPT !.rows = r]
  <2>1. Succeed(b, c, Granted(b)) /\ b.kind = "number" /\ b.kind # "category"
    BY <1>4 DEF NumberSaved, RowsKey
  <2>2. p \in Places
    BY <2>1, TheSub DEF Places
  <2>3. r \in [Places -> Maybe([got: SUBSET Sports, known: BOOLEAN])] /\ r[p] = Nothing
        /\ \A q \in Places : q # p => r[q] = cache.rows[q]
    BY <1>2, <2>2 DEF Maybe
  <2>4. \A e \in Events, o \in Orgs :
          \/ e = b.f.event /\ o = b.f.org /\ r[<<e, o>>] = Nothing
          \/ ~ (e = b.f.event /\ o = b.f.org) /\ r[<<e, o>>] = cache.rows[<<e, o>>]
    <3> TAKE e \in Events, o \in Orgs
    <3>1. CASE e = b.f.event /\ o = b.f.org
      BY <2>3, <3>1
    <3>2. CASE ~ (e = b.f.event /\ o = b.f.org)
      <4>1. <<e, o>> \in Places /\ <<e, o>> # p
        BY <3>2 DEF Places
      <4> QED BY <2>3, <3>2, <4>1
    <3> QED BY <3>1, <3>2
  <2> HIDE DEF r
  <2>5. c \in Cache /\ c.rows = r
    BY <1>2, <2>3 DEF Cache
  <2> HIDE DEF c
  <2>6. /\ Granted(b) \in [Places -> SUBSET Sports]
        /\ \A e \in Events, o \in Orgs :
             /\ Granted(b)[<<e, o>>] \subseteq Linked(e, o)
             /\ (e = b.f.event /\ o = b.f.org) \/ Granted(b)[<<e, o>>] = past.confirmed[<<e, o>>]
    BY <1>1, <2>1, GrantedOk
  <2> QED BY <2>1, <2>4, <2>5, <2>6, SucceedOk
<1>5. CASE CategorySaved(b)
  <2>1. Succeed(b, cache, past.confirmed)
    BY <1>5 DEF CategorySaved
  <2>2. \A e \in Events, o \in Orgs : past.confirmed[<<e, o>>] \subseteq Linked(e, o)
    BY DEF IInv, CacheInv
  <2> QED BY <1>2, <2>1, <2>2, SucceedOk
<1> QED BY <1>3, <1>4, <1>5

-----------------------------------------------------------------------------
(* The administration, and all steps together.                             *)

LEMMA AdministrationOk ==
  ASSUME IInv, Administration
  PROVE  IInv'
<1>1. db \in Tables
  BY Parts DEF IInv
<1>2. /\ db.links \in [Slots -> {Nothing, "SUBMITTED", "APPROVED", "REJECTED"}]
      /\ db.open \in [Kinds -> SUBSET Events]
  BY Fields DEF IInv
<1>3. ASSUME NEW k \in Kinds, NEW e \in Events, SwitchPhase(k, e) PROVE IInv'
  <2> DEFINE o == [db.open EXCEPT ![k] = IF e \in db.open[k] THEN db.open[k] \ {e}
                                         ELSE db.open[k] \union {e}]
             d == [db EXCEPT !.open = o]
  <2>1. o \in [Kinds -> SUBSET Events]
    BY <1>2
  <2>2. db' = d /\ UNCHANGED <<page, form, loads, subs, cache, past, cap>>
    BY <1>3 DEF SwitchPhase
  <2> HIDE DEF o
  <2>3. d \in Tables /\ d.links = db.links /\ d.numbers = db.numbers /\ d.cats = db.cats
    BY <1>1, <2>1 DEF Tables
  <2> HIDE DEF d
  <2>4. Grows
    BY <2>2, <2>3 DEF Grows
  <2> QED BY <2>2, <2>3, <2>4, TableStep
<1>4. ASSUME NEW e \in Events, NEW o \in Orgs, NEW s \in Sports,
             NEW status \in {"APPROVED", "REJECTED"}, ReviewLink(e, o, s, status)
      PROVE  IInv'
  <2> DEFINE l == [db.links EXCEPT ![<<e, o, s>>] = status]
             d == [db EXCEPT !.links = l]
  <2>1. /\ l \in [Slots -> {Nothing, "SUBMITTED", "APPROVED", "REJECTED"}]
        /\ \A y \in Slots : db.links[y] # Nothing => l[y] # Nothing
    BY <1>2, Apart
  <2>2. db' = d /\ UNCHANGED <<page, form, loads, subs, cache, past, cap>>
    BY <1>4 DEF ReviewLink
  <2> HIDE DEF l
  <2>3. d \in Tables /\ d.links = l /\ d.numbers = db.numbers /\ d.cats = db.cats
    BY <1>1, <2>1 DEF Tables
  <2> HIDE DEF d
  <2>4. Grows
    BY <2>1, <2>2, <2>3 DEF Grows
  <2> QED BY <2>2, <2>3, <2>4, TableStep
<1> QED BY <1>3, <1>4 DEF Administration

LEMMA InitOk == Init => IInv
<1> SUFFICES ASSUME Init PROVE IInv
  OBVIOUS
<1>1. /\ page = Nothing /\ form = Blank /\ loads = {} /\ subs = {} /\ cap \in Bounds
      /\ cache = [events |-> [k \in Kinds |-> Nothing],
                  existing |-> [p \in Places |-> Nothing],
                  rows |-> [p \in Places |-> Nothing]]
      /\ past = [confirmed |-> [p \in Places |-> {}], raced |-> FALSE, crossed |-> FALSE,
                 visits |-> 0, sends |-> 0]
  BY DEF Init
<1>2. cache \in Cache
  BY <1>1 DEF Cache, Maybe
<1>3. db \in Tables
  <2> DEFINE l == [x \in Slots |-> IF x \in cap.links THEN "APPROVED" ELSE Nothing]
             n == [x \in Slots |-> Nothing]
             c == [x \in Events \X Sports |-> {}]
             o == [k \in Kinds |-> cap.events]
  <2>1. l \in [Slots -> {Nothing, "SUBMITTED", "APPROVED", "REJECTED"}]
    OBVIOUS
  <2>2. n \in [Slots -> Maybe(Counts)] /\ c \in [Events \X Sports -> SUBSET Names]
    BY DEF Maybe
  <2>3. o \in [Kinds -> SUBSET Events]
    <3>1. cap.events \subseteq Events
      BY <1>1, Apart DEF Bound
    <3> QED BY <3>1
  <2>4. db = [links |-> l, numbers |-> n, cats |-> c, open |-> o]
    BY DEF Init
  <2> HIDE DEF l, n, c, o
  <2> QED BY <2>1, <2>2, <2>3, <2>4 DEF Tables
<1>4. past \in Past
  BY <1>1 DEF Past
<1>5. TypeInv
  BY <1>1, <1>2, <1>3, <1>4, BlankOk, FS_EmptySet DEF TypeInv, TypeOK, Maybe
<1>6. CacheInv
  <2> SUFFICES ASSUME NEW e \in Events, NEW o \in Orgs
               PROVE  CachedOk(e, o) /\ past.confirmed[<<e, o>>] \subseteq Linked(e, o)
    BY DEF CacheInv
  <2>1. <<e, o>> \in Places
    BY DEF Places
  <2>2. cache.rows[<<e, o>>] = Nothing /\ past.confirmed[<<e, o>>] = {}
    BY <1>1, <2>1
  <2> QED BY <2>2 DEF CachedOk
<1>7. LoadsInv /\ TableInv /\ SubsInv /\ SuccessInv /\ StepInv
  BY <1>1 DEF LoadsInv, TableInv, SubsInv, SuccessInv, StepInv
<1> QED BY <1>5, <1>6, <1>7 DEF IInv

LEMMA StepOk == IInv /\ [Next]_vars => IInv'
<1> SUFFICES ASSUME IInv, [Next]_vars PROVE IInv'
  OBVIOUS
<1>1. CASE OfSport
  <2>1. ASSUME NEW l \in loads, OfferArrives(l) \/ ExistingArrives(l) PROVE IInv'
    BY <2>1, OfferOk, ExistingOk
  <2>2. ASSUME NEW b \in subs, SportSaved(b) \/ \E s \in b.todo : PostLink(b, s) PROVE IInv'
    BY <2>2, SavedOk, PostLinkOk
  <2> QED BY <1>1, <2>1, <2>2, OpensOk, WalksOk, SendsOk, RestartsOk, ChooseTypeOk,
             ChooseSportEventOk, InputsOk DEF OfSport
<1>2. CASE OfNumber
  <2>1. ASSUME NEW l \in RowLoads, RowsArrive(l) \/ RowsFail(l) \/ \E s \in l.todo : LookUp(l, s)
        PROVE  IInv'
    BY <2>1, RowsEndOk, LookUpOk
  <2>2. ASSUME NEW b \in subs, NumberSaved(b) \/ \E s \in b.todo : PostCount(b, s) PROVE IInv'
    BY <2>2, SavedOk, PostCountOk
  <2> QED BY <1>2, <2>1, <2>2, OpensOk, WalksOk, SendsOk, RestartsOk, ChooseTypeOk,
             NumberChoicesOk, InputsOk DEF OfNumber
<1>3. CASE OfCategory
  <2>1. ASSUME NEW l \in loads, PreviousArrives(l) \/ CopyArrives(l) PROVE IInv'
    BY <2>1, PreviousOk, CopyOk
  <2>2. ASSUME NEW b \in subs, CategorySaved(b) \/ \E s \in b.todo : PostCategories(b, s)
        PROVE  IInv'
    BY <2>2, SavedOk, PostCategoriesOk
  <2> QED BY <1>3, <2>1, <2>2, OpensOk, WalksOk, SendsOk, RestartsOk, ChooseCategoryEventOk,
             CopyPreviousOk, InputsOk DEF OfCategory
<1>4. CASE Administration \/ Leave \/ \E k \in Kinds : ShowEvents(k)
  BY <1>4, AdministrationOk, LeaveOk, EventsOk
<1>5. CASE UNCHANGED vars
  BY <1>5 DEF vars, IInv, TypeInv, TypeOK, LoadsInv, RowsOk, PlainOk, Chosen, Linked, TableInv,
              HomeRows, SubsInv, SubOk, AloneOk, Kept, SuccessInv, CacheInv, CachedOk, StepInv,
              OnPath, StepsOf, CategorySteps, SportSteps
<1> QED BY <1>1, <1>2, <1>3, <1>4, <1>5 DEF Next

LEMMA Invariant == Spec => []IInv
BY InitOk, StepOk, PTL DEF Spec

-----------------------------------------------------------------------------
(* Theorems.                                                               *)

\* The page, the reads, the submissions, the caches and the tables stay of their types.
THEOREM FormsTypeCorrect == Spec => []TypeOK
<1>1. IInv => TypeOK
  BY DEF IInv, TypeInv
<1> QED BY <1>1, Invariant, PTL

\* A success screen of the three forms tells the truth: all the submission asked for is saved,
\* in whatever order its requests were served, unless it crossed an older one.
THEOREM SuccessHolds == Spec => []SuccessIsSaved
<1>1. IInv => SuccessIsSaved
  <2> SUFFICES ASSUME IInv, page # Nothing, page.screen = "success", ~ past.crossed
               PROVE  LET f == page.sent
                      IN CASE page.kind = "sport"  -> \A s \in f.picked :
                                                        db.links[<<f.event, f.org, s>>] # Nothing
                           [] page.kind = "number" -> \A s \in DOMAIN f.rows :
                                              db.numbers[<<f.event, f.org, s>>] = f.rows[s]
                           [] OTHER -> db.cats[<<f.event, f.sport>>] = f.names
    BY DEF SuccessIsSaved
  <2>1. \A s \in Goals(page.kind, page.sent) : Kept(page.kind, page.sent, s)
    BY DEF IInv, SuccessInv
  <2>2. page.kind \in Kinds
    BY Parts, PageFields DEF IInv, Maybe
  <2>3. CASE page.kind = "sport"
    BY <2>1, <2>3 DEF Goals, Kept
  <2>4. CASE page.kind = "number"
    BY <2>1, <2>4 DEF Goals, Kept
  <2>5. CASE page.kind = "category"
    BY <2>1, <2>5 DEF Goals, Kept
  <2> QED BY <2>2, <2>3, <2>4, <2>5 DEF Kinds
<1> QED BY <1>1, Invariant, PTL

\* Unless reads have raced, the table of survey 3 lists only sports the organisation has a
\* link to, whichever of the cache and the server it comes from.
THEOREM TableHolds == Spec => []TableListsSelected
<1>1. IInv => TableListsSelected
  <2> SUFFICES ASSUME IInv, page # Nothing, page.kind = "number", Chosen, ~ past.raced,
                      ~ \E l \in RowLoads : l.home, NEW s \in DOMAIN form.rows
               PROVE  db.links[<<form.event, form.org, s>>] # Nothing
    BY DEF TableListsSelected, Chosen
  <2>1. HomeRows = {}
    BY DEF HomeRows, RowLoads
  <2>2. s \in Linked(form.event, form.org)
    BY <2>1 DEF IInv, TableInv
  <2> QED BY <2>2 DEF Linked
<1> QED BY <1>1, Invariant, PTL

\* No older answer in the cache hides from survey 3 a sport that survey 2 or 3 has said it saved.
THEOREM FreshHolds == Spec => []FreshAfterSubmit
<1>1. IInv => FreshAfterSubmit
  <2> SUFFICES ASSUME IInv, NEW p \in Places, cache.rows[p] # Nothing, cache.rows[p].known
               PROVE  past.confirmed[p] \intersect SportsOf[p[1]] \subseteq cache.rows[p].got
    BY DEF FreshAfterSubmit
  <2>1. PICK e \in Events, o \in Orgs : p = <<e, o>>
    BY DEF Places
  <2>2. CachedOk(e, o) /\ p[1] = e
    BY <2>1 DEF IInv, CacheInv
  <2> QED BY <2>1, <2>2 DEF CachedOk
<1> QED BY <1>1, Invariant, PTL
=============================================================================
