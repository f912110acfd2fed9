-------------------------- MODULE SurveyByCategory --------------------------
(***************************************************************************)
(* The form of survey 4, the categories of a federation's sport            *)
(* (src/frontend/src/modules/bycategory).  A category is its name; gender  *)
(* and the order of the rows are left out.                                 *)
(***************************************************************************)
EXTENDS SurveyPage

\* ALL_FORM_STEPS
CategorySteps == <<"event", "sport", "categories", "review">>

Read(ask, f) == [ask |-> ask, event |-> f.event, org |-> Nothing, sport |-> f.sport]

\* A federation's sport is filled in, and categories of earlier events are
\* looked for; an administrator's form has no field for the sport.
OpenCategory ==
  LET f == [Blank EXCEPT !.sport = cap.sport]
  IN OpenPage("category", "event", f, IF cap.sport = Nothing THEN {} ELSE {Read("previous", f)})

\* handleNext
CategoryStepDone ==
  CASE page.step = "event"      -> form.event # Nothing
    [] page.step = "sport"      -> cap.admin => form.sport # Nothing
    [] page.step = "categories" -> form.names # {}

\* ByCategoryFormNavButtons; its button back is disabled while the submission is
\* pending, the step indicator is not.
CategoryNext == On("category") /\ page.step # "review" /\ Forward(CategorySteps, CategoryStepDone)
CategoryBack == On("category") /\ Backward(CategorySteps)

\* ByCategoryEventStep; an administrator's form looks for earlier categories
\* when it has a sport, which it never has.
ChooseCategoryEvent(e) ==
  /\ OnStep("category", "event") /\ e \in page.events /\ e # form.event
  /\ form' = [form EXCEPT !.event = e]
  /\ loads' = loads \union (IF cap.admin /\ form.sport # Nothing
                            THEN {Read("previous", form')} ELSE {})
  /\ UNCHANGED <<page, subs, cache, db, past, cap>>

\* fetchPreviousCategories: those of the first other event that has any, or
\* none; an event whose request fails is passed over.
Earlier(l) == {db.cats[<<e, l.sport>>] : e \in Events \ {l.event}} \union {{}}

PreviousArrives(l) ==
  /\ l \in loads /\ l.ask = "previous"
  /\ \E names \in Earlier(l) : page' = [page EXCEPT !.previous = names # {}]
  /\ loads' = loads \ {l}
  /\ UNCHANGED <<form, subs, cache, db, past, cap>>

\* handleCopyFromPrevious: the answer replaces the rows, those typed while it
\* was on its way included.
CopyPrevious ==
  /\ OnStep("category", "categories") /\ page.previous /\ ~page.busy /\ form.sport # Nothing
  /\ page' = [page EXCEPT !.busy = TRUE]
  /\ loads' = loads \union {Read("copy", form)}
  /\ UNCHANGED <<form, subs, cache, db, past, cap>>

CopyArrives(l) ==
  /\ l \in loads /\ l.ask = "copy"
  /\ \E names \in Earlier(l) :
       form' = IF names = {} THEN form ELSE [form EXCEPT !.names = names]
  /\ page' = [page EXCEPT !.busy = FALSE]
  /\ loads' = loads \ {l}
  /\ UNCHANGED <<subs, cache, db, past, cap>>

\* ByCategoryCategoriesStep: a row more or a row less
EditRow(name) ==
  /\ OnStep("category", "categories")
  /\ form' = [form EXCEPT !.names = IF name \in @ THEN @ \ {name} ELSE @ \union {name}]
  /\ UNCHANGED <<page, loads, subs, cache, db, past, cap>>

\* byCategorySchema
CategoryValid == form.event # Nothing /\ form.sport # Nothing /\ form.names # {}

\* useByCategoryForm: one request for the whole list
SubmitCategory ==
  /\ OnStep("category", "review") /\ CategoryValid
  /\ Send("category", {form.sport})

\* submitCategories
PostCategories(sub, s) ==
  /\ sub \in subs /\ sub.kind = "category" /\ s \in sub.todo
  /\ Answered(sub, s, Upsert(sub.f.event, s, sub.f.names), {200})

\* No cache of the form holds what has changed.
CategorySaved(sub) == sub.kind = "category" /\ Succeed(sub, cache, past.confirmed)

\* handleRegisterAnother
AnotherCategory == Restart("category", "event")
=============================================================================
