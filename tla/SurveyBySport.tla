--------------------------- MODULE SurveyBySport ----------------------------
(***************************************************************************)
(* The form of survey 2, the sports an organisation takes part in          *)
(* (src/frontend/src/modules/survey).                                      *)
(***************************************************************************)
EXTENDS SurveyPage

\* FORM_STEPS
SportSteps ==
  IF cap.admin THEN <<"event_type", "event", "organization", "sports", "review">>
  ELSE <<"event_type", "event", "sports", "review">>

\* The organisation of the account, when it has one, is filled in once.
OpenSport == OpenPage("sport", "event_type", [Blank EXCEPT !.org = cap.org], {})

\* handleNext
SportStepDone ==
  CASE page.step = "event_type"   -> page.type # Nothing
    [] page.step = "event"        -> form.event # Nothing
    [] page.step = "organization" -> form.org # Nothing
    [] page.step = "sports"       -> form.picked # {}

\* SurveyFormNavButtons, and the step indicator
SportNext == On("sport") /\ page.step # "review" /\ Forward(SportSteps, SportStepDone)
SportBack == On("sport") /\ Backward(SportSteps)

\* A type selects the events on offer; an event chosen before stays chosen.
ChooseSportType(t) ==
  /\ OnStep("sport", "event_type")
  /\ page' = [page EXCEPT !.type = t]
  /\ UNCHANGED <<form, loads, subs, cache, db, past, cap>>

\* Another event: the load for the one before is cancelled, its sports stay
\* picked.
ChooseSportEvent(e) ==
  /\ OnStep("sport", "event") /\ e \in page.events /\ EventType[e] = page.type
  /\ e # form.event
  /\ form' = [form EXCEPT !.event = e]
  /\ loads' = {l \in loads : l.ask \notin {"offer", "existing"}}
              \union {[ask |-> "offer", event |-> e, org |-> Nothing, sport |-> Nothing]}
  /\ UNCHANGED <<page, subs, cache, db, past, cap>>

\* Another organisation: nothing is loaded again.
ChooseSportOrg(o) ==
  /\ OnStep("sport", "organization") /\ o # form.org
  /\ form' = [form EXCEPT !.org = o]
  /\ UNCHANGED <<page, loads, subs, cache, db, past, cap>>

\* The sports of the event, or none when the request fails; then what the
\* organisation has been granted before, if the organisation is known by now.
OfferArrives(l) ==
  /\ l \in loads /\ l.ask = "offer"
  /\ \E sports \in {SportsOf[l.event], {}} : page' = [page EXCEPT !.offered = sports]
  /\ loads' = (loads \ {l}) \union
              (IF form.org = Nothing THEN {}
               ELSE {[l EXCEPT !.ask = "existing", !.org = form.org]})
  /\ UNCHANGED <<form, subs, cache, db, past, cap>>

\* fetchExistingOrgSports: from the cache, from the server, or nothing.
ExistingArrives(l) ==
  /\ l \in loads /\ l.ask = "existing"
  /\ LET p == <<l.event, l.org>>
         fresh == ApprovedLinks(l.event, l.org)
     IN \/ /\ cache.existing[p] # Nothing
           /\ form' = [form EXCEPT !.picked = @ \union cache.existing[p]]
           /\ UNCHANGED cache
        \/ /\ form' = [form EXCEPT !.picked = @ \union fresh]
           /\ cache' = [cache EXCEPT !.existing[p] = fresh]
        \/ UNCHANGED <<form, cache>>
  /\ loads' = loads \ {l}
  /\ UNCHANGED <<page, subs, db, past, cap>>

\* SurveyFormSportsStep
Toggle(s) ==
  /\ OnStep("sport", "sports") /\ s \in page.offered
  /\ form' = [form EXCEPT !.picked = IF s \in @ THEN @ \ {s} ELSE @ \union {s}]
  /\ UNCHANGED <<page, loads, subs, cache, db, past, cap>>

\* surveySchema
SportValid == form.event # Nothing /\ form.org # Nothing /\ form.picked # {}

\* useSurveyForm: everything that is picked is sent, shown or not.
SubmitSport == OnStep("sport", "review") /\ SportValid /\ Send("sport", form.picked)

\* Fault: a link the server refuses is taken for one that is there.
AnyRefusal == {201, 400, 403}

\* submitSurvey: a link that exists is what was asked for.
LinkAccepted == {201, 400}

PostLink(sub, s) ==
  /\ sub \in subs /\ sub.kind = "sport" /\ s \in sub.todo
  /\ Answered(sub, s, AddLink(sub.f.event, sub.f.org, s), LinkAccepted)

NoRows == [p \in Places |-> Nothing]
Granted(sub) == [past.confirmed EXCEPT ![<<sub.f.event, sub.f.org>>] =
                   @ \union IF sub.kind = "sport" THEN sub.f.picked ELSE DOMAIN sub.f.rows]

\* Fault: the caches of the other form are forgotten.
OwnCacheOnly == [cache EXCEPT !.existing = NoRows, !.events["sport"] = Nothing]

\* clearCache of both modules: what they know of links and of events.
BothCaches == [existing |-> NoRows, rows |-> NoRows,
               events |-> [cache.events EXCEPT !["sport"] = Nothing, !["number"] = Nothing]]

SportSaved(sub) == sub.kind = "sport" /\ Succeed(sub, BothCaches, Granted(sub))

\* handleRegisterAnother
AnotherSport == Restart("sport", "event_type")
=============================================================================
