--------------------------- MODULE SurveyByNumber ---------------------------
(***************************************************************************)
(* The form of survey 3, how many an organisation sends for each sport of  *)
(* survey 2 (src/frontend/src/modules/bynumber).                           *)
(***************************************************************************)
EXTENDS SurveyBySport

\* FORM_STEPS
NumberSteps ==
  IF cap.admin THEN <<"event_type", "event", "organization", "sports", "review">>
  ELSE <<"event_type", "event", "sports", "review">>

OpenNumber == OpenPage("number", "event_type", [Blank EXCEPT !.org = cap.org], {})

\* handleNext: at least one sport, and somebody announced for one of them.
SomeCount == \E s \in DOMAIN form.rows : form.rows[s] > 0
NumberStepDone ==
  CASE page.step = "event_type"   -> page.type # Nothing
    [] page.step = "event"        -> form.event # Nothing
    [] page.step = "organization" -> form.org # Nothing
    [] page.step = "sports"       -> SomeCount

NumberNext == On("number") /\ page.step # "review" /\ Forward(NumberSteps, NumberStepDone)
NumberBack == On("number") /\ Backward(NumberSteps)

\* ByNumberEventTypeStep
ChooseNumberType(t) ==
  /\ OnStep("number", "event_type")
  /\ page' = [page EXCEPT !.type = t]
  /\ UNCHANGED <<form, loads, subs, cache, db, past, cap>>

\* Fault: the organisation alone is the key.
KeyOfOrg(e, o) == <<CHOOSE x \in Events : TRUE, o>>

\* The cache key of fetchOrgEventSports
RowsKey(e, o) == <<e, o>>

AllZero(S) == [s \in S |-> 0]
RowLoads == {l \in loads : l.ask = "rows"}

\* The effect on event and organisation: the table of the two, from the cache
\* or from the server.  An earlier load is not cancelled.
LoadRows(f) ==
  LET known == cache.rows[RowsKey(f.event, f.org)]
  IN \/ /\ f.event = Nothing \/ f.org = Nothing
        /\ form' = f
        /\ UNCHANGED <<page, loads, past>>
     \/ /\ f.event # Nothing /\ f.org # Nothing
        /\ past' = [past EXCEPT !.raced = \E l \in RowLoads : l.home]
        /\ \/ /\ known # Nothing
              /\ form' = [f EXCEPT !.rows = AllZero(known.got)]
              /\ page' = [page EXCEPT !.busy = FALSE]
              /\ UNCHANGED loads
           \/ /\ Cardinality(loads) < cap.loads
              /\ form' = f
              /\ page' = [page EXCEPT !.busy = TRUE]
              /\ loads' = loads \union
                   {[ask |-> "rows", event |-> f.event, org |-> f.org, home |-> TRUE,
                     nr |-> CHOOSE n \in 0 .. Cardinality(RowLoads) : \A l \in RowLoads : l.nr # n,
                     todo |-> SportsOf[f.event], got |-> {}, known |-> TRUE]}

\* ByNumberEventStep
ChooseNumberEvent(e) ==
  /\ OnStep("number", "event") /\ e \in page.events /\ EventType[e] = page.type
  /\ e # form.event
  /\ LoadRows([form EXCEPT !.event = e])
  /\ UNCHANGED <<subs, cache, db, cap>>

\* ByNumberOrganizationStep
ChooseNumberOrg(o) ==
  /\ OnStep("number", "organization") /\ o # form.org
  /\ LoadRows([form EXCEPT !.org = o])
  /\ UNCHANGED <<subs, cache, db, cap>>

\* One look-up of fetchOrgEventSports: whether the organisation has a link, in
\* whatever status.  A look-up that fails leaves the sport out.
LookUp(l, s) ==
  /\ l \in RowLoads /\ s \in l.todo
  /\ \E heard \in BOOLEAN :
       LET there == heard /\ db.links[<<l.event, l.org, s>>] # Nothing
       IN loads' = (loads \ {l}) \union
            {[l EXCEPT !.todo = @ \ {s}, !.known = @ /\ heard,
                       !.got = IF there THEN @ \union {s} ELSE @]}
  /\ UNCHANGED <<page, form, subs, cache, db, past, cap>>

\* The table is in the form, if the form is still there.
ShowRows(l, got) ==
  /\ loads' = loads \ {l}
  /\ IF l.home
     THEN /\ form' = [form EXCEPT !.rows = AllZero(got)]
          /\ page' = [page EXCEPT !.busy = FALSE]
     ELSE UNCHANGED <<page, form>>
  /\ UNCHANGED <<subs, db, past, cap>>

RowsArrive(l) ==
  /\ l \in RowLoads /\ l.todo = {}
  /\ cache' = [cache EXCEPT !.rows[RowsKey(l.event, l.org)] = [got |-> l.got, known |-> l.known]]
  /\ ShowRows(l, l.got)

\* The sports of the event cannot be read: an empty table, which is not cached.
RowsFail(l) ==
  /\ l \in RowLoads /\ l.todo = SportsOf[l.event]
  /\ ShowRows(l, {})
  /\ UNCHANGED cache

\* ByNumberSportsTable, which a load on this step hides
TypeCount(s, n) ==
  /\ OnStep("number", "sports") /\ ~page.busy
  /\ s \in DOMAIN form.rows /\ n # form.rows[s]
  /\ form' = [form EXCEPT !.rows[s] = n]
  /\ UNCHANGED <<page, loads, subs, cache, db, past, cap>>

\* byNumberSchema.  eventId and organizationId may be null there, and are
\* undefined, which is refused.
NumberValid == form.event # Nothing /\ form.org # Nothing /\ SomeCount

\* useByNumberForm: every row is sent, the zeros too.
SubmitNumber ==
  /\ OnStep("number", "review") /\ NumberValid
  /\ Send("number", DOMAIN form.rows)

\* submitByNumber
PostCount(sub, s) ==
  /\ sub \in subs /\ sub.kind = "number" /\ s \in sub.todo
  /\ Answered(sub, s, Announce(sub.f.event, sub.f.org, s, sub.f.rows[s]), {200, 400})

NumberSaved(sub) ==
  /\ sub.kind = "number"
  /\ Succeed(sub, [cache EXCEPT !.rows[RowsKey(sub.f.event, sub.f.org)] = Nothing], Granted(sub))

\* handleRegisterAnother
AnotherNumber == Restart("number", "event_type")
=============================================================================
