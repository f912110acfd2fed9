---------------------------- MODULE SurveyForms -----------------------------
(***************************************************************************)
(* The survey forms of the web client together, against the server: what a *)
(* form says it has saved, and what the forms show of each other's work.   *)
(***************************************************************************)
EXTENDS SurveyByNumber, SurveyByCategory

OfSport ==
  \/ OpenSport \/ SportNext \/ SportBack \/ SubmitSport \/ AnotherSport
  \/ \E t \in Types : ChooseSportType(t)
  \/ \E e \in Events : ChooseSportEvent(e)
  \/ \E o \in Orgs : ChooseSportOrg(o)
  \/ \E l \in loads : OfferArrives(l) \/ ExistingArrives(l)
  \/ \E s \in Sports : Toggle(s)
  \/ \E b \in subs : SportSaved(b) \/ \E s \in b.todo : PostLink(b, s)

OfNumber ==
  \/ OpenNumber \/ NumberNext \/ NumberBack \/ SubmitNumber \/ AnotherNumber
  \/ \E t \in Types : ChooseNumberType(t)
  \/ \E e \in Events : ChooseNumberEvent(e)
  \/ \E o \in Orgs : ChooseNumberOrg(o)
  \/ \E l \in RowLoads : RowsArrive(l) \/ RowsFail(l) \/ \E s \in l.todo : LookUp(l, s)
  \/ \E s \in Sports, n \in Counts : TypeCount(s, n)
  \/ \E b \in subs : NumberSaved(b) \/ \E s \in b.todo : PostCount(b, s)

OfCategory ==
  \/ OpenCategory \/ CategoryNext \/ CategoryBack \/ SubmitCategory \/ AnotherCategory
  \/ \E e \in Events : ChooseCategoryEvent(e)
  \/ \E l \in loads : PreviousArrives(l) \/ CopyArrives(l)
  \/ CopyPrevious
  \/ \E name \in Names : EditRow(name)
  \/ \E b \in subs : CategorySaved(b) \/ \E s \in b.todo : PostCategories(b, s)

Administration ==
  \/ \E k \in Kinds, e \in Events : SwitchPhase(k, e)
  \/ \E e \in Events, o \in Orgs, s \in Sports, status \in {"APPROVED", "REJECTED"} :
       ReviewLink(e, o, s, status)

Next ==
  \/ OfSport \/ OfNumber \/ OfCategory \/ Administration
  \/ \E k \in Kinds : ShowEvents(k)
  \/ Leave

Spec == Init /\ [][Next]_vars

-----------------------------------------------------------------------------
(* Properties.                                                             *)

\* The success screen tells the truth: of a submission whose requests were
\* served in any order, some of them refused with 400, every sport has its
\* link, every row its number, and the federation's sport exactly the
\* categories of the form; unless an older submission was still under way when
\* it was sent, whose requests may come last.
SuccessIsSaved ==
  page # Nothing /\ page.screen = "success" /\ ~past.crossed =>
    LET f == page.sent
    IN CASE page.kind = "sport"  -> \A s \in f.picked : db.links[<<f.event, f.org, s>>] # Nothing
         [] page.kind = "number" -> \A s \in DOMAIN f.rows :
                                      db.numbers[<<f.event, f.org, s>>] = f.rows[s]
         [] OTHER -> db.cats[<<f.event, f.sport>>] = f.names

\* "The table must only list sports the org selected in survey 2": once the
\* table of the chosen event and organisation has come, it lists none the
\* organisation has no link to at that event, unless loads have raced.
TableListsSelected ==
  /\ page # Nothing /\ page.kind = "number"
  /\ form.event # Nothing /\ form.org # Nothing
  /\ ~past.raced /\ ~ \E l \in RowLoads : l.home
  => \A s \in DOMAIN form.rows : db.links[<<form.event, form.org, s>>] # Nothing

\* What survey 2 or 3 said it has saved for a sport of the event is not hidden from survey 3 by an older
\* answer in the cache, unless that answer was on its way when it was saved, or
\* one of its look-ups failed.
FreshAfterSubmit ==
  \A p \in Places :
    cache.rows[p] # Nothing /\ cache.rows[p].known =>
      past.confirmed[p] \intersect SportsOf[p[1]] \subseteq cache.rows[p].got
=============================================================================
