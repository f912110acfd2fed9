----------------------- MODULE RegistrationWizardProof -----------------------
(***************************************************************************)
(* The registration wizard: proofs for any accounts, events, sports and    *)
(* categories, and any number of teams, registrations and requests.        *)
(***************************************************************************)
EXTENDS RegistrationWizard, FiniteSetTheorems, SequenceTheorems, TLAPS

\* The teams there are when n have been made, or none.
TeamOr(n) == {Nothing} \union 1..n

\* A form that account u has filled in, or that was filled in for it.
FormOk(f, u, n) ==
  /\ f \in Form /\ Fits(f) /\ f.team \in TeamOr(n)
  /\ f.person # Nothing => TypedBy[f.person] = u

Teams == Len(db.teams)

FormInv ==
  /\ view = Nothing => form = Blank
  /\ view # Nothing => FormOk(form, view.user, Teams) /\ view.team \in TeamOr(Teams)

DraftInv ==
  \A k \in Users \X Modes : draft[k] # Nothing => FormOk(draft[k], k[1], Teams)

\* A registration on team t is what the team is for.
TeamIs(t, org, sport, category) ==
  db.teams[t] = [org |-> org, sport |-> sport, category |-> category]

\* A request is a form that fits; once judged its team is the right one.
ReqOk(r) ==
  /\ Fits(r.f) /\ r.f.team \in TeamOr(Teams)
  /\ r.f.person # Nothing /\ r.f.org # Nothing /\ r.f.sport # Nothing
  /\ r.at = "judged" /\ r.f.team # Nothing =>
       TeamIs(r.f.team, r.f.org, r.f.sport, r.f.category)
ReqInv == \A r \in reqs : ReqOk(r)

\* The wizard waits for one request at most, and for none behind the dialog,
\* unless Submit was clicked twice.
MineInv ==
  /\ \A r \in reqs : r.mine => view # Nothing
  /\ ~ view.twice => /\ \A r, s \in reqs : r.mine /\ s.mine => r = s
                     /\ \A r \in reqs : r.mine => ~ view.dup

RowInv ==
  \A i \in 1..Len(db.rows) :
    LET e == db.rows[i]
    IN  e.team # Nothing => e.team \in 1..Teams /\ TeamIs(e.team, e.org, e.sport, e.category)

\* A row of the person, and of the event, of form f.
Twin(e, f) == e.person = f.person /\ e.event = f.event

\* A request that was judged no duplicate is still none, but for excused rows.
SingleInv ==
  \A r \in reqs, i \in 1..Len(db.rows) :
    r.at = "judged" /\ r.mine /\ ~ r.f.force /\ ~ view.twice /\ Twin(db.rows[i], r.f)
    => db.rows[i].excused

IInv == /\ TypeOK /\ FormInv /\ DraftInv /\ ReqInv /\ MineInv /\ RowInv /\ SingleInv
        /\ DoublesAreForced

-----------------------------------------------------------------------------
(* Types.                                                                  *)

LEMMA Fields ==
  /\ \A f \in Form :
       /\ f.type \in Maybe(Types) /\ f.event \in Maybe(Events) /\ f.org \in Maybe(Orgs)
       /\ f.sport \in Maybe(Sports) /\ f.category \in Maybe(Categories)
       /\ f.team \in Maybe(TeamIds) /\ f.person \in Maybe(Persons)
       /\ f.papers \in BOOLEAN /\ f.force \in BOOLEAN /\ f.leaderRole = Nothing
  /\ \A v \in View :
       /\ v.user \in Users /\ v.mode \in Modes /\ v.step \in Steps
       /\ v.team \in Maybe(TeamIds) /\ v.making \in Maybe(Team)
       /\ v.twice \in BOOLEAN /\ v.dup \in BOOLEAN
  /\ \A r \in Request : r.f \in Form
BY DEF Form, View, Request

LEMMA TeamsOf == ASSUME NEW n \in Nat PROVE TeamOr(n) \subseteq Maybe(TeamIds)
BY DEF TeamOr, Maybe, TeamIds

\* A form with nothing in it.
LEMMA BlankOk == ASSUME NEW u, NEW n PROVE FormOk(Blank, u, n)
<1>1. Blank \in Form
  BY DEF Blank, Form, Maybe
<1> QED BY <1>1 DEF FormOk, Blank, Fits, TeamOr

\* What the steps change in a form: what they enter is theirs to enter, and
\* what depended on it is emptied.
LEMMA FormType ==
  ASSUME NEW u, NEW n \in Nat, NEW f, FormOk(f, u, n), NEW ty \in Types
  PROVE  FormOk([f EXCEPT !.type = ty, !.event = Nothing, !.sport = Nothing, !.category = Nothing], u, n)
BY DEF FormOk, Fits, Form, Maybe

LEMMA FormEvent ==
  ASSUME NEW u, NEW n \in Nat, NEW f, FormOk(f, u, n), NEW e \in Events, EventType[e] = f.type
  PROVE  FormOk([f EXCEPT !.event = e, !.sport = Nothing, !.category = Nothing], u, n)
BY DEF FormOk, Fits, Form, Maybe

LEMMA FormOrg ==
  ASSUME NEW u, NEW n \in Nat, NEW f, FormOk(f, u, n), NEW o \in Orgs
  PROVE  FormOk([f EXCEPT !.org = o, !.sport = Nothing, !.category = Nothing], u, n)
BY DEF FormOk, Fits, Form, Maybe

LEMMA FormOwnOrg ==
  ASSUME NEW u, NEW n \in Nat, NEW f, FormOk(f, u, n), NEW o \in Orgs
  PROVE  FormOk([f EXCEPT !.org = o], u, n)
BY WizardAssumption DEF FormOk, Fits, Form, Maybe

LEMMA FormSport ==
  ASSUME NEW u, NEW n \in Nat, NEW f, FormOk(f, u, n), NEW s \in Maybe(Sports), f.event # Nothing, f.org # Nothing
  PROVE  FormOk([f EXCEPT !.sport = s, !.category = Nothing], u, n)
BY DEF FormOk, Fits, Form, Maybe

LEMMA FormCategory ==
  ASSUME NEW u, NEW n \in Nat, NEW f, FormOk(f, u, n), NEW c \in Categories, SportOf[c] = f.sport
  PROVE  FormOk([f EXCEPT !.category = c], u, n)
BY DEF FormOk, Fits, Form, Maybe

LEMMA FormTeam ==
  ASSUME NEW u, NEW n \in Nat, NEW f, FormOk(f, u, n), NEW t \in TeamOr(n)
  PROVE  FormOk([f EXCEPT !.team = t], u, n)
<1>1. t \in Maybe(TeamIds)
  BY TeamsOf
<1> QED BY <1>1 DEF FormOk, Fits, Form

LEMMA FormPerson ==
  ASSUME NEW u, NEW n \in Nat, NEW f, FormOk(f, u, n), NEW p \in Persons, TypedBy[p] = u
  PROVE  FormOk([f EXCEPT !.person = p], u, n)
BY DEF FormOk, Fits, Form, Maybe

LEMMA FormPapers ==
  ASSUME NEW u, NEW n \in Nat, NEW f, FormOk(f, u, n), NEW b \in BOOLEAN
  PROVE  FormOk([f EXCEPT !.papers = b], u, n)
BY DEF FormOk, Fits, Form

LEMMA FormForce ==
  ASSUME NEW u, NEW n \in Nat, NEW f, FormOk(f, u, n), NEW b \in BOOLEAN
  PROVE  FormOk([f EXCEPT !.force = b], u, n)
BY DEF FormOk, Fits, Form

\* The user stays, no dialog opens, and nothing is clicked twice or answered.
Same(v, vv) == vv \in View /\ vv.user = v.user /\ (vv.dup => v.dup) /\ vv.twice = v.twice

\* What the steps change in what is on the page, one lemma per field.
LEMMA ViewShut ==
  ASSUME NEW v \in View, NEW b \in BOOLEAN
  PROVE  LET vv == [v EXCEPT !.shut = b] IN Same(v, vv) /\ vv.team = v.team
BY DEF Same, View

LEMMA ViewUploading ==
  ASSUME NEW v \in View, NEW b \in BOOLEAN
  PROVE  LET vv == [v EXCEPT !.uploading = b] IN Same(v, vv) /\ vv.team = v.team
BY DEF Same, View

LEMMA ViewMaking ==
  ASSUME NEW v \in View, NEW m \in Maybe(Team)
  PROVE  LET vv == [v EXCEPT !.making = m] IN Same(v, vv) /\ vv.team = v.team
BY DEF Same, View

LEMMA ViewPending ==
  ASSUME NEW v \in View, NEW b \in BOOLEAN
  PROVE  LET vv == [v EXCEPT !.pending = b] IN Same(v, vv) /\ vv.team = v.team
BY DEF Same, View

LEMMA ViewDup ==
  ASSUME NEW v \in View
  PROVE  LET vv == [v EXCEPT !.dup = FALSE] IN Same(v, vv) /\ vv.team = v.team
BY DEF Same, View

LEMMA ViewStep ==
  ASSUME NEW v \in View, NEW s \in Steps
  PROVE  LET vv == [v EXCEPT !.step = s] IN Same(v, vv) /\ vv.team = v.team
BY DEF Same, View

LEMMA ViewAdded ==
  ASSUME NEW v \in View, NEW b \in BOOLEAN, NEW s \in Steps
  PROVE  LET vv == [v EXCEPT !.added = b, !.step = s] IN Same(v, vv) /\ vv.team = v.team
BY DEF Same, View

LEMMA ViewAnother ==
  ASSUME NEW v \in View, NEW s \in Steps
  PROVE  LET vv == [v EXCEPT !.screen = "form", !.step = s] IN Same(v, vv) /\ vv.team = v.team
BY DEF Same, View

LEMMA ViewScreen ==
  ASSUME NEW v \in View, NEW c \in {"form", "success"}
  PROVE  LET vv == [v EXCEPT !.screen = c] IN Same(v, vv) /\ vv.team = v.team
BY DEF Same, View

LEMMA ViewTeam ==
  ASSUME NEW v \in View, NEW t \in Maybe(TeamIds)
  PROVE  LET vv == [v EXCEPT !.team = t] IN Same(v, vv) /\ vv.team = t
BY DEF Same, View

LEMMA ViewTeamMade ==
  ASSUME NEW v \in View, NEW t \in Maybe(TeamIds), NEW m \in Maybe(Team)
  PROVE  LET vv == [v EXCEPT !.team = t, !.making = m] IN Same(v, vv) /\ vv.team = t
BY DEF Same, View

-----------------------------------------------------------------------------
(* The steps of the form.                                                  *)

LEMMA StepList ==
  ASSUME NEW v, NEW f
  PROVE  /\ FormSteps(v, f) \in Seq(Steps) /\ Len(FormSteps(v, f)) \in 4..6
         /\ FormSteps(v, f)[Len(FormSteps(v, f))] = "review"
         /\ FormSteps(v, f)[1] = "event"
         /\ \E i \in 1..Len(FormSteps(v, f)) : FormSteps(v, f)[i] = "personal"
<1> DEFINE a == <<"event", "personal", "documents", "review">>
           b == <<"event", "category", "team", "personal", "documents", "review">>
           c == <<"event", "category", "personal", "documents", "review">>
<1>1. /\ a \in Seq(Steps) /\ Len(a) = 4 /\ a[4] = "review" /\ a[1] = "event"
      /\ a[2] = "personal"
  BY DEF Steps
<1>2. /\ b \in Seq(Steps) /\ Len(b) = 6 /\ b[6] = "review" /\ b[1] = "event"
      /\ b[4] = "personal"
  BY DEF Steps
<1>3. /\ c \in Seq(Steps) /\ Len(c) = 5 /\ c[5] = "review" /\ c[1] = "event"
      /\ c[3] = "personal"
  BY DEF Steps
<1>4. FormSteps(v, f) \in {a, b, c}
  BY DEF FormSteps
<1> HIDE DEF a, b, c
<1>5. \A s : s \in Seq(Steps) /\ Len(s) = 4 /\ s[4] = "review" /\ s[2] = "personal" =>
        Len(s) \in 4..6 /\ s[Len(s)] = "review" /\ \E i \in 1..Len(s) : s[i] = "personal"
  BY 2 \in 1..4
<1>6. \A s : s \in Seq(Steps) /\ Len(s) = 6 /\ s[6] = "review" /\ s[4] = "personal" =>
        Len(s) \in 4..6 /\ s[Len(s)] = "review" /\ \E i \in 1..Len(s) : s[i] = "personal"
  BY 4 \in 1..6
<1>7. \A s : s \in Seq(Steps) /\ Len(s) = 5 /\ s[5] = "review" /\ s[3] = "personal" =>
        Len(s) \in 4..6 /\ s[Len(s)] = "review" /\ \E i \in 1..Len(s) : s[i] = "personal"
  BY 3 \in 1..5
<1> QED BY <1>1, <1>2, <1>3, <1>4, <1>5, <1>6, <1>7

LEMMA Where ==
  ASSUME NEW v, NEW f
  PROVE  /\ At(v, f) \in 0..Len(FormSteps(v, f))
         /\ At(v, f) # 0 => FormSteps(v, f)[At(v, f)] = v.step
         /\ (\E i \in 1..Len(FormSteps(v, f)) : FormSteps(v, f)[i] = v.step) => At(v, f) # 0
<1> DEFINE s == FormSteps(v, f)
<1>1. s \in Seq(Steps) /\ Len(s) \in 4..6 /\ DOMAIN s = 1..Len(s)
  BY StepList
<1>2. At(v, f) = IF \E i \in DOMAIN s : s[i] = v.step
                 THEN CHOOSE i \in DOMAIN s : s[i] = v.step ELSE 0
  BY DEF At
<1> HIDE DEF s
<1>3. CASE \E i \in DOMAIN s : s[i] = v.step
  <2>1. At(v, f) \in DOMAIN s /\ s[At(v, f)] = v.step
    BY <1>2, <1>3
  <2>2. At(v, f) \in 1..Len(s) /\ 1..Len(s) \subseteq 0..Len(s) /\ At(v, f) # 0
    BY <1>1, <2>1
  <2> QED BY <2>1, <2>2 DEF s
<1>4. CASE ~ \E i \in DOMAIN s : s[i] = v.step
  <2>1. At(v, f) = 0 /\ 0 \in 0..Len(s) /\ ~ \E i \in 1..Len(s) : s[i] = v.step
    BY <1>1, <1>2, <1>4
  <2> QED BY <2>1 DEF s
<1> QED BY <1>3, <1>4

\* Where the navigation leads there is a step.
LEMMA Leads ==
  ASSUME NEW v \in View, NEW f, NEW i \in 1..Len(FormSteps(v, f))
  PROVE  Same(v, Goto(v, f, i)) /\ Goto(v, f, i).team = v.team
<1>1. FormSteps(v, f)[i] \in Steps
  <2> DEFINE s == FormSteps(v, f)
  <2>1. s \in Seq(Steps)
    BY StepList
  <2> HIDE DEF s
  <2>2. \A j \in 1..Len(s) : s[j] \in Steps
    BY <2>1
  <2> QED BY <2>2 DEF s
<1>2. ASSUME NEW s \in Steps
      PROVE  LET vv == [v EXCEPT !.step = s] IN Same(v, vv) /\ vv.team = v.team
  BY ViewStep
<1> QED BY <1>1, <1>2 DEF Goto

-----------------------------------------------------------------------------
(* Steps.                                                                  *)

\* A step of the wizard alone: nothing is sent, stored or served.
LEMMA WizardStep ==
  ASSUME IInv, view # Nothing, Same(view, view'), view'.team \in TeamOr(Teams),
         FormOk(form', view.user, Teams), dirty' \in BOOLEAN,
         draft' \in [Users \X Modes -> Form \union {Nothing}],
         \A k \in Users \X Modes : draft'[k] \in {draft[k], Nothing},
         UNCHANGED <<reqs, db, cap>>
  PROVE  IInv'
<1>0. view' \in View /\ view' # Nothing /\ view \in View /\ view'.user = view.user
  BY WizardAssumption DEF Same, IInv, TypeOK
<1>1. TypeOK'
  BY <1>0 DEF IInv, TypeOK, FormOk
<1>2. FormInv'
  BY <1>0 DEF FormInv, Teams
<1>3. DraftInv'
  BY DEF IInv, DraftInv, Teams
<1>4. ReqInv' /\ RowInv' /\ SingleInv' /\ DoublesAreForced'
  BY DEF IInv, ReqInv, ReqOk, RowInv, SingleInv, DoublesAreForced, TeamIs, Teams, Same
<1>5. MineInv'
  BY <1>0 DEF IInv, MineInv, Same
<1> QED BY <1>1, <1>2, <1>3, <1>4, <1>5 DEF IInv

\* What holds while a wizard is open.
LEMMA Here ==
  ASSUME IInv, view # Nothing
  PROVE  /\ view \in View /\ FormOk(form, view.user, Teams) /\ form \in Form
         /\ view.team \in TeamOr(Teams) /\ Teams \in Nat
         /\ draft \in [Users \X Modes -> Form \union {Nothing}]
         /\ dirty \in BOOLEAN
         /\ view.user \in Users /\ view.mode \in Modes
BY Fields DEF IInv, TypeOK, FormInv, Teams, FormOk

\* Such a step that leaves the drafts alone.
LEMMA DraftsKept ==
  ASSUME IInv, view # Nothing, Same(view, view'), view'.team \in TeamOr(Teams),
         FormOk(form', view.user, Teams), dirty' \in BOOLEAN,
         UNCHANGED <<draft, reqs, db, cap>>
  PROVE  IInv'
BY Here, WizardStep

LEMMA RecheckOk ==
  ASSUME NEW v \in View, NEW e, Recheck(v, e)
  PROVE  Same(v, view') /\ view'.team = v.team
<1>1. PICK b \in BOOLEAN : view' = [v EXCEPT !.shut = b]
  BY DEF Recheck
<1> QED BY <1>1, ViewShut

\* The choices of the event step.
LEMMA ChoicesOk ==
  ASSUME IInv, \/ \E ty \in Types : ChooseType(ty)
               \/ \E e \in Events : ChooseEvent(e)
               \/ \E o \in Orgs : ChooseOrg(o)
               \/ \E s \in Sports : ChooseSport(s)
               \/ \E c \in Categories : ChooseCategory(c)
               \/ \E p \in Persons : TypePerson(p)
  PROVE  IInv'
<1>1. view # Nothing /\ dirty' = TRUE /\ UNCHANGED <<draft, reqs, db, cap>>
  BY DEF ChooseType, ChooseEvent, ChooseOrg, ChooseSport, ChooseCategory, TypePerson, OnStep,
     Change
<1>2. /\ view \in View /\ FormOk(form, view.user, Teams) /\ view.team \in TeamOr(Teams)
      /\ Teams \in Nat
  BY <1>1, Here
<1>3. Same(view, view') /\ view'.team = view.team
  <2>1. view' = view \/ \E e : Recheck(view, e)
    BY DEF ChooseType, ChooseEvent, ChooseOrg, ChooseSport, ChooseCategory, TypePerson
  <2> QED BY <1>2, <2>1, RecheckOk DEF Same
<1>4. FormOk(form', view.user, Teams)
  <2>1. ASSUME NEW ty \in Types, ChooseType(ty) PROVE FormOk(form', view.user, Teams)
    BY <1>2, <2>1, FormType DEF ChooseType, Change
  <2>2. ASSUME NEW e \in Events, ChooseEvent(e) PROVE FormOk(form', view.user, Teams)
    BY <1>2, <2>2, FormEvent DEF ChooseEvent, Change
  <2>3. ASSUME NEW o \in Orgs, ChooseOrg(o) PROVE FormOk(form', view.user, Teams)
    BY <1>2, <2>3, FormOrg DEF ChooseOrg, Change
  <2>4. ASSUME NEW s \in Sports, ChooseSport(s) PROVE FormOk(form', view.user, Teams)
    <3>1. PICK x \in Maybe(Sports) : form' = [form EXCEPT !.sport = x, !.category = Nothing]
      BY <2>4 DEF ChooseSport, Change, WithSport, Maybe
    <3> QED BY <1>2, <2>4, <3>1, FormSport DEF ChooseSport
  <2>5. ASSUME NEW c \in Categories, ChooseCategory(c) PROVE FormOk(form', view.user, Teams)
    BY <1>2, <2>5, FormCategory DEF ChooseCategory, Change
  <2>6. ASSUME NEW p \in Persons, TypePerson(p) PROVE FormOk(form', view.user, Teams)
    BY <1>2, <2>6, FormPerson DEF TypePerson, Change
  <2> QED BY <2>1, <2>2, <2>3, <2>4, <2>5, <2>6
<1> QED BY <1>1, <1>2, <1>3, <1>4, DraftsKept

LEMMA FilesOk ==
  ASSUME IInv, PickFile \/ FileUploaded \/ RemoveFile
  PROVE  IInv'
<1>1. /\ view # Nothing /\ UNCHANGED <<draft, reqs, db, cap>>
      /\ view' \in {view, [view EXCEPT !.uploading = TRUE], [view EXCEPT !.uploading = FALSE]}
      /\ form' \in {form, [form EXCEPT !.papers = TRUE], [form EXCEPT !.papers = FALSE]}
      /\ dirty' \in {dirty, TRUE}
  BY DEF PickFile, FileUploaded, RemoveFile, OnStep, Change
<1>2. /\ view \in View /\ FormOk(form, view.user, Teams) /\ view.team \in TeamOr(Teams)
      /\ Teams \in Nat /\ dirty' \in BOOLEAN
  BY <1>1, Here
<1>3. Same(view, view') /\ view'.team = view.team
  <2>1. ASSUME NEW b \in BOOLEAN, view' = [view EXCEPT !.uploading = b]
        PROVE  Same(view, view') /\ view'.team = view.team
    BY <1>2, <2>1, ViewUploading
  <2>2. CASE view' = view
    BY <1>2, <2>2 DEF Same
  <2> QED BY <1>1, <2>1, <2>2
<1>4. FormOk(form', view.user, Teams)
  <2>1. ASSUME NEW b \in BOOLEAN, form' = [form EXCEPT !.papers = b]
        PROVE  FormOk(form', view.user, Teams)
    BY <1>2, <2>1, FormPapers
  <2> QED BY <1>1, <1>2, <2>1
<1> QED BY <1>1, <1>2, <1>3, <1>4, DraftsKept

LEMMA MovesOk ==
  ASSUME IInv, GoNext \/ GoBack \/ \E i \in 1..5 : ClickStep(i)
  PROVE  IInv'
<1>1. view # Nothing /\ UNCHANGED <<form, dirty, draft, reqs, db, cap>>
  BY DEF GoNext, GoBack, ClickStep, OnStep
<1>2. /\ view \in View /\ FormOk(form, view.user, Teams) /\ view.team \in TeamOr(Teams)
      /\ dirty \in BOOLEAN
  BY <1>1, Here
<1>3. \E i \in 1..Len(FormSteps(view, form)) : view' = Goto(view, form, i)
  <2> DEFINE n == Len(FormSteps(view, form)) a == At(view, form)
  <2>1. n \in 4..6 /\ FormSteps(view, form)[n] = "review" /\ a \in 0..n
        /\ (a # 0 => FormSteps(view, form)[a] = view.step)
    BY StepList, Where
  <2>2. CASE GoNext
    <3>1. view.step # "review" /\ view' = Goto(view, form, a + 1)
      BY <2>2 DEF GoNext, OnStep
    <3> HIDE DEF n, a
    <3>2. a + 1 \in 1..n
      BY <2>1, <3>1
    <3> QED BY <3>1, <3>2 DEF n
  <2>3. CASE GoBack
    <3>1. a > 1 /\ view' = Goto(view, form, a - 1)
      BY <2>3 DEF GoBack
    <3> HIDE DEF n, a
    <3>2. a - 1 \in 1..n
      BY <2>1, <3>1
    <3> QED BY <3>1, <3>2 DEF n
  <2>4. ASSUME NEW i \in 1..5, ClickStep(i)
        PROVE  \E j \in 1..Len(FormSteps(view, form)) : view' = Goto(view, form, j)
    <3>1. i < a /\ view' = Goto(view, form, i)
      BY <2>4 DEF ClickStep
    <3> HIDE DEF n, a
    <3>2. i \in 1..n
      BY <2>1, <3>1
    <3> QED BY <3>1, <3>2 DEF n
  <2> QED BY <2>2, <2>3, <2>4
<1>4. Same(view, view') /\ view'.team = view.team
  BY <1>2, <1>3, Leads
<1> QED BY <1>1, <1>2, <1>4, DraftsKept

LEMMA MembersOk ==
  ASSUME IInv, \/ \E t \in DOMAIN db.teams : PickTeam(t)
               \/ CreateTeam \/ AddMember \/ EditMember
  PROVE  IInv'
<1>1. view # Nothing /\ UNCHANGED <<draft, reqs, db, cap>> /\ dirty' \in {dirty, TRUE}
  BY DEF PickTeam, Select, CreateTeam, AddMember, EditMember, OnStep, Change
<1>2. /\ view \in View /\ FormOk(form, view.user, Teams) /\ view.team \in TeamOr(Teams)
      /\ Teams \in Nat /\ dirty' \in BOOLEAN /\ form \in Form
  BY <1>1, Here
<1>3. ASSUME NEW t \in DOMAIN db.teams, PickTeam(t) PROVE IInv'
  <2>1. t \in 1..Teams
    BY DEF IInv, TypeOK, Teams
  <2>2. PICK x \in TeamOr(Teams) : Select(x)
    BY <1>3, <2>1 DEF PickTeam, TeamOr
  <2>3. x \in Maybe(TeamIds)
    BY <1>2, TeamsOf
  <2>4. Same(view, view') /\ view'.team = x
    <3>1. view' = [view EXCEPT !.team = x]
      BY <2>2 DEF Select
    <3> QED BY <1>2, <2>3, <3>1, ViewTeam
  <2>5. FormOk(form', view.user, Teams)
    BY <1>2, <2>2, FormTeam DEF Select, Change
  <2> QED BY <1>1, <1>2, <2>4, <2>5, DraftsKept
<1>4. CASE CreateTeam
  <2> DEFINE m == [org |-> form.org, sport |-> form.sport, category |-> form.category]
  <2>1. m \in Maybe(Team)
    BY <1>2, <1>4, Fields DEF CreateTeam, Team, Maybe
  <2>2. view' = [view EXCEPT !.making = m] /\ UNCHANGED <<form, dirty>>
    BY <1>4 DEF CreateTeam
  <2> HIDE DEF m
  <2>3. Same(view, view') /\ view'.team = view.team
    BY <1>2, <2>1, <2>2, ViewMaking
  <2> QED BY <1>1, <1>2, <2>2, <2>3, DraftsKept
<1>5. CASE AddMember
  <2> DEFINE v == [view EXCEPT !.step = "personal"] a == At(v, form)
             w == [view EXCEPT !.added = FALSE]
  <2>1. v.step = "personal"
    BY <1>2 DEF View
  <2>2. a \in 1..Len(FormSteps(v, form))
    <3> HIDE DEF v
    <3>1. Len(FormSteps(v, form)) \in Nat /\ a \in 0..Len(FormSteps(v, form)) /\ a # 0
      BY <2>1, StepList, Where
    <3> QED BY <3>1
  <2>3. w \in View /\ w.mode = v.mode /\ w.user = view.user /\ w.team = view.team
        /\ w.dup = view.dup /\ w.twice = view.twice
    BY <1>2 DEF View
  <2>4. FormSteps(v, form) = FormSteps(w, form)
    BY <2>3 DEF FormSteps
  <2>5. view' = Goto(w, form, a) /\ UNCHANGED <<form, dirty>>
    BY <1>5 DEF AddMember
  <2> HIDE DEF v, a, w
  <2>6. Same(w, view') /\ view'.team = w.team
    BY <2>2, <2>3, <2>4, <2>5, Leads
  <2>7. Same(view, view') /\ view'.team = view.team
    BY <2>3, <2>6 DEF Same
  <2> QED BY <1>1, <1>2, <2>5, <2>7, DraftsKept
<1>6. CASE EditMember
  <2>1. view' = [view EXCEPT !.added = FALSE, !.step = "personal"] /\ UNCHANGED <<form, dirty>>
    BY <1>6 DEF EditMember
  <2>2. Same(view, view') /\ view'.team = view.team
    <3>1. "personal" \in Steps
      BY DEF Steps
    <3> QED BY <1>2, <2>1, <3>1, ViewAdded
  <2> QED BY <1>1, <1>2, <2>1, <2>2, DraftsKept
<1> QED BY <1>3, <1>4, <1>5, <1>6

\* The draft is cleared or stays.
LEMMA DraftAfterOk ==
  ASSUME IInv, view # Nothing, NEW v, draft' = DraftAfter(v)
  PROVE  /\ draft' \in [Users \X Modes -> Form \union {Nothing}]
         /\ \A k \in Users \X Modes : draft'[k] \in {draft[k], Nothing}
BY Here DEF DraftAfter, DraftKey

\* Mounted, restored, declined, begun again.
LEMMA BeginsOk ==
  ASSUME IInv, Ready \/ Decline \/ RegisterAnother
  PROVE  IInv'
<1>1. view # Nothing /\ UNCHANGED <<reqs, db, cap>>
  BY DEF Ready, Decline, RegisterAnother
<1>2. /\ view \in View /\ FormOk(form, view.user, Teams) /\ view.team \in TeamOr(Teams)
      /\ Teams \in Nat /\ form \in Form /\ dirty \in BOOLEAN
      /\ view.user \in Users /\ view.mode \in Modes
  BY <1>1, Here
<1>3. CASE Ready
  <2> DEFINE saved == draft[DraftKey(view)]
             base  == IF saved = Nothing THEN form ELSE saved
             own   == OrgOf[view.user]
             f     == IF own = Nothing THEN base ELSE [base EXCEPT !.org = own]
             w     == [view EXCEPT !.screen = "form"]
  <2>1. form' = f /\ dirty' \in BOOLEAN /\ Recheck(w, f.event) /\ UNCHANGED draft
    BY <1>3 DEF Ready
  <2>2. FormOk(base, view.user, Teams)
    <3>1. <<view.user, view.mode>> \in Users \X Modes
      BY <1>2
    <3>2. draft[<<view.user, view.mode>>] # Nothing =>
            FormOk(draft[<<view.user, view.mode>>], view.user, Teams)
      BY <3>1 DEF IInv, DraftInv
    <3> QED BY <1>2, <3>2 DEF DraftKey
  <2>3. own \in Maybe(Orgs)
    BY <1>2, WizardAssumption DEF Maybe
  <2> HIDE DEF base, own
  <2>4. FormOk(f, view.user, Teams)
    <3>1. CASE own = Nothing
      BY <2>2, <3>1
    <3>2. CASE own # Nothing
      <4>1. own \in Orgs
        BY <2>3, <3>2 DEF Maybe
      <4> QED BY <1>2, <2>2, <3>2, <4>1, FormOwnOrg
    <3> QED BY <3>1, <3>2
  <2>5. Same(view, w) /\ w.team = view.team /\ w \in View
    BY <1>2, ViewScreen DEF Same
  <2> HIDE DEF f, w
  <2>6. Same(w, view') /\ view'.team = w.team
    BY <2>1, <2>5, RecheckOk
  <2>7. Same(view, view') /\ view'.team = view.team
    BY <2>5, <2>6 DEF Same
  <2> QED BY <1>1, <1>2, <2>1, <2>4, <2>7, DraftsKept
<1>4. CASE Decline
  <2>1. /\ view' = [view EXCEPT !.dup = FALSE] /\ form' = [form EXCEPT !.force = FALSE]
        /\ dirty' = TRUE /\ UNCHANGED draft
    BY <1>4 DEF Decline, Change
  <2>2. Same(view, view') /\ view'.team = view.team
    BY <1>2, <2>1, ViewDup
  <2>3. FormOk(form', view.user, Teams)
    <3>1. FALSE \in BOOLEAN
      OBVIOUS
    <3> QED BY <1>2, <2>1, <3>1, FormForce
  <2> QED BY <1>1, <1>2, <2>1, <2>2, <2>3, DraftsKept
<1>5. CASE RegisterAnother
  <2> DEFINE f == [Blank EXCEPT !.type = form.type, !.event = form.event, !.org = form.org,
                                !.sport = form.sport, !.category = form.category,
                                !.team = view.team]
  <2>1. /\ form' = f /\ dirty' = TRUE /\ draft' = DraftAfter(view')
        /\ view' = [view EXCEPT !.screen = "form", !.step = "personal"]
    BY <1>5 DEF RegisterAnother, Change
  <2>2. Same(view, view') /\ view'.team = view.team
    <3>1. "personal" \in Steps
      BY DEF Steps
    <3> QED BY <1>2, <2>1, <3>1, ViewAnother
  <2>3. FormOk(f, view.user, Teams)
    <3>1. Blank \in Form /\ Blank.person = Nothing
      BY BlankOk DEF FormOk, Blank
    <3>2. view.team \in Maybe(TeamIds)
      BY <1>2, Fields
    <3>3. /\ f \in Form /\ f.type = form.type /\ f.event = form.event /\ f.org = form.org
          /\ f.sport = form.sport /\ f.category = form.category /\ f.team = view.team
          /\ f.person = Nothing
      BY <1>2, <3>1, <3>2, Fields DEF Form
    <3> HIDE DEF f
    <3> QED BY <1>2, <3>3 DEF FormOk, Fits
  <2>4. /\ draft' \in [Users \X Modes -> Form \union {Nothing}]
        /\ \A k \in Users \X Modes : draft'[k] \in {draft[k], Nothing}
    BY <1>1, <2>1, DraftAfterOk
  <2> QED BY <1>1, <1>2, <2>1, <2>2, <2>3, <2>4, WizardStep
<1> QED BY <1>3, <1>4, <1>5

LEMMA ComesAndGoes ==
  ASSUME IInv, (\E u \in Users, m \in Modes : Open(u, m)) \/ SaveDraft \/ Leave
  PROVE  IInv'
<1>1. ASSUME NEW u \in Users, NEW m \in Modes, Open(u, m) PROVE IInv'
  <2>1. /\ view = Nothing /\ form' = Blank /\ UNCHANGED <<dirty, draft, reqs, db, cap>>
        /\ view' = [user |-> u, mode |-> m, screen |-> "loading", step |-> "event",
              team |-> Nothing, added |-> FALSE, dup |-> FALSE,
              shut |-> FALSE, uploading |-> FALSE, making |-> Nothing,
              pending |-> FALSE, latest |-> 0, twice |-> FALSE]
    BY <1>1 DEF Open
  <2>2. view' \in View /\ view'.user = u /\ view'.team = Nothing /\ view' # Nothing
    <3>1. view' \in View
      BY <2>1 DEF View, Steps, Maybe
    <3> QED BY <2>1, <3>1, WizardAssumption
  <2>3. FormOk(form', u, Teams) /\ form' \in Form
    BY <2>1, BlankOk DEF FormOk
  <2>4. FormInv'
    BY <2>2, <2>3, <2>1 DEF FormInv, Teams, TeamOr
  <2>5. TypeOK'
    BY <2>1, <2>2, <2>3 DEF IInv, TypeOK
  <2>6. \A r \in reqs : ~ r.mine
    BY <2>1 DEF IInv, MineInv
  <2>7. DraftInv' /\ ReqInv' /\ MineInv' /\ RowInv' /\ SingleInv' /\ DoublesAreForced'
    BY <2>1, <2>6 DEF IInv, DraftInv, ReqInv, ReqOk, MineInv, RowInv, SingleInv,
       DoublesAreForced, TeamIs, Teams
  <2> QED BY <2>4, <2>5, <2>7 DEF IInv
<1>2. CASE SaveDraft
  <2> DEFINE k == <<view.user, view.mode>>
  <2>1. /\ view # Nothing /\ draft' = [draft EXCEPT ![k] = form] /\ dirty' = FALSE
        /\ UNCHANGED <<view, form, reqs, db, cap>>
    BY <1>2 DEF SaveDraft, DraftKey
  <2>2. /\ FormOk(form, view.user, Teams) /\ form \in Form /\ k \in Users \X Modes
        /\ draft \in [Users \X Modes -> Form \union {Nothing}] /\ k[1] = view.user
    BY <2>1, Here
  <2> HIDE DEF k
  <2>3. TypeOK'
    BY <2>1, <2>2 DEF IInv, TypeOK
  <2>4. DraftInv'
    <3> SUFFICES ASSUME NEW x \in Users \X Modes, draft'[x] # Nothing
                 PROVE  FormOk(draft'[x], x[1], Teams)
      BY <2>1 DEF DraftInv, Teams
    <3>1. CASE x = k
      BY <2>1, <2>2, <3>1
    <3>2. CASE x # k
      BY <2>1, <2>2, <3>2 DEF IInv, DraftInv
    <3> QED BY <3>1, <3>2
  <2>5. FormInv' /\ ReqInv' /\ MineInv' /\ RowInv' /\ SingleInv' /\ DoublesAreForced'
    BY <2>1 DEF IInv, FormInv, ReqInv, ReqOk, MineInv, RowInv, SingleInv,
       DoublesAreForced, TeamIs, Teams
  <2> QED BY <2>3, <2>4, <2>5 DEF IInv
<1>3. CASE Leave
  <2>1. /\ view' = Nothing /\ form' = Blank /\ dirty' = FALSE
        /\ reqs' = {[r EXCEPT !.mine = FALSE] : r \in reqs}
        /\ UNCHANGED <<draft, db, cap>>
    BY <1>3 DEF Leave
  <2>2. \A r \in reqs : LET q == [r EXCEPT !.mine = FALSE]
                        IN q \in Request /\ ~ q.mine /\ q.f = r.f /\ q.at = r.at
    BY DEF IInv, TypeOK, Request
  <2>3. \A q \in reqs' : /\ q \in Request /\ ~ q.mine
                         /\ \E r \in reqs : q.f = r.f /\ q.at = r.at
    BY <2>1, <2>2
  <2>4. TypeOK' /\ FormInv'
    <3>1. reqs' \subseteq Request /\ Blank \in Form
      BY <2>3, BlankOk DEF FormOk
    <3>2. TypeOK'
      BY <2>1, <3>1 DEF IInv, TypeOK
    <3> QED BY <2>1, <3>2 DEF FormInv
  <2>5. ReqInv'
    <3> SUFFICES ASSUME NEW q \in reqs' PROVE ReqOk(q)'
      BY DEF ReqInv
    <3>1. PICK r \in reqs : q.f = r.f /\ q.at = r.at
      BY <2>3
    <3>2. ReqOk(r)
      BY DEF IInv, ReqInv
    <3> QED BY <2>1, <3>1, <3>2 DEF ReqOk, TeamIs, Teams
  <2>6. MineInv' /\ SingleInv'
    BY <2>3 DEF MineInv, SingleInv
  <2>7. DraftInv' /\ RowInv' /\ DoublesAreForced'
    BY <2>1 DEF IInv, DraftInv, RowInv, DoublesAreForced, TeamIs, Teams
  <2> QED BY <2>4, <2>5, <2>6, <2>7 DEF IInv
<1> QED BY <1>1, <1>2, <1>3

-----------------------------------------------------------------------------
(* The server's tables.                                                    *)

LEMMA Tables ==
  ASSUME IInv
  PROVE  /\ db.teams \in Seq(Team) /\ db.rows \in Seq(Enrolled)
         /\ Teams \in Nat /\ Len(db.rows) \in Nat
         /\ DOMAIN db.teams = 1..Teams /\ DOMAIN db.rows = 1..Len(db.rows)
BY DEF IInv, TypeOK, Teams

\* Tables d differ in rows, if at all, and what requests are and rows say still holds.
Kept(d) ==
  /\ d \in [teams: Seq(Team), rows: Seq(Enrolled)] /\ d.teams = db.teams
  /\ Len(d.rows) = Len(db.rows)
  /\ \A j \in 1..Len(db.rows) :
       LET e == d.rows[j] o == db.rows[j]
       IN  /\ e.person = o.person /\ e.event = o.event /\ e.org = o.org /\ e.sport = o.sport
           /\ e.category = o.category /\ e.team \in {o.team, Nothing}
           /\ o.excused => e.excused

\* Row i gets no team, or is excused.
LEMMA RowEdits ==
  ASSUME IInv, NEW i \in 1..Len(db.rows), NEW x,
         x = [db.rows[i] EXCEPT !.team = Nothing] \/ x = [db.rows[i] EXCEPT !.excused = TRUE]
  PROVE  Kept([db EXCEPT !.rows = [db.rows EXCEPT ![i] = x]])
<1> DEFINE rows == db.rows n == Len(db.rows) new == [rows EXCEPT ![i] = x]
<1>1. rows \in Seq(Enrolled) /\ n \in Nat /\ rows[i] \in Enrolled
  BY Tables
<1>2. x \in Enrolled /\ x.person = rows[i].person /\ x.event = rows[i].event /\ x.org = rows[i].org
      /\ x.sport = rows[i].sport /\ x.category = rows[i].category
      /\ x.team \in {rows[i].team, Nothing} /\ (rows[i].excused => x.excused)
  <2>1. CASE x = [rows[i] EXCEPT !.team = Nothing]
    BY <1>1, <2>1 DEF Enrolled, Maybe
  <2>2. CASE x = [rows[i] EXCEPT !.excused = TRUE]
    <3>1. x \in Enrolled /\ x.person = rows[i].person /\ x.event = rows[i].event /\ x.org = rows[i].org
          /\ x.sport = rows[i].sport /\ x.category = rows[i].category
          /\ x.team = rows[i].team
      BY <1>1, <2>2 DEF Enrolled
    <3>2. x.excused
      BY <1>1, <2>2 DEF Enrolled
    <3> QED BY <3>1, <3>2
  <2> QED BY <2>1, <2>2
<1> HIDE DEF rows
<1>3. new \in Seq(Enrolled) /\ Len(new) = Len(rows) /\ new[i] = x
      /\ \A j \in 1..Len(rows) : j # i => new[j] = rows[j]
  BY <1>1, <1>2 DEF rows
<1>4. db \in [teams: Seq(Team), rows: Seq(Enrolled)]
  BY DEF IInv, TypeOK
<1> HIDE DEF new
<1> DEFINE d == [db EXCEPT !.rows = new]
<1>5. d \in [teams: Seq(Team), rows: Seq(Enrolled)] /\ d.teams = db.teams /\ d.rows = new
  BY <1>3, <1>4
<1>6. d = [db EXCEPT !.rows = [db.rows EXCEPT ![i] = x]]
  BY DEF new, rows
<1> HIDE DEF d
<1>7. Kept(d)
  BY <1>2, <1>3, <1>5 DEF Kept, rows
<1> QED BY <1>6, <1>7

TablesKept == Kept(db')

LEMMA SameTables == ASSUME IInv, db' = db PROVE TablesKept
BY DEF TablesKept, Kept, IInv, TypeOK

LEMMA RowsStay ==
  ASSUME IInv, TablesKept
  PROVE  /\ RowInv' /\ DoublesAreForced' /\ Teams' = Teams
         /\ \A r : ReqOk(r) => ReqOk(r)'
         /\ \A i \in 1..Len(db'.rows) : /\ i \in 1..Len(db.rows)
                                        /\ db'.rows[i].person = db.rows[i].person
                                        /\ db'.rows[i].event = db.rows[i].event
                                        /\ db.rows[i].excused => db'.rows[i].excused
<1>1. Teams' = Teams
  BY DEF Teams, TablesKept, Kept
<1>2. RowInv'
  <2>1. \A i \in 1..Len(db'.rows) :
          LET e == db'.rows[i] o == db.rows[i]
          IN  /\ i \in 1..Len(db.rows) /\ e.team \in {o.team, Nothing}
              /\ e.org = o.org /\ e.sport = o.sport /\ e.category = o.category
    BY DEF TablesKept, Kept
  <2>2. db'.teams = db.teams
    BY DEF TablesKept, Kept
  <2> QED BY <1>1, <2>1, <2>2 DEF IInv, RowInv, TeamIs
<1>3. DOMAIN db.rows = 1..Len(db.rows) /\ DOMAIN db'.rows = 1..Len(db.rows)
  BY Tables DEF TablesKept, Kept
<1>4. DoublesAreForced'
  <2> SUFFICES ASSUME NEW i \in DOMAIN db'.rows, NEW j \in DOMAIN db'.rows, i < j,
                      db'.rows[i].person = db'.rows[j].person,
                      db'.rows[i].event = db'.rows[j].event
               PROVE  db'.rows[i].excused \/ db'.rows[j].excused
    BY DEF DoublesAreForced
  <2>1. db.rows[i].excused \/ db.rows[j].excused
    BY <1>3 DEF IInv, DoublesAreForced, TablesKept, Kept
  <2> QED BY <1>3, <2>1 DEF TablesKept, Kept
<1>5. \A r : ReqOk(r) => ReqOk(r)'
  BY <1>1 DEF ReqOk, TeamIs, TablesKept, Kept
<1> QED BY <1>1, <1>2, <1>4, <1>5 DEF TablesKept, Kept

\* A request as the server may hold it.
Sound(s) ==
  /\ s \in Request /\ ReqOk(s)
  /\ s.at = "judged" /\ s.mine /\ ~ s.f.force /\ ~ view.twice =>
       \A i \in 1..Len(db.rows) : Twin(db.rows[i], s.f) => db.rows[i].excused

LEMMA AllSound == ASSUME IInv, NEW s \in reqs PROVE Sound(s)
BY DEF IInv, TypeOK, ReqInv, SingleInv, Sound

\* A step of the requests, which takes some and brings others.
LEMMA RequestStep ==
  ASSUME IInv, TablesKept, cap' = cap, dirty' \in BOOLEAN,
         draft' \in [Users \X Modes -> Form \union {Nothing}],
         \A k \in Users \X Modes : draft'[k] \in {draft[k], Nothing},
         view # Nothing => /\ view' \in View /\ view'.user = view.user
                           /\ view'.team \in TeamOr(Teams)
                           /\ FormOk(form', view.user, Teams),
         view = Nothing => view' = Nothing /\ form' = form,
         \A s \in reqs' : s \in reqs \/ Sound(s),
         \A s \in reqs' : s.mine /\ view.twice => view'.twice,
         MineInv'
  PROVE  IInv'
<1>0. \A s \in reqs' : Sound(s)
  BY AllSound
<1>1. TypeOK'
  <2>1. view' = Nothing \/ view' \in View
    OBVIOUS
  <2>2. form' \in Form
    BY DEF IInv, TypeOK, FormOk
  <2>3. reqs' \subseteq Request
    BY <1>0 DEF Sound
  <2>4. db' \in [teams: Seq(Team), rows: Seq(Enrolled)]
    BY DEF TablesKept, Kept
  <2>5. cap' \in Bounds
    BY DEF IInv, TypeOK
  <2> QED BY <2>1, <2>2, <2>3, <2>4, <2>5 DEF TypeOK
<1>2. Teams' = Teams
  BY RowsStay
<1>3. FormInv' /\ DraftInv'
  <2>1. view # Nothing => view' # Nothing
    BY WizardAssumption
  <2> QED BY <1>2, <2>1 DEF IInv, FormInv, DraftInv
<1>4. ReqInv'
  BY <1>0, RowsStay DEF ReqInv, Sound
<1>5. SingleInv'
  <2> SUFFICES ASSUME NEW r \in reqs', NEW i \in 1..Len(db'.rows),
                      r.at = "judged", r.mine, ~ r.f.force, ~ view'.twice,
                      Twin(db'.rows[i], r.f)
               PROVE  db'.rows[i].excused
    BY DEF SingleInv
  <2>1. i \in 1..Len(db.rows) /\ db'.rows[i].person = db.rows[i].person
        /\ db'.rows[i].event = db.rows[i].event
        /\ (db.rows[i].excused => db'.rows[i].excused)
    BY RowsStay
  <2> QED BY <1>0, <2>1 DEF Sound, Twin
<1> QED BY <1>1, <1>3, <1>4, <1>5, RowsStay DEF IInv

-----------------------------------------------------------------------------
(* The requests.                                                           *)

\* A request changes, and stays nobody's if it was.
LEMMA MineSwap ==
  ASSUME IInv, NEW r \in reqs, NEW q, q.mine => r.mine,
         reqs' \subseteq (reqs \ {r}) \union {q}, view' = view
  PROVE  MineInv'
<1>1. ASSUME NEW s \in reqs', s.mine
      PROVE  /\ s = q \/ (s \in reqs /\ s # r)
             /\ view # Nothing
             /\ ~ view.twice => ~ view.dup /\ (s # q => ~ r.mine)
  BY <1>1 DEF IInv, MineInv
<1>2. ~ view.twice => \A s, t \in reqs' : s.mine /\ t.mine => s = t
  BY <1>1 DEF IInv, MineInv
<1> QED BY <1>1, <1>2 DEF MineInv

\* A request is answered: what was clicked twice lasts while another is waited for.
LEMMA HeardOk ==
  ASSUME IInv, NEW r \in reqs, r.mine, NEW v \in View,
         NEW q, ~ q.mine, reqs' \subseteq (reqs \ {r}) \union {q},
         view' = Heard(v, r), v.user = view.user, v.team = view.team, v.twice = view.twice
  PROVE  /\ view # Nothing
         /\ view' \in View /\ view'.user = view.user /\ view'.team = view.team
         /\ \A s \in reqs' : s.mine /\ view.twice => view'.twice
         /\ MineInv'
<1>1. /\ view # Nothing
      /\ ~ view.twice => \A s, t \in reqs : s.mine /\ t.mine => s = t
  BY DEF IInv, MineInv
<1>2. v.twice \in BOOLEAN /\ (v.twice /\ Mine # {r}) \in BOOLEAN
  BY Fields
<1>3. /\ view' \in View /\ view'.user = view.user /\ view'.team = view.team
      /\ view'.twice = (view.twice /\ Mine # {r})
  <2>1. ASSUME NEW b \in BOOLEAN
        PROVE  LET w == [v EXCEPT !.twice = b]
               IN  w \in View /\ w.user = v.user /\ w.team = v.team /\ w.twice = b
    BY DEF View
  <2>2. view' = [v EXCEPT !.twice = v.twice /\ Mine # {r}]
    BY DEF Heard
  <2> QED BY <1>2, <2>1, <2>2
<1>4. \A s \in reqs' : s.mine => s \in Mine /\ s # r
  BY DEF Mine
<1>5. \A s \in reqs' : s.mine /\ view.twice => view'.twice
  BY <1>3, <1>4
<1>6. view' # Nothing
  BY <1>3, WizardAssumption
<1>7. ~ view'.twice => \A s \in reqs' : ~ s.mine
  BY <1>1, <1>3, <1>4 DEF Mine
<1> QED BY <1>1, <1>3, <1>5, <1>6, <1>7 DEF MineInv

\* A form is posted with v on the page: another request is under way only
\* when Submit is clicked twice.
LEMMA PostOk ==
  ASSUME IInv, view # Nothing, NEW v \in View, v.user = view.user, v.team = view.team,
         v.twice = view.twice, ~ v.dup, view.twice \/ Mine = {} \/ ~ v.pending,
         NEW f \in Form, FormOk(f, view.user, Teams), f.person # Nothing, f.sport # Nothing,
         Post(v, f)
  PROVE  /\ view' \in View /\ view'.user = view.user /\ view'.team = view.team
         /\ \A s \in reqs' : s.mine /\ view.twice => view'.twice
         /\ \A s \in reqs' : s \in reqs \/ Sound(s)
         /\ MineInv'
<1>1. cap.reqs \in Nat
  BY WizardAssumption DEF IInv, TypeOK, Bound
<1>2. PICK n \in 1..cap.reqs :
        /\ reqs' = reqs \union {[f |-> f, nr |-> n, mine |-> TRUE, at |-> "sent"]}
        /\ view' = [v EXCEPT !.latest = n, !.twice = v.twice \/ (Mine # {} /\ ~ v.pending)]
  BY DEF Post
<1> DEFINE q == [f |-> f, nr |-> n, mine |-> TRUE, at |-> "sent"]
           b == v.twice \/ (Mine # {} /\ ~ v.pending)
<1>3. n \in Nat
  BY <1>1, <1>2
<1>4. q \in Request /\ q.f = f /\ q.mine /\ q.at = "sent" /\ reqs' = reqs \union {q}
  BY <1>2, <1>3 DEF Request
<1>5. /\ view' \in View /\ view'.user = view.user /\ view'.team = view.team
      /\ view'.dup = v.dup /\ view'.twice = b
  <2>1. b \in BOOLEAN /\ view' = [v EXCEPT !.latest = n, !.twice = b]
    BY <1>2, Fields
  <2> HIDE DEF b
  <2> QED BY <1>3, <2>1 DEF View
<1> HIDE DEF q
<1>6. Sound(q)
  BY <1>4 DEF Sound, ReqOk, FormOk, Fits
<1>7. view.twice => view'.twice
  BY <1>5
<1>8. view' # Nothing
  BY <1>5, WizardAssumption
<1>9. ~ view'.twice => \A r \in reqs : ~ r.mine
  BY <1>5 DEF Mine
<1>10. MineInv'
  BY <1>4, <1>5, <1>8, <1>9 DEF MineInv
<1> QED BY <1>4, <1>5, <1>6, <1>7, <1>10

LEMMA SubmitsOk == ASSUME IInv, Submit \/ Override PROVE IInv'
<1>1. view # Nothing /\ UNCHANGED <<draft, db, cap>> /\ dirty' \in {dirty, TRUE}
  BY DEF Submit, Override, OnStep, Change
<1>2. /\ view \in View /\ FormOk(form, view.user, Teams) /\ view.team \in TeamOr(Teams)
      /\ Teams \in Nat /\ dirty' \in BOOLEAN /\ form \in Form
  BY <1>1, Here
<1>3. /\ TablesKept
      /\ draft' \in [Users \X Modes -> Form \union {Nothing}]
      /\ \A k \in Users \X Modes : draft'[k] \in {draft[k], Nothing}
  BY <1>1, Here, SameTables
<1>4. CASE Submit
  <2>1. /\ form' = form /\ ~ view.dup /\ ~ view.pending
        /\ form.person # Nothing /\ form.sport # Nothing /\ Post(view, form)
    BY <1>4 DEF Submit, OnStep, SchemaAccepts, SubmitEnabled
  <2>2. /\ view' \in View /\ view'.user = view.user /\ view'.team = view.team
        /\ \A s \in reqs' : s.mine /\ view.twice => view'.twice
        /\ \A s \in reqs' : s \in reqs \/ Sound(s)
        /\ MineInv'
    BY <1>1, <1>2, <2>1, PostOk
  <2> QED BY <1>1, <1>2, <1>3, <2>1, <2>2, RequestStep
<1>5. CASE Override
  <2> DEFINE f == [form EXCEPT !.force = TRUE]
             v == [view EXCEPT !.dup = FALSE]
  <2>1. /\ view.dup /\ form' = f
        /\ \/ form.person # Nothing /\ form.sport # Nothing /\ Post(v, f)
           \/ view' = v /\ reqs' = reqs
    BY <1>5 DEF Override, SchemaAccepts, Change
  <2>2. /\ FormOk(f, view.user, Teams) /\ f \in Form
        /\ f.person = form.person /\ f.sport = form.sport
    <3>1. FormOk(f, view.user, Teams)
      BY <1>2, FormForce, TRUE \in BOOLEAN
    <3>2. f \in Form
      BY <3>1 DEF FormOk
    <3>3. form \in Form
      BY <1>2 DEF FormOk
    <3> QED BY <3>1, <3>2, <3>3 DEF Form
  <2>3. v \in View /\ v.user = view.user /\ v.team = view.team /\ v.twice = view.twice
        /\ ~ v.dup
    BY <1>2 DEF View
  <2>4. view.twice \/ Mine = {}
    BY <2>1 DEF IInv, MineInv, Mine
  <2> HIDE DEF f, v
  <2>5. CASE form.person # Nothing /\ form.sport # Nothing /\ Post(v, f)
    <3>1. /\ view' \in View /\ view'.user = view.user /\ view'.team = view.team
          /\ \A s \in reqs' : s.mine /\ view.twice => view'.twice
          /\ \A s \in reqs' : s \in reqs \/ Sound(s)
          /\ MineInv'
      BY <1>1, <2>2, <2>3, <2>4, <2>5, PostOk
    <3> QED BY <1>1, <1>2, <1>3, <2>1, <2>2, <3>1, RequestStep
  <2>6. CASE view' = v /\ reqs' = reqs
    <3>1. MineInv'
      BY <1>1, <2>3, <2>6, WizardAssumption DEF IInv, MineInv
    <3> QED BY <1>1, <1>2, <1>3, <2>1, <2>2, <2>3, <2>6, <3>1, RequestStep
  <2> QED BY <2>1, <2>5, <2>6
<1> QED BY <1>4, <1>5

LEMMA RenderPendingOk == ASSUME IInv, RenderPending PROVE IInv'
<1>1. /\ view # Nothing /\ view' = [view EXCEPT !.pending = Waiting]
      /\ UNCHANGED <<form, dirty, draft, reqs, db, cap>>
  BY DEF RenderPending
<1>2. /\ view \in View /\ FormOk(form, view.user, Teams) /\ view.team \in TeamOr(Teams)
      /\ dirty \in BOOLEAN
  BY <1>1, Here
<1>3. Same(view, view') /\ view'.team = view.team
  <2>1. Waiting \in BOOLEAN
    BY DEF Waiting
  <2> QED BY <1>1, <1>2, <2>1, ViewPending
<1> QED BY <1>1, <1>2, <1>3, DraftsKept

\* What stays when the wizard itself does.
LEMMA Behind ==
  ASSUME IInv, UNCHANGED <<view, form, dirty, draft, cap>>
  PROVE  /\ cap' = cap /\ dirty' \in BOOLEAN
         /\ draft' \in [Users \X Modes -> Form \union {Nothing}]
         /\ \A k \in Users \X Modes : draft'[k] \in {draft[k], Nothing}
         /\ view # Nothing => /\ view' \in View /\ view'.user = view.user
                              /\ view'.team \in TeamOr(Teams)
                              /\ FormOk(form', view.user, Teams)
         /\ view = Nothing => view' = Nothing /\ form' = form
<1>1. dirty \in BOOLEAN /\ draft \in [Users \X Modes -> Form \union {Nothing}]
  BY DEF IInv, TypeOK
<1> QED BY <1>1, Here

LEMMA JudgeOk == ASSUME IInv, NEW r \in reqs, Judge(r) PROVE IInv'
<1>1. PICK verdict \in {"judged", "duplicate", "refused"} :
        /\ verdict # "refused" =>
             /\ Accepts(r.f)
             /\ ((verdict = "duplicate") <=>
                   (~ r.f.force /\ IsDuplicate(r.f.person, r.f.event)))
        /\ reqs' = (reqs \ {r}) \union {[r EXCEPT !.at = verdict]}
  BY DEF Judge
<1>2. UNCHANGED <<view, form, dirty, draft, db, cap>>
  BY DEF Judge
<1> DEFINE q == [r EXCEPT !.at = verdict]
<1>3. r \in Request /\ ReqOk(r)
  BY DEF IInv, TypeOK, ReqInv
<1>4. q \in Request /\ q.f = r.f /\ q.mine = r.mine /\ q.at = verdict
  BY <1>3 DEF Request
<1>5. reqs' = (reqs \ {r}) \union {q}
  BY <1>1
<1> HIDE DEF q
<1>6. Sound(q)
  <2>1. ASSUME verdict = "judged"
        PROVE  /\ r.f.team # Nothing => TeamIs(r.f.team, r.f.org, r.f.sport, r.f.category)
               /\ ~ r.f.force => \A i \in DOMAIN db.rows : ~ Twin(db.rows[i], r.f)
    BY <1>1, <2>1 DEF Accepts, TeamMatches, TeamIs, IsDuplicate, Twin
  <2>2. DOMAIN db.rows = 1..Len(db.rows)
    BY Tables
  <2> QED BY <1>3, <1>4, <2>1, <2>2 DEF Sound, ReqOk
<1>7. MineInv'
  BY <1>2, <1>4, <1>5, MineSwap
<1>8. TablesKept
  BY <1>2, SameTables
<1> QED BY <1>2, <1>5, <1>6, <1>7, <1>8, Behind, RequestStep

LEMMA LoseOk == ASSUME IInv, NEW r \in reqs, Lose(r) PROVE IInv'
<1> DEFINE q == [r EXCEPT !.mine = FALSE]
<1>1. /\ r.mine /\ reqs' = (reqs \ {r}) \union {q} /\ view' = Heard(view, r)
      /\ UNCHANGED <<form, dirty, draft, cap>>
  BY DEF Lose
<1>2. r \in Request /\ ReqOk(r)
  BY DEF IInv, TypeOK, ReqInv
<1>3. q \in Request /\ q.f = r.f /\ ~ q.mine /\ q.at = r.at
  BY <1>2 DEF Request
<1> HIDE DEF q
<1>4. Sound(q)
  BY <1>2, <1>3 DEF Sound, ReqOk
<1>5. /\ view # Nothing /\ view' \in View /\ view'.user = view.user /\ view'.team = view.team
      /\ \A s \in reqs' : s.mine /\ view.twice => view'.twice
      /\ MineInv'
  <2>1. view \in View
    BY <1>1, Here DEF IInv, MineInv
  <2> QED BY <1>1, <1>3, <2>1, HeardOk
<1>6. TablesKept
  <2>1. CASE db' = db
    BY <2>1, SameTables
  <2>2. CASE db' # db
    <3>1. PICK i \in 1..Len(db.rows) : db' = [db EXCEPT !.rows[i].excused = TRUE]
      BY <2>2, Tables DEF Lose
    <3>2. db' = [db EXCEPT !.rows = [db.rows EXCEPT ![i] = [db.rows[i] EXCEPT !.excused = TRUE]]]
      BY <3>1
    <3> DEFINE x == [db.rows[i] EXCEPT !.excused = TRUE]
    <3>3. db' = [db EXCEPT !.rows = [db.rows EXCEPT ![i] = x]]
      BY <3>2
    <3>4. x = [db.rows[i] EXCEPT !.excused = TRUE]
      OBVIOUS
    <3> HIDE DEF x
    <3>5. Kept([db EXCEPT !.rows = [db.rows EXCEPT ![i] = x]])
      BY <3>4, RowEdits
    <3> QED BY <3>3, <3>5 DEF TablesKept
  <2> QED BY <2>1, <2>2
<1>7. /\ FormOk(form, view.user, Teams) /\ view.team \in TeamOr(Teams) /\ dirty \in BOOLEAN
      /\ draft \in [Users \X Modes -> Form \union {Nothing}]
  BY <1>5, Here
<1> QED BY <1>1, <1>4, <1>5, <1>6, <1>7, RequestStep

LEMMA ReplyOk == ASSUME IInv, NEW r \in reqs, Reply(r) PROVE IInv'
<1>1. /\ r.mine /\ reqs' = reqs \ {r} /\ UNCHANGED <<form, dirty, db, cap>>
      /\ \E w : draft' = DraftAfter(w)
  BY DEF Reply
<1>2. PICK v \in { [view EXCEPT !.added = TRUE, !.step = "team"],
                   [view EXCEPT !.screen = "success"],
                   [view EXCEPT !.dup = r.at = "duplicate"] } : view' = Heard(v, r)
  BY DEF Reply
<1>3. view # Nothing
  BY <1>1 DEF IInv, MineInv
<1>4. /\ view \in View /\ FormOk(form, view.user, Teams) /\ view.team \in TeamOr(Teams)
      /\ dirty \in BOOLEAN
  BY <1>3, Here
<1>5. v \in View /\ v.user = view.user /\ v.team = view.team /\ v.twice = view.twice
  <2>1. CASE v = [view EXCEPT !.added = TRUE, !.step = "team"]
    <3>1. "team" \in Steps
      BY DEF Steps
    <3> QED BY <1>4, <2>1, <3>1, ViewAdded DEF Same
  <2>2. CASE v = [view EXCEPT !.screen = "success"]
    BY <1>4, <2>2, ViewScreen DEF Same
  <2>3. CASE v = [view EXCEPT !.dup = r.at = "duplicate"]
    <3>1. ASSUME NEW b \in BOOLEAN
          PROVE  LET w == [view EXCEPT !.dup = b]
                 IN  w \in View /\ w.user = view.user /\ w.team = view.team
                     /\ w.twice = view.twice
      BY <1>4 DEF View
    <3>2. (r.at = "duplicate") \in BOOLEAN
      OBVIOUS
    <3> QED BY <2>3, <3>1, <3>2
  <2> QED BY <2>1, <2>2, <2>3
<1>6. /\ view' \in View /\ view'.user = view.user /\ view'.team = view.team
      /\ \A s \in reqs' : s.mine /\ view.twice => view'.twice
      /\ MineInv'
  <2>1. PICK q \in {[r EXCEPT !.mine = FALSE]} : ~ q.mine
    BY DEF IInv, TypeOK, Request
  <2>2. reqs' \subseteq (reqs \ {r}) \union {q}
    BY <1>1
  <2> QED BY <1>1, <1>2, <1>5, <2>1, <2>2, HeardOk
<1>7. /\ draft' \in [Users \X Modes -> Form \union {Nothing}]
      /\ \A k \in Users \X Modes : draft'[k] \in {draft[k], Nothing}
  BY <1>1, <1>3, DraftAfterOk
<1>8. TablesKept
  BY <1>1, SameTables
<1> QED BY <1>1, <1>3, <1>4, <1>6, <1>7, <1>8, RequestStep

LEMMA UnheardOk == ASSUME IInv, NEW r \in reqs, Unheard(r) PROVE IInv'
<1>1. reqs' = reqs \ {r} /\ UNCHANGED <<view, form, dirty, draft, db, cap>>
  BY DEF Unheard
<1>2. MineInv'
  BY <1>1 DEF IInv, MineInv
<1>3. TablesKept
  BY <1>1, SameTables
<1> QED BY <1>1, <1>2, <1>3, Behind, RequestStep

LEMMA RemoveMemberOk == ASSUME IInv, RemoveMember PROVE IInv'
<1>1. UNCHANGED <<view, form, dirty, draft, reqs, cap>>
  BY DEF RemoveMember
<1>2. PICK i \in 1..Len(db.rows) : db' = [db EXCEPT !.rows[i].team = Nothing]
  BY Tables DEF RemoveMember, Members
<1>3. db' = [db EXCEPT !.rows = [db.rows EXCEPT ![i] = [db.rows[i] EXCEPT !.team = Nothing]]]
  BY <1>2
<1> DEFINE x == [db.rows[i] EXCEPT !.team = Nothing]
<1>4. TablesKept
  <2>1. db' = [db EXCEPT !.rows = [db.rows EXCEPT ![i] = x]]
    BY <1>3
  <2>2. x = [db.rows[i] EXCEPT !.team = Nothing]
    OBVIOUS
  <2> HIDE DEF x
  <2>3. Kept([db EXCEPT !.rows = [db.rows EXCEPT ![i] = x]])
    BY <2>2, RowEdits
  <2> QED BY <2>1, <2>3 DEF TablesKept
<1>5. MineInv'
  BY <1>1 DEF IInv, MineInv
<1> QED BY <1>1, <1>4, <1>5, Behind, RequestStep

\* A judged request becomes a registration.
LEMMA CommitOk == ASSUME IInv, NEW r \in reqs, Commit(r) PROVE IInv'
<1> DEFINE q == [r EXCEPT !.at = "ok"]
           e == [person |-> r.f.person, event |-> r.f.event, org |-> r.f.org,
                 sport |-> r.f.sport, category |-> r.f.category, team |-> r.f.team,
                 excused |-> r.f.force \/ ~ r.mine \/ view.twice]
           n == Len(db.rows)
<1>1. /\ r.at = "judged" /\ reqs' = (reqs \ {r}) \union {q}
      /\ db' = [db EXCEPT !.rows = Append(db.rows, e)]
      /\ UNCHANGED <<view, form, dirty, draft, cap>>
  BY DEF Commit
<1>2. r \in Request /\ ReqOk(r) /\ r.f \in Form
  BY Fields DEF IInv, TypeOK, ReqInv
<1>3. q \in Request /\ q.f = r.f /\ q.mine = r.mine /\ q.at = "ok"
  BY <1>2 DEF Request
<1>4. /\ e \in Enrolled /\ Twin(e, r.f) /\ e.org = r.f.org /\ e.sport = r.f.sport
      /\ e.category = r.f.category /\ e.team = r.f.team
  BY <1>2, Fields DEF Enrolled, ReqOk, Fits, Maybe, Twin
<1>5. (r.mine /\ ~ r.f.force /\ ~ view.twice) \/ e.excused
  BY <1>2
<1> HIDE DEF q, e
<1>6. /\ db.rows \in Seq(Enrolled) /\ n \in Nat /\ Teams \in Nat
      /\ db \in [teams: Seq(Team), rows: Seq(Enrolled)]
  BY Tables DEF IInv, TypeOK
<1>7. /\ Append(db.rows, e) \in Seq(Enrolled) /\ Len(Append(db.rows, e)) = n + 1
      /\ Append(db.rows, e)[n + 1] = e
      /\ \A i \in 1..n : Append(db.rows, e)[i] = db.rows[i]
  BY <1>4, <1>6, AppendProperties
<1>8. /\ db' \in [teams: Seq(Team), rows: Seq(Enrolled)] /\ db'.teams = db.teams
      /\ db'.rows = Append(db.rows, e)
  BY <1>1, <1>6, <1>7
<1> HIDE DEF n
<1>9. /\ Len(db'.rows) = n + 1 /\ db'.rows[n + 1] = e /\ DOMAIN db'.rows = 1..(n + 1)
      /\ \A i \in 1..n : db'.rows[i] = db.rows[i]
      /\ \A i \in 1..(n + 1) : i \in 1..n \/ i = n + 1
  BY <1>6, <1>7, <1>8
<1>10. Teams' = Teams
  BY <1>8 DEF Teams
<1>11. TypeOK'
  BY <1>1, <1>3, <1>8 DEF IInv, TypeOK
<1>12. FormInv' /\ DraftInv'
  BY <1>1, <1>10 DEF IInv, FormInv, DraftInv
<1>13. ReqInv'
  <2>1. \A s : ReqOk(s) => ReqOk(s)'
    BY <1>8, <1>10 DEF ReqOk, TeamIs
  <2>2. ReqOk(q)'
    BY <1>2, <1>3, <2>1 DEF ReqOk
  <2> QED BY <1>1, <2>1, <2>2 DEF IInv, ReqInv
<1>14. MineInv'
  BY <1>1, <1>3, MineSwap
<1>15. RowInv'
  <2> SUFFICES ASSUME NEW i \in 1..(n + 1), db'.rows[i].team # Nothing
               PROVE  LET x == db'.rows[i]
                      IN  x.team \in 1..Teams /\ TeamIs(x.team, x.org, x.sport, x.category)
    BY <1>8, <1>9, <1>10 DEF RowInv, TeamIs
  <2>1. CASE i \in 1..n
    BY <1>9, <2>1 DEF IInv, RowInv, n
  <2>2. CASE i = n + 1
    BY <1>1, <1>2, <1>4, <1>9, <2>2 DEF ReqOk, TeamOr
  <2> QED BY <1>9, <2>1, <2>2
<1>16. SingleInv'
  <2> SUFFICES ASSUME NEW s \in reqs', NEW i \in 1..(n + 1),
                      s.at = "judged", s.mine, ~ s.f.force, ~ view.twice,
                      Twin(db'.rows[i], s.f)
               PROVE  db'.rows[i].excused
    BY <1>1, <1>9 DEF SingleInv
  <2>1. s \in reqs /\ s # r
    BY <1>1, <1>3
  <2>2. CASE i \in 1..n
    BY <1>9, <2>1, <2>2 DEF IInv, SingleInv, n
  <2>3. CASE i = n + 1
    <3>1. ~ r.mine
      BY <2>1 DEF IInv, MineInv
    <3> QED BY <1>5, <1>9, <2>3, <3>1
  <2> QED BY <1>9, <2>2, <2>3
<1>17. DoublesAreForced'
  <2> SUFFICES ASSUME NEW i \in 1..(n + 1), NEW j \in 1..(n + 1), i < j,
                      db'.rows[i].person = db'.rows[j].person,
                      db'.rows[i].event = db'.rows[j].event
               PROVE  db'.rows[i].excused \/ db'.rows[j].excused
    BY <1>9 DEF DoublesAreForced
  <2>1. i \in 1..n
    BY <1>6
  <2>2. CASE j \in 1..n
    <3>1. DOMAIN db.rows = 1..n
      BY Tables DEF n
    <3> QED BY <1>9, <2>1, <2>2, <3>1 DEF IInv, DoublesAreForced
  <2>3. CASE j = n + 1
    <3>1. Twin(db.rows[i], r.f)
      BY <1>4, <1>9, <2>1, <2>3 DEF Twin
    <3>2. r.mine /\ ~ r.f.force /\ ~ view.twice => db.rows[i].excused
      BY <1>1, <2>1, <3>1 DEF IInv, SingleInv, n
    <3> QED BY <1>5, <1>9, <2>1, <2>3, <3>2
  <2> QED BY <1>9, <2>2, <2>3
<1> QED BY <1>11, <1>12, <1>13, <1>14, <1>15, <1>16, <1>17 DEF IInv

\* What fits with n teams fits with one more.
LEMMA OneMore ==
  ASSUME NEW n \in Nat, NEW u
  PROVE  /\ TeamOr(n) \subseteq TeamOr(n + 1) /\ n + 1 \in TeamOr(n + 1)
         /\ \A f : FormOk(f, u, n) => FormOk(f, u, n + 1)
<1>1. TeamOr(n) \subseteq TeamOr(n + 1) /\ n + 1 \in TeamOr(n + 1)
  BY DEF TeamOr
<1> QED BY <1>1 DEF FormOk

\* A team is made, or the attempt fails.
LEMMA TeamCreatedOk == ASSUME IInv, TeamCreated PROVE IInv'
<1>1. view # Nothing /\ view.making # Nothing /\ UNCHANGED <<draft, reqs, cap>>
  BY DEF TeamCreated
<1>2. /\ view \in View /\ FormOk(form, view.user, Teams) /\ view.team \in TeamOr(Teams)
      /\ Teams \in Nat /\ form \in Form /\ dirty \in BOOLEAN
  BY <1>1, Here
<1>3. CASE view' = [view EXCEPT !.making = Nothing] /\ UNCHANGED <<form, dirty, db>>
  <2>1. Same(view, view') /\ view'.team = view.team
    <3>1. Nothing \in Maybe(Team)
      BY DEF Maybe
    <3> QED BY <1>2, <1>3, <3>1, ViewMaking
  <2> QED BY <1>1, <1>2, <1>3, <2>1, DraftsKept
<1>4. CASE LET t == Len(db.teams) + 1
           IN /\ t <= cap.teams
              /\ db' = [db EXCEPT !.teams = Append(@, view.making)]
              /\ view' = [view EXCEPT !.team = t, !.making = Nothing]
              /\ Change([form EXCEPT !.team = t])
  <2> DEFINE t == Teams + 1
  <2>1. /\ db' = [db EXCEPT !.teams = Append(db.teams, view.making)]
        /\ view' = [view EXCEPT !.team = t, !.making = Nothing]
        /\ form' = [form EXCEPT !.team = t] /\ dirty' = TRUE
    BY <1>4 DEF Change, Teams
  <2>2. view.making \in Team
    BY <1>1, <1>2, Fields DEF Maybe
  <2>3. /\ db.teams \in Seq(Team) /\ db \in [teams: Seq(Team), rows: Seq(Enrolled)]
        /\ Len(db.teams) = Teams
    BY Tables DEF IInv, TypeOK, Teams
  <2>4. /\ Append(db.teams, view.making) \in Seq(Team)
        /\ Len(Append(db.teams, view.making)) = t
        /\ \A k \in 1..Teams : Append(db.teams, view.making)[k] = db.teams[k]
    BY <2>2, <2>3, AppendProperties
  <2>5. /\ db' \in [teams: Seq(Team), rows: Seq(Enrolled)] /\ db'.rows = db.rows
        /\ db'.teams = Append(db.teams, view.making)
    BY <2>1, <2>3, <2>4
  <2>6. /\ Teams' = t /\ t \in Nat
        /\ \A k \in 1..Teams : db'.teams[k] = db.teams[k] /\ k \in 1..t
    BY <1>2, <2>4, <2>5 DEF Teams
  <2>7. t \in TeamOr(t) /\ t \in Maybe(TeamIds) /\ Nothing \in TeamOr(Teams)
        /\ TeamOr(Teams) \subseteq TeamOr(t)
        /\ \A u, f : FormOk(f, u, Teams) => FormOk(f, u, t)
    BY <1>2, OneMore, TeamsOf DEF TeamOr
  <2> HIDE DEF t
  <2>8. Same(view, view') /\ view'.team = t
    <3>1. t \in Maybe(TeamIds) /\ Nothing \in Maybe(Team)
      BY <2>7 DEF Maybe
    <3>2. view' = [view EXCEPT !.team = t, !.making = Nothing] /\ view \in View
      BY <1>2, <2>1
    <3> QED BY <3>1, <3>2, ViewTeamMade
  <2>9. FormOk(form', view.user, t) /\ view' # Nothing /\ view'.user = view.user
    <3>1. FormOk(form, view.user, t)
      BY <1>2, <2>7
    <3>2. FormOk(form', view.user, t)
      BY <2>1, <2>6, <2>7, <3>1, FormTeam
    <3> QED BY <2>8, <3>2, WizardAssumption DEF Same
  <2>10. \A k, o, s, c : k \in 1..Teams /\ TeamIs(k, o, s, c) => TeamIs(k, o, s, c)'
    BY <2>6 DEF TeamIs
  <2>11. TypeOK'
    BY <1>1, <2>1, <2>5, <2>8, <2>9 DEF IInv, TypeOK, Same, FormOk
  <2>12. FormInv' /\ DraftInv'
    BY <1>1, <2>6, <2>7, <2>8, <2>9 DEF IInv, FormInv, DraftInv
  <2>13. ReqInv'
    <3> SUFFICES ASSUME NEW r \in reqs PROVE ReqOk(r)'
      BY <1>1 DEF ReqInv
    <3>1. ReqOk(r)
      BY DEF IInv, ReqInv
    <3>2. r.f.team # Nothing => r.f.team \in 1..Teams
      BY <3>1 DEF ReqOk, TeamOr
    <3> QED BY <2>6, <2>7, <2>10, <3>1, <3>2 DEF ReqOk
  <2>14. MineInv'
    BY <1>1, <2>8, <2>9 DEF IInv, MineInv, Same
  <2>15. RowInv'
    BY <2>5, <2>6, <2>10 DEF IInv, RowInv
  <2>16. SingleInv' /\ DoublesAreForced'
    BY <1>1, <2>5, <2>8 DEF Same, IInv, SingleInv, DoublesAreForced
  <2> QED BY <2>11, <2>12, <2>13, <2>14, <2>15, <2>16 DEF IInv
<1> QED BY <1>3, <1>4 DEF TeamCreated

-----------------------------------------------------------------------------
(* The theorems.                                                           *)

LEMMA Begins == Init => IInv
<1> SUFFICES ASSUME Init PROVE IInv
  OBVIOUS
<1>1. Blank \in Form
  BY BlankOk DEF FormOk
<1>2. /\ db.teams = <<>> /\ db.rows = <<>> /\ Len(db.rows) = 0 /\ DOMAIN db.rows = {}
      /\ db \in [teams: Seq(Team), rows: Seq(Enrolled)]
  BY DEF Init
<1>3. TypeOK
  BY <1>1, <1>2 DEF Init, TypeOK
<1>4. FormInv /\ DraftInv /\ ReqInv /\ MineInv
  BY DEF Init, FormInv, DraftInv, ReqInv, MineInv
<1>5. RowInv /\ SingleInv /\ DoublesAreForced
  BY <1>2 DEF RowInv, SingleInv, DoublesAreForced
<1> QED BY <1>3, <1>4, <1>5 DEF IInv

LEMMA Continues == IInv /\ [Next]_vars => IInv'
<1> SUFFICES ASSUME IInv, [Next]_vars PROVE IInv'
  OBVIOUS
<1>1. CASE UNCHANGED vars
  BY <1>1 DEF vars, IInv, TypeOK, FormInv, DraftInv, ReqInv, ReqOk, MineInv, RowInv,
     SingleInv, DoublesAreForced, TeamIs, Teams
<1>2. ASSUME NEW r \in reqs, Judge(r) \/ Commit(r) \/ Lose(r) \/ Reply(r) \/ Unheard(r)
      PROVE  IInv'
  BY <1>2, JudgeOk, CommitOk, LoseOk, ReplyOk, UnheardOk
<1>3. CASE \E t \in DOMAIN db.teams : PickTeam(t)
  BY <1>3, MembersOk
<1> QED BY <1>1, <1>2, <1>3, ChoicesOk, FilesOk, MovesOk, MembersOk, BeginsOk, ComesAndGoes,
           SubmitsOk, RenderPendingOk, RemoveMemberOk, TeamCreatedOk DEF Next

LEMMA Always == Spec => []IInv
BY Begins, Continues, PTL DEF Spec

\* Form, drafts, requests and the server's tables have their types, whatever
\* the user does and however late the answers come.
THEOREM WizardTypeCorrect == Spec => []TypeOK
<1>1. IInv => TypeOK
  BY DEF IInv
<1> QED BY <1>1, Always, PTL

\* An event of its type, a sport of its event and a category of its sport: in
\* the form, in every draft the browser keeps and in every request, for any
\* order of choices, steps back and restored drafts.
THEOREM SelectionsHold == Spec => []SelectionsFit
<1>1. IInv => SelectionsFit
  <2> SUFFICES ASSUME IInv PROVE SelectionsFit
    OBVIOUS
  <2>1. Fits(form)
    BY BlankOk DEF IInv, FormInv, FormOk
  <2>2. \A k \in DOMAIN draft : draft[k] # Nothing => Fits(draft[k])
    BY DEF IInv, TypeOK, DraftInv, FormOk
  <2>3. \A r \in reqs : Fits(r.f)
    BY DEF IInv, ReqInv, ReqOk
  <2> QED BY <2>1, <2>2, <2>3 DEF SelectionsFit
<1> QED BY <1>1, Always, PTL

\* The wizard shows an account what that account has typed, with any number of
\* accounts taking turns in one browser: drafts are kept by user and page.
THEOREM OwnInputHolds == Spec => []OwnInput
<1>1. IInv => OwnInput
  BY DEF IInv, FormInv, FormOk, OwnInput
<1> QED BY <1>1, Always, PTL

\* One registration is under way at most when Submit is not clicked twice before
\* the page shows that it waits: the button follows the rendered mutation, and
\* the duplicate dialog opens only when the one request has been answered.
THEOREM OneRegistrationHolds == Spec => []OneRegistration
<1>1. IInv => OneRegistration
  <2> SUFFICES ASSUME IInv, ~ view.twice PROVE Cardinality(Mine) <= 1
    BY DEF OneRegistration
  <2>1. \A r, s \in Mine : r = s
    BY DEF IInv, MineInv, Mine
  <2>2. CASE Mine = {}
    BY <2>2, FS_EmptySet
  <2>3. CASE Mine # {}
    <3>1. PICK r : Mine = {r}
      BY <2>1, <2>3
    <3>2. Cardinality({r}) = 1
      BY FS_Singleton
    <3> QED BY <3>1, <3>2
  <2> QED BY <2>2, <2>3
<1> QED BY <1>1, Always, PTL

\* A registration is on a team of its own organisation, sport and category,
\* though the wizard keeps a team the user chose for another sport.
THEOREM TeamFitsHolds == Spec => []TeamFits
<1>1. IInv => TeamFits
  <2> SUFFICES ASSUME IInv PROVE TeamFits
    OBVIOUS
  <2>1. DOMAIN db.rows = 1..Len(db.rows)
    BY Tables
  <2> QED BY <2>1 DEF IInv, RowInv, TeamIs, TeamFits
<1> QED BY <1>1, Always, PTL

\* Nobody is registered twice for an event from this wizard unless the user
\* forced it, clicked Submit twice before the page showed that it waits, or left
\* the request behind, for any number of participants, events and requests.
THEOREM DoublesAreForcedHolds == Spec => []DoublesAreForced
<1>1. IInv => DoublesAreForced
  BY DEF IInv
<1> QED BY <1>1, Always, PTL
=============================================================================
