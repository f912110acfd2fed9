--------------------------- MODULE OpenSurveyFill ---------------------------
(***************************************************************************)
(* The page on which an organisation fills the open survey, at several     *)
(* browsers of its members.  The form takes its values from the fill view, *)
(* which is read again on focus and after a submission: what was typed is  *)
(* dropped when the answers there differ from those it was opened with.    *)
(***************************************************************************)
EXTENDS OpenSurveyDb

CONSTANTS
  Browsers,
  MaxSends      \* bound: submissions of a browser

ASSUME FillAssumption == MaxSends \in Nat

VARIABLES
  fill,    \* the page at each browser
  jobs     \* submissions under way

SeenField == [type: Types, options: SUBSET Options, required: BOOLEAN, value: Answer]

\* A function of some fields
Over(v, S) == DOMAIN v \subseteq Ids /\ \A f \in DOMAIN v : v[f] \in S
MaybeOver(v, S) == v = Nothing \/ Over(v, S)

NoFetch == [at |-> "idle", view |-> Nothing, old |-> FALSE]

NewPage == [event |-> Nothing, data |-> [e \in Events |-> Nothing],
            fetch |-> [e \in Events |-> NoFetch], values |-> <<>>, base |-> <<>>,
            closed |-> FALSE, success |-> FALSE, sends |-> 0,
            saved |-> [e \in Events |-> Nothing]]

Fields(p)  == p.data[p.event]
Mounted(p) == ~p.success /\ p.event # Nothing /\ Fields(p) # Nothing

\* A view is at hand when it was served.
FetchOk(q) ==
  /\ DOMAIN q = DOMAIN NoFetch /\ q.at \in {"idle", "asked", "served"} /\ q.old \in BOOLEAN
  /\ IF q.at = "served" THEN Over(q.view, SeenField) ELSE q.view = Nothing
PageOk(p) ==
  /\ DOMAIN p = DOMAIN NewPage
  /\ p.event \in Maybe(Events) /\ p.closed \in BOOLEAN /\ p.success \in BOOLEAN
  /\ p.sends \in 0 .. MaxSends
  /\ DOMAIN p.data = Events /\ DOMAIN p.fetch = Events /\ DOMAIN p.saved = Events
  /\ \A e \in Events : MaybeOver(p.data[e], SeenField) /\ FetchOk(p.fetch[e]) /\ MaybeOver(p.saved[e], Answer)
  /\ Over(p.values, Answer) /\ Over(p.base, Answer)

\* The form has the fields it shows.
FormOk(p) == DOMAIN p.values = DOMAIN p.base /\ (Mounted(p) => DOMAIN p.values = DOMAIN Fields(p))

JobOk(m) ==
  /\ DOMAIN m = {"by", "no", "event", "given", "at", "found", "heard"}
  /\ m.by \in Browsers /\ m.no \in 1 .. MaxSends /\ m.event \in Events
  /\ m.at \in {"sent", "read", "saved", "closed", "error"} /\ m.heard \in BOOLEAN
  /\ Over(m.given, Answer)
  /\ \A f \in DOMAIN m.found : f \in DOMAIN m.given /\ m.found[f] \in RowsOf(f)

FillTypeOK ==
  /\ DOMAIN fill = Browsers /\ \A u \in Browsers : PageOk(fill[u]) /\ FormOk(fill[u])
  /\ \A m \in jobs : JobOk(m)

-----------------------------------------------------------------------------
(* The form.                                                               *)

FieldsToDefaults(view) == [f \in DOMAIN view |-> view[f].value]

\* useForm's "values": the form is reset when they are not those it had.
Fresh(q) == [q EXCEPT !.values = FieldsToDefaults(Fields(q)), !.base = FieldsToDefaults(Fields(q))]
\* Fault: "defaultValues", which are those the form was opened with.
OpenedOnce(p, q) ==
  CASE ~Mounted(q) -> [q EXCEPT !.values = <<>>, !.base = <<>>, !.closed = FALSE]
    [] Mounted(q) /\ ~Mounted(p) -> [Fresh(q) EXCEPT !.closed = FALSE]
    [] Mounted(q) /\ Mounted(p) -> q
Rendered(p, q) ==
  CASE ~Mounted(q) -> [q EXCEPT !.values = <<>>, !.base = <<>>, !.closed = FALSE]
    [] Mounted(q) /\ ~Mounted(p) -> [Fresh(q) EXCEPT !.closed = FALSE]
    [] Mounted(q) /\ Mounted(p) -> IF FieldsToDefaults(Fields(q)) = p.base THEN q ELSE Fresh(q)

\* A form that goes hears no more of its submission.
Show(u, q, js) ==
  /\ fill' = [fill EXCEPT ![u] = Rendered(@, q)]
  /\ jobs' = {IF m.by = u /\ ~Mounted(q) THEN [m EXCEPT !.heard = FALSE] ELSE m : m \in js}

Pending(u)  == \E m \in jobs : m.by = u /\ m.heard
Editable(u) == Mounted(fill[u]) /\ ~fill[u].closed

\* A query that is observed anew is fetched, unless it is being fetched.
Asked(fetch, e) == IF fetch[e].at = "idle" THEN [fetch EXCEPT ![e].at = "asked"] ELSE fetch

ChooseEvent(u, e) ==
  /\ ~fill[u].success /\ e # fill[u].event
  /\ Show(u, [fill[u] EXCEPT !.event = e, !.fetch = Asked(@, e)], jobs)
  /\ UNCHANGED db

Leave(u) ==
  /\ fill[u].event # Nothing
  /\ Show(u, [fill[u] EXCEPT !.event = Nothing, !.success = FALSE], jobs)
  /\ UNCHANGED db

Refocus(u) ==
  /\ fill[u].event # Nothing
  /\ fill[u].fetch[fill[u].event].at = "idle"
  /\ Show(u, [fill[u] EXCEPT !.fetch = Asked(@, fill[u].event)], jobs)
  /\ UNCHANGED db

GetFillView(u, e) ==
  /\ fill[u].fetch[e].at = "asked"
  /\ \E v \in FillViews(e) :
       fill' = [fill EXCEPT ![u].fetch[e] = [@ EXCEPT !.at = "served", !.view = v]]
  /\ UNCHANGED <<db, jobs>>

Received(u, e, v) ==
  /\ Show(u, [fill[u] EXCEPT !.fetch[e] = NoFetch, !.data[e] = v,
                             !.saved[e] = IF fill[u].fetch[e].old THEN Nothing ELSE @], jobs)
  /\ UNCHANGED db
FillArrives(u, e) == fill[u].fetch[e].at = "served" /\ Received(u, e, fill[u].fetch[e].view)

\* The adapter turns a failed read into no fields.
FillFails(u, e) == fill[u].fetch[e].at # "idle" /\ Received(u, e, <<>>)

-----------------------------------------------------------------------------
(* The inputs, by the type of the field.                                   *)

\* A box is ticked or not; options that are no more are dropped.
Toggled(f, p, o) ==
  (IF o \in p.values[f] THEN p.values[f] \ {o} ELSE p.values[f] \union {o}) \intersect Fields(p)[f].options

Text(f, p)     == {{}, {Word}}
Radio(f, p)    == {{o} : o \in Fields(p)[f].options}
Checkbox(f, p) == {Toggled(f, p, o) : o \in Fields(p)[f].options}

Inputs(f, p) ==
  CASE Fields(p)[f].type = "text"     -> Text(f, p)
    [] Fields(p)[f].type = "radio"    -> Radio(f, p)
    [] Fields(p)[f].type = "checkbox" -> Checkbox(f, p)

FillField(u, f) ==
  /\ Editable(u) /\ f \in DOMAIN Fields(fill[u])
  /\ \E a \in Inputs(f, fill[u]) \ {fill[u].values[f]} : fill' = [fill EXCEPT ![u].values[f] = a]
  /\ UNCHANGED <<db, jobs>>

\* What a required field holds, an option that is no more included, is an answer.
FormValid(p) == \A f \in DOMAIN Fields(p) : Fields(p)[f].required => p.values[f] # {}

\* Every field that is shown is sent, changed or not.
Payload(p) == [f \in DOMAIN Fields(p) |-> p.values[f]]

Submit(u) ==
  LET p == fill[u] IN
  /\ Editable(u) /\ Fields(p) # <<>> /\ FormValid(p)
  /\ ~Pending(u) /\ p.sends < MaxSends
  /\ Show(u, [p EXCEPT !.sends = @ + 1],
          jobs \union {[by |-> u, no |-> p.sends + 1, event |-> p.event, given |-> Payload(p),
                        at |-> "sent", found |-> <<>>, heard |-> TRUE]})
  /\ UNCHANGED db

-----------------------------------------------------------------------------
(* POST /responses, and its answer.                                        *)

Becomes(m, n) == jobs' = (jobs \ {m}) \union {n}

UpsertReads(m) ==
  /\ m.at = "sent"
  /\ CASE ~Gate(m.event) -> Becomes(m, [m EXCEPT !.at = "closed"])
       [] Gate(m.event) /\ ~Known(m.event, m.given) -> Becomes(m, [m EXCEPT !.at = "error"])
       [] OTHER -> \E g \in Found(DOMAIN m.given) : Becomes(m, [m EXCEPT !.at = "read", !.found = g])
  /\ UNCHANGED <<db, fill>>

\* What other browsers have saved of the event is then not the last.
UpsertWrites(m) ==
  /\ m.at = "read"
  /\ Upsert(m.given, m.found)
  /\ Becomes(m, [m EXCEPT !.at = "saved", !.found = <<>>])
  /\ fill' = [u \in Browsers |-> [fill[u] EXCEPT !.saved[m.event] = Nothing]]

UpsertFails(m) ==
  /\ m.at \in {"sent", "saved"}
  /\ Becomes(m, [m EXCEPT !.at = "error"])
  /\ UNCHANGED <<db, fill>>

\* Fault: the answers are not read again.
NotInvalidated(p, e) == p.fetch

\* The view on the screen is read again, in place of a read under way; that of
\* another event is not, and a read of it that is under way counts as new.
Invalidated(p, e) ==
  IF p.event = e /\ p.data[e] # Nothing THEN [p.fetch EXCEPT ![e] = [at |-> "asked", view |-> Nothing, old |-> FALSE]]
  ELSE [p.fetch EXCEPT ![e].old = p.fetch[e].at # "idle"]

\* Answers of several submissions come in any order: only those of the last
\* that was written are remembered as saved.
IsLast(m) == \A f \in DOMAIN m.given : \A i \in RowsOf(f) : rows[i][2] = m.given[f]

Reply(m) ==
  LET p == fill[m.by] IN
  /\ m.at \in {"saved", "closed", "error"}
  /\ CASE m.at = "saved" ->
            Show(m.by, [p EXCEPT !.fetch = Invalidated(p, m.event), !.success = @ \/ m.heard,
                                 !.saved[m.event] = IF IsLast(m) THEN m.given ELSE Nothing], jobs \ {m})
       [] m.at = "closed" -> Show(m.by, [p EXCEPT !.closed = @ \/ m.heard], jobs \ {m})
       [] m.at = "error"  -> Show(m.by, p, jobs \ {m})
  /\ UNCHANGED db

FillAnother(u) ==
  /\ fill[u].success
  /\ Show(u, [fill[u] EXCEPT !.success = FALSE], jobs)
  /\ UNCHANGED db
=============================================================================
