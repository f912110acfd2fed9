--------------------------- MODULE ParticipantDesk ---------------------------
(***************************************************************************)
(* The participants of the web client: the list with its search and pages, *)
(* one participant, the form that edits it, and deletion, which takes the  *)
(* row off every list before the server has answered and puts all that was *)
(* read back if it fails.  A desk is one browser; several work on the same *)
(* participants.                                                           *)
(*                                                                         *)
(* The fields the form edits are one value, which a search looks for.      *)
(***************************************************************************)
EXTENDS QueryCache, Integers, FiniteSets

CONSTANTS
  Desks,
  Values,        \* what the editable fields of a participant may hold
  Searches,      \* the values each search matches; the empty search matches all
  PageSize,
  MaxPeople,
  Bounds         \* bounds to choose from

\* The desks in use, the participants there are at first and those registered
\* in all, the searches in use, the mutations under way at a time, those sent in
\* all, and how often a desk turns to another page or participant.
Bound == [desks: SUBSET Desks, there: Nat, people: 0 .. MaxPeople,
          searches: SUBSET SUBSET Values, muts: Nat, sends: Nat, turns: Nat]

ASSUME ParticipantDeskAssumption ==
  /\ PageSize \in Nat \ {0} /\ MaxPeople \in Nat \ {0}
  /\ Values \in Searches /\ Searches \subseteq SUBSET Values
  /\ Bounds \subseteq Bound /\ \A b \in Bounds : b.there <= b.people
  /\ Nothing \notin Values /\ Nothing \notin [is: Values, rev: Nat]
  /\ Nothing \notin [initial: Values, value: Values]

VARIABLES
  desk,   \* desk[d]: the page and the queries of desk d
  muts,   \* mutations under way
  db,     \* the participants, numbered in the order of their registration
  count,  \* history: registrations, changes, mutations sent, turns
  cap     \* the bounds of this behaviour

vars == <<desk, muts, db, count, cap>>

Ids   == 1 .. MaxPeople
Pages == {n \in 0 .. MaxPeople : n * PageSize < MaxPeople}
Keys  == Searches \X Pages

\* rev numbers the changes, in the order in which they are stored.
Person == [is: Values, rev: Nat]
Row    == [id: Ids, is: Values, rev: Nat]
List   == [rows: SUBSET Row, count: 0 .. MaxPeople]
Form   == [initial: Values, value: Values]

Blank == [screen |-> "list", search |-> Values, page |-> 0,
          lists |-> [k \in Keys |-> Unread], kept |-> {},
          row |-> Nothing, people |-> [i \in Ids |-> Unread], keptPeople |-> {}, form |-> Nothing,
          open |-> FALSE, gone |-> {}, saved |-> [i \in Ids |-> 0]]

Desk == [screen: {"list", "detail"}, search: Searches, page: Pages,
         lists: [Keys -> Query(List)], kept: SUBSET Keys,
         row: Maybe(Ids), people: [Ids -> Query(Person)], keptPeople: SUBSET Ids,
         form: Maybe(Form),
         open: BOOLEAN, gone: SUBSET Ids, saved: [Ids -> Nat]]

IsMutation(m) ==
  /\ DOMAIN m = {"desk", "what", "row", "value", "home", "at", "rev", "previous", "persons"}
  /\ m.desk \in Desks /\ m.what \in {"delete", "save"} /\ m.row \in Ids
  /\ m.value \in IF m.what = "save" THEN Values ELSE {Nothing}
  /\ m.home \in BOOLEAN
  /\ m.at \in {"sent", "done", "refused"} /\ m.rev \in 0 .. count.changes
  /\ \A k \in DOMAIN m.previous : k \in Keys /\ m.previous[k] \in List
  /\ \A i \in DOMAIN m.persons : i \in Ids /\ m.persons[i] \in Person

TypeOK ==
  /\ desk \in [Desks -> Desk]
  /\ \A m \in muts : IsMutation(m)
  /\ DOMAIN db \subseteq 1 .. count.registered
  /\ \A i \in DOMAIN db : db[i] \in Person /\ db[i].rev <= count.changes
  /\ cap \in Bounds /\ count \in [registered: 0 .. cap.people, changes: Nat,
                                  sends: 0 .. cap.sends, turns: 0 .. cap.turns]

-----------------------------------------------------------------------------
\* What the server has

\* build_list_query and list: a page of those that match, the newest first.
ListOf(k) ==
  LET found == {i \in DOMAIN db : db[i].is \in k[1]}
      Before(i) == Cardinality({j \in found : j > i})
      page  == {i \in found : k[2] * PageSize <= Before(i) /\ Before(i) < (k[2] + 1) * PageSize}
  IN [rows  |-> {[id |-> i, is |-> db[i].is, rev |-> db[i].rev] : i \in page},
      count |-> Cardinality(found)]

-----------------------------------------------------------------------------
\* The list

Key(p) == <<p.search, p.page>>
Shown(p) == p.lists[Key(p)].data
Observed(p, k) == p.screen = "list" /\ k = Key(p)

\* Queries a rollback has made anew stay for a while, as their time is the default.
Unwatched(p, k) == IF k \in p.kept THEN p.lists[k] ELSE Unobserved(p.lists[k])

\* The list on screen is another one, in place of what was there.
Watching(p, search, page) ==
  LET left == [p.lists EXCEPT ![Key(p)] = Unwatched(p, Key(p))]
  IN [p EXCEPT !.search = search, !.page = page,
               !.lists = [left EXCEPT ![<<search, page>>] = Asked(@)]]

ListServed(d, k) ==
  /\ desk[d].lists[k].fetch = "asked"
  /\ desk' = [desk EXCEPT ![d].lists[k] = [@ EXCEPT !.fetch = "answered", !.answer = ListOf(k)]]
  /\ UNCHANGED <<muts, db, count, cap>>

ListArrives(d, k) ==
  /\ desk[d].lists[k].fetch = "answered"
  /\ desk' = [desk EXCEPT ![d].lists[k] = Received(@, Observed(desk[d], k) \/ k \in desk[d].kept)]
  /\ UNCHANGED <<muts, db, count, cap>>

ListFails(d, k) ==
  /\ desk[d].lists[k].fetch # "idle"
  /\ desk' = [desk EXCEPT ![d].lists[k] = Failed(@, Observed(desk[d], k) \/ k \in desk[d].kept)]
  /\ UNCHANGED <<muts, db, count, cap>>

\* Somebody at a desk turns to something else.
Turn == count.turns < cap.turns /\ count' = [count EXCEPT !.turns = @ + 1]

\* A search starts on the first page.
Search(d, search) ==
  /\ desk[d].screen = "list" /\ search \in cap.searches /\ search # desk[d].search
  /\ desk' = [desk EXCEPT ![d] = Watching(@, search, 0)]
  /\ Turn
  /\ UNCHANGED <<muts, db, cap>>

\* An error is shown in place of the rows and the pages.
RowsShown(p) == p.screen = "list" /\ Shown(p) # Nothing /\ ~p.lists[Key(p)].failed

\* Pagination: there is nothing to turn if it all fits on one page.
HasPage(list, n) == n * PageSize < list.count

TurnPage(d, step) ==
  LET p == desk[d]
  IN /\ RowsShown(p) /\ HasPage(Shown(p), 1)
     /\ IF step = 1 THEN HasPage(Shown(p), p.page + 1) ELSE p.page > 0
     /\ desk' = [desk EXCEPT ![d] = Watching(p, p.search, p.page + step)]
  /\ Turn
  /\ UNCHANGED <<muts, db, cap>>

Rows(p) == IF RowsShown(p) THEN Shown(p).rows ELSE {}

-----------------------------------------------------------------------------
\* Deletion

\* A component waits for the mutation it has sent; when it goes, the mutation
\* and what its hook does with the answer go on.
Busy(d) == \E m \in muts : m.desk = d /\ m.home
Orphaned(d) == {IF m.desk = d THEN [m EXCEPT !.home = FALSE] ELSE m : m \in muts}

Send(m) ==
  /\ ~Busy(m.desk) /\ Cardinality(muts) < cap.muts /\ count.sends < cap.sends
  /\ muts' = muts \union {m}
  /\ count' = [count EXCEPT !.sends = @ + 1]

\* The rows with another enroll_id.  A row of the list has none: all of them.
WithoutRow(list, i) == list

\* What the page of a participant shows; nothing before it is read, or if it is
\* not found.  It does not look for an error.
Opened(p) == IF p.screen = "detail" THEN p.people[p.row].data ELSE Nothing

\* The form takes its values when it is mounted, which is when the participant
\* is first there; it stays, open or not, for as long as the page does.
Mounted(p) ==
  IF p.form = Nothing /\ Opened(p) # Nothing
  THEN [p EXCEPT !.form = [initial |-> Opened(p).is, value |-> Opened(p).is]] ELSE p

\* onMutate: the fetches are cancelled, what was read of lists and participants
\* is remembered, and the lists are rid of the row; what has data has no error any
\* more, and what nobody observes is gone.
Delete(d, i) ==
  /\ \E r \in Rows(desk[d]) : r.id = i
  /\ LET p == desk[d]
         had == {k \in Keys : p.lists[k].data # Nothing}
         knew == {j \in Ids : p.people[j].data # Nothing}
     IN /\ Send([desk |-> d, what |-> "delete", row |-> i, value |-> Nothing, home |-> TRUE,
                 at |-> "sent", rev |-> 0, previous |-> [k \in had |-> p.lists[k].data],
                 persons |-> [j \in knew |-> p.people[j].data]])
        /\ desk' = [desk EXCEPT
             ![d].lists = [k \in Keys |->
               IF k \in had /\ (Observed(p, k) \/ k \in p.kept)
               THEN Put(Cancelled(p.lists[k]), WithoutRow(p.lists[k].data, i)) ELSE Unread],
             ![d].people = [j \in Ids |->
               IF j \in knew \intersect p.keptPeople
               THEN Put(Cancelled(p.people[j]), p.people[j].data) ELSE Unread]]
  /\ UNCHANGED <<db, cap>>

\* UpdateParticipant.delete
DeleteServed(m) ==
  /\ m \in muts /\ m.what = "delete" /\ m.at = "sent"
  /\ db' = [i \in DOMAIN db \ {m.row} |-> db[i]]
  /\ muts' = (muts \ {m}) \union {[m EXCEPT !.at = IF m.row \in DOMAIN db THEN "done" ELSE "refused"]}
  /\ UNCHANGED <<desk, count, cap>>

OnPage(p, i) == p.screen = "detail" /\ i = p.row

AllInvalidated(p) ==
  [p EXCEPT !.lists = [k \in Keys |-> Invalidated(@[k], Observed(p, k))],
            !.people = [i \in Ids |-> Invalidated(@[i], OnPage(p, i))]]

\* onError: all that was remembered is put back, on the page of a participant as
\* well; a query that is gone is made anew.
RolledBack(p, m) ==
  LET lists  == DOMAIN m.previous
      people == DOMAIN m.persons
  IN [p EXCEPT
        !.lists = [k \in Keys |-> IF k \in lists THEN Put(@[k], m.previous[k]) ELSE @[k]],
        !.kept = @ \union {k \in lists : ~Observed(p, k) /\ p.lists[k].fetch = "idle"},
        !.people = [i \in Ids |-> IF i \in people THEN Put(@[i], m.persons[i]) ELSE @[i]],
        !.keptPeople = @ \union {i \in people : ~OnPage(p, i) /\ p.people[i].fetch = "idle"}]

\* onSettled: all that is observed is read again.
DeleteHeard(m) ==
  /\ m \in muts /\ m.what = "delete" /\ m.at = "done"
  /\ muts' = muts \ {m}
  /\ LET p == AllInvalidated(desk[m.desk])
     IN desk' = [desk EXCEPT ![m.desk] = [p EXCEPT !.gone = p.gone \union {m.row}]]
  /\ UNCHANGED <<db, count, cap>>

\* The request or its answer is lost, or it was refused.
DeleteFails(m) ==
  /\ m \in muts /\ m.what = "delete"
  /\ muts' = muts \ {m}
  /\ desk' = [desk EXCEPT ![m.desk] = AllInvalidated(Mounted(RolledBack(@, m)))]
  /\ UNCHANGED <<db, count, cap>>

\* The default time of a query that was made anew is over.
Expires(d, k) ==
  /\ k \in desk[d].kept /\ ~Observed(desk[d], k) /\ desk[d].lists[k].fetch = "idle"
  /\ desk' = [desk EXCEPT ![d].lists[k] = Unread, ![d].kept = @ \ {k}]
  /\ UNCHANGED <<muts, db, count, cap>>
PersonExpires(d, i) ==
  /\ i \in desk[d].keptPeople /\ ~OnPage(desk[d], i) /\ desk[d].people[i].fetch = "idle"
  /\ desk' = [desk EXCEPT ![d].people[i] = Unread, ![d].keptPeople = @ \ {i}]
  /\ UNCHANGED <<muts, db, count, cap>>

-----------------------------------------------------------------------------
\* One participant

OpenDetail(d, i) ==
  LET p == desk[d]
  IN /\ \E r \in Rows(p) : r.id = i
     /\ desk' = [desk EXCEPT ![d] = Mounted(
          [p EXCEPT !.screen = "detail", !.row = i, !.lists[Key(p)] = Unwatched(p, Key(p)),
                    !.people[i] = Asked(@)])]
     /\ muts' = Orphaned(d)
     /\ Turn
     /\ UNCHANGED <<db, cap>>

\* get_by_id; of a participant that is gone there is an error.
DetailServed(d, i) ==
  /\ desk[d].people[i].fetch = "asked" /\ i \in DOMAIN db
  /\ desk' = [desk EXCEPT ![d].people[i] = [@ EXCEPT !.fetch = "answered", !.answer = db[i]]]
  /\ UNCHANGED <<muts, db, count, cap>>

PersonStays(p, i) == OnPage(p, i) \/ i \in p.keptPeople

DetailArrives(d, i) ==
  /\ desk[d].people[i].fetch = "answered"
  /\ LET p == desk[d]
     IN desk' = [desk EXCEPT ![d] =
          Mounted([p EXCEPT !.people[i] = Received(@, PersonStays(p, i))])]
  /\ UNCHANGED <<muts, db, count, cap>>

DetailFails(d, i) ==
  /\ desk[d].people[i].fetch # "idle"
  /\ desk' = [desk EXCEPT ![d].people[i] = Failed(@, PersonStays(desk[d], i))]
  /\ UNCHANGED <<muts, db, count, cap>>

\* The list starts anew: without a search, on its first page.
Back(d) ==
  /\ desk[d].screen = "detail"
  /\ LET p == desk[d]
         first == <<Values, 0>>
     IN desk' = [desk EXCEPT ![d] =
          [p EXCEPT !.screen = "list", !.search = Values, !.page = 0, !.row = Nothing,
                    !.form = Nothing, !.open = FALSE,
                    !.people[p.row] = IF p.row \in p.keptPeople THEN @ ELSE Unobserved(@),
                    !.lists[first] = Asked(@)]]
  /\ muts' = Orphaned(d)
  /\ Turn
  /\ UNCHANGED <<db, cap>>

\* Another window had the focus: what is on screen is read again.
Refocus(d) ==
  /\ LET p == desk[d]
     IN desk' = [desk EXCEPT ![d] = IF p.screen = "list" THEN [p EXCEPT !.lists[Key(p)] = Asked(@)]
                                    ELSE [p EXCEPT !.people[p.row] = Asked(@)]]
  /\ desk' # desk
  /\ Turn
  /\ UNCHANGED <<muts, db, cap>>

\* The dialog has the form of the page: closing it keeps what was typed.
Edit(d) ==
  /\ desk[d].form # Nothing /\ ~desk[d].open
  /\ desk' = [desk EXCEPT ![d].open = TRUE]
  /\ UNCHANGED <<muts, db, count, cap>>
CloseEdit(d) ==
  /\ desk[d].open
  /\ desk' = [desk EXCEPT ![d].open = FALSE]
  /\ UNCHANGED <<muts, db, count, cap>>
Type(d, v) ==
  /\ desk[d].open /\ v # desk[d].form.value
  /\ desk' = [desk EXCEPT ![d].form.value = v]
  /\ UNCHANGED <<muts, db, count, cap>>

\* All fields are sent, if one of them is not what the form began with.
Save(d) ==
  /\ desk[d].open /\ desk[d].form.value # desk[d].form.initial
  /\ Send([desk |-> d, what |-> "save", row |-> desk[d].row, value |-> desk[d].form.value,
           home |-> TRUE, at |-> "sent", rev |-> 0, previous |-> <<>>, persons |-> <<>>])
  /\ UNCHANGED <<desk, db, cap>>

\* UpdateParticipant.update
SaveServed(m) ==
  /\ m \in muts /\ m.what = "save" /\ m.at = "sent"
  /\ IF m.row \in DOMAIN db
     THEN LET n == count.changes + 1
          IN /\ count' = [count EXCEPT !.changes = n]
             /\ db' = [db EXCEPT ![m.row] = [is |-> m.value, rev |-> n]]
             /\ muts' = (muts \ {m}) \union {[m EXCEPT !.at = "done", !.rev = n]}
     ELSE /\ muts' = (muts \ {m}) \union {[m EXCEPT !.at = "refused"]}
          /\ UNCHANGED <<db, count>>
  /\ UNCHANGED <<desk, cap>>

\* Fault: the page of the participant is not read again.
OnlyLists(p) == [p EXCEPT !.lists = [k \in Keys |-> Invalidated(@[k], Observed(p, k))]]
Refreshed(p) == AllInvalidated(p)

SaveHeard(m) ==
  /\ m \in muts /\ m.what = "save" /\ m.at = "done"
  /\ muts' = muts \ {m}
  /\ LET p == Refreshed(desk[m.desk])
     IN desk' = [desk EXCEPT ![m.desk] =
          [p EXCEPT !.open = p.open /\ ~m.home, !.saved[m.row] = m.rev]]
  /\ UNCHANGED <<db, count, cap>>
SaveFails(m) ==
  /\ m \in muts /\ m.what = "save"
  /\ muts' = muts \ {m}
  /\ UNCHANGED <<desk, db, count, cap>>

-----------------------------------------------------------------------------
\* A registration, elsewhere
Registered(v) ==
  /\ count.registered < cap.people
  /\ count' = [count EXCEPT !.registered = @ + 1]
  /\ db' = [i \in DOMAIN db \union {count'.registered} |->
              IF i \in DOMAIN db THEN db[i] ELSE [is |-> v, rev |-> 0]]
  /\ UNCHANGED <<desk, muts, cap>>

Init ==
  /\ cap \in Bounds
  /\ muts = {} /\ count = [registered |-> cap.there, changes |-> 0, sends |-> 0, turns |-> 0]
  /\ \E v \in [1 .. cap.there -> Values] : db = [i \in 1 .. cap.there |-> [is |-> v[i], rev |-> 0]]
  /\ desk = [d \in Desks |-> IF d \in cap.desks
                             THEN [Blank EXCEPT !.lists[<<Values, 0>>] = Asked(@)] ELSE Blank]

Next ==
  \/ \E d \in cap.desks :
       \/ \E k \in Keys : \/ ListServed(d, k) \/ ListArrives(d, k) \/ ListFails(d, k)
                          \/ Expires(d, k)
       \/ \E s \in Searches : Search(d, s)
       \/ \E step \in {-1, 1} : TurnPage(d, step)
       \/ \E i \in Ids : \/ Delete(d, i) \/ OpenDetail(d, i)
                         \/ DetailServed(d, i) \/ DetailArrives(d, i) \/ DetailFails(d, i)
                         \/ PersonExpires(d, i)
       \/ Back(d) \/ Refocus(d) \/ Edit(d) \/ CloseEdit(d) \/ Save(d)
       \/ \E v \in Values : Type(d, v)
  \/ \E m \in muts : \/ DeleteServed(m) \/ DeleteHeard(m) \/ DeleteFails(m)
                     \/ SaveServed(m) \/ SaveHeard(m) \/ SaveFails(m)
  \/ \E v \in Values : Registered(v)

Spec == Init /\ [][Next]_vars

-----------------------------------------------------------------------------
(* Properties.                                                             *)

\* The list on screen is at rest: no deletion of its desk is under way, and its
\* answer is not from before a change the desk was told of.
ListSettled(d) ==
  LET q == desk[d].lists[Key(desk[d])]
  IN /\ desk[d].screen = "list" /\ q.data # Nothing /\ q.fetch = "idle" /\ ~q.old
     /\ \A m \in muts : m.desk = d => m.what # "delete"

\* A participant a desk was told is deleted does not come back on its lists,
\* although a deletion that fails puts back the lists it remembers, those of
\* before another deletion and those of pages that were left, and reading them
\* again may fail.
DeletedGone ==
  \A d \in cap.desks :
    ListSettled(d) => \A r \in Rows(desk[d]) : r.id \notin desk[d].gone

\* What a desk has saved is what it shows, on the page of the participant and on
\* the lists, or what was saved later, although a deletion that fails puts back
\* what was read before; unless reading the participant again has failed, as it
\* does when it is gone: its page does not look for an error and is left as it was.
SavedShown ==
  \A d \in cap.desks :
    /\ ListSettled(d) => \A r \in Rows(desk[d]) : r.rev >= desk[d].saved[r.id]
    /\ Opened(desk[d]) # Nothing =>
         LET i == desk[d].row
             q == desk[d].people[i]
         IN q.fetch = "idle" /\ ~q.old /\ ~q.failed => q.data.rev >= desk[d].saved[i]
=============================================================================
