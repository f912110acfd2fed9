------------------------ MODULE ParticipantDeskProof ------------------------
(***************************************************************************)
(* The participants of the web client: proofs for any desks, searches and  *)
(* pages, any number of participants, and any mutations under way.         *)
(***************************************************************************)
EXTENDS ParticipantDesk, FiniteSetTheorems, TLAPS

\* No row of the list is of a participant that the desk was told is gone, or
\* older than what it has saved.
Fine(list, p) == \A r \in list.rows : r.id \notin p.gone /\ r.rev >= p.saved[r.id]

\* An answer that is on its way, unless it is marked as old, is fine.
ListOk(q, p) ==
  q.fetch = "answered" /\ ~q.old /\ q.answer # Nothing => Fine(q.answer, p)

\* The list on screen is fine when it is at rest, unless reading it has failed.
ListCalm(p) ==
  LET q == p.lists[Key(p)]
  IN p.screen = "list" /\ q.fetch = "idle" /\ ~q.old /\ ~q.failed /\ q.data # Nothing
       => Fine(q.data, p)

\* The same of participant i.
PersonOk(q, i, p) ==
  q.fetch = "answered" /\ ~q.old /\ q.answer # Nothing => q.answer.rev >= p.saved[i]
PersonCalm(p) ==
  LET q == p.people[p.row]
  IN p.screen = "detail" /\ q.fetch = "idle" /\ ~q.old /\ ~q.failed /\ q.data # Nothing
       => q.data.rev >= p.saved[p.row]

\* What a desk was told is so: n is how many were ever registered.
TellsTrue(p, people, n) ==
  /\ p.gone \subseteq 1 .. n /\ p.gone \intersect DOMAIN people = {}
  /\ \A i \in Ids : IF i \in DOMAIN people THEN p.saved[i] <= people[i].rev
                    ELSE i > n => p.saved[i] = 0

\* The page is whole.
PageWhole(p) ==
  /\ p.screen = "detail" => p.row \in Ids
  /\ p.open => p.form # Nothing
  /\ p.form # Nothing => p.screen = "detail"

PageOk(p, people, n) ==
  /\ PageWhole(p) /\ TellsTrue(p, people, n) /\ PersonCalm(p)
  /\ \A k \in Keys : ListOk(p.lists[k], p)
  /\ \A i \in Ids : PersonOk(p.people[i], i, p)

\* What was done to the participant of a mutation.
DoneOk(m, people, n) ==
  m.at = "done" => /\ m.row <= n
                   /\ m.what = "delete" => m.row \notin DOMAIN people
                   /\ m.what = "save" /\ m.row \in DOMAIN people => m.rev <= people[m.row].rev

Deleting(d, sent) == \E m \in sent : m.desk = d /\ m.what = "delete"

IInv ==
  /\ TypeOK
  /\ \A d \in Desks : PageOk(desk[d], db, count.registered)
  /\ \A d \in Desks : Deleting(d, muts) \/ ListCalm(desk[d])
  /\ \A m \in muts : DoneOk(m, db, count.registered)

-----------------------------------------------------------------------------
(* Types.                                                                  *)

LEMMA Apart ==
  /\ PageSize \in Nat \ {0} /\ MaxPeople \in Nat \ {0} /\ Values \in Searches
  /\ Nothing \notin Values /\ Nothing \notin Person /\ Nothing \notin Form
BY ParticipantDeskAssumption DEF Person, Form

LEMMA CapOk ==
  ASSUME cap \in Bounds
  PROVE  /\ cap.desks \subseteq Desks /\ cap.people \in 0 .. MaxPeople /\ cap.there \in 0 .. cap.people
         /\ cap.sends \in Nat /\ cap.turns \in Nat
<1>1. cap \in Bound /\ cap.there <= cap.people
  BY ParticipantDeskAssumption
<1> QED BY <1>1, Apart DEF Bound

\* The first page is one, and a page that a list of participants has, too.
LEMMA PagesOk ==
  /\ 0 \in Pages
  /\ \A list \in List, n \in Nat : HasPage(list, n) => n \in Pages
  /\ \A n \in Pages : n > 0 => n - 1 \in Pages
<1> USE Apart
<1>1. 0 \in Pages
  BY DEF Pages
<1>2. ASSUME NEW list \in List, NEW n \in Nat, HasPage(list, n)
      PROVE  n \in Pages
  <2>1. list.count \in 0 .. MaxPeople
    BY DEF List
  <2>2. n * PageSize < MaxPeople
    BY <1>2, <2>1 DEF HasPage
  <2>3. n <= n * PageSize
    OBVIOUS
  <2>4. n * PageSize \in Nat
    OBVIOUS
  <2> QED BY <2>2, <2>3, <2>4 DEF Pages
<1>3. ASSUME NEW n \in Pages, n > 0
      PROVE  n - 1 \in Pages
  <2>1. (n - 1) * PageSize = n * PageSize - PageSize /\ n * PageSize \in Nat
    BY DEF Pages
  <2> QED BY <1>3, <2>1 DEF Pages
<1> QED BY <1>1, <1>2, <1>3

LEMMA DeskFields ==
  ASSUME NEW p \in Desk
  PROVE  /\ p.screen \in {"list", "detail"} /\ p.search \in Searches /\ p.page \in Pages
         /\ p.lists \in [Keys -> Query(List)] /\ p.kept \subseteq Keys
         /\ p.row \in Maybe(Ids) /\ p.people \in [Ids -> Query(Person)]
         /\ p.keptPeople \subseteq Ids
         /\ p.form \in Maybe(Form) /\ p.open \in BOOLEAN /\ p.gone \subseteq Ids
         /\ p.saved \in [Ids -> Nat] /\ Key(p) \in Keys
         /\ \A k \in Keys : p.lists[k] \in Query(List) /\ Observed(p, k) \in BOOLEAN
         /\ \A i \in Ids : p.people[i] \in Query(Person) /\ p.saved[i] \in Nat
BY DEF Desk, Key, Keys, Observed

-----------------------------------------------------------------------------
(* Queries.                                                                *)

LEMMA QueryFields ==
  ASSUME NEW S, NEW q \in Query(S)
  PROVE  /\ q.data \in Maybe(S) /\ q.answer \in Maybe(S) /\ q.fetch \in Fetch /\ q.old \in BOOLEAN
         /\ q.failed \in BOOLEAN
         /\ Unread.data = Nothing /\ Unread.answer = Nothing /\ Unread.fetch = "idle"
BY DEF Query, Unread

LEMMA QueryTypes ==
  ASSUME NEW S, NEW q \in Query(S), NEW b \in BOOLEAN
  PROVE  /\ Unread \in Query(S) /\ Asked(q) \in Query(S) /\ Unobserved(q) \in Query(S)
         /\ Received(q, b) \in Query(S) /\ Failed(q, b) \in Query(S) /\ Cancelled(q) \in Query(S)
         /\ \A a \in Maybe(S) : [q EXCEPT !.fetch = "answered", !.answer = a] \in Query(S)
         /\ \A a \in Maybe(S) : Put(q, a) \in Query(S)
<1>1. Unread \in Query(S)
  BY DEF Unread, Query, Maybe, Fetch
<1>2. Asked(q) \in Query(S)
  <2>1. (q.failed /\ q.data # Nothing) \in BOOLEAN
    OBVIOUS
  <2> QED BY <2>1 DEF Asked, Refetched, Query, Maybe, Fetch
<1>3. Received(q, b) \in Query(S)
  BY <1>1 DEF Received, Query, Maybe, Fetch
<1>4. Failed(q, b) \in Query(S)
  BY <1>1 DEF Failed, Query, Maybe, Fetch
<1>5. Cancelled(q) \in Query(S)
  BY DEF Cancelled, Query, Maybe, Fetch
<1>6. \A a \in Maybe(S) : [q EXCEPT !.fetch = "answered", !.answer = a] \in Query(S)
  BY DEF Query, Fetch
<1>7. \A a \in Maybe(S) : Put(q, a) \in Query(S)
  BY DEF Put, Query
<1> QED BY <1>1, <1>2, <1>3, <1>4, <1>5, <1>6, <1>7 DEF Unobserved

\* What the steps of a query do to what the invariant speaks of.
LEMMA QuerySteps ==
  ASSUME NEW S, NEW q \in Query(S), NEW b \in BOOLEAN
  PROVE  /\ Asked(q).fetch # "idle" /\ Asked(q).data = q.data
         /\ Asked(q).fetch = "asked" \/ Asked(q) = q
         /\ b => /\ Received(q, b).data = q.answer /\ Received(q, b).answer = Nothing
                 /\ Received(q, b).fetch = "idle" /\ Received(q, b).old = q.old
         /\ ~b => Received(q, b) = Unread
         /\ b => Failed(q, b).failed
         /\ Failed(q, b).fetch = "idle"
         /\ Cancelled(q).data = q.data /\ Cancelled(q).answer = Nothing
         /\ Cancelled(q).fetch = "idle" /\ Cancelled(q).old = q.old
<1>1. /\ Asked(q).fetch # "idle" /\ Asked(q).data = q.data
      /\ Asked(q).fetch = "asked" \/ Asked(q) = q
  BY DEF Asked, Refetched, Query
<1>2. /\ b => /\ Received(q, b).data = q.answer /\ Received(q, b).answer = Nothing
              /\ Received(q, b).fetch = "idle" /\ Received(q, b).old = q.old
      /\ ~b => Received(q, b) = Unread
  BY DEF Received, Query
<1>3. /\ Cancelled(q).data = q.data /\ Cancelled(q).answer = Nothing
      /\ Cancelled(q).fetch = "idle" /\ Cancelled(q).old = q.old
  BY DEF Cancelled, Query
<1>4. (b => Failed(q, b).failed) /\ Failed(q, b).fetch = "idle"
  BY DEF Failed, Query, Unread
<1> QED BY <1>1, <1>2, <1>3, <1>4

\* Data that is put there leaves the answers on their way.
LEMMA PutOk ==
  ASSUME NEW S, NEW q \in Query(S), NEW a
  PROVE  /\ Put(q, a).fetch = q.fetch /\ Put(q, a).answer = q.answer /\ Put(q, a).old = q.old
         /\ Put(q, a).data = a
BY DEF Put, Query

\* A query that is invalidated is fetched anew if it is observed, and an answer
\* that stays on its way is marked as old.
LEMMA InvalidatedOk ==
  ASSUME NEW S, NEW q \in Query(S), NEW b \in BOOLEAN, NEW r, r = Invalidated(q, b)
  PROVE  /\ r \in Query(S) /\ (b => r.fetch # "idle")
         /\ r.fetch = "answered" => r.old
         /\ r.data = q.data /\ r.answer \in {q.answer, Nothing}
<1>1. CASE b /\ (q.fetch = "idle" \/ q.data # Nothing)
  <2>1. r = [q EXCEPT !.fetch = "asked", !.answer = Nothing, !.old = FALSE,
                      !.failed = q.failed /\ q.data # Nothing]
    BY <1>1 DEF Invalidated, Refetched
  <2>2. r.data = q.data /\ r.answer = Nothing /\ r.fetch = "asked"
    BY <2>1 DEF Query
  <2>3. (q.failed /\ q.data # Nothing) \in BOOLEAN
    OBVIOUS
  <2>4. r \in Query(S)
    BY <2>1, <2>3 DEF Query, Maybe, Fetch
  <2> QED BY <2>2, <2>4
<1>2. CASE ~ (b /\ (q.fetch = "idle" \/ q.data # Nothing))
  <2>1. r = [q EXCEPT !.old = q.old \/ q.fetch = "answered"]
    BY <1>2 DEF Invalidated
  <2>2. /\ r.data = q.data /\ r.fetch = q.fetch /\ r.answer = q.answer
        /\ q.fetch = "answered" => r.old
    BY <2>1 DEF Query
  <2>3. (q.old \/ q.fetch = "answered") \in BOOLEAN
    OBVIOUS
  <2>4. r \in Query(S)
    BY <2>1, <2>3 DEF Query
  <2> QED BY <1>2, <2>2, <2>4
<1> QED BY <1>1, <1>2

\* An answer is fine for a list that is asked, left, received, or invalidated.
LEMMA ListSteps ==
  ASSUME NEW p, NEW x, NEW q \in Query(List), NEW b \in BOOLEAN, ListOk(q, p)
  PROVE  /\ ListOk(Asked(q), p) /\ ListOk(Unread, x) /\ ListOk(Unobserved(q), p)
         /\ ListOk(Received(q, b), x) /\ ListOk(Cancelled(q), x) /\ ListOk(Invalidated(q, b), x)
         /\ ListOk(Failed(q, b), x) /\ \A a : ListOk(Put(q, a), p)
<1>1. ListOk(Invalidated(q, b), x)
  BY InvalidatedOk DEF ListOk
<1>2. ListOk(Failed(q, b), x) /\ \A a : ListOk(Put(q, a), p)
  BY QuerySteps, PutOk DEF ListOk
<1> QED BY <1>1, <1>2, QuerySteps, QueryFields DEF ListOk, Unobserved

LEMMA PersonSteps ==
  ASSUME NEW p, NEW x, NEW i, NEW q \in Query(Person), NEW b \in BOOLEAN, PersonOk(q, i, p)
  PROVE  /\ PersonOk(Asked(q), i, p) /\ PersonOk(Unread, i, x) /\ PersonOk(Unobserved(q), i, p)
         /\ PersonOk(Received(q, b), i, x) /\ PersonOk(Cancelled(q), i, x)
         /\ PersonOk(Invalidated(q, b), i, x)
         /\ PersonOk(Failed(q, b), i, x) /\ \A a : PersonOk(Put(q, a), i, p)
<1>1. PersonOk(Invalidated(q, b), i, x)
  BY InvalidatedOk DEF PersonOk
<1>2. PersonOk(Failed(q, b), i, x) /\ \A a : PersonOk(Put(q, a), i, p)
  BY QuerySteps, PutOk DEF PersonOk
<1> QED BY <1>1, <1>2, QuerySteps, QueryFields DEF PersonOk, Unobserved

-----------------------------------------------------------------------------
(* Steps of a desk.                                                        *)

LEMMA TheDesk ==
  ASSUME IInv, NEW d \in Desks
  PROVE  /\ desk[d] \in Desk /\ PageOk(desk[d], db, count.registered)
         /\ Deleting(d, muts) \/ ListCalm(desk[d])
         /\ cap.desks \subseteq Desks
BY CapOk DEF IInv, TypeOK

\* Mutations stay in order as long as the participants do.
LEMMA MutationsKept ==
  ASSUME IInv, count'.changes = count.changes
  PROVE  \A m \in muts : IsMutation(m)' /\ IsMutation(m) /\ DoneOk(m, db, count.registered)
BY DEF IInv, TypeOK, IsMutation

\* A step of one desk, which may send a mutation, or hear of one.
LEMMA DeskStep ==
  ASSUME IInv, NEW d \in Desks, NEW q \in Desk, desk' = [desk EXCEPT ![d] = q],
         PageOk(q, db, count.registered), Deleting(d, muts') \/ ListCalm(q),
         \A e \in Desks \ {d} : Deleting(e, muts) => Deleting(e, muts'),
         \A m \in muts' : IsMutation(m)' /\ DoneOk(m, db, count.registered),
         count' \in [registered: 0 .. cap.people, changes: Nat,
                     sends: 0 .. cap.sends, turns: 0 .. cap.turns],
         count'.registered = count.registered, count'.changes = count.changes,
         UNCHANGED <<db, cap>>
  PROVE  IInv'
<1>1. desk \in [Desks -> Desk]
  BY DEF IInv, TypeOK
<1>2. TypeOK'
  <2>1. desk' \in [Desks -> Desk]
    BY <1>1
  <2> QED BY <2>1 DEF IInv, TypeOK
<1>3. ASSUME NEW e \in Desks
      PROVE  /\ PageOk(desk'[e], db', count'.registered)
             /\ Deleting(e, muts') \/ ListCalm(desk'[e])
  <2>1. CASE e = d
    BY <1>1, <2>1
  <2>2. CASE e # d
    <3>1. desk'[e] = desk[e]
      BY <1>1, <2>2
    <3> QED BY <2>2, <3>1, TheDesk
  <2> QED BY <2>1, <2>2
<1> QED BY <1>2, <1>3 DEF IInv

\* A step that sends nothing, and hears nothing.
LEMMA QuietStep ==
  ASSUME IInv, NEW d \in Desks, NEW q \in Desk, desk' = [desk EXCEPT ![d] = q],
         PageOk(q, db, count.registered), Deleting(d, muts) \/ ListCalm(q),
         muts' \in {muts, Orphaned(d)}, count' = count \/ Turn, UNCHANGED <<db, cap>>
  PROVE  IInv'
<1>1. /\ count' \in [registered: 0 .. cap.people, changes: Nat,
                     sends: 0 .. cap.sends, turns: 0 .. cap.turns]
      /\ count'.registered = count.registered /\ count'.changes = count.changes
  <2>1. count \in [registered: 0 .. cap.people, changes: Nat,
                   sends: 0 .. cap.sends, turns: 0 .. cap.turns] /\ cap.turns \in Nat
    BY CapOk DEF IInv, TypeOK
  <2> QED BY <2>1 DEF Turn
<1>2. \A m \in muts : IsMutation(m)' /\ IsMutation(m) /\ DoneOk(m, db, count.registered)
  BY <1>1, MutationsKept
<1>3. ASSUME NEW m \in muts
      PROVE  LET o == [m EXCEPT !.home = FALSE]
             IN IsMutation(o)' /\ DoneOk(o, db, count.registered)
                  /\ o.desk = m.desk /\ o.what = m.what
  BY <1>2 DEF IsMutation, DoneOk
<1>4. \A m \in muts' : IsMutation(m)' /\ DoneOk(m, db, count.registered)
  BY <1>2, <1>3 DEF Orphaned
<1>5. ASSUME NEW e \in Desks, Deleting(e, muts)
      PROVE  Deleting(e, muts')
  <2>1. CASE muts' = muts
    BY <1>5, <2>1
  <2>2. CASE muts' = Orphaned(d)
    <3>1. PICK m \in muts : m.desk = e /\ m.what = "delete"
      BY <1>5 DEF Deleting
    <3>2. PICK o \in Orphaned(d) : o.desk = e /\ o.what = "delete"
      BY <1>3, <3>1 DEF Orphaned
    <3> QED BY <2>2, <3>2 DEF Deleting
  <2> QED BY <2>1, <2>2
<1> QED BY <1>1, <1>4, <1>5, DeskStep

\* A page that was told nothing new.
LEMMA PageKept ==
  ASSUME NEW p, NEW q, NEW people, NEW n, PageOk(p, people, n),
         q.gone = p.gone, q.saved = p.saved, PageWhole(q), PersonCalm(q),
         \A k \in Keys : ListOk(q.lists[k], p),
         \A i \in Ids : PersonOk(q.people[i], i, p)
  PROVE  PageOk(q, people, n)
BY DEF PageOk, TellsTrue, ListOk, Fine, PersonOk

\* Only queries of lists have changed.
LEMMA ListsOnly ==
  ASSUME NEW p \in Desk, NEW people, NEW n, PageOk(p, people, n),
         NEW lists \in [Keys -> Query(List)], \A k \in Keys : ListOk(lists[k], p),
         NEW q, q = [p EXCEPT !.lists = lists]
  PROVE  /\ q \in Desk /\ PageOk(q, people, n)
         /\ lists[Key(p)] = p.lists[Key(p)] /\ ListCalm(p) => ListCalm(q)
         /\ p.screen # "list" \/ lists[Key(p)].fetch # "idle" => ListCalm(q)
         /\ p.screen = "list" /\ Fine(lists[Key(p)].data, p) => ListCalm(q)
<1>1. /\ q \in Desk /\ q.lists = lists /\ q.screen = p.screen /\ q.search = p.search
      /\ q.page = p.page /\ q.row = p.row /\ q.people = p.people /\ q.form = p.form
      /\ q.open = p.open /\ q.gone = p.gone /\ q.saved = p.saved
  BY DEF Desk
<1>2. PageOk(q, people, n)
  <2>1. PageWhole(q) /\ PersonCalm(q)
    BY <1>1 DEF PageOk, PageWhole, PersonCalm
  <2>2. \A i \in Ids : PersonOk(q.people[i], i, p)
    BY <1>1 DEF PageOk
  <2>3. \A k \in Keys : ListOk(q.lists[k], p)
    BY <1>1
  <2> QED BY <1>1, <2>1, <2>2, <2>3, PageKept
<1>3. Key(q) = Key(p)
  BY <1>1 DEF Key
<1>4. \A list : Fine(list, p) <=> Fine(list, q)
  BY <1>1 DEF Fine
<1> QED BY <1>1, <1>2, <1>3, <1>4 DEF ListCalm

\* Only the query of one list has changed.
LEMMA OneList ==
  ASSUME NEW p \in Desk, NEW people, NEW n, PageOk(p, people, n), NEW k \in Keys,
         NEW l \in Query(List), ListOk(l, p),
         NEW q, q = [p EXCEPT !.lists = [p.lists EXCEPT ![k] = l]]
  PROVE  /\ q \in Desk /\ PageOk(q, people, n)
         /\ ListCalm(p)
              /\ (p.screen = "list" /\ k = Key(p) =>
                    l.fetch # "idle" \/ l.old \/ l.failed \/ l.data = Nothing \/ Fine(l.data, p))
            => ListCalm(q)
<1> DEFINE lists == [p.lists EXCEPT ![k] = l]
<1>1. p.lists \in [Keys -> Query(List)] /\ Key(p) \in Keys
  BY DeskFields
<1>2. /\ lists \in [Keys -> Query(List)] /\ lists[k] = l
      /\ \A j \in Keys \ {k} : lists[j] = p.lists[j]
  BY <1>1
<1>3. \A j \in Keys : ListOk(lists[j], p)
  BY <1>2 DEF PageOk
<1>4. q = [p EXCEPT !.lists = lists]
  OBVIOUS
<1> HIDE DEF lists
<1>5. q \in Desk /\ PageOk(q, people, n)
  BY <1>2, <1>3, <1>4, ListsOnly
<1>6. CASE k # Key(p)
  BY <1>1, <1>2, <1>3, <1>4, <1>5, <1>6, ListsOnly
<1>7. CASE p.screen # "list"
  BY <1>1, <1>2, <1>3, <1>4, <1>5, <1>7, ListsOnly
<1>8. CASE k = Key(p) /\ (l.old \/ l.failed \/ l.data = Nothing)
  <2>1. q.lists = lists /\ q.search = p.search /\ q.page = p.page
    BY <1>4 DEF Desk
  <2>2. q.lists[Key(q)] = l
    BY <1>2, <1>8, <2>1 DEF Key
  <2> QED BY <1>5, <1>8, <2>2 DEF ListCalm
<1>9. CASE k = Key(p) /\ p.screen = "list" /\ (l.fetch # "idle" \/ Fine(l.data, p))
  BY <1>1, <1>2, <1>3, <1>4, <1>5, <1>9, ListsOnly
<1> QED BY <1>5, <1>6, <1>7, <1>8, <1>9

\* What the server has is fine for every desk.
LEMMA ListOfOk ==
  ASSUME TypeOK, NEW p, TellsTrue(p, db, count.registered), NEW k
  PROVE  ListOf(k) \in List /\ Fine(ListOf(k), p)
<1> DEFINE n == count.registered
           found == {i \in DOMAIN db : db[i].is \in k[1]}
<1>1. n \in 0 .. MaxPeople /\ DOMAIN db \subseteq 1 .. n /\ DOMAIN db \subseteq Ids
  BY CapOk, Apart DEF TypeOK, Ids
<1>2. Cardinality(found) \in 0 .. MaxPeople
  <2>1. n \in Nat /\ found \subseteq 1 .. n
    BY <1>1, Apart
  <2>2. IsFiniteSet(1 .. n) /\ Cardinality(1 .. n) = n
    <3>1. 1 \in Int /\ n \in Int /\ IF 1 > n THEN n = 0 ELSE n - 1 + 1 = n
      BY <2>1
    <3>2. Cardinality(1 .. n) = IF 1 > n THEN 0 ELSE n - 1 + 1
      BY <3>1, FS_Interval
    <3> QED BY <3>1, <3>2, FS_Interval
  <2>3. IsFiniteSet(found) /\ Cardinality(found) <= n
    BY <2>1, <2>2, FS_Subset
  <2>4. Cardinality(found) \in Nat
    BY <2>3, FS_CardinalityType
  <2> HIDE DEF found
  <2> QED BY <1>1, <2>3, <2>4, Apart
<1> DEFINE Before(i) == Cardinality({j \in found : j > i})
           page == {i \in found : k[2] * PageSize <= Before(i) /\ Before(i) < (k[2] + 1) * PageSize}
           rows == {[id |-> i, is |-> db[i].is, rev |-> db[i].rev] : i \in page}
           size == Cardinality(found)
<1>3. ListOf(k) = [rows |-> rows, count |-> size]
  BY DEF ListOf
<1>4. page \subseteq DOMAIN db
  OBVIOUS
<1> HIDE DEF page, size, found
<1>5. ASSUME NEW r \in rows
      PROVE  r \in Row /\ r.id \notin p.gone /\ r.rev >= p.saved[r.id]
  <2>1. PICK i \in DOMAIN db : r = [id |-> i, is |-> db[i].is, rev |-> db[i].rev]
    BY <1>4
  <2>2. db[i] \in Person /\ i \in Ids
    BY <1>1 DEF TypeOK
  <2>3. r \in Row /\ r.id = i /\ r.rev = db[i].rev
    BY <2>1, <2>2 DEF Row, Person
  <2>4. i \notin p.gone /\ p.saved[i] <= db[i].rev
    BY <2>1, <2>2 DEF TellsTrue
  <2> QED BY <2>3, <2>4
<1> HIDE DEF rows
<1>6. ListOf(k) \in List
  BY <1>2, <1>3, <1>5 DEF List, size
<1>7. Fine(ListOf(k), p)
  BY <1>3, <1>5 DEF Fine
<1> QED BY <1>6, <1>7
-----------------------------------------------------------------------------
(* The list.                                                               *)

LEMMA ListServedOk ==
  ASSUME IInv, NEW d \in cap.desks, NEW k \in Keys, ListServed(d, k)
  PROVE  IInv'
<1>0. d \in Desks
  BY CapOk DEF IInv, TypeOK
<1>1. /\ desk[d] \in Desk /\ PageOk(desk[d], db, count.registered)
      /\ Deleting(d, muts) \/ ListCalm(desk[d])
  BY <1>0, TheDesk
<1>2. PICK l : l = [desk[d].lists[k] EXCEPT !.fetch = "answered", !.answer = ListOf(k)]
  OBVIOUS
<1>3. PICK q : q = [desk[d] EXCEPT !.lists = [desk[d].lists EXCEPT ![k] = l]]
  OBVIOUS
<1>4. desk' = [desk EXCEPT ![d] = q] /\ UNCHANGED <<muts, db, count, cap>>
  BY <1>2, <1>3 DEF ListServed
<1>5. desk[d].lists[k] \in Query(List)
  BY <1>1, DeskFields
<1>6. ListOf(k) \in List /\ Fine(ListOf(k), desk[d])
  BY <1>1, ListOfOk DEF IInv, PageOk
<1>7. l \in Query(List)
  BY <1>2, <1>5, <1>6, QueryTypes DEF Maybe
<1>8. l.fetch = "answered" /\ l.answer = ListOf(k)
  BY <1>2, <1>5 DEF Query
<1>9. ListOk(l, desk[d])
  BY <1>6, <1>8 DEF ListOk
<1>10. q \in Desk /\ PageOk(q, db, count.registered) /\ (ListCalm(desk[d]) => ListCalm(q))
  BY <1>1, <1>3, <1>7, <1>8, <1>9, OneList
<1> QED BY <1>0, <1>1, <1>4, <1>10, QuietStep

LEMMA ListArrivesOk ==
  ASSUME IInv, NEW d \in cap.desks, NEW k \in Keys, ListArrives(d, k)
  PROVE  IInv'
<1>0. d \in Desks
  BY CapOk DEF IInv, TypeOK
<1>1. /\ desk[d] \in Desk /\ PageOk(desk[d], db, count.registered)
      /\ Deleting(d, muts) \/ ListCalm(desk[d])
  BY <1>0, TheDesk
<1>2. PICK b \in BOOLEAN : b = (Observed(desk[d], k) \/ k \in desk[d].kept)
  BY <1>1, DeskFields
<1>3. PICK l : l = Received(desk[d].lists[k], b)
  OBVIOUS
<1>4. PICK q : q = [desk[d] EXCEPT !.lists = [desk[d].lists EXCEPT ![k] = l]]
  OBVIOUS
<1>5. desk' = [desk EXCEPT ![d] = q] /\ UNCHANGED <<muts, db, count, cap>>
  BY <1>2, <1>3, <1>4 DEF ListArrives
<1>6. desk[d].lists[k] \in Query(List) /\ ListOk(desk[d].lists[k], desk[d])
  BY <1>1, DeskFields DEF PageOk
<1>7. l \in Query(List) /\ ListOk(l, desk[d])
  BY <1>3, <1>6, QueryTypes, ListSteps
<1>8. desk[d].screen = "list" /\ k = Key(desk[d])
        => l.old \/ l.data = Nothing \/ Fine(l.data, desk[d])
  <2>1. SUFFICES ASSUME desk[d].screen = "list", k = Key(desk[d])
                 PROVE  l.old \/ l.data = Nothing \/ Fine(l.data, desk[d])
    OBVIOUS
  <2>2. b
    BY <1>2, <2>1 DEF Observed
  <2>3. l.data = desk[d].lists[k].answer /\ l.old = desk[d].lists[k].old
    BY <1>3, <1>6, <2>2, QuerySteps
  <2>4. desk[d].lists[k].fetch = "answered"
    BY DEF ListArrives
  <2> QED BY <1>6, <2>3, <2>4 DEF ListOk
<1>9. q \in Desk /\ PageOk(q, db, count.registered) /\ (ListCalm(desk[d]) => ListCalm(q))
  BY <1>1, <1>4, <1>7, <1>8, OneList
<1> QED BY <1>0, <1>1, <1>5, <1>9, QuietStep

LEMMA ListFailsOk ==
  ASSUME IInv, NEW d \in cap.desks, NEW k \in Keys, ListFails(d, k)
  PROVE  IInv'
<1>0. d \in Desks
  BY CapOk DEF IInv, TypeOK
<1>1. /\ desk[d] \in Desk /\ PageOk(desk[d], db, count.registered)
      /\ Deleting(d, muts) \/ ListCalm(desk[d])
  BY <1>0, TheDesk
<1>2. PICK b \in BOOLEAN : b = (Observed(desk[d], k) \/ k \in desk[d].kept)
  BY <1>1, DeskFields
<1>3. PICK l : l = Failed(desk[d].lists[k], b)
  OBVIOUS
<1>4. PICK q : q = [desk[d] EXCEPT !.lists = [desk[d].lists EXCEPT ![k] = l]]
  OBVIOUS
<1>5. desk' = [desk EXCEPT ![d] = q] /\ UNCHANGED <<muts, db, count, cap>>
  BY <1>2, <1>3, <1>4 DEF ListFails
<1>6. desk[d].lists[k] \in Query(List) /\ ListOk(desk[d].lists[k], desk[d])
  BY <1>1, DeskFields DEF PageOk
<1>7. l \in Query(List) /\ ListOk(l, desk[d])
  BY <1>3, <1>6, QueryTypes, ListSteps
<1>8. desk[d].screen = "list" /\ k = Key(desk[d]) => l.failed
  BY <1>2, <1>3, <1>6, QuerySteps DEF Observed
<1>9. q \in Desk /\ PageOk(q, db, count.registered) /\ (ListCalm(desk[d]) => ListCalm(q))
  BY <1>1, <1>4, <1>7, <1>8, OneList
<1> QED BY <1>0, <1>1, <1>5, <1>9, QuietStep

\* A list that expires is not on screen.
LEMMA ExpiresOk ==
  ASSUME IInv, NEW d \in cap.desks, NEW k \in Keys, Expires(d, k)
  PROVE  IInv'
<1>0. d \in Desks
  BY CapOk DEF IInv, TypeOK
<1>1. /\ desk[d] \in Desk /\ PageOk(desk[d], db, count.registered)
      /\ Deleting(d, muts) \/ ListCalm(desk[d])
  BY <1>0, TheDesk
<1>2. PICK p : p = [desk[d] EXCEPT !.lists = [desk[d].lists EXCEPT ![k] = Unread]]
  OBVIOUS
<1>3. PICK q : q = [p EXCEPT !.kept = p.kept \ {k}]
  OBVIOUS
<1>4. desk' = [desk EXCEPT ![d] = q] /\ UNCHANGED <<muts, db, count, cap>>
  <2>1. desk \in [Desks -> Desk] /\ p.kept = desk[d].kept
    BY <1>1, <1>2 DEF IInv, TypeOK, Desk
  <2> QED BY <1>2, <1>3, <2>1, <1>0 DEF Expires
<1>5. Unread \in Query(List) /\ ListOk(Unread, desk[d])
  BY DEF Unread, Query, Maybe, Fetch, ListOk
<1>6. ~ (desk[d].screen = "list" /\ k = Key(desk[d]))
  BY DEF Expires, Observed
<1>7. p \in Desk /\ PageOk(p, db, count.registered) /\ (ListCalm(desk[d]) => ListCalm(p))
  BY <1>1, <1>2, <1>5, <1>6, OneList
<1>8. /\ q \in Desk /\ q.lists = p.lists /\ q.screen = p.screen /\ q.search = p.search
      /\ q.page = p.page /\ q.row = p.row /\ q.people = p.people /\ q.form = p.form
      /\ q.open = p.open /\ q.gone = p.gone /\ q.saved = p.saved
  BY <1>3, <1>7 DEF Desk
<1>9. PageOk(q, db, count.registered)
  BY <1>7, <1>8, PageKept DEF PageOk, PageWhole, PersonCalm
<1>10. ListCalm(p) => ListCalm(q)
  BY <1>8 DEF ListCalm, Key, Fine
<1> QED BY <1>0, <1>1, <1>4, <1>7, <1>8, <1>9, <1>10, QuietStep

\* Another list is on screen, and being fetched.
LEMMA WatchingOk ==
  ASSUME NEW p \in Desk, NEW people, NEW n, PageOk(p, people, n), p.screen = "list",
         NEW s \in Searches, NEW page \in Pages, NEW q, q = Watching(p, s, page)
  PROVE  q \in Desk /\ PageOk(q, people, n) /\ ListCalm(q)
<1> DEFINE left == [p.lists EXCEPT ![Key(p)] = Unwatched(p, Key(p))]
           key == <<s, page>>
           lists == [left EXCEPT ![key] = Asked(left[key])]
<1>1. /\ p.lists \in [Keys -> Query(List)] /\ Key(p) \in Keys
      /\ \A k \in Keys : p.lists[k] \in Query(List) /\ ListOk(p.lists[k], p)
  BY DeskFields DEF PageOk
<1>2. key \in Keys
  BY DEF Keys
<1>3. Unwatched(p, Key(p)) \in Query(List) /\ ListOk(Unwatched(p, Key(p)), p)
  BY <1>1, QueryTypes, ListSteps DEF Unwatched
<1>4. left \in [Keys -> Query(List)] /\ \A k \in Keys : ListOk(left[k], p)
  BY <1>1, <1>3
<1> HIDE DEF left, key
<1>5. /\ Asked(left[key]) \in Query(List) /\ ListOk(Asked(left[key]), p)
      /\ Asked(left[key]).fetch # "idle"
  <2>1. left[key] \in Query(List) /\ ListOk(left[key], p)
    BY <1>2, <1>4
  <2> QED BY <2>1, QueryTypes, ListSteps, QuerySteps
<1>6. /\ lists \in [Keys -> Query(List)] /\ \A k \in Keys : ListOk(lists[k], p)
      /\ lists[key].fetch # "idle"
  BY <1>2, <1>4, <1>5
<1>7. q = [p EXCEPT !.search = s, !.page = page, !.lists = lists]
  BY DEF Watching, left, key
<1> HIDE DEF lists
<1>8. /\ q \in Desk /\ q.lists = lists /\ q.screen = p.screen /\ q.search = s
      /\ q.page = page /\ q.row = p.row /\ q.people = p.people /\ q.form = p.form
      /\ q.open = p.open /\ q.gone = p.gone /\ q.saved = p.saved
  BY <1>6, <1>7 DEF Desk
<1>9. PageOk(q, people, n)
  <2>1. PageWhole(q) /\ PersonCalm(q)
    BY <1>8 DEF PageOk, PageWhole, PersonCalm
  <2>2. \A i \in Ids : PersonOk(q.people[i], i, p)
    BY <1>8 DEF PageOk
  <2>3. \A k \in Keys : ListOk(q.lists[k], p)
    BY <1>6, <1>8
  <2> QED BY <1>8, <2>1, <2>2, <2>3, PageKept
<1>10. Key(q) = key
  BY <1>8 DEF Key, key
<1> QED BY <1>6, <1>8, <1>9, <1>10 DEF ListCalm

LEMMA SearchOk ==
  ASSUME IInv, NEW d \in cap.desks, NEW search \in Searches, Search(d, search)
  PROVE  IInv'
<1>0. d \in Desks
  BY CapOk DEF IInv, TypeOK
<1>1. desk[d] \in Desk /\ PageOk(desk[d], db, count.registered)
  BY <1>0, TheDesk
<1>2. PICK q : q = Watching(desk[d], search, 0)
  OBVIOUS
<1>3. /\ desk[d].screen = "list" /\ desk' = [desk EXCEPT ![d] = q]
      /\ UNCHANGED <<muts, db, cap>> /\ Turn
  BY <1>2 DEF Search
<1>4. q \in Desk /\ PageOk(q, db, count.registered) /\ ListCalm(q)
  BY <1>1, <1>2, <1>3, PagesOk, WatchingOk
<1> QED BY <1>0, <1>3, <1>4, QuietStep

LEMMA TurnPageOk ==
  ASSUME IInv, NEW d \in cap.desks, NEW step \in {-1, 1}, TurnPage(d, step)
  PROVE  IInv'
<1>0. d \in Desks
  BY CapOk DEF IInv, TypeOK
<1>1. desk[d] \in Desk /\ PageOk(desk[d], db, count.registered)
  BY <1>0, TheDesk
<1>2. PICK page : page = desk[d].page + step
  OBVIOUS
<1>3. PICK q : q = Watching(desk[d], desk[d].search, page)
  OBVIOUS
<1>4. /\ desk[d].screen = "list" /\ desk' = [desk EXCEPT ![d] = q]
      /\ UNCHANGED <<muts, db, cap>> /\ Turn /\ Shown(desk[d]) # Nothing
      /\ IF step = 1 THEN HasPage(Shown(desk[d]), desk[d].page + 1) ELSE desk[d].page > 0
  BY <1>2, <1>3 DEF TurnPage, RowsShown
<1>5. desk[d].page \in Pages /\ desk[d].page \in Nat /\ desk[d].search \in Searches
  <2>1. desk[d].page \in Pages /\ desk[d].search \in Searches
    BY <1>1, DeskFields
  <2> QED BY <2>1, Apart DEF Pages
<1>6. Shown(desk[d]) \in List
  <2>1. desk[d].lists[Key(desk[d])] \in Query(List)
    BY <1>1, DeskFields
  <2> QED BY <1>4, <2>1, QueryFields DEF Shown, Maybe
<1>7. page \in Pages
  <2>1. CASE step = 1
    BY <1>2, <1>4, <1>5, <1>6, <2>1, PagesOk
  <2>2. CASE step = -1
    BY <1>2, <1>4, <1>5, <2>2, PagesOk
  <2> QED BY <2>1, <2>2
<1>8. q \in Desk /\ PageOk(q, db, count.registered) /\ ListCalm(q)
  BY <1>1, <1>3, <1>4, <1>5, <1>7, WatchingOk
<1> QED BY <1>0, <1>4, <1>8, QuietStep

-----------------------------------------------------------------------------
(* One participant.                                                        *)

\* The form takes what is there.
LEMMA MountedOk ==
  ASSUME NEW p \in Desk, PageWhole(p), NEW q, q = Mounted(p)
  PROVE  /\ q \in Desk /\ PageWhole(q) /\ q.lists = p.lists /\ q.screen = p.screen
         /\ q.search = p.search /\ q.page = p.page /\ q.row = p.row /\ q.people = p.people
         /\ q.gone = p.gone /\ q.saved = p.saved /\ q.keptPeople = p.keptPeople
<1>1. CASE p.form = Nothing /\ Opened(p) # Nothing
  <2>1. p.screen = "detail" /\ p.row \in Ids /\ Opened(p) = p.people[p.row].data
    BY <1>1 DEF Opened, PageWhole
  <2>2. Opened(p) \in Person
    <3>1. p.people[p.row] \in Query(Person)
      BY <2>1, DeskFields
    <3> QED BY <1>1, <2>1, <3>1, QueryFields DEF Maybe
  <2>3. PICK f : f = [initial |-> Opened(p).is, value |-> Opened(p).is]
    OBVIOUS
  <2>4. f \in Form
    BY <2>2, <2>3 DEF Form, Person
  <2>5. q = [p EXCEPT !.form = f]
    BY <1>1, <2>3 DEF Mounted
  <2>6. /\ q \in Desk /\ q.lists = p.lists /\ q.screen = p.screen
        /\ q.search = p.search /\ q.page = p.page /\ q.row = p.row /\ q.people = p.people
        /\ q.gone = p.gone /\ q.saved = p.saved /\ q.form = f /\ q.open = p.open
        /\ q.keptPeople = p.keptPeople
    BY <2>4, <2>5 DEF Desk, Maybe
  <2> QED BY <2>1, <2>4, <2>6, Apart DEF PageWhole
<1>2. CASE ~ (p.form = Nothing /\ Opened(p) # Nothing)
  BY <1>2 DEF Mounted
<1> QED BY <1>1, <1>2

LEMMA OpenDetailOk ==
  ASSUME IInv, NEW d \in cap.desks, NEW i \in Ids, OpenDetail(d, i)
  PROVE  IInv'
<1>0. d \in Desks
  BY CapOk DEF IInv, TypeOK
<1>1. PICK p \in Desk : p = desk[d] /\ PageOk(p, db, count.registered)
  BY <1>0, TheDesk
<1>2. p.screen = "list"
  BY <1>1 DEF OpenDetail, Rows, RowsShown
<1>3. PICK lists : lists = [p.lists EXCEPT ![Key(p)] = Unwatched(p, Key(p))]
  OBVIOUS
<1>4. PICK people : people = [p.people EXCEPT ![i] = Asked(p.people[i])]
  OBVIOUS
<1>5. PICK x : x = [p EXCEPT !.screen = "detail", !.row = i, !.lists = lists, !.people = people]
  OBVIOUS
<1>6. PICK q : q = Mounted(x)
  OBVIOUS
<1>7. desk' = [desk EXCEPT ![d] = q] /\ muts' = Orphaned(d) /\ Turn /\ UNCHANGED <<db, cap>>
  BY <1>1, <1>3, <1>4, <1>5, <1>6 DEF OpenDetail
<1>8. lists \in [Keys -> Query(List)] /\ \A k \in Keys : ListOk(lists[k], p)
  <2>1. p.lists \in [Keys -> Query(List)] /\ \A k \in Keys : ListOk(p.lists[k], p)
    BY <1>1, DeskFields DEF PageOk
  <2>2. Key(p) \in Keys
    BY DeskFields
  <2>3. Unwatched(p, Key(p)) \in Query(List) /\ ListOk(Unwatched(p, Key(p)), p)
    BY <2>1, <2>2, QueryTypes, ListSteps DEF Unwatched
  <2> QED BY <1>3, <2>1, <2>2, <2>3
<1>9. /\ people \in [Ids -> Query(Person)] /\ people[i].fetch # "idle"
      /\ \A j \in Ids : PersonOk(people[j], j, p)
  <2>1. p.people \in [Ids -> Query(Person)]
        /\ \A j \in Ids : PersonOk(p.people[j], j, p)
    BY <1>1, DeskFields DEF PageOk
  <2>2. /\ Asked(p.people[i]) \in Query(Person) /\ Asked(p.people[i]).fetch # "idle"
        /\ PersonOk(Asked(p.people[i]), i, p)
    BY <2>1, QueryTypes, PersonSteps, QuerySteps
  <2> QED BY <1>4, <2>1, <2>2
<1>10. /\ x \in Desk /\ x.lists = lists /\ x.screen = "detail" /\ x.row = i /\ x.people = people
       /\ x.form = p.form /\ x.open = p.open /\ x.gone = p.gone /\ x.saved = p.saved
  BY <1>5, <1>8, <1>9 DEF Desk, Maybe
<1>11. PageWhole(x)
  BY <1>1, <1>10 DEF PageOk, PageWhole
<1>12. /\ q \in Desk /\ PageWhole(q) /\ q.lists = lists /\ q.screen = "detail" /\ q.row = i
       /\ q.people = people /\ q.gone = p.gone /\ q.saved = p.saved
  BY <1>6, <1>10, <1>11, MountedOk
<1>13. PersonCalm(q) /\ ListCalm(q)
  BY <1>9, <1>12 DEF PersonCalm, ListCalm
<1>14. PageOk(q, db, count.registered)
  BY <1>1, <1>8, <1>9, <1>12, <1>13, PageKept
<1> QED BY <1>0, <1>7, <1>12, <1>13, <1>14, QuietStep

\* Only the query of one participant has changed.
LEMMA OnePerson ==
  ASSUME NEW p \in Desk, NEW there, NEW n, PageOk(p, there, n), NEW i \in Ids,
         NEW l \in Query(Person), PersonOk(l, i, p),
         p.screen = "detail" /\ p.row = i =>
           l.fetch # "idle" \/ l.old \/ l.failed \/ l.data = Nothing \/ l.data.rev >= p.saved[i],
         NEW q, q = [p EXCEPT !.people = [p.people EXCEPT ![i] = l]]
  PROVE  q \in Desk /\ PageOk(q, there, n) /\ (ListCalm(p) => ListCalm(q))
<1> DEFINE people == [p.people EXCEPT ![i] = l]
<1>1. p.people \in [Ids -> Query(Person)]
  BY DeskFields
<1>2. /\ people \in [Ids -> Query(Person)] /\ people[i] = l
      /\ \A j \in Ids \ {i} : people[j] = p.people[j]
  BY <1>1
<1>3. q = [p EXCEPT !.people = people]
  OBVIOUS
<1> HIDE DEF people
<1>4. /\ q \in Desk /\ q.lists = p.lists /\ q.screen = p.screen /\ q.search = p.search
      /\ q.page = p.page /\ q.row = p.row /\ q.people = people /\ q.form = p.form
      /\ q.open = p.open /\ q.gone = p.gone /\ q.saved = p.saved
  BY <1>2, <1>3 DEF Desk
<1>5. PageWhole(q)
  BY <1>4 DEF PageOk, PageWhole
<1>6. PersonCalm(q)
  <2>1. CASE p.row = i
    BY <1>2, <1>4, <2>1 DEF PersonCalm
  <2>2. CASE p.row # i
    <3>1. p.screen = "detail" => p.row \in Ids
      BY DEF PageOk, PageWhole
    <3> QED BY <1>2, <1>4, <2>2, <3>1 DEF PageOk, PersonCalm
  <2> QED BY <2>1, <2>2
<1>7. \A j \in Ids : PersonOk(q.people[j], j, p)
  BY <1>2, <1>4 DEF PageOk
<1>8. \A k \in Keys : ListOk(q.lists[k], p)
  BY <1>4 DEF PageOk
<1>9. PageOk(q, there, n)
  BY <1>4, <1>5, <1>6, <1>7, <1>8, PageKept
<1>10. ListCalm(p) => ListCalm(q)
  BY <1>4 DEF ListCalm, Key, Fine
<1> QED BY <1>4, <1>9, <1>10

LEMMA DetailServedOk ==
  ASSUME IInv, NEW d \in cap.desks, NEW i \in Ids, DetailServed(d, i)
  PROVE  IInv'
<1>0. d \in Desks
  BY CapOk DEF IInv, TypeOK
<1>1. PICK p \in Desk : p = desk[d] /\ PageOk(p, db, count.registered)
                        /\ (Deleting(d, muts) \/ ListCalm(p))
  BY <1>0, TheDesk
<1>2. PICK a : a = db[i]
  OBVIOUS
<1>3. PICK l : l = [p.people[i] EXCEPT !.fetch = "answered", !.answer = a]
  OBVIOUS
<1>4. PICK q : q = [p EXCEPT !.people = [p.people EXCEPT ![i] = l]]
  OBVIOUS
<1>5. desk' = [desk EXCEPT ![d] = q] /\ UNCHANGED <<muts, db, count, cap>>
  BY <1>1, <1>2, <1>3, <1>4 DEF DetailServed
<1>6. p.people[i] \in Query(Person) /\ PersonOk(p.people[i], i, p)
  BY DeskFields, <1>1 DEF PageOk
<1>7. a \in Maybe(Person) /\ a.rev >= p.saved[i]
  <2>1. i \in DOMAIN db
    BY DEF DetailServed
  <2>2. a = db[i] /\ db[i] \in Person /\ p.saved[i] <= db[i].rev
    BY <1>1, <1>2, <2>1 DEF IInv, TypeOK, PageOk, TellsTrue
  <2> QED BY <2>2 DEF Maybe
<1>8. /\ l \in Query(Person) /\ l.fetch = "answered" /\ l.answer = a
      /\ l.data = p.people[i].data
  <2>1. l \in Query(Person)
    BY <1>3, <1>6, <1>7, QueryTypes
  <2> QED BY <1>3, <1>6, <2>1 DEF Query
<1>9. PersonOk(l, i, p)
  BY <1>7, <1>8 DEF PersonOk
<1>10. q \in Desk /\ PageOk(q, db, count.registered) /\ (ListCalm(p) => ListCalm(q))
  BY <1>1, <1>4, <1>8, <1>9, OnePerson
<1> QED BY <1>0, <1>1, <1>5, <1>10, QuietStep

LEMMA DetailArrivesOk ==
  ASSUME IInv, NEW d \in cap.desks, NEW i \in Ids, DetailArrives(d, i)
  PROVE  IInv'
<1>0. d \in Desks
  BY CapOk DEF IInv, TypeOK
<1>1. PICK p \in Desk : p = desk[d] /\ PageOk(p, db, count.registered)
                        /\ (Deleting(d, muts) \/ ListCalm(p))
  BY <1>0, TheDesk
<1>2. PICK b \in BOOLEAN : b = PersonStays(p, i)
  BY DEF PersonStays, OnPage
<1>3. PICK o : o = p.people[i]
  OBVIOUS
<1>4. PICK l : l = Received(o, b)
  OBVIOUS
<1>5. PICK x : x = [p EXCEPT !.people = [p.people EXCEPT ![i] = l]]
  OBVIOUS
<1>6. PICK q : q = Mounted(x)
  OBVIOUS
<1>7. /\ desk' = [desk EXCEPT ![d] = q] /\ UNCHANGED <<muts, db, count, cap>>
      /\ o.fetch = "answered"
  BY <1>1, <1>2, <1>3, <1>4, <1>5, <1>6 DEF DetailArrives
<1>8. o \in Query(Person) /\ PersonOk(o, i, p)
  BY DeskFields, <1>1, <1>3 DEF PageOk
<1>9. l \in Query(Person) /\ PersonOk(l, i, p)
  BY <1>4, <1>8, QueryTypes, PersonSteps
<1>10. p.screen = "detail" /\ p.row = i =>
         l.fetch # "idle" \/ l.old \/ l.failed \/ l.data = Nothing \/ l.data.rev >= p.saved[i]
  <2>1. SUFFICES ASSUME p.screen = "detail", p.row = i
                 PROVE  l.old \/ l.data = Nothing \/ l.data.rev >= p.saved[i]
    OBVIOUS
  <2>2. b
    BY <1>2, <2>1 DEF PersonStays, OnPage
  <2>3. l.data = o.answer /\ l.old = o.old
    BY <1>4, <1>8, <2>2, QuerySteps
  <2> QED BY <1>7, <1>8, <2>3 DEF PersonOk
<1>11. x \in Desk /\ PageOk(x, db, count.registered) /\ (ListCalm(p) => ListCalm(x))
  BY <1>1, <1>5, <1>9, <1>10, OnePerson
<1>12. /\ q \in Desk /\ PageWhole(q) /\ q.lists = x.lists /\ q.screen = x.screen
       /\ q.search = x.search /\ q.page = x.page /\ q.row = x.row /\ q.people = x.people
       /\ q.gone = x.gone /\ q.saved = x.saved
  BY <1>6, <1>11, MountedOk DEF PageOk
<1>13. PersonCalm(q)
  BY <1>11, <1>12 DEF PageOk, PersonCalm
<1>14. \A j \in Ids : PersonOk(q.people[j], j, x)
  BY <1>11, <1>12 DEF PageOk
<1>15. \A k \in Keys : ListOk(q.lists[k], x)
  BY <1>11, <1>12 DEF PageOk
<1>16. PageOk(q, db, count.registered)
  BY <1>11, <1>12, <1>13, <1>14, <1>15, PageKept
<1>17. ListCalm(x) => ListCalm(q)
  BY <1>12 DEF ListCalm, Key, Fine
<1> QED BY <1>0, <1>1, <1>7, <1>11, <1>12, <1>16, <1>17, QuietStep

LEMMA DetailFailsOk ==
  ASSUME IInv, NEW d \in cap.desks, NEW i \in Ids, DetailFails(d, i)
  PROVE  IInv'
<1>0. d \in Desks
  BY CapOk DEF IInv, TypeOK
<1>1. PICK p \in Desk : p = desk[d] /\ PageOk(p, db, count.registered)
                        /\ (Deleting(d, muts) \/ ListCalm(p))
  BY <1>0, TheDesk
<1>2. PICK b \in BOOLEAN : b = PersonStays(p, i)
  BY DEF PersonStays, OnPage
<1>3. PICK l : l = Failed(p.people[i], b)
  OBVIOUS
<1>4. PICK q : q = [p EXCEPT !.people = [p.people EXCEPT ![i] = l]]
  OBVIOUS
<1>5. desk' = [desk EXCEPT ![d] = q] /\ UNCHANGED <<muts, db, count, cap>>
  BY <1>1, <1>2, <1>3, <1>4 DEF DetailFails
<1>6. p.people[i] \in Query(Person) /\ PersonOk(p.people[i], i, p)
  BY DeskFields, <1>1 DEF PageOk
<1>7. l \in Query(Person) /\ PersonOk(l, i, p)
  BY <1>3, <1>6, QueryTypes, PersonSteps
<1>8. p.screen = "detail" /\ p.row = i => l.failed
  BY <1>2, <1>3, <1>6, QuerySteps DEF PersonStays, OnPage
<1>9. q \in Desk /\ PageOk(q, db, count.registered) /\ (ListCalm(p) => ListCalm(q))
  BY <1>1, <1>4, <1>7, <1>8, OnePerson
<1> QED BY <1>0, <1>1, <1>5, <1>9, QuietStep

\* A participant that expires is not on the page.
LEMMA PersonExpiresOk ==
  ASSUME IInv, NEW d \in cap.desks, NEW i \in Ids, PersonExpires(d, i)
  PROVE  IInv'
<1>0. d \in Desks
  BY CapOk DEF IInv, TypeOK
<1>1. PICK p \in Desk : p = desk[d] /\ PageOk(p, db, count.registered)
                        /\ (Deleting(d, muts) \/ ListCalm(p))
  BY <1>0, TheDesk
<1>2. PICK x : x = [p EXCEPT !.people = [p.people EXCEPT ![i] = Unread]]
  OBVIOUS
<1>3. PICK q : q = [x EXCEPT !.keptPeople = x.keptPeople \ {i}]
  OBVIOUS
<1>4. desk' = [desk EXCEPT ![d] = q] /\ UNCHANGED <<muts, db, count, cap>>
  <2>1. desk \in [Desks -> Desk] /\ x.keptPeople = p.keptPeople
    BY <1>2 DEF IInv, TypeOK, Desk
  <2> QED BY <1>0, <1>1, <1>2, <1>3, <2>1 DEF PersonExpires
<1>5. Unread \in Query(Person) /\ PersonOk(Unread, i, p)
  BY DEF Unread, Query, Maybe, Fetch, PersonOk
<1>6. ~ (p.screen = "detail" /\ p.row = i)
  BY <1>1 DEF PersonExpires, OnPage
<1>7. x \in Desk /\ PageOk(x, db, count.registered) /\ (ListCalm(p) => ListCalm(x))
  BY <1>1, <1>2, <1>5, <1>6, OnePerson
<1>8. /\ q \in Desk /\ q.lists = x.lists /\ q.screen = x.screen /\ q.search = x.search
      /\ q.page = x.page /\ q.row = x.row /\ q.people = x.people /\ q.form = x.form
      /\ q.open = x.open /\ q.gone = x.gone /\ q.saved = x.saved
  BY <1>3, <1>7 DEF Desk
<1>9. PageOk(q, db, count.registered)
  BY <1>7, <1>8, PageKept DEF PageOk, PageWhole, PersonCalm
<1>10. ListCalm(x) => ListCalm(q)
  BY <1>8 DEF ListCalm, Key, Fine
<1> QED BY <1>0, <1>1, <1>4, <1>7, <1>8, <1>9, <1>10, QuietStep

LEMMA BackOk ==
  ASSUME IInv, NEW d \in cap.desks, Back(d)
  PROVE  IInv'
<1>0. d \in Desks
  BY CapOk DEF IInv, TypeOK
<1>1. PICK p \in Desk : p = desk[d] /\ PageOk(p, db, count.registered)
  BY <1>0, TheDesk
<1>2. p.screen = "detail" /\ p.row \in Ids
  BY <1>1 DEF Back, PageOk, PageWhole
<1>3. PICK first : first = <<Values, 0>>
  OBVIOUS
<1>4. PICK lists : lists = [p.lists EXCEPT ![first] = Asked(p.lists[first])]
  OBVIOUS
<1>5. PICK people : people = [p.people EXCEPT ![p.row] =
                          IF p.row \in p.keptPeople THEN p.people[p.row]
                          ELSE Unobserved(p.people[p.row])]
  OBVIOUS
<1>6. PICK q : q = [p EXCEPT !.screen = "list", !.search = Values, !.page = 0, !.row = Nothing,
                             !.form = Nothing, !.open = FALSE, !.people = people, !.lists = lists]
  OBVIOUS
<1>7. desk' = [desk EXCEPT ![d] = q] /\ muts' = Orphaned(d) /\ Turn /\ UNCHANGED <<db, cap>>
  BY <1>1, <1>3, <1>4, <1>5, <1>6 DEF Back
<1>8. first \in Keys
  BY <1>3, Apart, PagesOk DEF Keys
<1>9. /\ lists \in [Keys -> Query(List)] /\ lists[first].fetch # "idle"
      /\ \A k \in Keys : ListOk(lists[k], p)
  <2>1. p.lists \in [Keys -> Query(List)] /\ \A k \in Keys : ListOk(p.lists[k], p)
    BY <1>1, DeskFields DEF PageOk
  <2>2. /\ Asked(p.lists[first]) \in Query(List) /\ ListOk(Asked(p.lists[first]), p)
        /\ Asked(p.lists[first]).fetch # "idle"
    BY <1>8, <2>1, QueryTypes, ListSteps, QuerySteps
  <2> QED BY <1>4, <1>8, <2>1, <2>2
<1>10. /\ people \in [Ids -> Query(Person)]
       /\ \A j \in Ids : PersonOk(people[j], j, p)
  <2>1. p.people \in [Ids -> Query(Person)]
        /\ \A j \in Ids : PersonOk(p.people[j], j, p)
    BY <1>1, DeskFields DEF PageOk
  <2>2. /\ Unobserved(p.people[p.row]) \in Query(Person)
        /\ PersonOk(Unobserved(p.people[p.row]), p.row, p)
    BY <1>2, <2>1, QueryTypes, PersonSteps
  <2> QED BY <1>2, <1>5, <2>1, <2>2
<1>11. /\ q \in Desk /\ q.lists = lists /\ q.screen = "list" /\ q.search = Values /\ q.page = 0
       /\ q.people = people /\ q.form = Nothing /\ q.open = FALSE /\ q.gone = p.gone
       /\ q.saved = p.saved
  BY <1>6, <1>9, <1>10, Apart, PagesOk DEF Desk, Maybe
<1>12. PageWhole(q) /\ PersonCalm(q)
  BY <1>11 DEF PageWhole, PersonCalm
<1>13. PageOk(q, db, count.registered)
  BY <1>1, <1>9, <1>10, <1>11, <1>12, PageKept
<1>14. ListCalm(q)
  BY <1>3, <1>9, <1>11 DEF ListCalm, Key
<1> QED BY <1>0, <1>7, <1>11, <1>13, <1>14, QuietStep

LEMMA RefocusOk ==
  ASSUME IInv, NEW d \in cap.desks, Refocus(d)
  PROVE  IInv'
<1>0. d \in Desks
  BY CapOk DEF IInv, TypeOK
<1>1. PICK p \in Desk : p = desk[d] /\ PageOk(p, db, count.registered)
                        /\ (Deleting(d, muts) \/ ListCalm(p))
  BY <1>0, TheDesk
<1>2. UNCHANGED <<muts, db, cap>> /\ Turn
  BY DEF Refocus
<1>3. CASE p.screen = "list"
  <2>1. PICK k : k = Key(p)
    OBVIOUS
  <2>2. PICK l : l = Asked(p.lists[k])
    OBVIOUS
  <2>3. PICK q : q = [p EXCEPT !.lists = [p.lists EXCEPT ![k] = l]]
    OBVIOUS
  <2>4. desk' = [desk EXCEPT ![d] = q]
    BY <1>1, <1>3, <2>1, <2>2, <2>3 DEF Refocus
  <2>5. k \in Keys /\ p.lists[k] \in Query(List) /\ ListOk(p.lists[k], p)
    BY <1>1, <2>1, DeskFields DEF PageOk
  <2>6. l \in Query(List) /\ ListOk(l, p) /\ l.fetch # "idle"
    BY <2>2, <2>5, QueryTypes, ListSteps, QuerySteps
  <2>7. q \in Desk /\ PageOk(q, db, count.registered) /\ (ListCalm(p) => ListCalm(q))
    BY <1>1, <2>3, <2>5, <2>6, OneList
  <2> QED BY <1>0, <1>1, <1>2, <2>4, <2>7, QuietStep
<1>4. CASE p.screen # "list"
  <2>1. PICK i \in Ids : i = p.row
    BY <1>1, <1>4, DeskFields DEF PageOk, PageWhole
  <2>2. PICK l : l = Asked(p.people[i])
    OBVIOUS
  <2>3. PICK q : q = [p EXCEPT !.people = [p.people EXCEPT ![i] = l]]
    OBVIOUS
  <2>4. desk' = [desk EXCEPT ![d] = q]
    BY <1>1, <1>4, <2>1, <2>2, <2>3 DEF Refocus
  <2>5. p.people[i] \in Query(Person) /\ PersonOk(p.people[i], i, p)
    BY <1>1, DeskFields DEF PageOk
  <2>6. l \in Query(Person) /\ PersonOk(l, i, p) /\ l.fetch # "idle"
    BY <2>2, <2>5, QueryTypes, PersonSteps, QuerySteps
  <2>7. q \in Desk /\ PageOk(q, db, count.registered) /\ (ListCalm(p) => ListCalm(q))
    BY <1>1, <2>3, <2>6, OnePerson
  <2> QED BY <1>0, <1>1, <1>2, <2>4, <2>7, QuietStep
<1> QED BY <1>3, <1>4

\* Only the form has changed.
LEMMA FormOnly ==
  ASSUME NEW p \in Desk, NEW there, NEW n, PageOk(p, there, n), NEW q \in Desk, PageWhole(q),
         q.lists = p.lists, q.screen = p.screen, q.search = p.search, q.page = p.page,
         q.row = p.row, q.people = p.people, q.gone = p.gone, q.saved = p.saved
  PROVE  PageOk(q, there, n) /\ (ListCalm(p) => ListCalm(q))
<1>1. PersonCalm(q)
  BY DEF PageOk, PersonCalm
<1>2. \A j \in Ids : PersonOk(q.people[j], j, p)
  BY DEF PageOk
<1>3. \A k \in Keys : ListOk(q.lists[k], p)
  BY DEF PageOk
<1>4. PageOk(q, there, n)
  BY <1>1, <1>2, <1>3, PageKept
<1>5. ListCalm(p) => ListCalm(q)
  BY DEF ListCalm, Key, Fine
<1> QED BY <1>4, <1>5

LEMMA FormStepsOk ==
  ASSUME IInv, NEW d \in cap.desks, Edit(d) \/ CloseEdit(d) \/ \E v \in Values : Type(d, v)
  PROVE  IInv'
<1>0. d \in Desks
  BY CapOk DEF IInv, TypeOK
<1>1. PICK p \in Desk : p = desk[d] /\ PageOk(p, db, count.registered)
                        /\ (Deleting(d, muts) \/ ListCalm(p))
  BY <1>0, TheDesk
<1>2. PageWhole(p)
  BY <1>1 DEF PageOk
<1>3. UNCHANGED <<muts, db, count, cap>>
  BY DEF Edit, CloseEdit, Type
<1>4. ASSUME NEW b \in BOOLEAN, NEW q, q = [p EXCEPT !.open = b], b => p.form # Nothing,
             desk' = [desk EXCEPT ![d] = q]
      PROVE  IInv'
  <2>1. /\ q \in Desk /\ q.lists = p.lists /\ q.screen = p.screen /\ q.search = p.search
        /\ q.page = p.page /\ q.row = p.row /\ q.people = p.people /\ q.gone = p.gone
        /\ q.saved = p.saved /\ q.form = p.form
    BY <1>4 DEF Desk
  <2>2. q.open = b
    BY <1>4 DEF Desk
  <2>3. PageWhole(q)
    BY <1>2, <1>4, <2>1, <2>2 DEF PageWhole
  <2> QED BY <1>0, <1>1, <1>3, <1>4, <2>1, <2>3, FormOnly, QuietStep
<1>5. CASE Edit(d)
  <2>1. PICK q : q = [p EXCEPT !.open = TRUE]
    OBVIOUS
  <2>2. desk' = [desk EXCEPT ![d] = q] /\ p.form # Nothing
    BY <1>1, <1>5, <2>1 DEF Edit
  <2> QED BY <1>4, <2>1, <2>2
<1>6. CASE CloseEdit(d)
  <2>1. PICK q : q = [p EXCEPT !.open = FALSE]
    OBVIOUS
  <2>2. desk' = [desk EXCEPT ![d] = q]
    BY <1>1, <1>6, <2>1 DEF CloseEdit
  <2> QED BY <1>4, <2>1, <2>2
<1>7. ASSUME NEW v \in Values, Type(d, v)
      PROVE  IInv'
  <2>1. p.open /\ p.form \in Form
    BY <1>1, <1>2, <1>7, DeskFields DEF Type, PageWhole, Maybe
  <2>2. PICK f : f = [p.form EXCEPT !.value = v]
    OBVIOUS
  <2>3. PICK q : q = [p EXCEPT !.form = f]
    OBVIOUS
  <2>4. desk' = [desk EXCEPT ![d] = q]
    BY <1>1, <1>7, <2>2, <2>3 DEF Type
  <2>5. f \in Form
    BY <2>1, <2>2 DEF Form
  <2>6. /\ q \in Desk /\ q.lists = p.lists /\ q.screen = p.screen /\ q.search = p.search
        /\ q.page = p.page /\ q.row = p.row /\ q.people = p.people /\ q.gone = p.gone
        /\ q.saved = p.saved /\ q.form = f
    BY <2>3, <2>5 DEF Desk, Maybe
  <2>7. PageWhole(q)
    BY <1>2, <2>1, <2>5, <2>6, Apart DEF PageWhole
  <2> QED BY <1>0, <1>1, <1>3, <2>4, <2>6, <2>7, FormOnly, QuietStep
<1> QED BY <1>5, <1>6, <1>7

-----------------------------------------------------------------------------
(* Mutations that are sent.                                                *)

LEMMA SendOk ==
  ASSUME IInv, NEW m, IsMutation(m), m.at = "sent", Send(m)
  PROVE  /\ count' \in [registered: 0 .. cap.people, changes: Nat,
                        sends: 0 .. cap.sends, turns: 0 .. cap.turns]
         /\ count'.registered = count.registered /\ count'.changes = count.changes
         /\ \A o \in muts' : IsMutation(o)' /\ DoneOk(o, db, count.registered)
         /\ \A e \in Desks : Deleting(e, muts) => Deleting(e, muts')
         /\ m \in muts'
<1>1. /\ count' \in [registered: 0 .. cap.people, changes: Nat,
                     sends: 0 .. cap.sends, turns: 0 .. cap.turns]
      /\ count'.registered = count.registered /\ count'.changes = count.changes
  <2>1. count \in [registered: 0 .. cap.people, changes: Nat,
                   sends: 0 .. cap.sends, turns: 0 .. cap.turns] /\ cap.sends \in Nat
    BY CapOk DEF IInv, TypeOK
  <2> QED BY <2>1 DEF Send
<1>2. \A o \in muts : IsMutation(o)' /\ DoneOk(o, db, count.registered)
  BY <1>1, MutationsKept
<1>3. IsMutation(m)' /\ DoneOk(m, db, count.registered)
  BY <1>1 DEF IsMutation, DoneOk
<1>4. muts' = muts \union {m}
  BY DEF Send
<1> QED BY <1>1, <1>2, <1>3, <1>4 DEF Deleting

LEMMA SaveOk ==
  ASSUME IInv, NEW d \in cap.desks, Save(d)
  PROVE  IInv'
<1>0. d \in Desks
  BY CapOk DEF IInv, TypeOK
<1>1. PICK p \in Desk : p = desk[d] /\ PageOk(p, db, count.registered)
                        /\ (Deleting(d, muts) \/ ListCalm(p))
  BY <1>0, TheDesk
<1>2. p.row \in Ids /\ p.form \in Form
  BY <1>1, DeskFields DEF Save, PageOk, PageWhole, Maybe
<1>3. PICK m : m = [desk |-> d, what |-> "save", row |-> p.row, value |-> p.form.value,
                    home |-> TRUE, at |-> "sent", rev |-> 0, previous |-> <<>>, persons |-> <<>>]
  OBVIOUS
<1>4. Send(m) /\ UNCHANGED <<desk, db, cap>>
  BY <1>1, <1>3 DEF Save
<1>5. DOMAIN m.previous = {} /\ DOMAIN m.persons = {}
  BY <1>3
<1>6. count.changes \in Nat
  BY DEF IInv, TypeOK
<1>7. IsMutation(m) /\ m.at = "sent"
  <2>1. m.value \in Values
    BY <1>2, <1>3 DEF Form
  <2> QED BY <1>0, <1>2, <1>3, <1>5, <1>6, <2>1 DEF IsMutation
<1>8. desk' = [desk EXCEPT ![d] = p]
  <2>1. desk \in [Desks -> Desk]
    BY DEF IInv, TypeOK
  <2> QED BY <1>1, <1>4, <2>1
<1>9. Deleting(d, muts') \/ ListCalm(p)
  BY <1>0, <1>1, <1>4, <1>7, SendOk
<1> QED BY <1>0, <1>1, <1>4, <1>7, <1>8, <1>9, SendOk, DeskStep

LEMMA DeleteOk ==
  ASSUME IInv, NEW d \in cap.desks, NEW i \in Ids, Delete(d, i)
  PROVE  IInv'
<1>0. d \in Desks
  BY CapOk DEF IInv, TypeOK
<1>1. PICK p \in Desk : p = desk[d] /\ PageOk(p, db, count.registered)
  BY <1>0, TheDesk
<1>2. p.screen = "list"
  BY <1>1 DEF Delete, Rows, RowsShown
<1>3. PICK had : had = {k \in Keys : p.lists[k].data # Nothing}
  OBVIOUS
<1>4. PICK previous : previous = [k \in had |-> p.lists[k].data]
  OBVIOUS
<1>a. PICK knew : knew = {j \in Ids : p.people[j].data # Nothing}
  OBVIOUS
<1>b. PICK persons : persons = [j \in knew |-> p.people[j].data]
  OBVIOUS
<1>5. PICK m : m = [desk |-> d, what |-> "delete", row |-> i, value |-> Nothing, home |-> TRUE,
                    at |-> "sent", rev |-> 0, previous |-> previous, persons |-> persons]
  OBVIOUS
<1>6. PICK lists : lists = [k \in Keys |->
               IF k \in had /\ (Observed(p, k) \/ k \in p.kept)
               THEN Put(Cancelled(p.lists[k]), WithoutRow(p.lists[k].data, i)) ELSE Unread]
  OBVIOUS
<1>7. PICK people : people = [j \in Ids |->
               IF j \in knew \intersect p.keptPeople
               THEN Put(Cancelled(p.people[j]), p.people[j].data) ELSE Unread]
  OBVIOUS
<1>8. PICK q : q = [p EXCEPT !.lists = lists, !.people = people]
  OBVIOUS
<1>9. Send(m) /\ desk' = [desk EXCEPT ![d] = q] /\ UNCHANGED <<db, cap>>
  <2>1. Send(m) /\ UNCHANGED <<db, cap>>
    BY <1>1, <1>3, <1>4, <1>5, <1>a, <1>b DEF Delete
  <2>2. desk' = [desk EXCEPT ![d].lists = lists, ![d].people = people]
    BY <1>1, <1>3, <1>6, <1>7, <1>a DEF Delete
  <2>3. desk \in [Desks -> Desk]
    BY DEF IInv, TypeOK
  <2>4. desk' = [desk EXCEPT ![d] = q]
    BY <1>0, <1>1, <1>8, <2>2, <2>3
  <2> QED BY <2>1, <2>4
<1>10. ASSUME NEW k \in Keys
       PROVE  lists[k] \in Query(List) /\ ListOk(lists[k], p)
  <2>1. p.lists[k] \in Query(List) /\ ListOk(p.lists[k], p)
    BY <1>1, DeskFields DEF PageOk
  <2>2. PICK c : c = Cancelled(p.lists[k])
    OBVIOUS
  <2>3. c \in Query(List) /\ ListOk(c, p) /\ Unread \in Query(List) /\ ListOk(Unread, p)
    BY <2>1, <2>2, QueryTypes, ListSteps
  <2>4. PICK a : a = p.lists[k].data
    OBVIOUS
  <2>5. a \in Maybe(List)
    BY <2>1, <2>4, QueryFields
  <2>6. Put(c, a) \in Query(List) /\ ListOk(Put(c, a), p)
    BY <2>3, <2>5, QueryTypes, ListSteps
  <2>7. lists[k] \in {Put(c, a), Unread}
    BY <1>6, <2>2, <2>4 DEF WithoutRow
  <2> QED BY <2>3, <2>6, <2>7
<1>11. lists \in [Keys -> Query(List)]
  <2>1. DOMAIN lists = Keys /\ lists = [k \in Keys |-> lists[k]]
    BY <1>6
  <2> QED BY <1>10, <2>1
<1>c. ASSUME NEW j \in Ids
      PROVE  people[j] \in Query(Person) /\ PersonOk(people[j], j, p)
  <2>1. p.people[j] \in Query(Person) /\ PersonOk(p.people[j], j, p)
    BY <1>1, DeskFields DEF PageOk
  <2>2. PICK c : c = Cancelled(p.people[j])
    OBVIOUS
  <2>3. c \in Query(Person) /\ PersonOk(c, j, p) /\ Unread \in Query(Person) /\ PersonOk(Unread, j, p)
    BY <2>1, <2>2, QueryTypes, PersonSteps
  <2>4. PICK a : a = p.people[j].data
    OBVIOUS
  <2>5. a \in Maybe(Person)
    BY <2>1, <2>4, QueryFields
  <2>6. Put(c, a) \in Query(Person) /\ PersonOk(Put(c, a), j, p)
    BY <2>3, <2>5, QueryTypes, PersonSteps
  <2>7. people[j] \in {Put(c, a), Unread}
    BY <1>7, <2>2, <2>4
  <2> QED BY <2>3, <2>6, <2>7
<1>12. /\ people \in [Ids -> Query(Person)]
       /\ \A j \in Ids : PersonOk(people[j], j, p)
  <2>1. DOMAIN people = Ids /\ people = [j \in Ids |-> people[j]]
    BY <1>7
  <2> QED BY <1>c, <2>1
<1>13. /\ q \in Desk /\ q.lists = lists /\ q.screen = "list" /\ q.people = people
       /\ q.form = p.form /\ q.open = p.open /\ q.gone = p.gone /\ q.saved = p.saved
  BY <1>2, <1>8, <1>11, <1>12 DEF Desk
<1>14. PageWhole(q) /\ PersonCalm(q)
  BY <1>1, <1>2, <1>13 DEF PageOk, PageWhole, PersonCalm
<1>15. PageOk(q, db, count.registered)
  BY <1>1, <1>10, <1>12, <1>13, <1>14, PageKept
<1>16. IsMutation(m) /\ m.at = "sent"
  <2>1. count.changes \in Nat
    BY DEF IInv, TypeOK
  <2>2. DOMAIN previous = had /\ \A k \in had : previous[k] = p.lists[k].data
    BY <1>4
  <2>3. \A k \in had : k \in Keys /\ p.lists[k].data \in List
    BY <1>3, DeskFields, QueryFields DEF Maybe
  <2>4. m.previous = previous /\ m.persons = persons
    BY <1>5
  <2>5. DOMAIN persons = knew /\ \A j \in knew : persons[j] = p.people[j].data
    BY <1>b
  <2>6. \A j \in knew : j \in Ids /\ p.people[j].data \in Person
    BY <1>a, DeskFields, QueryFields DEF Maybe
  <2> QED BY <1>0, <1>5, <2>1, <2>2, <2>3, <2>4, <2>5, <2>6 DEF IsMutation
<1>17. Deleting(d, muts')
  BY <1>5, <1>9, <1>16, SendOk DEF Deleting
<1> QED BY <1>0, <1>9, <1>13, <1>15, <1>16, <1>17, SendOk, DeskStep

-----------------------------------------------------------------------------
(* Mutations that end.                                                     *)

\* The queries of page p are in order, given what y was told.
ListsOk(p, y) == \A k \in Keys : ListOk(p.lists[k], y)
PeopleOk(p, y) == \A i \in Ids : PersonOk(p.people[i], i, y)

\* After everything is invalidated, no answer on its way is taken for new, and
\* nothing on screen is at rest.
LEMMA AllInvalidatedOk ==
  ASSUME NEW p \in Desk, PageWhole(p), NEW there, NEW n,
         PeopleOk(p, p),
         NEW x, x = AllInvalidated(p), NEW y
  PROVE  /\ x \in Desk /\ PageWhole(x) /\ x.open = p.open /\ x.form = p.form
         /\ x.gone = p.gone /\ x.saved = p.saved /\ x.screen = p.screen /\ x.row = p.row
         /\ ListsOk(x, y) /\ PeopleOk(x, y)
         /\ x.screen = "list" => x.lists[Key(x)].fetch # "idle"
         /\ x.screen = "detail" => x.people[x.row].fetch # "idle"
<1>1. PICK lists : lists = [k \in Keys |-> Invalidated(p.lists[k], Observed(p, k))]
  OBVIOUS
<1>2. PICK people : people = [i \in Ids |-> Invalidated(p.people[i], OnPage(p, i))]
  OBVIOUS
<1>3. x = [p EXCEPT !.lists = lists, !.people = people]
  BY <1>1, <1>2 DEF AllInvalidated
<1>4. ASSUME NEW k \in Keys
      PROVE  /\ lists[k] \in Query(List) /\ ListOk(lists[k], y)
             /\ Observed(p, k) => lists[k].fetch # "idle"
  <2>1. PICK b \in BOOLEAN : b = Observed(p, k)
    BY DeskFields
  <2>2. PICK o \in Query(List) : o = p.lists[k]
    BY DeskFields
  <2>3. lists[k] = Invalidated(o, b)
    BY <1>1, <2>1, <2>2
  <2>4. /\ lists[k] \in Query(List) /\ (b => lists[k].fetch # "idle")
        /\ lists[k].fetch = "answered" => lists[k].old
    BY <2>3, InvalidatedOk
  <2> QED BY <2>1, <2>4 DEF ListOk
<1>5. ASSUME NEW i \in Ids
      PROVE  /\ people[i] \in Query(Person) /\ PersonOk(people[i], i, y)
             /\ p.screen = "detail" /\ i = p.row => people[i].fetch # "idle"
  <2>1. PICK b \in BOOLEAN : b = OnPage(p, i)
    BY DEF OnPage
  <2>2. PICK o \in Query(Person) : o = p.people[i]
    BY DeskFields
  <2>3. people[i] = Invalidated(o, b) /\ PersonOk(o, i, p)
    BY <1>2, <2>1, <2>2 DEF PeopleOk
  <2>4. people[i] \in Query(Person) /\ (b => people[i].fetch # "idle")
    BY <2>3, InvalidatedOk
  <2>5. PersonOk(people[i], i, y)
    BY <2>3, PersonSteps
  <2> QED BY <2>1, <2>4, <2>5 DEF OnPage
<1>6. lists \in [Keys -> Query(List)] /\ people \in [Ids -> Query(Person)]
  <2>1. DOMAIN lists = Keys /\ lists = [k \in Keys |-> lists[k]]
    BY <1>1
  <2>2. DOMAIN people = Ids /\ people = [i \in Ids |-> people[i]]
    BY <1>2
  <2> QED BY <1>4, <1>5, <2>1, <2>2
<1>7. /\ x \in Desk /\ x.open = p.open /\ x.form = p.form /\ x.gone = p.gone
      /\ x.saved = p.saved /\ x.screen = p.screen /\ x.row = p.row /\ x.search = p.search
      /\ x.page = p.page /\ x.lists = lists /\ x.people = people
  BY <1>3, <1>6 DEF Desk
<1>8. PageWhole(x)
  BY <1>7 DEF PageWhole
<1>9. x.screen = "list" => x.lists[Key(x)].fetch # "idle"
  <2>1. Key(x) = Key(p) /\ Key(p) \in Keys
    BY <1>7, DeskFields DEF Key
  <2> QED BY <1>4, <1>7, <2>1 DEF Observed
<1>10. x.screen = "detail" => x.people[x.row].fetch # "idle"
  BY <1>5, <1>7 DEF PageWhole
<1>11. ListsOk(x, y) /\ PeopleOk(x, y)
  BY <1>4, <1>5, <1>7 DEF ListsOk, PeopleOk
<1> QED BY <1>7, <1>8, <1>9, <1>10, <1>11

\* A mutation has ended, and its desk reads everything again.
LEMMA EndStep ==
  ASSUME IInv, NEW m \in muts, NEW p \in Desk, PageWhole(p),
         PeopleOk(p, p),
         NEW q \in Desk, PageWhole(q), TellsTrue(q, db, count.registered),
         LET x == AllInvalidated(p)
         IN q.lists = x.lists /\ q.people = x.people /\ q.screen = x.screen /\ q.row = x.row
              /\ Key(q) = Key(x),
         desk' = [desk EXCEPT ![m.desk] = q], muts' = muts \ {m}, UNCHANGED <<db, count, cap>>
  PROVE  IInv'
<1>1. PICK x : x = AllInvalidated(p)
  OBVIOUS
<1>2. /\ ListsOk(x, q) /\ PeopleOk(x, q)
      /\ x.screen = "list" => x.lists[Key(x)].fetch # "idle"
      /\ x.screen = "detail" => x.people[x.row].fetch # "idle"
  BY <1>1, AllInvalidatedOk
<1>3. /\ q.lists = x.lists /\ q.people = x.people /\ q.screen = x.screen /\ q.row = x.row
      /\ Key(q) = Key(x)
  BY <1>1
<1>4. ListCalm(q) /\ PersonCalm(q)
  BY <1>2, <1>3 DEF ListCalm, PersonCalm
<1>5. PageOk(q, db, count.registered)
  BY <1>2, <1>3, <1>4 DEF PageOk, ListsOk, PeopleOk
<1>6. m.desk \in Desks
  BY DEF IInv, TypeOK, IsMutation
<1>7. \A o \in muts' : IsMutation(o)' /\ DoneOk(o, db, count.registered)
  BY MutationsKept
<1>8. \A e \in Desks \ {m.desk} : Deleting(e, muts) => Deleting(e, muts')
  BY DEF Deleting
<1>9. count' \in [registered: 0 .. cap.people, changes: Nat,
                  sends: 0 .. cap.sends, turns: 0 .. cap.turns]
  BY DEF IInv, TypeOK
<1> QED BY <1>4, <1>5, <1>6, <1>7, <1>8, <1>9, DeskStep

LEMMA DeleteHeardOk ==
  ASSUME IInv, NEW m \in muts, DeleteHeard(m)
  PROVE  IInv'
<1>0. m.desk \in Desks /\ m.row \in Ids
  BY DEF IInv, TypeOK, IsMutation
<1>1. PICK p \in Desk : p = desk[m.desk] /\ PageOk(p, db, count.registered)
  BY <1>0, TheDesk
<1>2. PICK x : x = AllInvalidated(p)
  OBVIOUS
<1>3. PICK q : q = [x EXCEPT !.gone = x.gone \union {m.row}]
  OBVIOUS
<1>4. PageWhole(p) /\ PeopleOk(p, p)
  BY <1>1 DEF PageOk, PeopleOk
<1>5. x \in Desk /\ PageWhole(x) /\ x.gone = p.gone /\ x.saved = p.saved
  BY <1>2, <1>4, AllInvalidatedOk
<1>6. desk' = [desk EXCEPT ![m.desk] = q] /\ muts' = muts \ {m} /\ UNCHANGED <<db, count, cap>>
  BY <1>1, <1>2, <1>3 DEF DeleteHeard
<1>7. m.row <= count.registered /\ m.row \notin DOMAIN db
  BY DEF DeleteHeard, IInv, DoneOk
<1>8. /\ q \in Desk /\ q.lists = x.lists /\ q.people = x.people /\ q.screen = x.screen
      /\ q.row = x.row /\ q.search = x.search /\ q.page = x.page /\ q.open = x.open
      /\ q.form = x.form /\ q.saved = p.saved
  <2>1. p.gone \union {m.row} \subseteq Ids
    BY <1>0, DeskFields
  <2> QED BY <1>3, <1>5, <2>1 DEF Desk
<1>9. q.gone = p.gone \union {m.row}
  BY <1>3, <1>5 DEF Desk
<1>10. PageWhole(q) /\ Key(q) = Key(x)
  BY <1>5, <1>8 DEF PageWhole, Key
<1>11. TellsTrue(q, db, count.registered)
  <2>1. TellsTrue(p, db, count.registered)
    BY <1>1 DEF PageOk
  <2>2. m.row \in 1 .. count.registered
    BY <1>0, <1>7 DEF Ids, IInv, TypeOK
  <2> QED BY <1>7, <1>8, <1>9, <2>1, <2>2 DEF TellsTrue
<1> QED BY <1>2, <1>4, <1>6, <1>8, <1>10, <1>11, EndStep

\* A rollback puts lists and participants back, and leaves the rest.
LEMMA RolledBackOk ==
  ASSUME NEW p \in Desk, PageWhole(p), PeopleOk(p, p), NEW m,
         \A k \in DOMAIN m.previous : k \in Keys /\ m.previous[k] \in List,
         \A i \in DOMAIN m.persons : i \in Ids /\ m.persons[i] \in Person,
         NEW x, x = RolledBack(p, m)
  PROVE  /\ x \in Desk /\ PageWhole(x) /\ PeopleOk(x, x) /\ x.gone = p.gone
         /\ x.saved = p.saved
<1>1. PICK lists : lists = [k \in Keys |-> IF k \in DOMAIN m.previous
                                           THEN Put(p.lists[k], m.previous[k]) ELSE p.lists[k]]
  OBVIOUS
<1>2. PICK made : made = {k \in DOMAIN m.previous : ~Observed(p, k) /\ p.lists[k].fetch = "idle"}
  OBVIOUS
<1>3. PICK people : people = [i \in Ids |-> IF i \in DOMAIN m.persons
                                            THEN Put(p.people[i], m.persons[i]) ELSE p.people[i]]
  OBVIOUS
<1>4. PICK known : known = {i \in DOMAIN m.persons : ~OnPage(p, i) /\ p.people[i].fetch = "idle"}
  OBVIOUS
<1>5. x = [p EXCEPT !.lists = lists, !.kept = p.kept \union made,
                    !.people = people, !.keptPeople = p.keptPeople \union known]
  BY <1>1, <1>2, <1>3, <1>4 DEF RolledBack
<1>6. lists \in [Keys -> Query(List)]
  <2>1. ASSUME NEW k \in Keys
        PROVE  lists[k] \in Query(List)
    <3>1. p.lists[k] \in Query(List)
      BY DeskFields
    <3>2. CASE k \in DOMAIN m.previous
      <4>1. m.previous[k] \in Maybe(List)
        BY <3>2 DEF Maybe
      <4> QED BY <1>1, <3>1, <3>2, <4>1, QueryTypes
    <3>3. CASE k \notin DOMAIN m.previous
      BY <1>1, <3>1, <3>3
    <3> QED BY <3>2, <3>3
  <2>2. DOMAIN lists = Keys /\ lists = [k \in Keys |-> lists[k]]
    BY <1>1
  <2> QED BY <2>1, <2>2
<1>7. ASSUME NEW i \in Ids
      PROVE  people[i] \in Query(Person) /\ PersonOk(people[i], i, p)
  <2>1. p.people[i] \in Query(Person) /\ PersonOk(p.people[i], i, p)
    BY DeskFields DEF PeopleOk
  <2>2. CASE i \in DOMAIN m.persons
    <3>1. m.persons[i] \in Maybe(Person)
      BY <2>2 DEF Maybe
    <3>2. people[i] = Put(p.people[i], m.persons[i])
      BY <1>3, <2>2
    <3>3. people[i] \in Query(Person)
      BY <2>1, <3>1, <3>2, QueryTypes
    <3>4. PersonOk(people[i], i, p)
      BY <2>1, <3>2, PersonSteps
    <3> QED BY <3>3, <3>4
  <2>3. CASE i \notin DOMAIN m.persons
    BY <1>3, <2>1, <2>3
  <2> QED BY <2>2, <2>3
<1>8. people \in [Ids -> Query(Person)]
  <2>1. DOMAIN people = Ids /\ people = [i \in Ids |-> people[i]]
    BY <1>3
  <2> QED BY <1>7, <2>1
<1>9. p.kept \union made \subseteq Keys /\ p.keptPeople \union known \subseteq Ids
  BY <1>2, <1>4, DeskFields
<1>10. /\ x \in Desk /\ x.people = people /\ x.gone = p.gone /\ x.saved = p.saved
       /\ x.screen = p.screen /\ x.row = p.row /\ x.open = p.open /\ x.form = p.form
  BY <1>5, <1>6, <1>8, <1>9 DEF Desk
<1>11. PeopleOk(x, x)
  BY <1>7, <1>10 DEF PeopleOk, PersonOk
<1> QED BY <1>10, <1>11 DEF PageWhole

LEMMA DeleteFailsOk ==
  ASSUME IInv, NEW m \in muts, DeleteFails(m)
  PROVE  IInv'
<1>0. /\ m.desk \in Desks
      /\ \A k \in DOMAIN m.previous : k \in Keys /\ m.previous[k] \in List
      /\ \A i \in DOMAIN m.persons : i \in Ids /\ m.persons[i] \in Person
  BY DEF IInv, TypeOK, IsMutation
<1>1. PICK p \in Desk : p = desk[m.desk] /\ PageOk(p, db, count.registered)
  BY <1>0, TheDesk
<1>2. PICK x : x = RolledBack(p, m)
  OBVIOUS
<1>3. PICK y : y = Mounted(x)
  OBVIOUS
<1>4. PICK q : q = AllInvalidated(y)
  OBVIOUS
<1>5. PageWhole(p) /\ PeopleOk(p, p)
  BY <1>1 DEF PageOk, PeopleOk
<1>6. x \in Desk /\ PageWhole(x) /\ PeopleOk(x, x) /\ x.gone = p.gone /\ x.saved = p.saved
  BY <1>0, <1>2, <1>5, RolledBackOk
<1>7. /\ y \in Desk /\ PageWhole(y) /\ y.people = x.people /\ y.gone = p.gone
      /\ y.saved = p.saved
  BY <1>3, <1>6, MountedOk
<1>8. PeopleOk(y, y)
  BY <1>6, <1>7 DEF PersonOk, PeopleOk
<1>9. q \in Desk /\ PageWhole(q) /\ q.gone = p.gone /\ q.saved = p.saved
  BY <1>4, <1>7, <1>8, AllInvalidatedOk
<1>10. TellsTrue(q, db, count.registered)
  BY <1>1, <1>9 DEF PageOk, TellsTrue
<1>11. desk' = [desk EXCEPT ![m.desk] = q] /\ muts' = muts \ {m} /\ UNCHANGED <<db, count, cap>>
  BY <1>1, <1>2, <1>3, <1>4 DEF DeleteFails
<1> QED BY <1>4, <1>7, <1>8, <1>9, <1>10, <1>11, EndStep

LEMMA SaveHeardOk ==
  ASSUME IInv, NEW m \in muts, SaveHeard(m)
  PROVE  IInv'
<1>0. /\ m.desk \in Desks /\ m.row \in Ids /\ m.rev \in Nat /\ m.home \in BOOLEAN
      /\ count.registered \in Nat
  BY CapOk, Apart DEF IInv, TypeOK, IsMutation
<1>1. PICK p \in Desk : p = desk[m.desk] /\ PageOk(p, db, count.registered)
  BY <1>0, TheDesk
<1>2. PICK x : x = AllInvalidated(p)
  OBVIOUS
<1>3. PICK b : b = (x.open /\ ~m.home)
  OBVIOUS
<1>4. PICK saved : saved = [x.saved EXCEPT ![m.row] = m.rev]
  OBVIOUS
<1>5. PICK q : q = [x EXCEPT !.open = b, !.saved = saved]
  OBVIOUS
<1>6. PageWhole(p) /\ PeopleOk(p, p)
  BY <1>1 DEF PageOk, PeopleOk
<1>7. /\ x \in Desk /\ PageWhole(x) /\ x.gone = p.gone /\ x.saved = p.saved
      /\ x.open = p.open
  BY <1>2, <1>6, AllInvalidatedOk
<1>8. desk' = [desk EXCEPT ![m.desk] = q] /\ muts' = muts \ {m} /\ UNCHANGED <<db, count, cap>>
  BY <1>1, <1>2, <1>3, <1>4, <1>5, Zenon DEF SaveHeard, Refreshed
<1>9. /\ m.row <= count.registered
      /\ m.row \in DOMAIN db => m.rev <= db[m.row].rev
  BY DEF SaveHeard, IInv, DoneOk
<1>10. /\ saved \in [Ids -> Nat] /\ saved[m.row] = m.rev
       /\ \A i \in Ids \ {m.row} : saved[i] = p.saved[i]
  BY <1>0, <1>4, <1>7, DeskFields
<1>a. b \in BOOLEAN /\ (b => p.open)
  BY <1>3, <1>7
<1>11. /\ q \in Desk /\ q.lists = x.lists /\ q.people = x.people /\ q.screen = x.screen
       /\ q.row = x.row /\ q.search = x.search /\ q.page = x.page /\ q.open = b
       /\ q.form = x.form /\ q.saved = saved /\ q.gone = p.gone
  BY <1>5, <1>7, <1>10, <1>a DEF Desk
<1>12. PageWhole(q) /\ Key(q) = Key(x)
  BY <1>7, <1>11, <1>a DEF PageWhole, Key
<1>13. TellsTrue(q, db, count.registered)
  <2>1. TellsTrue(p, db, count.registered)
    BY <1>1 DEF PageOk
  <2>2. ASSUME NEW i \in Ids
        PROVE  IF i \in DOMAIN db THEN saved[i] <= db[i].rev
               ELSE i > count.registered => saved[i] = 0
    <3>1. CASE i = m.row
      BY <1>0, <1>9, <1>10, <3>1 DEF Ids
    <3>2. CASE i # m.row
      BY <1>10, <2>1, <3>2 DEF TellsTrue
    <3> QED BY <3>1, <3>2
  <2> QED BY <1>11, <2>1, <2>2 DEF TellsTrue
<1> QED BY <1>2, <1>6, <1>8, <1>11, <1>12, <1>13, EndStep

LEMMA SaveFailsOk ==
  ASSUME IInv, NEW m \in muts, SaveFails(m)
  PROVE  IInv'
<1>1. m.what = "save" /\ muts' = muts \ {m} /\ UNCHANGED <<desk, db, count, cap>>
  BY DEF SaveFails
<1>2. \A o \in muts' : IsMutation(o)' /\ DoneOk(o, db, count.registered)
  BY <1>1, MutationsKept
<1>3. \A d \in Desks : Deleting(d, muts) => Deleting(d, muts')
  BY <1>1 DEF Deleting
<1> QED BY <1>1, <1>2, <1>3 DEF IInv, TypeOK
-----------------------------------------------------------------------------
(* The server.                                                             *)

\* The participants after a step of the server: those of before, changed or not,
\* and others that were not registered then.
Later(after, before, n) ==
  \A i \in DOMAIN after : \/ i \in DOMAIN before /\ before[i].rev <= after[i].rev
                          \/ i > n /\ after[i].rev = 0

LEMMA PageStays ==
  ASSUME NEW p \in Desk, NEW before, NEW after, NEW n \in Nat, NEW m \in Nat, n <= m,
         PageOk(p, before, n), Later(after, before, n), DOMAIN before \subseteq 1 .. n,
         \A i \in DOMAIN before : before[i].rev \in Nat,
         \A i \in DOMAIN after : after[i].rev \in Nat
  PROVE  PageOk(p, after, m)
<1>1. TellsTrue(p, before, n) /\ \A i \in Ids : p.saved[i] \in Nat /\ i \in Nat
  BY DeskFields DEF PageOk, Ids
<1>2. \A i \in Nat : i <= n /\ i \in DOMAIN after =>
        i \in DOMAIN before /\ before[i].rev <= after[i].rev
  BY DEF Later
<1>3. TellsTrue(p, after, m)
  <2>1. p.gone \subseteq 1 .. m
    BY <1>1 DEF TellsTrue
  <2>2. p.gone \intersect DOMAIN after = {}
    BY <1>1, <1>2 DEF TellsTrue
  <2>3. ASSUME NEW i \in Ids, i \in DOMAIN after
        PROVE  p.saved[i] <= after[i].rev
    <3>1. CASE i \in DOMAIN before /\ before[i].rev <= after[i].rev
      <4>1. p.saved[i] <= before[i].rev
        BY <1>1, <3>1 DEF TellsTrue
      <4> QED BY <1>1, <2>3, <3>1, <4>1
    <3>2. CASE i > n /\ after[i].rev = 0
      <4>1. i \notin DOMAIN before
        BY <1>1, <3>2
      <4>2. p.saved[i] = 0
        BY <1>1, <3>2, <4>1 DEF TellsTrue
      <4> QED BY <3>2, <4>2
    <3> QED BY <2>3, <3>1, <3>2 DEF Later
  <2>4. ASSUME NEW i \in Ids, i \notin DOMAIN after, i > m
        PROVE  p.saved[i] = 0
    <3>1. i > n /\ i \notin DOMAIN before
      BY <1>1, <2>4
    <3> QED BY <1>1, <3>1 DEF TellsTrue
  <2> QED BY <2>1, <2>2, <2>3, <2>4 DEF TellsTrue
<1> QED BY <1>3 DEF PageOk

\* A step of the server, or elsewhere.
LEMMA ServerStep ==
  ASSUME IInv, UNCHANGED <<desk, cap>>,
         count' \in [registered: 0 .. cap.people, changes: Nat,
                     sends: 0 .. cap.sends, turns: 0 .. cap.turns],
         count.changes <= count'.changes, count.registered <= count'.registered,
         DOMAIN db' \subseteq 1 .. count'.registered,
         \A i \in DOMAIN db' : db'[i] \in Person /\ db'[i].rev <= count'.changes,
         Later(db', db, count.registered),
         \A m \in muts' : m \in muts \/ (IsMutation(m)' /\ DoneOk(m, db', count'.registered)),
         \A d \in Desks : Deleting(d, muts) => Deleting(d, muts')
  PROVE  IInv'
<1>1. /\ count.registered \in Nat /\ count'.registered \in Nat
      /\ count.changes \in Nat /\ count'.changes \in Nat
  BY CapOk, Apart DEF IInv, TypeOK
<1>2. /\ DOMAIN db \subseteq 1 .. count.registered
      /\ \A i \in DOMAIN db : db[i].rev \in Nat
      /\ \A i \in DOMAIN db' : db'[i].rev \in Nat
  BY DEF IInv, TypeOK, Person
<1>3. ASSUME NEW d \in Desks
      PROVE  PageOk(desk[d], db', count'.registered)
  BY <1>1, <1>2, TheDesk, PageStays
<1>4. ASSUME NEW m \in muts
      PROVE  IsMutation(m)' /\ DoneOk(m, db', count'.registered)
  <2>1. IsMutation(m) /\ DoneOk(m, db, count.registered)
    BY DEF IInv, TypeOK
  <2>2. IsMutation(m)'
    BY <1>1, <2>1 DEF IsMutation
  <2>3. m.row \in Nat /\ m.rev \in Nat
    BY <1>1, <2>1 DEF IsMutation, Ids
  <2>4. DoneOk(m, db', count'.registered)
    <3>1. SUFFICES ASSUME m.at = "done"
                   PROVE  DoneOk(m, db', count'.registered)
      BY DEF DoneOk
    <3>2. m.row <= count.registered
      BY <2>1, <3>1 DEF DoneOk
    <3>3. m.row \in DOMAIN db' => m.row \in DOMAIN db /\ db[m.row].rev <= db'[m.row].rev
      BY <1>1, <2>3, <3>2 DEF Later
    <3>4. m.what = "delete" => m.row \notin DOMAIN db'
      BY <2>1, <3>1, <3>3 DEF DoneOk
    <3>5. m.what = "save" /\ m.row \in DOMAIN db' => m.rev <= db'[m.row].rev
      BY <1>2, <2>1, <2>3, <3>1, <3>3 DEF DoneOk
    <3> QED BY <1>1, <2>3, <3>2, <3>4, <3>5 DEF DoneOk
  <2> QED BY <2>2, <2>4
<1>5. TypeOK'
  BY <1>4 DEF IInv, TypeOK
<1>6. \A d \in Desks : Deleting(d, muts') \/ ListCalm(desk[d])
  BY DEF IInv
<1> QED BY <1>3, <1>4, <1>5, <1>6 DEF IInv

LEMMA DeleteServedOk ==
  ASSUME IInv, NEW m \in muts, DeleteServed(m)
  PROVE  IInv'
<1>1. /\ UNCHANGED <<desk, count, cap>> /\ m.what = "delete"
      /\ db' = [i \in DOMAIN db \ {m.row} |-> db[i]]
  BY DEF DeleteServed
<1>2. PICK at : at = IF m.row \in DOMAIN db THEN "done" ELSE "refused"
  OBVIOUS
<1>3. PICK o : o = [m EXCEPT !.at = at]
  OBVIOUS
<1>4. muts' = (muts \ {m}) \union {o}
  BY <1>2, <1>3 DEF DeleteServed
<1>5. IsMutation(m) /\ count.changes \in Nat /\ DOMAIN db \subseteq 1 .. count.registered
  BY DEF IInv, TypeOK
<1>6. o.desk = m.desk /\ o.what = m.what /\ o.row = m.row /\ o.rev = m.rev
  BY <1>3
<1>7. IsMutation(o)' /\ (o.at = "done" => m.row \in DOMAIN db)
  <2>1. m.at \in {"sent", "done", "refused"} /\ at \in {"done", "refused"} /\ m.at = "sent"
    BY <1>2, <1>5 DEF IsMutation, DeleteServed
  <2>2. o.at = at
    BY <1>3, <1>5 DEF IsMutation
  <2>3. /\ o.value = m.value /\ o.home = m.home /\ o.previous = m.previous
        /\ o.persons = m.persons
        /\ DOMAIN o = DOMAIN m
    BY <1>3
  <2> QED BY <1>1, <1>2, <1>5, <1>6, <2>1, <2>2, <2>3 DEF IsMutation
<1>8. DOMAIN db' = DOMAIN db \ {m.row} /\ \A i \in DOMAIN db' : db'[i] = db[i]
  BY <1>1
<1>9. DoneOk(o, db', count'.registered)
  BY <1>1, <1>5, <1>6, <1>7, <1>8 DEF DoneOk
<1>10. \A i \in DOMAIN db : db[i] \in Person /\ db[i].rev <= count.changes /\ db[i].rev \in Nat
  BY DEF IInv, TypeOK, Person
<1>11. Later(db', db, count.registered)
  BY <1>8, <1>10 DEF Later
<1>12. \A d \in Desks : Deleting(d, muts) => Deleting(d, muts')
  BY <1>4, <1>6 DEF Deleting
<1>13. /\ count' \in [registered: 0 .. cap.people, changes: Nat,
                      sends: 0 .. cap.sends, turns: 0 .. cap.turns]
       /\ count'.registered = count.registered /\ count'.changes = count.changes
       /\ count.registered \in Nat
  BY <1>1, CapOk, Apart DEF IInv, TypeOK
<1>14. \A x \in muts' : x \in muts \/ (IsMutation(x)' /\ DoneOk(x, db', count'.registered))
  BY <1>4, <1>7, <1>9
<1>15. /\ DOMAIN db' \subseteq 1 .. count'.registered
       /\ \A i \in DOMAIN db' : db'[i] \in Person /\ db'[i].rev <= count'.changes
  BY <1>5, <1>8, <1>10, <1>13
<1>16. count.changes <= count'.changes /\ count.registered <= count'.registered
  BY <1>5, <1>13
<1> QED BY <1>1, <1>11, <1>12, <1>13, <1>14, <1>15, <1>16, ServerStep

LEMMA SaveServedOk ==
  ASSUME IInv, NEW m \in muts, SaveServed(m)
  PROVE  IInv'
<1>0. /\ IsMutation(m) /\ count.changes \in Nat /\ count.registered \in Nat
      /\ DOMAIN db \subseteq 1 .. count.registered
      /\ count \in [registered: 0 .. cap.people, changes: Nat,
                    sends: 0 .. cap.sends, turns: 0 .. cap.turns]
      /\ \A i \in DOMAIN db : db[i] \in Person /\ db[i].rev <= count.changes /\ db[i].rev \in Nat
  BY CapOk, Apart DEF IInv, TypeOK, Person
<1>1. m.what = "save" /\ m.at = "sent" /\ UNCHANGED <<desk, cap>>
  BY DEF SaveServed
<1>2. CASE m.row \in DOMAIN db
  <2>1. PICK n : n = count.changes + 1
    OBVIOUS
  <2>2. PICK o : o = [m EXCEPT !.at = "done", !.rev = n]
    OBVIOUS
  <2>3. PICK v : v = [is |-> m.value, rev |-> n]
    OBVIOUS
  <2>4. /\ count' = [count EXCEPT !.changes = n] /\ db' = [db EXCEPT ![m.row] = v]
        /\ muts' = (muts \ {m}) \union {o}
    BY <1>2, <2>1, <2>2, <2>3 DEF SaveServed
  <2>5. /\ count' \in [registered: 0 .. cap.people, changes: Nat,
                       sends: 0 .. cap.sends, turns: 0 .. cap.turns]
        /\ count'.registered = count.registered /\ count'.changes = n /\ n \in Nat
    BY <1>0, <2>1, <2>4
  <2>6. v \in Person /\ v.rev = n
    BY <1>0, <1>1, <2>3, <2>5 DEF IsMutation, Person
  <2>7. DOMAIN db' = DOMAIN db /\ \A i \in DOMAIN db : db'[i] = IF i = m.row THEN v ELSE db[i]
    BY <2>4
  <2>8. Later(db', db, count.registered)
    BY <1>0, <2>1, <2>6, <2>7 DEF Later
  <2>9. /\ o.desk = m.desk /\ o.what = m.what /\ o.row = m.row /\ o.rev = n /\ o.at = "done"
        /\ o.value = m.value /\ o.home = m.home /\ o.previous = m.previous
        /\ o.persons = m.persons
        /\ DOMAIN o = DOMAIN m
    BY <2>2, <1>1 DEF IsMutation, SaveServed
  <2>10. IsMutation(o)'
    BY <1>0, <1>1, <2>5, <2>9 DEF IsMutation
  <2>11. DoneOk(o, db', count'.registered)
    BY <1>0, <1>1, <1>2, <2>5, <2>6, <2>7, <2>9 DEF DoneOk
  <2>12. \A d \in Desks : Deleting(d, muts) => Deleting(d, muts')
    BY <1>1, <2>4 DEF Deleting
  <2>13. \A x \in muts' : x \in muts \/ (IsMutation(x)' /\ DoneOk(x, db', count'.registered))
    BY <2>4, <2>10, <2>11
  <2>14. /\ DOMAIN db' \subseteq 1 .. count'.registered
         /\ \A i \in DOMAIN db' : db'[i] \in Person /\ db'[i].rev <= count'.changes
    BY <1>0, <2>1, <2>5, <2>6, <2>7
  <2>15. count.changes <= count'.changes /\ count.registered <= count'.registered
    BY <1>0, <2>1, <2>5
  <2> QED BY <1>1, <2>5, <2>8, <2>12, <2>13, <2>14, <2>15, ServerStep
<1>3. CASE m.row \notin DOMAIN db
  <2>1. PICK o : o = [m EXCEPT !.at = "refused"]
    OBVIOUS
  <2>2. muts' = (muts \ {m}) \union {o} /\ UNCHANGED <<db, count>>
    BY <1>3, <2>1 DEF SaveServed
  <2>3. /\ o.desk = m.desk /\ o.what = m.what /\ o.row = m.row /\ o.rev = m.rev
        /\ o.value = m.value /\ o.home = m.home /\ o.previous = m.previous
        /\ o.persons = m.persons
        /\ DOMAIN o = DOMAIN m /\ o.at = "refused"
    BY <2>1, <1>1 DEF SaveServed
  <2>4. IsMutation(o)' /\ DoneOk(o, db', count'.registered)
    BY <1>0, <2>2, <2>3 DEF IsMutation, DoneOk
  <2>5. Later(db', db, count.registered)
    BY <1>0, <2>2 DEF Later
  <2>6. \A d \in Desks : Deleting(d, muts) => Deleting(d, muts')
    BY <1>1, <2>2 DEF Deleting
  <2>7. \A x \in muts' : x \in muts \/ (IsMutation(x)' /\ DoneOk(x, db', count'.registered))
    BY <2>2, <2>4
  <2>8. count.changes <= count'.changes /\ count.registered <= count'.registered
    BY <1>0, <2>2
  <2> QED BY <1>0, <1>1, <2>2, <2>5, <2>6, <2>7, <2>8, ServerStep
<1> QED BY <1>2, <1>3

LEMMA RegisteredOk ==
  ASSUME IInv, NEW v \in Values, Registered(v)
  PROVE  IInv'
<1>0. /\ count.changes \in Nat /\ count.registered \in Nat /\ cap.people \in Nat
      /\ DOMAIN db \subseteq 1 .. count.registered
      /\ count \in [registered: 0 .. cap.people, changes: Nat,
                    sends: 0 .. cap.sends, turns: 0 .. cap.turns]
      /\ \A i \in DOMAIN db : db[i] \in Person /\ db[i].rev <= count.changes /\ db[i].rev \in Nat
  BY CapOk, Apart DEF IInv, TypeOK, Person
<1>1. /\ UNCHANGED <<desk, muts, cap>> /\ count.registered < cap.people
      /\ count' = [count EXCEPT !.registered = count.registered + 1]
  BY DEF Registered
<1>2. /\ count' \in [registered: 0 .. cap.people, changes: Nat,
                     sends: 0 .. cap.sends, turns: 0 .. cap.turns]
      /\ count'.registered = count.registered + 1 /\ count'.changes = count.changes
  BY <1>0, <1>1
<1>3. PICK new : new = count'.registered
  OBVIOUS
<1>4. db' = [i \in DOMAIN db \union {new} |->
               IF i \in DOMAIN db THEN db[i] ELSE [is |-> v, rev |-> 0]]
  BY <1>3 DEF Registered
<1>5. /\ DOMAIN db' = DOMAIN db \union {new} /\ \A i \in DOMAIN db : db'[i] = db[i]
      /\ new \notin DOMAIN db => db'[new] = [is |-> v, rev |-> 0]
  BY <1>4
<1>6. new \notin DOMAIN db /\ new = count.registered + 1
  BY <1>0, <1>2, <1>3
<1>7. db'[new] \in Person /\ db'[new].rev = 0
  BY <1>5, <1>6 DEF Person
<1>8. Later(db', db, count.registered)
  BY <1>0, <1>5, <1>6, <1>7 DEF Later
<1>9. DOMAIN db' \subseteq 1 .. count'.registered
  BY <1>0, <1>2, <1>5, <1>6
<1>10. \A i \in DOMAIN db' : db'[i] \in Person /\ db'[i].rev <= count'.changes
  BY <1>0, <1>2, <1>5, <1>7
<1>11. count.changes <= count'.changes /\ count.registered <= count'.registered
  BY <1>0, <1>2
<1> QED BY <1>1, <1>2, <1>8, <1>9, <1>10, <1>11, ServerStep
-----------------------------------------------------------------------------
(* The invariant, and what it gives.                                       *)

LEMMA InitIInv == Init => IInv
<1> SUFFICES ASSUME Init PROVE IInv
  OBVIOUS
<1> USE DEF Init
<1>1. /\ cap \in Bounds /\ muts = {} /\ cap.there \in 0 .. cap.people /\ cap.there \in Nat
      /\ count = [registered |-> cap.there, changes |-> 0, sends |-> 0, turns |-> 0]
      /\ cap.sends \in Nat /\ cap.turns \in Nat
  BY CapOk, Apart
<1>2. PICK v \in [1 .. cap.there -> Values] :
        db = [i \in 1 .. cap.there |-> [is |-> v[i], rev |-> 0]]
  OBVIOUS
<1>3. DOMAIN db = 1 .. cap.there /\ \A i \in DOMAIN db : db[i] \in Person /\ db[i].rev = 0
  <2>1. \A i \in 1 .. cap.there : v[i] \in Values /\ db[i] = [is |-> v[i], rev |-> 0]
    BY <1>2
  <2>2. DOMAIN db = 1 .. cap.there
    BY <1>2
  <2> QED BY <2>1, <2>2 DEF Person
<1>4. Unread \in Query(List) /\ Unread \in Query(Person) /\ Unread.fetch = "idle"
      /\ Unread.data = Nothing /\ Unread.answer = Nothing
  BY DEF Unread, Query, Maybe, Fetch
<1>5. PICK first : first = <<Values, 0>>
  OBVIOUS
<1>6. first \in Keys
  BY <1>5, Apart, PagesOk DEF Keys
<1>7. /\ Blank \in Desk /\ PageWhole(Blank) /\ Blank.screen = "list" /\ Key(Blank) = first
      /\ Blank.lists = [k \in Keys |-> Unread] /\ Blank.people = [i \in Ids |-> Unread]
      /\ Blank.gone = {} /\ Blank.saved = [i \in Ids |-> 0]
  <2>1. [k \in Keys |-> Unread] \in [Keys -> Query(List)]
        /\ [i \in Ids |-> Unread] \in [Ids -> Query(Person)] /\ [i \in Ids |-> 0] \in [Ids -> Nat]
    BY <1>4
  <2>2. Blank \in Desk
    BY <2>1, Apart, PagesOk DEF Blank, Desk, Maybe
  <2> QED BY <1>5, <2>2 DEF Blank, PageWhole, Key
<1>8. PageOk(Blank, db, count.registered) /\ ListCalm(Blank)
  <2>1. TellsTrue(Blank, db, count.registered)
    BY <1>3, <1>7 DEF TellsTrue
  <2>2. PersonCalm(Blank)
    BY <1>7 DEF PersonCalm
  <2>3. \A k \in Keys : ListOk(Blank.lists[k], Blank)
    BY <1>4, <1>7 DEF ListOk
  <2>4. \A i \in Ids : PersonOk(Blank.people[i], i, Blank)
    BY <1>4, <1>7 DEF PersonOk
  <2>5. ListCalm(Blank)
    BY <1>4, <1>6, <1>7 DEF ListCalm
  <2> QED BY <1>7, <2>1, <2>2, <2>3, <2>4, <2>5 DEF PageOk
<1>9. PICK l : l = Asked(Unread)
  OBVIOUS
<1>10. l \in Query(List) /\ l.fetch # "idle" /\ ListOk(l, Blank)
  BY <1>4, <1>9 DEF Asked, Refetched, Unread, Query, Maybe, Fetch, ListOk
<1>11. PICK q : q = [Blank EXCEPT !.lists = [Blank.lists EXCEPT ![first] = l]]
  OBVIOUS
<1>12. q \in Desk /\ PageOk(q, db, count.registered) /\ ListCalm(q)
  BY <1>6, <1>7, <1>8, <1>10, <1>11, OneList
<1>13. desk = [d \in Desks |-> IF d \in cap.desks THEN q ELSE Blank]
  <2>1. Blank.lists[first] = Unread
    BY <1>6, <1>7
  <2> QED BY <1>5, <1>9, <1>11, <2>1
<1>14. /\ desk \in [Desks -> Desk]
       /\ \A d \in Desks : PageOk(desk[d], db, count.registered) /\ ListCalm(desk[d])
  BY <1>7, <1>8, <1>12, <1>13
<1>15. count \in [registered: 0 .. cap.people, changes: Nat,
                  sends: 0 .. cap.sends, turns: 0 .. cap.turns]
  BY <1>1
<1>16. TypeOK
  <2>1. count.registered = cap.there /\ count.changes = 0
    BY <1>1
  <2>2. /\ DOMAIN db \subseteq 1 .. count.registered
        /\ \A i \in DOMAIN db : db[i] \in Person /\ db[i].rev <= count.changes
    <3> DEFINE changes == count.changes
    <3>1. \A i \in DOMAIN db : db[i].rev <= changes
      <4>1. changes = 0
        BY <2>1
      <4> HIDE DEF changes
      <4> QED BY <1>3, <4>1
    <3> QED BY <1>3, <2>1, <3>1
  <2>3. desk \in [Desks -> Desk]
    BY <1>14
  <2> QED BY <1>1, <1>15, <2>2, <2>3 DEF TypeOK
<1> QED BY <1>1, <1>14, <1>16 DEF IInv

LEMMA NextIInv == IInv /\ [Next]_vars => IInv'
<1> SUFFICES ASSUME IInv, [Next]_vars PROVE IInv'
  OBVIOUS
<1>1. ASSUME NEW d \in cap.desks,
             NEW k \in Keys,
             ListServed(d, k) \/ ListArrives(d, k) \/ ListFails(d, k) \/ Expires(d, k)
      PROVE  IInv'
  BY <1>1, ListServedOk, ListArrivesOk, ListFailsOk, ExpiresOk
<1>2. ASSUME NEW d \in cap.desks, NEW s \in Searches, Search(d, s)
      PROVE  IInv'
  BY <1>2, SearchOk
<1>3. ASSUME NEW d \in cap.desks, NEW step \in {-1, 1}, TurnPage(d, step)
      PROVE  IInv'
  BY <1>3, TurnPageOk
<1>4. ASSUME NEW d \in cap.desks, NEW i \in Ids,
             \/ Delete(d, i) \/ OpenDetail(d, i) \/ DetailServed(d, i) \/ DetailArrives(d, i)
             \/ DetailFails(d, i) \/ PersonExpires(d, i)
      PROVE  IInv'
  BY <1>4, DeleteOk, OpenDetailOk, DetailServedOk, DetailArrivesOk, DetailFailsOk,
     PersonExpiresOk
<1>5. ASSUME NEW d \in cap.desks,
             \/ Back(d) \/ Refocus(d) \/ Edit(d) \/ CloseEdit(d) \/ Save(d)
             \/ \E v \in Values : Type(d, v)
      PROVE  IInv'
  BY <1>5, BackOk, RefocusOk, FormStepsOk, SaveOk
<1>6. ASSUME NEW m \in muts,
             \/ DeleteServed(m) \/ DeleteHeard(m) \/ DeleteFails(m)
             \/ SaveServed(m) \/ SaveHeard(m) \/ SaveFails(m)
      PROVE  IInv'
  BY <1>6, DeleteServedOk, DeleteHeardOk, DeleteFailsOk, SaveServedOk, SaveHeardOk, SaveFailsOk
<1>7. ASSUME NEW v \in Values, Registered(v)
      PROVE  IInv'
  BY <1>7, RegisteredOk
<1>8. ASSUME UNCHANGED vars
      PROVE  IInv'
  BY <1>8 DEF vars, IInv, TypeOK, IsMutation
<1> QED BY <1>1, <1>2, <1>3, <1>4, <1>5, <1>6, <1>7, <1>8 DEF Next

\* The invariant of the participants' pages, for any number of desks, participants,
\* searches and mutations: no answer that counts as new, and no list or page at
\* rest, is from before what its desk has been told.
THEOREM ParticipantDeskInvariance == Spec => []IInv
BY InitIInv, NextIInv, PTL DEF Spec

\* The pages, their queries, the mutations and the participants keep their types.
THEOREM ParticipantDeskTypeCorrect == Spec => []TypeOK
<1>1. IInv => TypeOK
  BY DEF IInv
<1> QED BY <1>1, ParticipantDeskInvariance, PTL

\* A participant a desk was told is deleted does not come back on its lists
\* (useRegistrations: cancelQueries, the optimistic removal, its rollback, onSettled).
THEOREM DeletedStayGone == Spec => []DeletedGone
<1>1. IInv => DeletedGone
  <2> SUFFICES ASSUME IInv, NEW d \in cap.desks, ListSettled(d), NEW r \in Rows(desk[d])
               PROVE  r.id \notin desk[d].gone
    BY DEF DeletedGone
  <2>1. d \in Desks /\ ~Deleting(d, muts)
    BY CapOk DEF IInv, TypeOK, ListSettled, Deleting
  <2>2. ListCalm(desk[d])
    BY <2>1, TheDesk
  <2> QED BY <2>2 DEF ListSettled, ListCalm, Rows, RowsShown, Shown, Fine
<1> QED BY <1>1, ParticipantDeskInvariance, PTL

\* What a desk has saved is what its lists and its page of the participant show, or
\* something later, unless reading the participant again has failed, which its page
\* does not show (useUpdateRegistration: both are read again on success; onError of
\* useDeleteRegistration puts back both).
THEOREM SavesAreShown == Spec => []SavedShown
<1>1. IInv => SavedShown
  <2> SUFFICES ASSUME IInv, NEW d \in cap.desks
               PROVE  /\ ListSettled(d) => \A r \in Rows(desk[d]) : r.rev >= desk[d].saved[r.id]
                      /\ Opened(desk[d]) # Nothing =>
                           LET i == desk[d].row
                               q == desk[d].people[i]
                           IN q.fetch = "idle" /\ ~q.old /\ ~q.failed
                                => q.data.rev >= desk[d].saved[i]
    BY DEF SavedShown
  <2>1. d \in Desks
    BY CapOk DEF IInv, TypeOK
  <2>2. ASSUME ListSettled(d), NEW r \in Rows(desk[d])
        PROVE  r.rev >= desk[d].saved[r.id]
    <3>1. ~Deleting(d, muts)
      BY <2>2 DEF ListSettled, Deleting
    <3>2. ListCalm(desk[d])
      BY <2>1, <3>1, TheDesk
    <3> QED BY <2>2, <3>2 DEF ListSettled, ListCalm, Rows, RowsShown, Shown, Fine
  <2>3. PersonCalm(desk[d])
    BY <2>1, TheDesk DEF PageOk
  <2> QED BY <2>2, <2>3 DEF PersonCalm, Opened
<1> QED BY <1>1, ParticipantDeskInvariance, PTL
=============================================================================
