----------------------------- MODULE ReviewDesk -----------------------------
(***************************************************************************)
(* What the review screens of the three surveys have in common: a queue of *)
(* groups, the submissions of one group, one submission, and the queries   *)
(* and mutations of TanStack Query that feed them.  A desk is one browser; *)
(* several work on the same submissions.                                   *)
(***************************************************************************)
EXTENDS ReviewFsm, QueryCache, Naturals, FiniteSets

CONSTANTS
  Desks,
  GroupOf,         \* the group of each submission: its organisation, or sport
  EventOf,         \* its event
  Bounds           \* bounds to choose from

Subs   == DOMAIN GroupOf
Groups == {GroupOf[s] : s \in Subs}
Events == {EventOf[s] : s \in Subs}
Kinds  == {"sport", "number", "category"}

\* The survey under review, the desks in use and whose they are, whether the
\* lists come from a replica that lags, the submissions that come meanwhile, those
\* others change, those there are at first, the mutations under way, and those sent.
Bound == [kind: Kinds, admins: SUBSET Desks, owners: [Desks -> Maybe(Groups)],
          lag: BOOLEAN, comes: SUBSET Subs, moves: SUBSET Subs, there: SUBSET Subs,
          muts: Nat, sends: Nat]

Rows  == [Subs -> Maybe(Status)]              \* as a list has them

\* What a browser has on screen, and its two queries; decided: what it has been
\* told is decided, and that was not submitted again since.
Page == [screen: {"list", "group", "detail"}, via: {"list", "group"}, group: Maybe(Groups),
         held: Maybe(Rows), row: Maybe(Subs), own: Maybe(Status), reviewed: Maybe(Status),
         dialog: {"none", "reject", "flag"}, list: Query(Rows),
         detail: Query(Status), decided: SUBSET Subs]

\* A mutation: what is asked for, from which screen, and what became of it: the
\* submissions it touched, and of those the ones not submitted again since (told).
Sending == [nr: Nat, desk: Desks, what: {"one", "bulk"}, row: Maybe(Subs), group: Maybe(Groups),
            event: Maybe(Events), action: Maybe(Actions), note: BOOLEAN, home: BOOLEAN,
            at: {"sent", "done", "refused"}, seen: SUBSET Events, touched: SUBSET Subs,
            told: SUBSET Subs, result: Maybe(Status)]

ASSUME DeskAssumption ==
  /\ EventOf \in [Subs -> Events]
  /\ Bounds \subseteq {b \in Bound : b.lag => b.kind = "sport"}
  /\ Nothing \notin Groups \union Events \union Status \union {"GONE"} \union Subs \union Rows

VARIABLES
  desk,     \* desk[d]: the page and the queries of desk d
  muts,     \* mutations under way
  sent,     \* the number of mutations sent
  db,       \* the status of each submission
  replica,  \* and what the replica has of it
  cap       \* the bounds of this behaviour

vars == <<desk, muts, sent, db, replica, cap>>

TypeOK ==
  /\ desk \in [Desks -> Page]
  /\ muts \subseteq Sending
  /\ {db, replica} \subseteq [Subs -> Status \union {Nothing, "GONE"}]
  /\ cap \in Bounds /\ sent \in 0 .. cap.sends

-----------------------------------------------------------------------------
\* The list

\* The list is on screen, on its own or behind a group.
Listed(d) == desk[d].screen \in {"list", "group"}

\* Fault: what is gone is listed.
ShowsGone(d, rows) ==
  [s \in Subs |-> IF d \notin cap.admins /\ GroupOf[s] # cap.owners[d] THEN Nothing ELSE rows[s]]

\* The submissions a list has for a desk: an organisation sees its own.
Visible(d, rows) ==
  [s \in Subs |-> IF rows[s] = "GONE" \/ (d \notin cap.admins /\ GroupOf[s] # cap.owners[d])
                  THEN Nothing ELSE rows[s]]

\* list endpoints: that of survey 2 reads the replica.
ListServed(d) ==
  /\ desk[d].list.fetch = "asked"
  /\ desk' = [desk EXCEPT ![d].list.fetch = "answered",
                ![d].list.answer = Visible(d, IF cap.lag THEN replica ELSE db)]
  /\ UNCHANGED <<muts, sent, db, replica, cap>>

ListArrives(d) ==
  /\ desk[d].list.fetch = "answered"
  /\ desk' = [desk EXCEPT ![d].list = Received(@, Listed(d))]
  /\ UNCHANGED <<muts, sent, db, replica, cap>>

ListFails(d) ==
  /\ desk[d].list.fetch # "idle"
  /\ desk' = [desk EXCEPT ![d].list = Failed(@, Listed(d))]
  /\ UNCHANGED <<muts, sent, db, replica, cap>>

\* Another window had the focus: what is on screen is read again.
Refocus(d) ==
  /\ desk' = [desk EXCEPT ![d] =
       IF Listed(d) THEN [desk[d] EXCEPT !.list = Asked(@)]
       ELSE IF cap.kind = "category" THEN [desk[d] EXCEPT !.detail = Asked(@)] ELSE desk[d]]
  /\ desk' # desk
  /\ UNCHANGED <<muts, sent, db, replica, cap>>

-----------------------------------------------------------------------------
\* The page

Restricted(rows, S) == [s \in Subs |-> IF s \in S THEN rows[s] ELSE Nothing]
Present(rows) == {s \in Subs : rows[s] # Nothing}
OfGroup(g) == {s \in Subs : GroupOf[s] = g}

\* The group on screen: from the list if it has any of it, else as it was when
\* the group was opened.
Group(d) ==
  LET live == IF desk[d].list.data = Nothing THEN {}
              ELSE Present(desk[d].list.data) \intersect OfGroup(desk[d].group)
  IN IF live # {} THEN Restricted(desk[d].list.data, live) ELSE desk[d].held

\* Buttons of a component are disabled while a mutation it has sent is pending.
Busy(d) == \E m \in muts : m.desk = d /\ m.home

\* Mutations go on when the component that sent them is gone.
Orphaned(d) == {IF m.desk = d THEN [m EXCEPT !.home = FALSE] ELSE m : m \in muts}

\* The rows of the list are on screen: there are some, and no error in their place.
RowsShown(d) ==
  desk[d].screen = "list" /\ desk[d].list.data # Nothing /\ ~desk[d].list.failed

\* A group is opened, as the filtered list shows it; its component observes
\* the list as well, and has no eye for an error.
OpenGroup(d, g, statuses) ==
  /\ RowsShown(d)
  /\ LET shown == {s \in OfGroup(g) : desk[d].list.data[s] \in statuses}
     IN /\ shown # {}
        /\ desk' = [desk EXCEPT ![d] =
             [desk[d] EXCEPT !.screen = "group", !.group = g, !.list = Asked(@),
                             !.held = Restricted(desk[d].list.data, shown)]]
  /\ muts' = Orphaned(d)
  /\ UNCHANGED <<sent, db, replica, cap>>

\* A submission is opened, as it is shown; nothing observes the list any more.
OpenRow(d, s, rows, detail) ==
  /\ desk[d].dialog = "none" /\ rows[s] # Nothing
  /\ desk' = [desk EXCEPT ![d] =
       [desk[d] EXCEPT !.via = desk[d].screen, !.screen = "detail", !.row = s,
                       !.own = rows[s], !.list = Unobserved(@), !.detail = detail]]
  /\ muts' = Orphaned(d)
  /\ UNCHANGED <<sent, db, replica, cap>>

\* Back to where the submission or the group was opened from.
Back(d) ==
  /\ desk[d].screen # "list" /\ desk[d].dialog = "none"
  /\ desk' = [desk EXCEPT ![d] =
       IF desk[d].screen = "detail"
       THEN [desk[d] EXCEPT !.screen = desk[d].via, !.row = Nothing, !.own = Nothing,
                            !.reviewed = Nothing, !.detail = Unread, !.list = Asked(@)]
       ELSE [desk[d] EXCEPT !.screen = "list", !.group = Nothing, !.held = Nothing,
                            !.list = Asked(@)]]
  /\ muts' = Orphaned(d)
  /\ UNCHANGED <<sent, db, replica, cap>>

\* SubmissionReviewModal: rejecting and flagging ask for a reason, and the
\* button is disabled without one.
AskReason(d, action) ==
  /\ ~Busy(d) /\ desk[d].dialog = "none"
  /\ desk' = [desk EXCEPT ![d].dialog = action]
  /\ UNCHANGED <<muts, sent, db, replica, cap>>

CloseDialog(d) ==
  /\ desk[d].dialog # "none"
  /\ desk' = [desk EXCEPT ![d].dialog = "none"]
  /\ UNCHANGED <<muts, sent, db, replica, cap>>

-----------------------------------------------------------------------------
\* Mutations

\* Only approvals come without a note.
Mutation(d, what, row, group, action) ==
  [nr |-> sent, desk |-> d, what |-> what, row |-> row, group |-> group, event |-> Nothing,
   action |-> action, note |-> action # "approve", home |-> TRUE, at |-> "sent",
   seen |-> {}, touched |-> {}, told |-> {}, result |-> Nothing]

Mutate(m) ==
  /\ ~Busy(m.desk) /\ Cardinality(muts) < cap.muts /\ sent < cap.sends
  /\ muts' = muts \union {m} /\ sent' = sent + 1
  /\ UNCHANGED <<desk, db, replica, cap>>

\* "approve", or the reason of the dialog confirmed.
Decided(d, action) ==
  IF action = "approve" THEN desk[d].dialog = "none" ELSE desk[d].dialog = action
ReviewRow(d, action) ==
  /\ Decided(d, action)
  /\ Mutate(Mutation(d, "one", desk[d].row, Nothing, action))
ReviewGroup(d, action, scope) ==
  /\ Decided(d, action)
  /\ LET shown == {EventOf[s] : s \in Present(Group(d))}
     IN Mutate([Mutation(d, "bulk", Nothing, desk[d].group, action)
                  EXCEPT !.event = scope, !.seen = shown])

\* The server has served m: what it has touched, and the status it gave.
Served(m, rows, status) ==
  /\ db' = [s \in Subs |-> IF s \in rows THEN status ELSE db[s]]
  /\ muts' = (muts \ {m}) \union
       {[m EXCEPT !.at = "done", !.touched = rows, !.told = rows, !.result = status]}
  /\ UNCHANGED <<desk, sent, replica, cap>>
Refused(m) ==
  /\ muts' = (muts \ {m}) \union {[m EXCEPT !.at = "refused"]}
  /\ UNCHANGED <<desk, sent, db, replica, cap>>

There(s) == db[s] \in Status

\* A request or its answer is lost, or it was refused: an error is shown and
\* the dialog stays.
Fails(m) ==
  /\ m \in muts /\ m.at \in {"sent", "done", "refused"}
  /\ muts' = muts \ {m}
  /\ UNCHANGED <<desk, sent, db, replica, cap>>

\* onSuccess: that of the hook always, that of the call if its component is
\* still there; it shows what the server has answered.
Heard(m, shown) ==
  /\ m \in muts /\ m.at = "done"
  /\ muts' = muts \ {m}
  /\ desk' = [desk EXCEPT ![m.desk] =
       LET d == IF m.home THEN [shown EXCEPT !.dialog = "none"] ELSE desk[m.desk]
       IN [d EXCEPT !.list = Invalidated(@, Listed(m.desk)),
                    !.detail = IF cap.kind = "category" /\ d.screen = "detail"
                               THEN Invalidated(@, TRUE) ELSE @,
                    !.decided = @ \union m.told]]
  /\ UNCHANGED <<sent, db, replica, cap>>

-----------------------------------------------------------------------------
\* Elsewhere

\* A new submission; one that is withdrawn; one an API client sends back, and
\* one it submits again.
NewSubmission(s) ==
  /\ s \in cap.comes /\ db[s] = Nothing
  /\ db' = [db EXCEPT ![s] = "SUBMITTED"]
  /\ UNCHANGED <<desk, muts, sent, replica, cap>>
Withdrawn(s) ==
  /\ s \in cap.moves /\ There(s)
  /\ db' = [db EXCEPT ![s] = "GONE"]
  /\ UNCHANGED <<desk, muts, sent, replica, cap>>
SentBack(s) ==
  /\ s \in cap.moves /\ cap.kind # "sport" /\ Accepted("request_revision", db[s], TRUE)
  /\ db' = [db EXCEPT ![s] = "REVISION_REQUESTED"]
  /\ UNCHANGED <<desk, muts, sent, replica, cap>>
Resubmitted(s) ==
  /\ s \in cap.moves /\ cap.kind # "sport" /\ Accepted("submit", db[s], FALSE)
  /\ db' = [db EXCEPT ![s] = "SUBMITTED"]
  /\ desk' = [d \in Desks |-> [desk[d] EXCEPT !.decided = @ \ {s}]]
  /\ muts' = {[m EXCEPT !.told = @ \ {s}] : m \in muts}
  /\ UNCHANGED <<sent, replica, cap>>

\* The replica catches up.
Replicate ==
  /\ cap.lag /\ replica # db
  /\ replica' = db
  /\ UNCHANGED <<desk, muts, sent, db, cap>>

Blank == [screen |-> "list", via |-> "list", group |-> Nothing, held |-> Nothing,
          row |-> Nothing, own |-> Nothing, reviewed |-> Nothing, dialog |-> "none",
          list |-> Unread, detail |-> Unread, decided |-> {}]

\* The desks in use have their list open.
InUse == cap.admins \union {d \in Desks : cap.owners[d] # Nothing}

Init ==
  /\ cap \in Bounds
  /\ desk = [d \in Desks |-> IF d \in InUse THEN [Blank EXCEPT !.list = Asked(@)] ELSE Blank]
  /\ muts = {} /\ sent = 0
  /\ db = [s \in Subs |-> IF s \in cap.there THEN "SUBMITTED" ELSE Nothing]
  /\ replica = db
=============================================================================
