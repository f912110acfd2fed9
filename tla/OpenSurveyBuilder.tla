------------------------- MODULE OpenSurveyBuilder --------------------------
(***************************************************************************)
(* The field builder of the open survey, at an administrator's browser:    *)
(* the list of an event's fields, with the inactive ones or without; the   *)
(* dialog in which a field is made or edited; deactivation; and moves,     *)
(* each of which is a PATCH for every field whose sort_order changes.      *)
(***************************************************************************)
EXTENDS OpenSurveyDb

CONSTANTS
  MaxEdits,   \* bound: saves, deactivations and moves
  Forms       \* bound: what is entered in the dialog

ASSUME BuilderAssumption ==
  MaxEdits \in Nat /\ Forms \subseteq [type: Types, options: SUBSET Options, required: BOOLEAN]

VARIABLES
  desk,      \* the builder
  requests,  \* its requests under way
  wish       \* history: the last move, as the order it asks for

Def == [id: Ids, type: Types, options: SUBSET Options, required: BOOLEAN,
        order: Orders, active: BOOLEAN]

NoRead     == [at |-> "idle", list |-> <<>>]
NewDesk(e) == [event |-> e, all |-> FALSE, data |-> [a \in BOOLEAN |-> Nothing],
               fetch |-> [a \in BOOLEAN |-> [NoRead EXCEPT !.at = IF a THEN "idle" ELSE "asked"]],
               dialog |-> Nothing, moving |-> "no", on |-> FALSE, edits |-> 0]

Kinds == {"create", "update", "deactivate", "order"}

Lists == Seq(Def)
Desk  == [event: Events, all: BOOLEAN, data: [BOOLEAN -> Maybe(Lists)],
          fetch: [BOOLEAN -> [at: {"idle", "asked", "served"}, list: Lists]],
          dialog: Maybe([id: Ids \union {0}, form: Columns]),
          moving: {"no", "patches", "refetch"}, on: BOOLEAN, edits: 0 .. MaxEdits]

\* Some columns of a field
TypeOf == [type |-> Types, options |-> SUBSET Options, required |-> BOOLEAN, order |-> Orders, active |-> BOOLEAN]
Part(c) == DOMAIN c \subseteq DOMAIN TypeOf /\ \A k \in DOMAIN c : c[k] \in TypeOf[k]

RequestOk(r) ==
  /\ DOMAIN r = {"no", "kind", "id", "set", "diff", "at", "on", "heard"}
  /\ r.no \in 1 .. MaxEdits /\ r.kind \in Kinds /\ r.id \in Ids \union {0}
  /\ r.at \in {"sent", "loaded", "done", "failed", "refetch"}
  /\ r.on \in BOOLEAN /\ r.heard \in BOOLEAN
  /\ IF r.kind = "create" THEN r.set \in Columns /\ r.diff = <<>> ELSE Part(r.set) /\ Part(r.diff)

BuilderTypeOK ==
  /\ desk \in Desk
  /\ \A r \in requests : RequestOk(r)
  /\ wish = Nothing \/ wish \in [ids: Seq(Ids), all: BOOLEAN]

-----------------------------------------------------------------------------
(* The list.                                                               *)

List(a) == LET ids == ListFields(desk.event, a)
           IN [i \in DOMAIN ids |->
                 LET c == field[ids[i]]
                 IN [id |-> ids[i], type |-> c.type, options |-> c.options, required |-> c.required,
                     order |-> c.order, active |-> c.active]]

\* What the list shows, and what is taken for it while it loads.
Shown  == desk.data[desk.all]
Listed == IF Shown = Nothing THEN <<>> ELSE Shown

\* A query that is observed anew is fetched, unless it is being fetched.
ShowInactive ==
  /\ desk' = [desk EXCEPT !.all = ~@,
                          !.fetch[~desk.all].at = IF @ = "idle" THEN "asked" ELSE @]
  /\ UNCHANGED <<db, requests, wish>>

\* The list on the screen is read again, in place of a read under way; the
\* other only the next time it is shown.
Refetched(d) ==
  IF d.data[d.all] = Nothing THEN d
  ELSE [d EXCEPT !.fetch[d.all] = [at |-> "asked", list |-> <<>>]]

ListServed(a) ==
  /\ desk.fetch[a].at = "asked"
  /\ desk' = [desk EXCEPT !.fetch[a] = [at |-> "served", list |-> List(a)]]
  /\ UNCHANGED <<db, requests, wish>>

\* What waits for the list is over: a save closes its dialog, a move lets go
\* of the buttons.
Awaited(a) == {r \in requests : r.at = "refetch" /\ r.on = a}
ListArrives(a) ==
  /\ desk.fetch[a].at = "served"
  /\ desk' = [desk EXCEPT !.fetch[a] = NoRead, !.data[a] = desk.fetch[a].list,
       !.moving = IF @ = "refetch" /\ desk.on = a THEN "no" ELSE @,
       !.dialog = IF \E r \in Awaited(a) : r.heard THEN Nothing ELSE @]
  /\ requests' = requests \ Awaited(a)
  /\ UNCHANGED <<db, wish>>

-----------------------------------------------------------------------------
(* The dialog.                                                             *)

Request(kind, id, set) ==
  [no |-> desk.edits + 1, kind |-> kind, id |-> id, set |-> set, diff |-> <<>>,
   at |-> "sent", on |-> FALSE, heard |-> TRUE]

NextSortOrder == IF Listed = <<>> THEN 0 ELSE Max({Listed[i].order : i \in DOMAIN Listed}) + 1

Blank == [type |-> "text", options |-> {}, required |-> TRUE, order |-> NextSortOrder, active |-> TRUE]

Open(id, form) ==
  /\ desk.dialog = Nothing
  /\ desk' = [desk EXCEPT !.dialog = [id |-> id, form |-> form]]
  /\ UNCHANGED <<db, requests, wish>>

AddField     == Open(0, Blank)
EditField(i) == Open(Listed[i].id, [k \in DOMAIN TypeOf |-> Listed[i][k]])

\* A dialog that is closed hears no more of its save.
CloseDialog ==
  /\ desk.dialog # Nothing
  /\ desk' = [desk EXCEPT !.dialog = Nothing]
  /\ requests' = {IF r.kind \in {"create", "update"} THEN [r EXCEPT !.heard = FALSE] ELSE r : r \in requests}
  /\ UNCHANGED <<db, wish>>

\* The rows of the options editor, which a type that is no choice drops.
EditorRows(type) == IF type \in Choice THEN SUBSET Options ELSE {{}}

\* The rows have different values, none of them empty; a choice has one.
FieldValid(c) == c.type \in Choice => c.options # {}

\* What may be entered; the order is that of when the dialog opened.
Offered == {c \in Forms : c.options \in EditorRows(c.type) /\ FieldValid(c)}
Entered(d, c, active) ==
  [type |-> c.type, options |-> c.options, required |-> c.required, order |-> d.form.order, active |-> active]

\* A field that is new is active.
Edited(d) == {Entered(d, c, TRUE) : c \in Offered}
             \union IF d.id = 0 THEN {} ELSE {Entered(d, c, FALSE) : c \in Offered}

Save ==
  /\ desk.dialog # Nothing /\ desk.edits < MaxEdits
  /\ ~\E r \in requests : r.kind \in {"create", "update"} /\ r.heard
  /\ \E c \in Edited(desk.dialog) :
       requests' = requests \union
         {Request(IF desk.dialog.id = 0 THEN "create" ELSE "update", desk.dialog.id, c)}
  /\ desk' = [desk EXCEPT !.edits = @ + 1]
  /\ wish' = (IF desk.dialog.id = 0 THEN wish ELSE Nothing)
  /\ UNCHANGED db

-----------------------------------------------------------------------------
(* Deactivation and moves.                                                 *)

HandleDeactivate(i) ==
  /\ desk.dialog = Nothing /\ Listed[i].active /\ desk.edits < MaxEdits
  /\ requests' = requests \union {Request("deactivate", Listed[i].id, [active |-> FALSE])}
  /\ desk' = [desk EXCEPT !.edits = @ + 1]
  /\ UNCHANGED <<db, wish>>

Swapped(s, i, j) == [s EXCEPT ![i] = s[j], ![j] = s[i]]

\* Fault: the two fields take each other's place, and the others keep theirs.
SwapOnly(was, now) ==
  {Request("order", now[k].id, [order |-> was[k].order]) : k \in {k \in DOMAIN now : now[k] # was[k]}}

\* The list is numbered from 0, and a field whose number was another is patched.
Patches(was, now) ==
  {Request("order", now[k].id, [order |-> k - 1]) : k \in {k \in DOMAIN now : now[k].order # k - 1}}

\* The list is the server's, and nothing is under way that may change an order.
Current == Listed = List(desk.all) /\ ~\E r \in requests : r.kind \in {"update", "order"}

\* The buttons of a field move it up or down, none while a move is under way.
Movable(i, j) == j \in {i - 1, i + 1} \intersect DOMAIN Listed /\ desk.moving = "no"

HandleMove(i, j) ==
  LET now == Swapped(Listed, i, j) IN
  /\ desk.dialog = Nothing /\ Movable(i, j) /\ desk.edits < MaxEdits
  /\ Patches(Listed, now) # {}
  /\ requests' = requests \union Patches(Listed, now)
  /\ desk' = [desk EXCEPT !.moving = "patches", !.edits = @ + 1]
  /\ wish' = (IF Current THEN [ids |-> [k \in DOMAIN now |-> now[k].id], all |-> desk.all] ELSE Nothing)
  /\ UNCHANGED db

-----------------------------------------------------------------------------
(* The endpoints, and the answers.                                         *)

Turns(r, s) == requests' = (requests \ {r}) \union {s}

Loads(r) ==
  /\ r.at = "sent"
  /\ IF r.kind = "create"
     THEN /\ Len(field) < MaxFields /\ Define(desk.event, r.set)
          /\ Turns(r, [r EXCEPT !.at = "done"])
     ELSE /\ Turns(r, [r EXCEPT !.at = "loaded", !.diff = Differs(r.id, r.set)])
          /\ UNCHANGED db
  /\ UNCHANGED <<desk, wish>>

Commits(r) ==
  /\ r.at = "loaded"
  /\ Write(r.id, r.diff)
  /\ Turns(r, [r EXCEPT !.at = "done", !.diff = <<>>])
  /\ UNCHANGED <<desk, wish>>

Fails(r) ==
  /\ r.at \in {"sent", "done"}
  /\ Turns(r, [r EXCEPT !.at = "failed"])
  /\ wish' = (IF r.kind = "order" THEN Nothing ELSE wish)
  /\ UNCHANGED <<db, desk>>

\* The dialog of a save that failed stays open.
Saved(r) ==
  /\ r.kind \in {"create", "update"} /\ r.at \in {"done", "failed"}
  /\ IF r.at = "failed"
     THEN requests' = requests \ {r} /\ UNCHANGED desk
     ELSE Turns(r, [r EXCEPT !.at = "refetch", !.on = desk.all]) /\ desk' = Refetched(desk)
  /\ UNCHANGED <<db, wish>>

Deactivated(r) ==
  /\ r.kind = "deactivate" /\ r.at \in {"done", "failed"}
  /\ requests' = requests \ {r}
  /\ desk' = (IF r.at = "done" THEN Refetched(desk) ELSE desk)
  /\ UNCHANGED <<db, wish>>

\* A move is over with its last patch, or with the first that fails: those
\* still under way then are of no move.
Moves == {r \in requests : r.kind = "order" /\ r.heard}
Reordered ==
  /\ desk.moving = "patches"
  /\ (\A r \in Moves : r.at = "done") \/ (\E r \in Moves : r.at = "failed")
  /\ desk' = [Refetched(desk) EXCEPT !.moving = "refetch", !.on = desk.all]
  /\ requests' = (requests \ Moves) \union
                 {[r EXCEPT !.heard = FALSE] : r \in {r \in Moves : r.at \in {"sent", "loaded"}}}
  /\ UNCHANGED <<db, wish>>

\* Nothing waits for what such a patch answers.
Forgotten(r) ==
  /\ r.kind = "order" /\ ~r.heard /\ r.at \in {"done", "failed"}
  /\ requests' = requests \ {r}
  /\ UNCHANGED <<db, desk, wish>>
=============================================================================
