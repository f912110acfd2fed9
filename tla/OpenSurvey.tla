----------------------------- MODULE OpenSurvey -----------------------------
(***************************************************************************)
(* The open survey (survey 1): an administrator who defines its fields     *)
(* while the members of an organisation fill them.                         *)
(***************************************************************************)
EXTENDS OpenSurveyFill, OpenSurveyBuilder

CONSTANTS Bounds

VARIABLES
  overlap,  \* history: two submissions of the organisation have overlapped
  cap       \* the bounds of this behaviour

vars == <<phase, owner, field, rows, fill, jobs, desk, requests, wish, overlap, cap>>

\* The browsers in use and the events they look at, the fields there are, how
\* often a browser submits, whether reads and requests fail and the phase is
\* switched, and what the administrator does.
Bound == [browsers: SUBSET Browsers, events: SUBSET Events, owner: Seq(Events), field: Seq(Columns),
          sends: 0 .. MaxSends, faults: BOOLEAN, phases: BOOLEAN, edits: 0 .. MaxEdits,
          does: SUBSET {"add", "edit", "deactivate", "move", "show"}]

ASSUME BoundAssumption ==
  \A c \in Bounds : c \in Bound /\ c.owner # <<>> /\ Len(c.owner) = Len(c.field) /\ Len(c.field) <= MaxFields

TypeOK == DbTypeOK /\ FillTypeOK /\ BuilderTypeOK /\ overlap \in BOOLEAN /\ cap \in Bounds

Init ==
  /\ cap \in Bounds
  /\ phase = Events /\ owner = cap.owner /\ field = cap.field /\ rows = <<>>
  /\ fill = [u \in Browsers |-> NewPage] /\ jobs = {}
  /\ desk = NewDesk(cap.owner[1]) /\ requests = {} /\ wish = Nothing
  /\ overlap = FALSE

Fills(u) ==
  \/ \E e \in cap.events :
       ChooseEvent(u, e) \/ GetFillView(u, e) \/ FillArrives(u, e) \/ (cap.faults /\ FillFails(u, e))
  \/ Leave(u) \/ Refocus(u) \/ FillAnother(u)
  \/ fill[u].sends < cap.sends /\ ((\E f \in Ids : FillField(u, f)) \/ Submit(u))

Serves(m) == UpsertReads(m) \/ UpsertWrites(m) \/ (cap.faults /\ UpsertFails(m)) \/ Reply(m)

Builds ==
  \/ \E a \in BOOLEAN : ListServed(a) \/ ListArrives(a)
  \/ CloseDialog \/ Reordered
  \/ /\ desk.edits < cap.edits
     /\ \/ "show" \in cap.does /\ ShowInactive
        \/ "add" \in cap.does /\ AddField
        \/ \E i \in DOMAIN Listed :
             \/ "edit" \in cap.does /\ EditField(i)
             \/ "deactivate" \in cap.does /\ HandleDeactivate(i)
             \/ "move" \in cap.does /\ \E j \in DOMAIN Listed : HandleMove(i, j)
        \/ Save
  \/ \E r \in requests :
       Loads(r) \/ Commits(r) \/ (cap.faults /\ Fails(r)) \/ Saved(r) \/ Deactivated(r) \/ Forgotten(r)

Next ==
  \/ /\ \/ \E u \in cap.browsers : Fills(u)
        \/ \E m \in jobs : Serves(m)
     /\ overlap' = (overlap \/ Cardinality({m \in jobs' : m.at = "read"}) > 1)
     /\ UNCHANGED <<desk, requests, wish, cap>>
  \/ Builds /\ UNCHANGED <<fill, jobs, overlap, cap>>
  \/ /\ cap.phases /\ \E e \in cap.events : SwitchPhase(e)
     /\ UNCHANGED <<fill, jobs, desk, requests, wish, overlap, cap>>

Spec == Init /\ [][Next]_vars

-----------------------------------------------------------------------------
(* Properties.                                                             *)

\* What a required field of the event holds for the organisation is an answer.
Answered(e) == \A f \in Required(e) : \E i \in RowsOf(f) : rows[i][2] # {}

\* The overview has the organisation as complete exactly when every required
\* field is answered, whatever administrators have made of the fields since, as
\* long as no two of its submissions have overlapped.
OverviewExact == ~overlap => \A e \in cap.events : Completed(e) <=> Answered(e)

\* A browser that has heard that its answers are saved is not shown older ones:
\* when the view of the event is on the screen and not being read, the fields it
\* has in common with the submission hold what was submitted, until another is
\* written; unless that view was being read, behind another event, when the
\* submission was answered.
FillFollows ==
  \A u \in cap.browsers : \A e \in cap.events :
    LET p == fill[u] IN
    /\ p.event = e /\ p.saved[e] # Nothing
    /\ p.fetch[e].at = "idle" /\ p.data[e] # Nothing
    => \A f \in DOMAIN p.data[e] \intersect DOMAIN p.saved[e] : p.data[e][f].value = p.saved[e][f]

\* A move in a list that is the server's ends in the order that was shown for it:
\* however the patches are served, whatever orders the fields had, and though
\* fields are added or deactivated meanwhile.  (Not when one is edited.)
OrderAsMoved ==
  wish # Nothing /\ desk.moving # "patches" =>
    LET now == ListFields(desk.event, wish.all)
    IN \A i, j \in DOMAIN wish.ids : \A k, l \in DOMAIN now :
         i < j /\ now[k] = wish.ids[i] /\ now[l] = wish.ids[j] => k < l
=============================================================================
