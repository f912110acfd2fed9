--------------------------- MODULE EnrolmentProof ---------------------------
(***************************************************************************)
(* Proofs about Enrolment, for any number of workers, participants, teams  *)
(* and limits: its types are kept, and however the requests interleave the *)
(* event's cap is exceeded, and a closed registration entered, by at most  *)
(* the requests that were past the check; nobody is on a team that does    *)
(* not exist; and an organisation's quota of teams and the seats of a      *)
(* roster are exceeded by at most the requests that counted together.      *)
(***************************************************************************)
EXTENDS Enrolment, FiniteSetTheorems, TLAPS

\* The requests that passed Rule 1, and those that passed Rule 0 too.
PastPhase == { w \in Workers : req[w].at \in RegisterPoints }
PastCap   == { w \in Workers : req[w].at \in RegisterPoints \ {"cap"} }

\* Enrolment ids are taken in order, and not used again.
FreshInv == \A e \in Enrols : e >= nextEnrol => part[e] = NULL

\* Only an athlete, or nobody any more, is about to join a team.
JoinInv ==
  \A w \in Workers :
    req[w].at = "join" =>
      /\ req[w].entrant < nextEnrol
      /\ part[req[w].entrant] # NULL => part[req[w].entrant].role = "athlete"

\* Each request past Rule 0 may still add a participant.
CapInv ==
  participant_cap # NULL =>
    Cardinality(Entrants) + Cardinality(PastCap) <= participant_cap + Slack

\* Once registration is closed only the requests past Rule 1 may add one.
LateInv == ~ open => late + Cardinality(PastPhase) <= Cardinality(Workers)

IInv == TypeOK /\ FreshInv /\ JoinInv /\ CapInv /\ LateInv

-----------------------------------------------------------------------------
(* The sets that are counted.                                              *)

\* What is counted is finite.
LEMMA Counted ==
  /\ IsFiniteSet(Workers) /\ Cardinality(Workers) \in Nat /\ Cardinality(Workers) > 0
  /\ IsFiniteSet(Entrants) /\ Cardinality(Entrants) \in Nat
  /\ IsFiniteSet(PastCap) /\ Cardinality(PastCap) \in Nat
  /\ Cardinality(PastCap) <= Cardinality(Workers)
  /\ IsFiniteSet(PastPhase) /\ Cardinality(PastPhase) \in Nat
  /\ Cardinality(PastPhase) <= Cardinality(Workers)
<1>1. IsFiniteSet(Workers) /\ Cardinality(Workers) \in Nat
  BY DbAssumption, FS_CardinalityType
<1>2. Cardinality(Workers) > 0
  BY <1>1, DbAssumption, FS_EmptySet
<1>3. IsFiniteSet(Enrols)
  BY DbAssumption, FS_Interval DEF Enrols
<1>4. IsFiniteSet(Entrants) /\ Cardinality(Entrants) \in Nat
  <2>1. Entrants \subseteq Enrols
    BY DEF Entrants
  <2> QED BY <2>1, <1>3, FS_Subset, FS_CardinalityType
<1>5. /\ IsFiniteSet(PastCap) /\ Cardinality(PastCap) \in Nat
      /\ Cardinality(PastCap) <= Cardinality(Workers)
  <2>1. PastCap \subseteq Workers
    BY DEF PastCap
  <2> QED BY <2>1, <1>1, FS_Subset, FS_CardinalityType
<1>6. /\ IsFiniteSet(PastPhase) /\ Cardinality(PastPhase) \in Nat
      /\ Cardinality(PastPhase) <= Cardinality(Workers)
  <2>1. PastPhase \subseteq Workers
    BY DEF PastPhase
  <2> QED BY <2>1, <1>1, FS_Subset, FS_CardinalityType
<1> QED BY <1>1, <1>2, <1>4, <1>5, <1>6

\* The cap is kept by a step that adds neither a participant nor a request past
\* Rule 0.
LEMMA CapKept ==
  ASSUME CapInv, Entrants' \subseteq Entrants, PastCap' \subseteq PastCap
  PROVE  CapInv'
<1> DEFINE e == Cardinality(Entrants) c == Cardinality(PastCap)
           ee == Cardinality(Entrants') cc == Cardinality(PastCap')
<1>1. e \in Nat /\ c \in Nat
  BY Counted
<1>2. ee \in Nat /\ ee <= e
  <2>1. IsFiniteSet(Entrants)
    BY Counted
  <2> QED BY <2>1, FS_Subset, FS_CardinalityType
<1>3. cc \in Nat /\ cc <= c
  <2>1. IsFiniteSet(PastCap)
    BY Counted
  <2> QED BY <2>1, FS_Subset, FS_CardinalityType
<1>4. Slack \in Nat
  BY Counted DEF Slack
<1>5. participant_cap # NULL => e + c <= participant_cap + Slack
  BY DEF CapInv
<1>6. participant_cap # NULL => participant_cap \in Nat
  BY DbAssumption DEF Limits
<1> HIDE DEF e, c, ee, cc
<1>7. participant_cap # NULL => ee + cc <= participant_cap + Slack
  BY <1>1, <1>2, <1>3, <1>4, <1>5, <1>6
<1> QED BY <1>7 DEF CapInv, ee, cc, Slack

\* So is the closed registration by a step that adds no request past Rule 1.
LEMMA LateKept ==
  ASSUME LateInv, late \in Nat, open' = open, late' = late,
         PastPhase' \subseteq PastPhase
  PROVE  LateInv'
<1> DEFINE n == Cardinality(PastPhase) nn == Cardinality(PastPhase')
           m == Cardinality(Workers)
<1>1. n \in Nat /\ m \in Nat
  BY Counted
<1>2. nn \in Nat /\ nn <= n
  <2>1. IsFiniteSet(PastPhase)
    BY Counted
  <2> QED BY <2>1, FS_Subset, FS_CardinalityType
<1>3. ~ open => late + n <= m
  BY DEF LateInv
<1> HIDE DEF n, nn, m
<1>4. ~ open' => late' + nn <= m
  BY <1>1, <1>2, <1>3
<1> QED BY <1>4 DEF LateInv, nn, m

-----------------------------------------------------------------------------
(* Steps by their effect.                                                  *)

\* What the requests at each point carry.
LEMMA RequestOf ==
  ASSUME NEW r \in Request
  PROVE  /\ r.at \in RegisterPoints => r \in [at : RegisterPoints, form : Forms]
         /\ r.at = "update" => r \in [at : {"update"}, entrant : Enrols, loaded : Row,
                                      change : Changes]
         /\ r.at \in {"team_quota", "team_name", "team_insert"} =>
              r \in [at : {"team_quota", "team_name", "team_insert"}, form : TeamForms]
         /\ r.at \in {"count", "match", "join"} =>
              r \in [at : {"count", "match", "join"}, entrant : Enrols, team : TeamIds,
                     loaded : Team]
         /\ r.at = "leave" => r \in [at : {"leave"}, entrant : Enrols]
BY DEF Request, Idle, RegisterPoints

\* A request goes on, or a new one arrives, and no table changes: the invariant
\* is kept if it is no closer to adding a participant than before.
LEMMA QuietStep ==
  ASSUME IInv, NEW w \in Workers, NEW r \in Request,
         UNCHANGED <<part, nextEnrol, team, nextTeam, category, open, late>>,
         req' = [req EXCEPT ![w] = r],
         r.at \in RegisterPoints => req[w].at \in RegisterPoints,
         r.at \in RegisterPoints \ {"cap"} => req[w].at \in RegisterPoints \ {"cap"},
         r.at = "join" =>
           /\ r.entrant < nextEnrol
           /\ part[r.entrant] # NULL => part[r.entrant].role = "athlete"
  PROVE  IInv'
<1>1. /\ req \in [Workers -> Request]
      /\ req'[w] = r /\ \A v \in Workers \ {w} : req'[v] = req[v]
  BY DEF IInv, TypeOK
<1>2. TypeOK'
  BY <1>1 DEF IInv, TypeOK
<1>3. FreshInv'
  BY DEF IInv, FreshInv
<1>5. JoinInv'
  BY <1>1 DEF IInv, JoinInv
<1>6. CapInv'
  <2>1. PastCap' \subseteq PastCap
    BY <1>1 DEF PastCap
  <2>2. Entrants' \subseteq Entrants
    BY DEF Entrants
  <2> QED BY <2>1, <2>2, CapKept DEF IInv
<1>7. LateInv'
  <2>1. PastPhase' \subseteq PastPhase
    BY <1>1 DEF PastPhase
  <2> QED BY <2>1, LateKept DEF IInv, TypeOK
<1> QED BY <1>2, <1>3, <1>5, <1>6, <1>7 DEF IInv

\* A step that edits the tables without adding a participant, and answers at
\* most one request.
LEMMA EditStep ==
  ASSUME IInv,
         part' \in [Enrols -> Row \cup {NULL}],
         \A e \in Enrols : part'[e] # NULL => part[e] # NULL /\ part'[e].role = part[e].role,
         nextEnrol' = nextEnrol,
         team' \in [TeamIds -> Team \cup {NULL}],
         nextTeam' \in Nat \ {0},
         category' \subseteq category,
         open' = open, late' = late,
         req' = req \/ \E w \in Workers : Answer(w)
  PROVE  IInv'
<1>1. /\ req \in [Workers -> Request]
      /\ req' \in [Workers -> Request]
      /\ \A v \in Workers : req'[v] \in {req[v], Idle}
  BY DEF IInv, TypeOK, Answer, Request
<1>2. TypeOK'
  BY <1>1 DEF IInv, TypeOK
<1>3. FreshInv'
  BY DEF IInv, FreshInv
<1>5. JoinInv'
  <2> SUFFICES ASSUME NEW v \in Workers, req'[v].at = "join"
               PROVE  /\ req'[v].entrant < nextEnrol'
                      /\ part'[req'[v].entrant] # NULL =>
                           part'[req'[v].entrant].role = "athlete"
    BY DEF JoinInv
  <2>1. req'[v] = req[v]
    BY <1>1 DEF Idle
  <2>2. req[v].entrant \in Enrols
    BY <2>1, <1>1, RequestOf
  <2> QED BY <2>1, <2>2 DEF IInv, JoinInv
<1>6. CapInv'
  <2>1. PastCap' \subseteq PastCap
    BY <1>1 DEF PastCap, Idle, RegisterPoints
  <2>2. Entrants' \subseteq Entrants
    BY DEF Entrants
  <2> QED BY <2>1, <2>2, CapKept DEF IInv
<1>7. LateInv'
  <2>1. PastPhase' \subseteq PastPhase
    BY <1>1 DEF PastPhase, Idle, RegisterPoints
  <2> QED BY <2>1, LateKept DEF IInv, TypeOK
<1> QED BY <1>2, <1>3, <1>5, <1>6, <1>7 DEF IInv

-----------------------------------------------------------------------------
(* Registration.                                                           *)

\* Init establishes the invariant.
LEMMA InitIInv == Init => IInv
<1> SUFFICES ASSUME Init PROVE IInv
  OBVIOUS
<1>1. TypeOK /\ FreshInv /\ JoinInv
  <2>1. Idle \in Request
    BY DEF Request
  <2>2. TypeOK
    <3>1. part \in [Enrols -> Row \cup {NULL}] /\ nextEnrol \in Nat \ {0}
      BY DEF Init
    <3>2. team \in [TeamIds -> Team \cup {NULL}] /\ nextTeam \in Nat \ {0}
      BY DEF Init
    <3>3. open \in BOOLEAN /\ category \subseteq Categories
      BY DEF Init
    <3>4. late \in Nat /\ req \in [Workers -> Request]
      BY <2>1 DEF Init
    <3> QED BY <3>1, <3>2, <3>3, <3>4 DEF TypeOK
  <2>3. FreshInv
    BY DEF Init, FreshInv
  <2>4. JoinInv
    BY DEF Init, JoinInv, Idle
  <2> QED BY <2>2, <2>3, <2>4
<1>2. Entrants = {} /\ PastCap = {} /\ PastPhase = {}
  BY DEF Init, Entrants, PastCap, PastPhase, Idle, RegisterPoints
<1>3. Cardinality(Entrants) = 0 /\ Cardinality(PastCap) = 0 /\ Cardinality(PastPhase) = 0
  BY <1>2, FS_EmptySet
<1>4. Slack \in Nat /\ Cardinality(Workers) \in Nat
  BY Counted DEF Slack
<1>5. participant_cap # NULL => participant_cap \in Nat
  BY DbAssumption DEF Limits
<1>6. CapInv
  BY <1>3, <1>4, <1>5 DEF CapInv
<1>7. LateInv
  BY <1>3, <1>4 DEF LateInv, Init
<1> QED BY <1>1, <1>6, <1>7 DEF IInv

LEMMA RegisterStep ==
  ASSUME IInv, NEW w \in Workers, NEW f \in Forms, Register(w, f)
  PROVE  IInv'
<1> DEFINE r == [at |-> "cap", form |-> f]
<1>1. /\ req \in [Workers -> Request] /\ r \in Request
      /\ req'[w] = r /\ \A v \in Workers \ {w} : req'[v] = req[v]
      /\ req' \in [Workers -> Request]
  BY DEF IInv, TypeOK, Register, Request, RegisterPoints
<1>2. UNCHANGED tables /\ open
  BY DEF Register
<1> HIDE DEF r
<1>3. r.at = "cap"
  BY DEF r
<1>4. TypeOK' /\ FreshInv'
  BY <1>1, <1>2 DEF IInv, TypeOK, FreshInv, tables
<1>5. JoinInv'
  BY <1>1, <1>2, <1>3 DEF IInv, JoinInv, tables
<1>6. CapInv'
  <2>1. PastCap' \subseteq PastCap
    BY <1>1, <1>3 DEF PastCap
  <2>2. Entrants' \subseteq Entrants
    BY <1>2 DEF Entrants, tables
  <2> QED BY <2>1, <2>2, CapKept DEF IInv
<1>7. LateInv'
  <2>1. open'
    BY <1>2 DEF tables
  <2> QED BY <2>1 DEF LateInv
<1> QED BY <1>4, <1>5, <1>6, <1>7 DEF IInv

LEMMA CheckCapStep ==
  ASSUME IInv, NEW w \in Workers, CheckCap(w)
  PROVE  IInv'
<1>1. /\ req \in [Workers -> Request]
      /\ req[w].at = "cap" /\ UNCHANGED tables
  BY DEF IInv, TypeOK, CheckCap
<1>2. CASE Reached(participant_cap, Cardinality(Entrants))
  <2>1. Answer(w)
    BY <1>2 DEF CheckCap
  <2> QED BY <1>1, <2>1, EditStep DEF IInv, TypeOK, tables
<1>3. CASE ~ Reached(participant_cap, Cardinality(Entrants))
  <2> DEFINE r == [req[w] EXCEPT !.at = "sport"]
  <2>1. req' = [req EXCEPT ![w] = r]
    BY <1>1, <1>3 DEF CheckCap, Continue
  <2>2. r \in Request /\ r.at = "sport"
    BY <1>1, RequestOf DEF RegisterPoints, Request
  <2> HIDE DEF r
  <2>3. /\ req'[w] = r /\ \A v \in Workers \ {w} : req'[v] = req[v]
        /\ req' \in [Workers -> Request]
    BY <1>1, <2>1, <2>2
  <2>4. TypeOK' /\ FreshInv'
    BY <1>1, <2>3 DEF IInv, TypeOK, FreshInv, tables
  <2>5. JoinInv'
    BY <1>1, <2>2, <2>3 DEF IInv, JoinInv, tables
  <2>6. CapInv'
    <3> DEFINE e == Cardinality(Entrants) c == Cardinality(PastCap')
    <3>1. Entrants' = Entrants
      BY <1>1 DEF Entrants, tables
    <3>2. e \in Nat /\ Cardinality(Workers) \in Nat
      BY Counted
    <3>3. (Cardinality(PastCap) \in Nat /\ Cardinality(PastCap) <= Cardinality(Workers))'
      BY Counted, PTL
    <3>4. c \in Nat /\ c <= Cardinality(Workers)
      BY <3>3
    <3>5. participant_cap # NULL => participant_cap \in Nat /\ e < participant_cap
      BY <1>3, <3>2, DbAssumption DEF Reached, Limits
    <3>6. participant_cap # NULL => e + c <= participant_cap + (Cardinality(Workers) - 1)
      <4> HIDE DEF e, c
      <4> QED BY <3>2, <3>4, <3>5
    <3> QED BY <3>1, <3>6 DEF CapInv, Slack
  <2>7. LateInv'
    <3>1. PastPhase' \subseteq PastPhase
      BY <1>1, <2>3 DEF PastPhase, RegisterPoints
    <3> QED BY <1>1, <3>1, LateKept DEF IInv, TypeOK, tables
  <2> QED BY <2>4, <2>5, <2>6, <2>7 DEF IInv
<1> QED BY <1>2, <1>3

\* A request that is past Rule 0 moves on.
LEMMA EntryStep ==
  ASSUME IInv, NEW w \in Workers, UNCHANGED tables,
         NEW p \in RegisterPoints, Continue(w, p),
         req[w].at \in RegisterPoints \ {"cap"}
  PROVE  IInv'
<1> DEFINE r == [req[w] EXCEPT !.at = p]
<1>1. req[w] \in [at : RegisterPoints, form : Forms]
  BY RequestOf DEF IInv, TypeOK
<1>2. r \in Request /\ r.at = p /\ p # "join"
  BY <1>1 DEF Request, RegisterPoints
<1>3. req' = [req EXCEPT ![w] = r]
  BY DEF Continue, IInv, TypeOK
<1> HIDE DEF r
<1> QED BY <1>2, <1>3, QuietStep DEF tables

\* A request is turned down.
LEMMA RejectStep ==
  ASSUME IInv, NEW w \in Workers, UNCHANGED tables, Answer(w)
  PROVE  IInv'
BY EditStep DEF IInv, TypeOK, tables

LEMMA LaterChecksStep ==
  ASSUME IInv, NEW w \in Workers,
         CheckSport(w) \/ CheckTeam(w) \/ CheckSeats(w) \/ CheckDuplicate(w)
  PROVE  IInv'
<1> DEFINE After == {"team", "seats", "duplicate", "insert"}
<1>1. UNCHANGED tables
  BY DEF CheckSport, CheckTeam, CheckSeats, CheckDuplicate
<1>2. Answer(w) \/ \E p \in After : Continue(w, p)
  BY DEF CheckSport, CheckTeam, CheckSeats, CheckDuplicate
<1>3. req[w].at \in {"sport", "team", "seats", "duplicate"}
  BY DEF CheckSport, CheckTeam, CheckSeats, CheckDuplicate
<1>4. CASE Answer(w)
  BY <1>1, <1>4, RejectStep
<1>5. ASSUME NEW p \in After, Continue(w, p) PROVE IInv'
  <2>1. p \in RegisterPoints
    BY DEF RegisterPoints
  <2>2. req[w].at \in RegisterPoints \ {"cap"}
    BY <1>3 DEF RegisterPoints
  <2> QED BY <1>1, <1>5, <2>1, <2>2, EntryStep
<1> QED BY <1>2, <1>4, <1>5

LEMMA InsertEntrantStep ==
  ASSUME IInv, NEW w \in Workers, InsertEntrant(w)
  PROVE  IInv'
<1> DEFINE row == NewRow(req[w].form)
<1>1. /\ req \in [Workers -> Request] /\ req[w].at = "insert"
      /\ req[w] \in [at : RegisterPoints, form : Forms]
      /\ nextEnrol \in Enrols
  BY RequestOf DEF IInv, TypeOK, InsertEntrant, RegisterPoints
<1>2. /\ req' \in [Workers -> Request]
      /\ req'[w] = Idle /\ \A v \in Workers \ {w} : req'[v] = req[v]
  BY <1>1 DEF InsertEntrant, Answer, Request
<1>3. row \in Row
  BY <1>1, DbAssumption DEF NewRow, Row
<1>4. CASE UNCHANGED <<part, nextEnrol, late>>
  BY <1>4, RejectStep DEF InsertEntrant, tables
<1>5. CASE /\ part' = [part EXCEPT ![nextEnrol] = row]
           /\ nextEnrol' = nextEnrol + 1
           /\ late' = IF open THEN late ELSE late + 1
  <2> HIDE DEF row
  <2>0. UNCHANGED <<team, nextTeam, category, open>>
    BY DEF InsertEntrant
  <2>1. TypeOK'
    <3>1. part' \in [Enrols -> Row \cup {NULL}]
      BY <1>3, <1>5 DEF IInv, TypeOK
    <3>2. nextEnrol' \in Nat \ {0}
      BY <1>5 DEF IInv, TypeOK
    <3>3. late' \in Nat
      <4>1. late \in Nat /\ late' \in {late, late + 1}
        BY <1>5 DEF IInv, TypeOK
      <4> QED BY <4>1
    <3> QED BY <1>2, <2>0, <3>1, <3>2, <3>3 DEF IInv, TypeOK
  <2>2. FreshInv'
    BY <1>5, <1>1 DEF IInv, TypeOK, FreshInv, Enrols
  <2>4. JoinInv'
    <3> SUFFICES ASSUME NEW v \in Workers, req'[v].at = "join"
                 PROVE  /\ req'[v].entrant < nextEnrol'
                        /\ part'[req'[v].entrant] # NULL =>
                             part'[req'[v].entrant].role = "athlete"
      BY DEF JoinInv
    <3>1. req'[v] = req[v]
      BY <1>2 DEF Idle
    <3>2. req[v].entrant \in Enrols /\ req[v].entrant < nextEnrol
      BY <3>1, <1>1, RequestOf DEF IInv, JoinInv
    <3>3. part'[req[v].entrant] = part[req[v].entrant]
      BY <3>2, <1>5 DEF IInv, TypeOK, Enrols
    <3>4. req[v].entrant < nextEnrol + 1
      BY <3>2, <1>1, DbAssumption DEF Enrols
    <3> QED BY <3>1, <3>3, <3>4, <1>5 DEF IInv, JoinInv
  <2>5. CapInv'
    <3> DEFINE e == Cardinality(Entrants) c == Cardinality(PastCap)
               ee == Cardinality(Entrants') cc == Cardinality(PastCap')
    <3>1. e \in Nat /\ c \in Nat /\ Slack \in Nat
      BY Counted DEF Slack
    <3>2. ee \in Nat /\ ee <= e + 1
      <4>1. Entrants' \subseteq Entrants \cup {nextEnrol}
        BY <1>5 DEF Entrants, IInv, TypeOK
      <4>2. /\ IsFiniteSet(Entrants \cup {nextEnrol})
            /\ Cardinality(Entrants \cup {nextEnrol}) \in {e, e + 1}
        BY Counted, FS_AddElement
      <4> HIDE DEF e
      <4>3. /\ ee <= Cardinality(Entrants \cup {nextEnrol})
            /\ ee \in Nat
        BY <4>1, <4>2, FS_Subset, FS_CardinalityType
      <4> HIDE DEF ee
      <4> QED BY <4>2, <4>3, <3>1
    <3>3. cc = c - 1
      <4>1. PastCap' = PastCap \ {w} /\ w \in PastCap
        BY <1>1, <1>2 DEF PastCap, Idle, RegisterPoints
      <4> QED BY <4>1, Counted, FS_RemoveElement
    <3>4. participant_cap # NULL => e + c <= participant_cap + Slack
      BY DEF IInv, CapInv
    <3>5. participant_cap # NULL => participant_cap \in Nat
      BY DbAssumption DEF Limits
    <3> HIDE DEF e, c, ee, cc
    <3>6. participant_cap # NULL => ee + cc <= participant_cap + Slack
      BY <3>1, <3>2, <3>3, <3>4, <3>5
    <3> QED BY <3>6 DEF CapInv, ee, cc, Slack
  <2>6. LateInv'
    <3> DEFINE n == Cardinality(PastPhase) nn == Cardinality(PastPhase')
               m == Cardinality(Workers)
    <3>1. n \in Nat /\ m \in Nat
      BY Counted
    <3>2. nn = n - 1
      <4>1. PastPhase' = PastPhase \ {w} /\ w \in PastPhase
        BY <1>1, <1>2 DEF PastPhase, Idle, RegisterPoints
      <4> QED BY <4>1, Counted, FS_RemoveElement
    <3>3. ~ open => late + n <= m
      BY DEF IInv, LateInv
    <3>4. late \in Nat
      BY DEF IInv, TypeOK
    <3> HIDE DEF n, nn, m
    <3>5. ~ open' => late' + nn <= m
      BY <1>5, <2>0, <3>1, <3>2, <3>3, <3>4
    <3> QED BY <3>5 DEF LateInv, nn, m
  <2> QED BY <2>1, <2>2, <2>4, <2>5, <2>6 DEF IInv
<1> QED BY <1>4, <1>5 DEF InsertEntrant

LEMMA LoadEntrantStep ==
  ASSUME IInv, NEW w \in Workers, NEW e \in Enrols, NEW ch \in Changes,
         LoadEntrant(w, e, ch)
  PROVE  IInv'
<1> DEFINE r == [at |-> "update", entrant |-> e, loaded |-> part[e], change |-> ch]
<1>1. part[e] \in Row
  BY DEF LoadEntrant, Entrants, IInv, TypeOK
<1>2. r \in Request /\ r.at = "update"
  BY <1>1 DEF Request
<1>3. req' = [req EXCEPT ![w] = r] /\ UNCHANGED tables
  BY DEF LoadEntrant
<1> HIDE DEF r
<1> QED BY <1>2, <1>3, QuietStep DEF tables, RegisterPoints

LEMMA UpdateEntrantStep ==
  ASSUME IInv, NEW w \in Workers, UpdateEntrant(w)
  PROVE  IInv'
<1> DEFINE e == req[w].entrant ch == req[w].change
<1>1. e \in Enrols /\ ch \in Changes /\ req[w].loaded \in Row
  BY RequestOf DEF IInv, TypeOK, UpdateEntrant
<1>2. ASSUME part[e] \in Row
      PROVE  LET new == Overlay(part[e], req[w].loaded, ch)
             IN  new \in Row /\ new.role = part[e].role
  <2>1. /\ ch.person \in People \cup {NULL} /\ ch.sport \in Sports \cup {NULL}
        /\ ch.org \in Orgs \cup {NULL} /\ ch.cat \in Categories \cup {NULL}
    BY <1>1, DbAssumption
  <2> DEFINE p == IF ch.person \in {NULL, req[w].loaded.person}
                  THEN part[e].person ELSE ch.person
             s == IF ch.sport \in {NULL, req[w].loaded.sport}
                  THEN part[e].sport ELSE ch.sport
             o == IF ch.org \in {NULL, req[w].loaded.org} THEN part[e].org ELSE ch.org
             c == IF ch.cat \in {NULL, req[w].loaded.cat} THEN part[e].cat ELSE ch.cat
  <2>2. CASE part[e].role = "athlete"
    <3>1. part[e] \in [person : People, role : {"athlete"}, sport : Sports, org : Orgs,
                       cat : Categories \cup {NULL}, team : TeamIds \cup {NULL}]
      BY <1>2, <2>2 DEF Row
    <3>2. p \in People /\ s \in Sports /\ o \in Orgs /\ c \in Categories \cup {NULL}
      BY <2>1, <3>1
    <3>3. Overlay(part[e], req[w].loaded, ch) =
            [part[e] EXCEPT !.person = p, !.sport = s, !.org = o, !.cat = c]
      BY <2>2, <3>1 DEF Overlay
    <3> HIDE DEF p, s, o, c
    <3> QED BY <3>1, <3>2, <3>3, ZenonT(60) DEF Row
  <2>3. CASE part[e].role # "athlete"
    <3>1. part[e] \in [person : People, role : {"leader"}, sport : Sports, org : Orgs,
                       cat : {NULL}, team : {NULL}]
      BY <1>2, <2>3 DEF Row
    <3>2. p \in People /\ s \in Sports /\ o \in Orgs
      BY <2>1, <3>1
    <3>3. Overlay(part[e], req[w].loaded, ch) =
            [part[e] EXCEPT !.person = p, !.sport = s, !.org = o]
      BY <2>3, <3>1 DEF Overlay
    <3> HIDE DEF p, s, o
    <3> QED BY <3>1, <3>2, <3>3, ZenonT(60) DEF Row
  <2> QED BY <2>2, <2>3
<1>3. /\ part' \in [Enrols -> Row \cup {NULL}]
      /\ \A x \in Enrols : part'[x] # NULL =>
           part[x] # NULL /\ part'[x].role = part[x].role
  <2>1. part \in [Enrols -> Row \cup {NULL}]
    BY DEF IInv, TypeOK
  <2>2. CASE e \in Entrants /\ part' # part
    <3> DEFINE new == Overlay(part[e], req[w].loaded, ch)
    <3>1. part[e] \in Row /\ part[e] # NULL
      BY <1>1, <2>1, <2>2 DEF Entrants
    <3>2. new \in Row /\ new.role = part[e].role
      BY <1>2, <3>1
    <3>3. part' = [part EXCEPT ![e] = new]
      BY <2>2 DEF UpdateEntrant
    <3> HIDE DEF new
    <3> QED BY <1>1, <2>1, <3>1, <3>2, <3>3
  <2>3. CASE part' = part
    BY <2>1, <2>3
  <2> QED BY <2>2, <2>3 DEF UpdateEntrant
<1>4. Answer(w) /\ UNCHANGED <<nextEnrol, team, nextTeam, category, open, late>>
  BY DEF UpdateEntrant
<1> QED BY <1>3, <1>4, EditStep DEF IInv, TypeOK

LEMMA DeleteEntrantStep ==
  ASSUME IInv, NEW e \in Enrols, DeleteEntrant(e)
  PROVE  IInv'
<1>1. /\ part' \in [Enrols -> Row \cup {NULL}]
      /\ \A x \in Enrols : part'[x] # NULL =>
           part[x] # NULL /\ part'[x].role = part[x].role
  BY DEF IInv, TypeOK, DeleteEntrant
<1>2. UNCHANGED <<nextEnrol, team, nextTeam, category, open, late, req>>
  BY DEF DeleteEntrant
<1> QED BY <1>1, <1>2, EditStep DEF IInv, TypeOK

LEMMA SwitchPhaseStep ==
  ASSUME IInv, SwitchPhase
  PROVE  IInv'
<1>1. UNCHANGED <<part, nextEnrol, team, nextTeam, category, req>> /\ late' = 0 /\ open' \in BOOLEAN
  BY DEF IInv, TypeOK, SwitchPhase
<1>2. TypeOK'
  BY <1>1 DEF IInv, TypeOK
<1>3. FreshInv' /\ JoinInv'
  BY <1>1 DEF IInv, FreshInv, JoinInv
<1>4. CapInv'
  BY <1>1, CapKept DEF IInv, Entrants, PastCap
<1>5. LateInv'
  <2>1. PastPhase' = PastPhase
    BY <1>1 DEF PastPhase
  <2>2. Cardinality(PastPhase) \in Nat /\ Cardinality(PastPhase) <= Cardinality(Workers)
    BY Counted
  <2> QED BY <1>1, <2>1, <2>2 DEF LateInv
<1> QED BY <1>2, <1>3, <1>4, <1>5 DEF IInv

-----------------------------------------------------------------------------
(* Teams.                                                                  *)

\* A request about teams arrives or goes on, short of joining.
LEMMA TeamRequestStep ==
  ASSUME IInv, NEW w \in Workers, UNCHANGED tables,
         NEW r \in Request, req' = [req EXCEPT ![w] = r],
         r.at \notin RegisterPoints \cup {"join"}
  PROVE  IInv'
BY QuietStep DEF tables

LEMMA CreateTeamStep ==
  ASSUME IInv, NEW w \in Workers, NEW f \in TeamForms, CreateTeam(w, f)
  PROVE  IInv'
<1> DEFINE r == [at |-> "team_quota", form |-> f]
<1>1. r \in Request /\ r.at = "team_quota"
  BY DEF Request
<1>2. req' = [req EXCEPT ![w] = r] /\ UNCHANGED tables
  BY DEF CreateTeam
<1> HIDE DEF r
<1> QED BY <1>1, <1>2, TeamRequestStep DEF RegisterPoints

LEMMA TeamChecksStep ==
  ASSUME IInv, NEW w \in Workers, CountTeams(w) \/ CheckTeamName(w)
  PROVE  IInv'
<1>1. UNCHANGED tables /\ req[w].at \in {"team_quota", "team_name", "team_insert"}
  BY DEF CountTeams, CheckTeamName
<1>2. Answer(w) \/ \E p \in {"team_name", "team_insert"} : Continue(w, p)
  BY DEF CountTeams, CheckTeamName
<1>3. CASE Answer(w)
  BY <1>1, <1>3, RejectStep
<1>4. ASSUME NEW p \in {"team_name", "team_insert"}, Continue(w, p) PROVE IInv'
  <2> DEFINE r == [req[w] EXCEPT !.at = p]
  <2>1. r \in Request /\ r.at = p
    BY <1>1, RequestOf DEF Request, IInv, TypeOK
  <2>2. req' = [req EXCEPT ![w] = r]
    BY <1>4 DEF Continue, IInv, TypeOK
  <2> HIDE DEF r
  <2> QED BY <1>1, <2>1, <2>2, TeamRequestStep DEF RegisterPoints
<1> QED BY <1>2, <1>3, <1>4

LEMMA InsertTeamStep ==
  ASSUME IInv, NEW w \in Workers, InsertTeam(w)
  PROVE  IInv'
<1>1. req[w].form \in TeamForms
  BY RequestOf DEF IInv, TypeOK, InsertTeam
<1>2. team' \in [TeamIds -> Team \cup {NULL}] /\ nextTeam' \in Nat \ {0}
  BY <1>1, DbAssumption DEF IInv, TypeOK, InsertTeam
<1>3. Answer(w) /\ UNCHANGED <<part, nextEnrol, category, open, late>>
  BY DEF InsertTeam
<1> QED BY <1>2, <1>3, EditStep DEF IInv, TypeOK

LEMMA AddMemberStep ==
  ASSUME IInv, NEW w \in Workers, NEW t \in TeamIds, NEW e \in Enrols,
         AddMember(w, t, e)
  PROVE  IInv'
<1> DEFINE r == [at |-> "count", entrant |-> e, team |-> t, loaded |-> team[t]]
<1>1. team[t] \in Team
  BY DEF AddMember, Teams, IInv, TypeOK
<1>2. r \in Request /\ r.at = "count"
  BY <1>1 DEF Request
<1>3. req' = [req EXCEPT ![w] = r] /\ UNCHANGED tables
  BY DEF AddMember
<1> HIDE DEF r
<1> QED BY <1>2, <1>3, TeamRequestStep DEF RegisterPoints

LEMMA CountMembersStep ==
  ASSUME IInv, NEW w \in Workers, CountMembers(w)
  PROVE  IInv'
<1>1. UNCHANGED tables /\ req[w].at = "count"
  BY DEF CountMembers
<1>2. CASE Answer(w)
  BY <1>1, <1>2, RejectStep
<1>3. CASE Continue(w, "match")
  <2> DEFINE r == [req[w] EXCEPT !.at = "match"]
  <2>1. r \in Request /\ r.at = "match"
    BY <1>1, RequestOf DEF Request, IInv, TypeOK
  <2>2. req' = [req EXCEPT ![w] = r]
    BY <1>3 DEF Continue, IInv, TypeOK
  <2> HIDE DEF r
  <2> QED BY <1>1, <2>1, <2>2, TeamRequestStep DEF RegisterPoints
<1> QED BY <1>2, <1>3 DEF CountMembers

LEMMA MatchMemberStep ==
  ASSUME IInv, NEW w \in Workers, MatchMember(w)
  PROVE  IInv'
<1>1. UNCHANGED tables /\ req[w].at = "match"
  BY DEF MatchMember
<1>2. CASE Answer(w)
  BY <1>1, <1>2, RejectStep
<1>3. CASE /\ Continue(w, "join")
           /\ req[w].entrant \in Athletes(req[w].loaded.sport, req[w].loaded.org)
  <2> DEFINE r == [req[w] EXCEPT !.at = "join"]
  <2>1. r \in Request /\ r.at = "join" /\ r.entrant = req[w].entrant
    BY <1>1, RequestOf DEF Request, IInv, TypeOK
  <2>2. req' = [req EXCEPT ![w] = r]
    BY <1>3 DEF Continue, IInv, TypeOK
  <2>3. part[r.entrant].role = "athlete" /\ r.entrant < nextEnrol
    <3>1. /\ r.entrant \in Enrols /\ part[r.entrant] # NULL
          /\ part[r.entrant].role = "athlete"
      BY <1>3, <2>1 DEF Athletes, Entrants
    <3>2. ~ r.entrant >= nextEnrol
      BY <3>1 DEF IInv, FreshInv
    <3>3. r.entrant \in Int /\ nextEnrol \in Int
      BY <3>1 DEF IInv, TypeOK, Enrols
    <3> HIDE DEF r
    <3> QED BY <3>1, <3>2, <3>3
  <2> HIDE DEF r
  <2> QED BY <1>1, <2>1, <2>2, <2>3, QuietStep DEF RegisterPoints, tables
<1> QED BY <1>2, <1>3 DEF MatchMember

LEMMA JoinTeamStep ==
  ASSUME IInv, NEW w \in Workers, JoinTeam(w)
  PROVE  IInv'
<1> DEFINE e == req[w].entrant
<1>1. e \in Enrols /\ req[w].team \in TeamIds
  BY RequestOf DEF IInv, TypeOK, JoinTeam
<1>2. part[e] # NULL => part[e].role = "athlete"
  BY DEF IInv, JoinInv, JoinTeam
<1>3. part \in [Enrols -> Row \cup {NULL}]
  BY DEF IInv, TypeOK
<1>4. Answer(w) /\ UNCHANGED <<nextEnrol, team, nextTeam, category, open, late>>
  BY DEF JoinTeam
<1>5. /\ part' \in [Enrols -> Row \cup {NULL}]
      /\ \A x \in Enrols : part'[x] # NULL =>
           part[x] # NULL /\ part'[x].role = part[x].role
  <2>1. CASE part' = part
    BY <1>3, <2>1
  <2>2. CASE e \in Entrants /\ part' = [part EXCEPT ![e].team = req[w].team]
    <3> DEFINE new == [part[e] EXCEPT !.team = req[w].team]
    <3>1. part[e] \in Row /\ part[e].role = "athlete" /\ part[e] # NULL
      BY <1>2, <1>3, <2>2 DEF Entrants
    <3>2. new \in Row /\ new.role = part[e].role
      BY <1>1, <3>1 DEF Row
    <3>3. part' = [part EXCEPT ![e] = new]
      BY <2>2
    <3> HIDE DEF new
    <3> QED BY <1>1, <1>3, <3>1, <3>2, <3>3
  <2> QED BY <2>1, <2>2 DEF JoinTeam
<1> QED BY <1>4, <1>5, EditStep DEF IInv, TypeOK

\* A participation taken off its team is still one, of the same role.
LEMMA OffTeam ==
  ASSUME NEW row \in Row
  PROVE  [row EXCEPT !.team = NULL] \in Row /\ [row EXCEPT !.team = NULL].role = row.role
BY DEF Row

LEMMA RemoveMemberStep ==
  ASSUME IInv, NEW w \in Workers, NEW t \in TeamIds, NEW e \in Enrols,
         RemoveMember(w, t, e)
  PROVE  IInv'
<1> DEFINE r == [at |-> "leave", entrant |-> e]
<1>1. r \in Request /\ r.at = "leave"
  BY DEF Request
<1>2. req' = [req EXCEPT ![w] = r] /\ UNCHANGED tables
  BY DEF RemoveMember
<1> HIDE DEF r
<1> QED BY <1>1, <1>2, TeamRequestStep DEF RegisterPoints

LEMMA LeaveTeamStep ==
  ASSUME IInv, NEW w \in Workers, LeaveTeam(w)
  PROVE  IInv'
<1> DEFINE e == req[w].entrant
<1>1. e \in Enrols
  BY RequestOf DEF IInv, TypeOK, LeaveTeam
<1>2. part \in [Enrols -> Row \cup {NULL}]
  BY DEF IInv, TypeOK
<1>3. Answer(w) /\ UNCHANGED <<nextEnrol, team, nextTeam, category, open, late>>
  BY DEF LeaveTeam
<1>4. /\ part' \in [Enrols -> Row \cup {NULL}]
      /\ \A x \in Enrols : part'[x] # NULL =>
           part[x] # NULL /\ part'[x].role = part[x].role
  <2>1. CASE part' = part
    BY <1>2, <2>1
  <2>2. CASE e \in Entrants /\ part' = [part EXCEPT ![e].team = NULL]
    <3> DEFINE new == [part[e] EXCEPT !.team = NULL]
    <3>1. part[e] \in Row /\ part[e] # NULL
      BY <1>2, <2>2 DEF Entrants
    <3>2. new \in Row /\ new.role = part[e].role
      BY <3>1, OffTeam
    <3>3. part' = [part EXCEPT ![e] = new]
      BY <2>2
    <3> HIDE DEF new
    <3> QED BY <1>1, <1>2, <3>1, <3>2, <3>3
  <2> QED BY <2>1, <2>2 DEF LeaveTeam
<1> QED BY <1>3, <1>4, EditStep DEF IInv, TypeOK

LEMMA DeleteTeamStep ==
  ASSUME IInv, NEW t \in TeamIds, DeleteTeam(t)
  PROVE  IInv'
<1>1. part \in [Enrols -> Row \cup {NULL}] /\ team \in [TeamIds -> Team \cup {NULL}]
  BY DEF IInv, TypeOK
<1>2. ASSUME NEW x \in Enrols
      PROVE  /\ part'[x] \in Row \cup {NULL}
             /\ part'[x] # NULL => part[x] # NULL /\ part'[x].role = part[x].role
  <2>1. CASE x \in Roster(t)
    <3>1. part[x] \in Row /\ part[x] # NULL
      BY <1>1, <2>1 DEF Roster, Entrants
    <3>2. part'[x] = [part[x] EXCEPT !.team = NULL]
      BY <2>1 DEF DeleteTeam
    <3> QED BY <3>1, <3>2, OffTeam
  <2>2. CASE x \notin Roster(t)
    BY <1>1, <2>2 DEF DeleteTeam
  <2> QED BY <2>1, <2>2
<1>3. part' \in [Enrols -> Row \cup {NULL}]
  BY <1>2 DEF DeleteTeam
<1>4. team' \in [TeamIds -> Team \cup {NULL}]
  BY <1>1 DEF DeleteTeam
<1>5. UNCHANGED <<nextEnrol, nextTeam, category, open, late, req>>
  BY DEF DeleteTeam
<1> QED BY <1>2, <1>3, <1>4, <1>5, EditStep DEF IInv, TypeOK

LEMMA UpdateTeamStep ==
  ASSUME IInv, NEW t \in TeamIds, NEW n \in TeamNames,
         NEW c \in Categories \cup {NULL}, UpdateTeam(t, n, c)
  PROVE  IInv'
<1>1. team[t] \in Team /\ team \in [TeamIds -> Team \cup {NULL}]
  BY DEF IInv, TypeOK, UpdateTeam, Teams
<1>2. team' \in [TeamIds -> Team \cup {NULL}]
  BY <1>1 DEF UpdateTeam, Team
<1>3. UNCHANGED <<part, nextEnrol, nextTeam, category, open, late, req>>
  BY DEF UpdateTeam
<1> QED BY <1>2, <1>3, EditStep DEF IInv, TypeOK

\* So are one whose category is gone, and a team's row.
LEMMA NoCategory ==
  /\ \A row \in Row : /\ [row EXCEPT !.cat = NULL] \in Row
                     /\ [row EXCEPT !.cat = NULL].role = row.role
                     /\ [row EXCEPT !.cat = NULL].team = row.team
  /\ \A t \in Team : [t EXCEPT !.category = NULL] \in Team
BY DEF Row, Team

LEMMA DeleteCategoryStep ==
  ASSUME IInv, NEW c \in Categories, DeleteCategory(c)
  PROVE  IInv'
<1>1. part \in [Enrols -> Row \cup {NULL}] /\ team \in [TeamIds -> Team \cup {NULL}]
  BY DEF IInv, TypeOK
<1>2. ASSUME NEW x \in Enrols
      PROVE  /\ part'[x] \in Row \cup {NULL}
             /\ part'[x] # NULL => part[x] # NULL /\ part'[x].role = part[x].role
  <2>1. CASE x \in Entrants /\ part[x].cat = c
    <3>1. part[x] \in Row /\ part[x] # NULL
      BY <1>1, <2>1 DEF Entrants
    <3>2. part'[x] = [part[x] EXCEPT !.cat = NULL]
      BY <2>1 DEF DeleteCategory
    <3> QED BY <3>1, <3>2, NoCategory
  <2>2. CASE ~ (x \in Entrants /\ part[x].cat = c)
    BY <1>1, <2>2 DEF DeleteCategory
  <2> QED BY <2>1, <2>2
<1>3. part' \in [Enrols -> Row \cup {NULL}]
  BY <1>2 DEF DeleteCategory
<1>4. team' \in [TeamIds -> Team \cup {NULL}]
  BY <1>1, NoCategory DEF DeleteCategory, Teams
<1>5. UNCHANGED <<nextEnrol, nextTeam, open, late, req>> /\ category' \subseteq category
  BY DEF DeleteCategory
<1> QED BY <1>2, <1>3, <1>4, <1>5, EditStep DEF IInv, TypeOK

-----------------------------------------------------------------------------
(* The theorems.                                                           *)

\* Every step keeps the invariant, and so does a step that changes nothing.
LEMMA NextIInv == IInv /\ [Next]_vars => IInv'
<1> SUFFICES ASSUME IInv, [Next]_vars PROVE IInv'
  OBVIOUS
<1>1. ASSUME NEW w \in Workers, RegistrationStep(w) PROVE IInv'
  BY <1>1, RegisterStep, CheckCapStep, LaterChecksStep,
     InsertEntrantStep, LoadEntrantStep, UpdateEntrantStep DEF RegistrationStep
<1>2. ASSUME NEW w \in Workers, RosterStep(w) PROVE IInv'
  BY <1>2, CreateTeamStep, TeamChecksStep, InsertTeamStep, AddMemberStep,
     RemoveMemberStep, CountMembersStep, MatchMemberStep, JoinTeamStep, LeaveTeamStep
     DEF RosterStep
<1>3. ASSUME NEW w \in Workers, Abandon(w) PROVE IInv'
  BY <1>3, RejectStep DEF Abandon, Reject
<1>4. CASE UNCHANGED vars
  <2>1. UNCHANGED <<part, nextEnrol, team, nextTeam, category, open, late, req>>
    BY <1>4 DEF vars
  <2> QED BY <2>1, EditStep DEF IInv, TypeOK
<1> QED
  BY <1>1, <1>2, <1>3, <1>4, DeleteEntrantStep, DeleteTeamStep, UpdateTeamStep,
     DeleteCategoryStep, SwitchPhaseStep DEF Next

LEMMA Inductive == Spec => []IInv
BY InitIInv, NextIInv, PTL DEF Spec

\* The tables and the requests in hand keep their types: among others, a leader's
\* row never gets a team or a category, although teams are joined by primary key.
THEOREM EnrolmentTypeCorrect == Spec => []TypeOK
BY Inductive, PTL DEF IInv

\* The participants of the event never exceed its cap by more than the requests
\* that were counting at the same time, for any cap and any number of workers.
THEOREM CapHolds == Spec => []CapOvershootBounded
<1>1. IInv => CapOvershootBounded
  <2> SUFFICES ASSUME IInv, participant_cap # NULL
               PROVE  Cardinality(Entrants) <= participant_cap + Slack
    BY DEF CapOvershootBounded
  <2> DEFINE e == Cardinality(Entrants) c == Cardinality(PastCap)
  <2>1. e \in Nat /\ c \in Nat /\ Slack \in Nat /\ participant_cap \in Nat
    BY Counted, DbAssumption DEF Slack, Limits
  <2>2. e + c <= participant_cap + Slack
    BY DEF IInv, CapInv
  <2> HIDE DEF e, c
  <2>3. e <= participant_cap + Slack
    BY <2>1, <2>2
  <2> QED BY <2>3 DEF e
<1> QED BY <1>1, Inductive, PTL

\* A closed registration lets in at most the entries that were under way, for any
\* number of workers and however often the phase changes.
THEOREM ClosedMeansClosed == Spec => []LateEntriesBounded
<1>1. IInv => LateEntriesBounded
  <2> SUFFICES ASSUME IInv, ~ open PROVE late <= Cardinality(Workers)
    BY DEF LateEntriesBounded
  <2> DEFINE n == Cardinality(PastPhase) m == Cardinality(Workers)
  <2>1. n \in Nat /\ m \in Nat /\ late \in Nat
    BY Counted DEF IInv, TypeOK
  <2>2. late + n <= m
    BY DEF IInv, LateInv
  <2> HIDE DEF n, m
  <2>3. late <= m
    BY <2>1, <2>2
  <2> QED BY <2>3 DEF m
<1> QED BY <1>1, Inductive, PTL

\* A step that puts nobody on a team and removes no team leaves no dangling one.
LEMMA StayStep ==
  ASSUME NoDanglingTeam, Teams \subseteq Teams',
         \A e \in Enrols : part'[e] # NULL =>
           \/ part'[e].team \in Teams' \cup {NULL}
           \/ part[e] # NULL /\ part'[e].team = part[e].team
  PROVE  NoDanglingTeam'
BY DEF NoDanglingTeam, Entrants

LEMMA NextNoDangling == IInv /\ NoDanglingTeam /\ [Next]_vars => NoDanglingTeam'
<1> SUFFICES ASSUME IInv, NoDanglingTeam, [Next]_vars PROVE NoDanglingTeam'
  OBVIOUS
<1>0. /\ part \in [Enrols -> Row \cup {NULL}] /\ team \in [TeamIds -> Team \cup {NULL}]
      /\ req \in [Workers -> Request]
  BY DEF IInv, TypeOK
<1>1. CASE UNCHANGED <<part, team>>
  BY <1>1 DEF NoDanglingTeam, Entrants, Teams
<1>2. ASSUME NEW w \in Workers, InsertEntrant(w) PROVE NoDanglingTeam'
  <2>1. CASE part' = part
    BY <1>1, <1>2, <2>1 DEF InsertEntrant
  <2>2. CASE LET row == NewRow(req[w].form)
             IN  /\ part' = [part EXCEPT ![nextEnrol] = row]
                 /\ row.team \in Teams \cup {NULL}
    <3>1. Teams' = Teams
      BY <1>2 DEF InsertEntrant, Teams
    <3> QED BY <1>0, <2>2, <3>1, StayStep
  <2> QED BY <1>2, <2>1, <2>2 DEF InsertEntrant
<1>3. ASSUME NEW w \in Workers, UpdateEntrant(w) PROVE NoDanglingTeam'
  <2>1. Teams' = Teams
    BY <1>3 DEF UpdateEntrant, Teams
  <2>2. ASSUME NEW e \in Enrols, part'[e] # NULL
        PROVE  part[e] # NULL /\ part'[e].team = part[e].team
    <3> DEFINE x == req[w].entrant
               new == Overlay(part[x], req[w].loaded, req[w].change)
    <3>1. CASE x \in Entrants /\ part' # part
      <4>1. x \in Enrols /\ part[x] \in Row /\ part[x] # NULL
        BY <1>0, <3>1 DEF Entrants
      <4>2. new.team = part[x].team
        BY <4>1 DEF Overlay, Row
      <4>3. part' = [part EXCEPT ![x] = new]
        BY <1>3, <3>1 DEF UpdateEntrant
      <4> HIDE DEF new
      <4> QED BY <1>0, <2>2, <4>1, <4>2, <4>3
    <3>2. CASE part' = part
      BY <2>2, <3>2
    <3> QED BY <1>3, <3>1, <3>2 DEF UpdateEntrant
  <2> QED BY <2>1, <2>2, StayStep
<1>4. ASSUME NEW e \in Enrols, DeleteEntrant(e) PROVE NoDanglingTeam'
  <2>1. Teams' = Teams
    BY <1>4 DEF DeleteEntrant, Teams
  <2> QED BY <1>0, <1>4, <2>1, StayStep DEF DeleteEntrant
<1>5. ASSUME NEW w \in Workers, InsertTeam(w) PROVE NoDanglingTeam'
  <2>1. req[w].form \in Team
    BY <1>0, <1>5, RequestOf, DbAssumption DEF InsertTeam
  <2>2. Teams \subseteq Teams'
    BY <1>0, <1>5, <2>1, DbAssumption DEF InsertTeam, Teams
  <2> QED BY <1>5, <2>2, StayStep DEF InsertTeam
<1>6. ASSUME NEW w \in Workers, JoinTeam(w) PROVE NoDanglingTeam'
  <2>1. Teams' = Teams
    BY <1>6 DEF JoinTeam, Teams
  <2>2. CASE part' = part
    BY <2>1, <2>2, StayStep
  <2>3. CASE /\ req[w].entrant \in Entrants /\ req[w].team \in Teams
             /\ part' = [part EXCEPT ![req[w].entrant].team = req[w].team]
    <3> DEFINE x == req[w].entrant
    <3>1. part[x] \in Row /\ part[x] # NULL
      BY <1>0, <2>3 DEF Entrants
    <3>2. [part[x] EXCEPT !.team = req[w].team].team = req[w].team
      BY <3>1 DEF Row
    <3> QED BY <1>0, <2>1, <2>3, <3>1, <3>2, StayStep
  <2> QED BY <1>6, <2>2, <2>3 DEF JoinTeam
<1>7. ASSUME NEW w \in Workers, LeaveTeam(w) PROVE NoDanglingTeam'
  <2>1. Teams' = Teams
    BY <1>7 DEF LeaveTeam, Teams
  <2>2. CASE part' = part
    BY <2>1, <2>2, StayStep
  <2>3. CASE /\ req[w].entrant \in Entrants
             /\ part' = [part EXCEPT ![req[w].entrant].team = NULL]
    <3> DEFINE x == req[w].entrant
    <3>1. part[x] \in Row /\ part[x] # NULL
      BY <1>0, <2>3 DEF Entrants
    <3>2. [part[x] EXCEPT !.team = NULL].team = NULL
      BY <3>1 DEF Row
    <3> QED BY <1>0, <2>1, <2>3, <3>1, <3>2, StayStep
  <2> QED BY <1>7, <2>2, <2>3 DEF LeaveTeam
<1>8. ASSUME NEW t \in TeamIds, DeleteTeam(t) PROVE NoDanglingTeam'
  <2> SUFFICES ASSUME NEW e \in Enrols, part'[e] # NULL, part'[e].team # NULL
               PROVE  part'[e].team \in Teams'
    BY DEF NoDanglingTeam, Entrants
  <2>1. CASE e \in Roster(t)
    <3>1. part[e] \in Row
      BY <1>0, <2>1 DEF Roster, Entrants
    <3>2. part'[e].team = NULL
      BY <1>8, <2>1, <3>1 DEF DeleteTeam, Row
    <3> QED BY <3>2
  <2>2. CASE e \notin Roster(t)
    <3>1. part'[e] = part[e]
      BY <1>8, <2>2 DEF DeleteTeam
    <3>2. part[e].team \in Teams /\ part[e].team # t
      BY <2>2, <3>1 DEF NoDanglingTeam, Entrants, Roster
    <3> QED BY <1>0, <1>8, <3>1, <3>2 DEF DeleteTeam, Teams
  <2> QED BY <2>1, <2>2
<1>9. ASSUME NEW t \in TeamIds, NEW n \in TeamNames, NEW c \in Categories \cup {NULL},
             UpdateTeam(t, n, c)
      PROVE  NoDanglingTeam'
  <2>1. team[t] \in Team
    BY <1>0, <1>9 DEF UpdateTeam, Teams
  <2>2. team'[t] \in Team /\ \A u \in TeamIds \ {t} : team'[u] = team[u]
    BY <1>0, <1>9, <2>1 DEF UpdateTeam, Team
  <2>3. Teams \subseteq Teams'
    BY <2>2, DbAssumption DEF Teams
  <2> QED BY <1>9, <2>3, StayStep DEF UpdateTeam
<1>10. ASSUME NEW c \in Categories, DeleteCategory(c) PROVE NoDanglingTeam'
  <2>1. Teams \subseteq Teams'
    BY <1>0, <1>10, NoCategory, DbAssumption DEF DeleteCategory, Teams
  <2>2. ASSUME NEW x \in Enrols, part'[x] # NULL
        PROVE  part[x] # NULL /\ part'[x].team = part[x].team
    <3>1. CASE x \in Entrants /\ part[x].cat = c
      BY <1>0, <1>10, <3>1, NoCategory DEF DeleteCategory, Entrants
    <3>2. CASE ~ (x \in Entrants /\ part[x].cat = c)
      BY <1>10, <2>2, <3>2 DEF DeleteCategory
    <3> QED BY <3>1, <3>2
  <2> QED BY <2>1, <2>2, StayStep
<1>11. ASSUME NEW w \in Workers, RegistrationStep(w) PROVE NoDanglingTeam'
  BY <1>1, <1>2, <1>3, <1>11 DEF RegistrationStep, Register, CheckCap, CheckSport,
     CheckTeam, CheckSeats, CheckDuplicate, LoadEntrant, tables
<1>12. ASSUME NEW w \in Workers, RosterStep(w) PROVE NoDanglingTeam'
  BY <1>1, <1>5, <1>6, <1>7, <1>12 DEF RosterStep, CreateTeam, CountTeams, CheckTeamName,
     AddMember, RemoveMember, CountMembers, MatchMember, tables
<1>13. ASSUME NEW w \in Workers, Abandon(w) PROVE NoDanglingTeam'
  BY <1>1, <1>13 DEF Abandon, Reject, tables
<1> QED
  BY <1>1, <1>4, <1>8, <1>9, <1>10, <1>11, <1>12, <1>13 DEF Next, SwitchPhase, vars

\* Nobody is ever on a team that does not exist, whichever team is deleted while a
\* registration or an addition that was checked against it is on its way.
THEOREM NoTeamDangles == Spec => []NoDanglingTeam
<1>1. Init => NoDanglingTeam
  BY DEF Init, NoDanglingTeam, Entrants
<1> QED BY <1>1, NextNoDangling, Inductive, PTL DEF Spec

-----------------------------------------------------------------------------
(* The two limits of teams.                                                *)

\* The requests that passed create_team's quota, for one sport and organisation.
PastQuota(s, o) ==
  { w \in Workers : /\ req[w].at \in {"team_name", "team_insert"}
                    /\ req[w].form.sport = s /\ req[w].form.org = o }

\* Each of them may still add a team.
QuotaInv ==
  \A s \in Sports, o \in Orgs :
    Limit(s, "quota_teams_per_org") # NULL =>
      Cardinality(OwnTeams(s, o)) + Cardinality(PastQuota(s, o))
        <= Limit(s, "quota_teams_per_org") + Slack

-----------------------------------------------------------------------------
(* Counting.                                                               *)

LEMMA SlackIsNat == Slack \in Nat /\ Slack + 1 = Cardinality(Workers)
<1> DEFINE m == Cardinality(Workers)
<1>1. m \in Nat /\ m > 0
  BY Counted
<1> HIDE DEF m
<1>2. m - 1 \in Nat /\ (m - 1) + 1 = m
  BY <1>1
<1> QED BY <1>2 DEF Slack, m

\* Two sets that shrink leave room within a limit on both.
LEMMA Shrinking ==
  ASSUME NEW A, NEW B, NEW C, NEW D, NEW n \in Nat,
         IsFiniteSet(A), IsFiniteSet(B), C \subseteq A, D \subseteq B,
         Cardinality(A) + Cardinality(B) <= n
  PROVE  Cardinality(C) + Cardinality(D) <= n
<1> DEFINE a == Cardinality(A) b == Cardinality(B) c == Cardinality(C) d == Cardinality(D)
<1>1. a \in Nat /\ b \in Nat /\ c \in Nat /\ d \in Nat /\ c <= a /\ d <= b
  BY FS_Subset, FS_CardinalityType
<1>2. a + b <= n
  OBVIOUS
<1> HIDE DEF a, b, c, d
<1>3. c + d <= n
  BY <1>1, <1>2
<1> QED BY <1>3 DEF c, d

\* So does an element that comes into one of them for one that leaves the other.
LEMMA Moving ==
  ASSUME NEW A, NEW B, NEW C, NEW D, NEW n \in Nat, NEW x,
         IsFiniteSet(A), IsFiniteSet(B), C \subseteq A \cup {x}, D \subseteq B, D # B,
         Cardinality(A) + Cardinality(B) <= n
  PROVE  Cardinality(C) + Cardinality(D) <= n
<1>0. PICK w \in B : D \subseteq B \ {w}
  OBVIOUS
<1> DEFINE a == Cardinality(A) b == Cardinality(B)
           aa == Cardinality(A \cup {x}) bb == Cardinality(B \ {w})
<1>1. a \in Nat /\ b \in Nat
  BY FS_CardinalityType
<1>2. IsFiniteSet(A \cup {x}) /\ aa \in {a, a + 1}
  BY FS_AddElement
<1>3. IsFiniteSet(B \ {w}) /\ bb = b - 1
  BY FS_RemoveElement
<1>4. a + b <= n
  OBVIOUS
<1>5. bb \in Nat
  BY <1>3, FS_CardinalityType
<1> HIDE DEF a, b, aa, bb
<1>6. aa + bb <= n
  BY <1>1, <1>2, <1>3, <1>4, <1>5
<1> QED BY <1>0, <1>2, <1>3, <1>6, Shrinking DEF aa, bb

\* While a set is below a limit all workers together may add to it.
LEMMA Entering ==
  ASSUME NEW A, NEW C, NEW D, NEW n \in Nat, IsFiniteSet(A), C \subseteq A,
         D \subseteq Workers, Cardinality(A) < n
  PROVE  Cardinality(C) + Cardinality(D) <= n + Slack
<1> DEFINE a == Cardinality(A) c == Cardinality(C) d == Cardinality(D)
           m == Cardinality(Workers)
<1>1. a \in Nat /\ c \in Nat /\ c <= a
  BY FS_Subset, FS_CardinalityType
<1>2. d \in Nat /\ m \in Nat /\ d <= m
  BY Counted, FS_Subset, FS_CardinalityType
<1>3. a < n
  OBVIOUS
<1>4. Slack \in Nat /\ Slack + 1 = m
  BY SlackIsNat
<1> HIDE DEF a, c, d, m
<1>5. c + d <= n + Slack
  BY <1>1, <1>2, <1>3, <1>4
<1> QED BY <1>5 DEF c, d

LEMMA NumberOfTeams ==
  ASSUME NEW S, S \subseteq TeamIds
  PROVE  IsFiniteSet(S) /\ Cardinality(S) \in Nat
<1>1. IsFiniteSet(TeamIds)
  BY DbAssumption, FS_Interval DEF TeamIds
<1> QED BY <1>1, FS_Subset, FS_CardinalityType

LEMMA LimitType ==
  ASSUME NEW s \in Sports,
         NEW c \in {"team_size_max", "quota_athletes_per_org", "quota_teams_per_org"}
  PROVE  Limit(s, c) \in Nat \cup {NULL}
BY DbAssumption DEF Limit, Limits, Config

-----------------------------------------------------------------------------
(* The quota of teams.                                                     *)

\* A step that adds neither a team nor a request past the quota keeps it.
LEMMA QuotaKept ==
  ASSUME IInv, QuotaInv,
         \A t \in TeamIds : team'[t] # NULL =>
           /\ team[t] # NULL
           /\ team'[t].sport = team[t].sport /\ team'[t].org = team[t].org,
         \A v \in Workers : req'[v].at \in {"team_name", "team_insert"} =>
           /\ req[v].at \in {"team_name", "team_insert"}
           /\ req'[v].form = req[v].form
  PROVE  QuotaInv'
<1> SUFFICES ASSUME NEW s \in Sports, NEW o \in Orgs, Limit(s, "quota_teams_per_org") # NULL
             PROVE  Cardinality(OwnTeams(s, o)') + Cardinality(PastQuota(s, o)')
                      <= Limit(s, "quota_teams_per_org") + Slack
  BY DEF QuotaInv, Slack, Limit
<1> DEFINE n == Limit(s, "quota_teams_per_org") + Slack
<1>1. n \in Nat
  BY LimitType, SlackIsNat
<1>2. IsFiniteSet(OwnTeams(s, o)) /\ IsFiniteSet(PastQuota(s, o))
  BY NumberOfTeams, Counted, FS_Subset DEF OwnTeams, Teams, PastQuota
<1>3. OwnTeams(s, o)' \subseteq OwnTeams(s, o)
  BY DEF OwnTeams, Teams
<1>4. PastQuota(s, o)' \subseteq PastQuota(s, o)
  BY DEF PastQuota
<1>5. Cardinality(OwnTeams(s, o)) + Cardinality(PastQuota(s, o)) <= n
  BY DEF QuotaInv
<1> HIDE DEF n
<1>6. Cardinality(OwnTeams(s, o)') + Cardinality(PastQuota(s, o)') <= n
  BY <1>1, <1>2, <1>3, <1>4, <1>5, Shrinking
<1> QED BY <1>6 DEF n

LEMMA CountTeamsQuota ==
  ASSUME IInv, QuotaInv, NEW w \in Workers, CountTeams(w)
  PROVE  QuotaInv'
<1> DEFINE f == req[w].form
<1>1. /\ req \in [Workers -> Request] /\ req[w].at = "team_quota" /\ UNCHANGED tables
      /\ req[w] \in [at : {"team_quota", "team_name", "team_insert"}, form : TeamForms]
  BY RequestOf DEF CountTeams, IInv, TypeOK
<1>2. CASE Answer(w)
  <2>1. \A v \in Workers : req'[v] \in {req[v], Idle}
    BY <1>1, <1>2 DEF Answer
  <2> QED BY <1>1, <2>1, QuotaKept DEF tables, Idle
<1>3. CASE /\ Continue(w, "team_name")
           /\ ~ Reached(Limit(f.sport, "quota_teams_per_org"),
                        Cardinality(OwnTeams(f.sport, f.org)))
  <2> SUFFICES ASSUME NEW s \in Sports, NEW o \in Orgs, Limit(s, "quota_teams_per_org") # NULL
               PROVE  Cardinality(OwnTeams(s, o)') + Cardinality(PastQuota(s, o)')
                        <= Limit(s, "quota_teams_per_org") + Slack
    BY DEF QuotaInv, Slack, Limit
  <2> DEFINE q == Limit(s, "quota_teams_per_org")
  <2>1. q \in Nat /\ q + Slack \in Nat
    BY LimitType, SlackIsNat
  <2>2. IsFiniteSet(OwnTeams(s, o)) /\ Cardinality(OwnTeams(s, o)) \in Nat
        /\ IsFiniteSet(PastQuota(s, o))
    BY NumberOfTeams, Counted, FS_Subset DEF OwnTeams, Teams, PastQuota
  <2>3. OwnTeams(s, o)' = OwnTeams(s, o) /\ PastQuota(s, o)' \subseteq Workers
    BY <1>1 DEF OwnTeams, Teams, PastQuota, tables
  <2>4. CASE f.sport = s /\ f.org = o
    <3>1. Cardinality(OwnTeams(s, o)) < q
      BY <1>3, <2>1, <2>2, <2>4 DEF Reached
    <3> HIDE DEF q
    <3>2. Cardinality(OwnTeams(s, o)') + Cardinality(PastQuota(s, o)') <= q + Slack
      BY <2>1, <2>2, <2>3, <3>1, Entering
    <3> QED BY <3>2 DEF q
  <2>5. CASE ~ (f.sport = s /\ f.org = o)
    <3>1. PastQuota(s, o)' \subseteq PastQuota(s, o)
      BY <1>1, <1>3, <2>5 DEF PastQuota, Continue
    <3>2. Cardinality(OwnTeams(s, o)) + Cardinality(PastQuota(s, o)) <= q + Slack
      BY DEF QuotaInv
    <3> HIDE DEF q
    <3>3. Cardinality(OwnTeams(s, o)') + Cardinality(PastQuota(s, o)') <= q + Slack
      BY <2>1, <2>2, <2>3, <3>1, <3>2, Shrinking
    <3> QED BY <3>3 DEF q
  <2> QED BY <2>4, <2>5
<1> QED BY <1>2, <1>3 DEF CountTeams

LEMMA InsertTeamQuota ==
  ASSUME IInv, QuotaInv, NEW w \in Workers, InsertTeam(w)
  PROVE  QuotaInv'
<1> DEFINE f == req[w].form
<1>1. /\ req \in [Workers -> Request] /\ req[w].at = "team_insert" /\ nextTeam \in TeamIds
      /\ req[w] \in [at : {"team_quota", "team_name", "team_insert"}, form : TeamForms]
      /\ team \in [TeamIds -> Team \cup {NULL}]
  BY RequestOf DEF InsertTeam, IInv, TypeOK
<1>2. req'[w] = Idle /\ \A v \in Workers \ {w} : req'[v] = req[v]
  BY <1>1 DEF InsertTeam, Answer
<1>3. CASE team' = team
  BY <1>2, <1>3, QuotaKept DEF Idle
<1>4. CASE team' = [team EXCEPT ![nextTeam] = f]
  <2> SUFFICES ASSUME NEW s \in Sports, NEW o \in Orgs, Limit(s, "quota_teams_per_org") # NULL
               PROVE  Cardinality(OwnTeams(s, o)') + Cardinality(PastQuota(s, o)')
                        <= Limit(s, "quota_teams_per_org") + Slack
    BY DEF QuotaInv, Slack, Limit
  <2> DEFINE n == Limit(s, "quota_teams_per_org") + Slack
  <2>1. n \in Nat
    BY LimitType, SlackIsNat
  <2>2. IsFiniteSet(OwnTeams(s, o)) /\ IsFiniteSet(PastQuota(s, o))
    BY NumberOfTeams, Counted, FS_Subset DEF OwnTeams, Teams, PastQuota
  <2>3. Cardinality(OwnTeams(s, o)) + Cardinality(PastQuota(s, o)) <= n
    BY DEF QuotaInv
  <2>4. /\ team'[nextTeam] = f
        /\ \A t \in TeamIds : t # nextTeam => team'[t] = team[t]
    BY <1>1, <1>4
  <2> HIDE DEF n
  <2>5. CASE f.sport = s /\ f.org = o
    <3>1. OwnTeams(s, o)' \subseteq OwnTeams(s, o) \cup {nextTeam}
      BY <2>4 DEF OwnTeams, Teams
    <3>2. PastQuota(s, o)' \subseteq PastQuota(s, o) /\ PastQuota(s, o)' # PastQuota(s, o)
      BY <1>1, <1>2, <2>5 DEF PastQuota, Idle
    <3>3. Cardinality(OwnTeams(s, o)') + Cardinality(PastQuota(s, o)') <= n
      BY <2>1, <2>2, <2>3, <3>1, <3>2, Moving
    <3> QED BY <3>3 DEF n
  <2>6. CASE ~ (f.sport = s /\ f.org = o)
    <3>1. OwnTeams(s, o)' \subseteq OwnTeams(s, o)
      BY <2>4, <2>6 DEF OwnTeams, Teams
    <3>2. PastQuota(s, o)' \subseteq PastQuota(s, o)
      BY <1>2 DEF PastQuota, Idle
    <3>3. Cardinality(OwnTeams(s, o)') + Cardinality(PastQuota(s, o)') <= n
      BY <2>1, <2>2, <2>3, <3>1, <3>2, Shrinking
    <3> QED BY <3>3 DEF n
  <2> QED BY <2>5, <2>6
<1> QED BY <1>3, <1>4 DEF InsertTeam

\* Of the other steps none makes a team or gives one to another sport or
\* organisation.
LEMMA TeamsStay ==
  ASSUME IInv, [Next]_vars
  PROVE  \/ \E w \in Workers : InsertTeam(w)
         \/ \A t \in TeamIds : team'[t] # NULL =>
              /\ team[t] # NULL
              /\ team'[t].sport = team[t].sport /\ team'[t].org = team[t].org
<1> DEFINE Stay == \A t \in TeamIds : team'[t] # NULL =>
                     /\ team[t] # NULL
                     /\ team'[t].sport = team[t].sport /\ team'[t].org = team[t].org
<1>0. team \in [TeamIds -> Team \cup {NULL}]
  BY DEF IInv, TypeOK
<1>1. CASE team' = team
  BY <1>1
<1>2. ASSUME NEW t \in TeamIds, DeleteTeam(t) PROVE Stay
  BY <1>0, <1>2 DEF DeleteTeam
<1>3. ASSUME NEW t \in TeamIds, NEW n \in TeamNames, NEW c \in Categories \cup {NULL},
             UpdateTeam(t, n, c)
      PROVE  Stay
  <2>1. team[t] \in Team /\ team[t] # NULL
    BY <1>0, <1>3 DEF UpdateTeam, Teams
  <2>2. [team[t] EXCEPT !.name = n, !.category = c].sport = team[t].sport
    BY <2>1 DEF Team
  <2>3. [team[t] EXCEPT !.name = n, !.category = c].org = team[t].org
    BY <2>1 DEF Team
  <2>4. team'[t].sport = team[t].sport /\ team'[t].org = team[t].org
    BY <1>0, <1>3, <2>1, <2>2, <2>3 DEF UpdateTeam, Team
  <2>5. \A u \in TeamIds \ {t} : team'[u] = team[u]
    BY <1>0, <1>3 DEF UpdateTeam
  <2> QED BY <2>1, <2>4, <2>5
<1>4. ASSUME NEW c \in Categories, DeleteCategory(c) PROVE Stay
  <2> SUFFICES ASSUME NEW t \in TeamIds, team'[t] # NULL
               PROVE  /\ team[t] # NULL
                      /\ team'[t].sport = team[t].sport /\ team'[t].org = team[t].org
    OBVIOUS
  <2>1. CASE t \in Teams /\ team[t].category = c
    <3>1. team'[t] = [team[t] EXCEPT !.category = NULL]
      BY <1>4, <2>1 DEF DeleteCategory
    <3> QED BY <1>0, <2>1, <3>1 DEF Teams, Team
  <2>2. CASE ~ (t \in Teams /\ team[t].category = c)
    BY <1>4, <2>2 DEF DeleteCategory
  <2> QED BY <2>1, <2>2
<1>5. ASSUME NEW w \in Workers, RegistrationStep(w) PROVE team' = team
  BY <1>5 DEF RegistrationStep, Register, CheckCap, CheckSport, CheckTeam, CheckSeats,
     CheckDuplicate, InsertEntrant, LoadEntrant, UpdateEntrant, tables
<1>6. ASSUME NEW w \in Workers, RosterStep(w) PROVE team' = team \/ InsertTeam(w)
  BY <1>6 DEF RosterStep, CreateTeam, CountTeams, CheckTeamName, AddMember, RemoveMember,
     CountMembers, MatchMember, JoinTeam, LeaveTeam, tables
<1>7. ASSUME NEW w \in Workers, Abandon(w) PROVE team' = team
  BY <1>7 DEF Abandon, Reject, tables
<1>8. ASSUME NEW e \in Enrols, DeleteEntrant(e) PROVE team' = team
  BY <1>8 DEF DeleteEntrant
<1> QED
  BY <1>1, <1>2, <1>3, <1>4, <1>5, <1>6, <1>7, <1>8 DEF Next, SwitchPhase, vars

\* Of the steps that count no teams none brings a request past the quota.
LEMMA RequestsStay ==
  ASSUME IInv, [Next]_vars
  PROVE  \/ \E w \in Workers : CountTeams(w)
         \/ \A v \in Workers : req'[v].at \in {"team_name", "team_insert"} =>
              /\ req[v].at \in {"team_name", "team_insert"}
              /\ req'[v].form = req[v].form
<1> DEFINE Stay == \A v \in Workers : req'[v].at \in {"team_name", "team_insert"} =>
                     /\ req[v].at \in {"team_name", "team_insert"}
                     /\ req'[v].form = req[v].form
<1>0. req \in [Workers -> Request]
  BY DEF IInv, TypeOK
<1>1. CASE req' = req
  BY <1>1
<1>2. ASSUME NEW w \in Workers, Answer(w) PROVE Stay
  BY <1>0, <1>2 DEF Answer, Idle
<1>3. ASSUME NEW w \in Workers, NEW p, Continue(w, p), p \notin {"team_name", "team_insert"}
      PROVE  Stay
  <2>1. req'[w].at = p /\ \A v \in Workers \ {w} : req'[v] = req[v]
    <3>1. req[w] \in Request
      BY <1>0
    <3>2. [req[w] EXCEPT !.at = p].at = p
      BY <3>1 DEF Request, Idle, RegisterPoints
    <3> QED BY <1>0, <1>3, <3>2 DEF Continue
  <2> QED BY <1>3, <2>1
<1>4. ASSUME NEW w \in Workers, NEW r, req' = [req EXCEPT ![w] = r],
             r.at \notin {"team_name", "team_insert"}
      PROVE  Stay
  BY <1>0, <1>4
<1>5. ASSUME NEW w \in Workers, RegistrationStep(w) PROVE Stay
  <2>1. ASSUME NEW f \in Forms, Register(w, f) PROVE Stay
    BY <1>4, <2>1 DEF Register
  <2>2. ASSUME NEW e \in Enrols, NEW ch \in Changes, LoadEntrant(w, e, ch) PROVE Stay
    BY <1>4, <2>2 DEF LoadEntrant
  <2>3. CASE CheckSport(w)
    BY <1>2, <1>3, <2>3 DEF CheckSport
  <2> QED BY <1>2, <1>3, <1>5, <2>1, <2>2, <2>3 DEF RegistrationStep, CheckCap, CheckTeam,
        CheckSeats, CheckDuplicate, InsertEntrant, UpdateEntrant
<1>6. ASSUME NEW w \in Workers, CheckTeamName(w) PROVE Stay
  <2>1. req[w].at = "team_name" /\ (Answer(w) \/ Continue(w, "team_insert"))
    BY <1>6 DEF CheckTeamName
  <2>2. req[w] \in [at : {"team_quota", "team_name", "team_insert"}, form : TeamForms]
    BY <1>0, <2>1, RequestOf
  <2>3. CASE Continue(w, "team_insert")
    <3>1. req'[w].form = req[w].form /\ \A v \in Workers \ {w} : req'[v] = req[v]
      BY <1>0, <2>2, <2>3 DEF Continue
    <3> QED BY <2>1, <3>1
  <2> QED BY <1>2, <2>1, <2>3
<1>7. ASSUME NEW w \in Workers, RosterStep(w) PROVE Stay \/ CountTeams(w)
  <2>1. ASSUME NEW f \in TeamForms, CreateTeam(w, f) PROVE Stay
    BY <1>4, <2>1 DEF CreateTeam
  <2>2. ASSUME NEW t \in TeamIds, NEW e \in Enrols, AddMember(w, t, e) \/ RemoveMember(w, t, e)
        PROVE  Stay
    BY <1>4, <2>2 DEF AddMember, RemoveMember
  <2>3. ASSUME CountMembers(w) \/ MatchMember(w) PROVE Stay
    BY <1>2, <1>3, <2>3 DEF CountMembers, MatchMember
  <2>4. ASSUME InsertTeam(w) \/ JoinTeam(w) \/ LeaveTeam(w) PROVE Stay
    BY <1>2, <2>4 DEF InsertTeam, JoinTeam, LeaveTeam
  <2> QED BY <1>6, <1>7, <2>1, <2>2, <2>3, <2>4 DEF RosterStep
<1>8. ASSUME NEW w \in Workers, Abandon(w) PROVE Stay
  BY <1>2, <1>8 DEF Abandon, Reject
<1> HIDE DEF Stay
<1> QED
  <2>1. CASE \E w \in Workers : RegistrationStep(w) \/ RosterStep(w) \/ Abandon(w)
    BY <1>5, <1>7, <1>8, <2>1 DEF Stay
  <2>2. CASE ~ \E w \in Workers : RegistrationStep(w) \/ RosterStep(w) \/ Abandon(w)
    <3>1. req' = req
      BY <2>2 DEF Next, DeleteEntrant, DeleteTeam, UpdateTeam, DeleteCategory, SwitchPhase, vars
    <3> QED BY <1>1, <3>1 DEF Stay
  <2> QED BY <2>1, <2>2

LEMMA NextQuota == IInv /\ QuotaInv /\ [Next]_vars => QuotaInv'
<1> SUFFICES ASSUME IInv, QuotaInv, [Next]_vars PROVE QuotaInv'
  OBVIOUS
<1> QED BY CountTeamsQuota, InsertTeamQuota, TeamsStay, RequestsStay, QuotaKept

\* An organisation's teams in a sport exceed the quota by at most the requests that
\* counted at the same time, whatever is renamed, deleted or abandoned meanwhile.
THEOREM TeamQuotaHolds == Spec => []TeamQuotaOvershootBounded
<1>1. Init => QuotaInv
  <2> SUFFICES ASSUME Init, NEW s \in Sports, NEW o \in Orgs,
                      Limit(s, "quota_teams_per_org") # NULL
               PROVE  Cardinality(OwnTeams(s, o)) + Cardinality(PastQuota(s, o))
                        <= Limit(s, "quota_teams_per_org") + Slack
    BY DEF QuotaInv
  <2>1. OwnTeams(s, o) = {} /\ PastQuota(s, o) = {}
    BY DEF Init, OwnTeams, Teams, PastQuota, Idle
  <2>2. Limit(s, "quota_teams_per_org") \in Nat
    BY LimitType
  <2> QED BY <2>1, <2>2, SlackIsNat, FS_EmptySet
<1>2. QuotaInv => TeamQuotaOvershootBounded
  <2> SUFFICES ASSUME QuotaInv, NEW s \in Sports, NEW o \in Orgs,
                      Limit(s, "quota_teams_per_org") # NULL
               PROVE  Cardinality(OwnTeams(s, o)) <= Limit(s, "quota_teams_per_org") + Slack
    BY DEF TeamQuotaOvershootBounded
  <2> DEFINE a == Cardinality(OwnTeams(s, o)) b == Cardinality(PastQuota(s, o))
             n == Limit(s, "quota_teams_per_org") + Slack
  <2>1. a \in Nat /\ b \in Nat /\ n \in Nat
    <3>1. n \in Nat
      BY LimitType, SlackIsNat
    <3>2. IsFiniteSet(PastQuota(s, o))
      BY Counted, FS_Subset DEF PastQuota
    <3> HIDE DEF n
    <3> QED BY <3>1, <3>2, NumberOfTeams, FS_CardinalityType DEF OwnTeams, Teams
  <2>2. a + b <= n
    BY DEF QuotaInv
  <2> HIDE DEF a, b, n
  <2>3. a <= n
    BY <2>1, <2>2
  <2> QED BY <2>3 DEF a, n
<1> QED BY <1>1, <1>2, NextQuota, Inductive, PTL DEF Spec

-----------------------------------------------------------------------------
(* What requests hold of teams.                                            *)

\* Of request r, when the teams are tm and the next id is n: the team it holds is
\* none of those to come, and as long as it is there it is of the sport r has
\* read or was sent for.  A registration that names a team is counted against a
\* category of its own sport.
HeldOk(r, tm, n) ==
  /\ r.at \in {"count", "match", "join"} =>
       r.team < n /\ (tm[r.team] # NULL => tm[r.team].sport = r.loaded.sport)
  /\ r.at \in {"team", "seats"} =>
       /\ r.form.role = "athlete" /\ r.form.team # NULL
       /\ r.form.cat \in Categories /\ CategoryRow[r.form.cat].sport = r.form.sport
  /\ r.at = "seats" =>
       r.form.team < n /\ (tm[r.form.team] # NULL => tm[r.form.team].sport = r.form.sport)
  /\ r.at \in {"duplicate", "insert"} /\ r.form.role = "athlete" /\ r.form.team # NULL =>
       r.form.team < n

\* Team ids are taken in order, and not used again.
HeldInv ==
  /\ \A t \in TeamIds : t >= nextTeam => team[t] = NULL
  /\ \A w \in Workers : HeldOk(req[w], team, nextTeam)

LEMMA HeldStays ==
  ASSUME IInv, NEW r \in Request, HeldOk(r, team, nextTeam),
         nextTeam' \in {nextTeam, nextTeam + 1},
         \A t \in TeamIds : team'[t] # NULL /\ t < nextTeam =>
           team[t] # NULL /\ team'[t].sport = team[t].sport
  PROVE  HeldOk(r, team', nextTeam')
<1>1. nextTeam \in Nat /\ nextTeam' \in Nat /\ nextTeam <= nextTeam'
  BY DEF IInv, TypeOK
<1>2. \A t \in TeamIds : t \in Nat
  BY DbAssumption DEF TeamIds
<1>3. CASE r.at \in {"count", "match", "join"}
  <2>1. r.team \in TeamIds
    BY <1>3, RequestOf
  <2> QED BY <1>1, <1>2, <1>3, <2>1 DEF HeldOk
<1>4. CASE r.at \in RegisterPoints
  <2>1. r.form \in Forms
    BY <1>4, RequestOf
  <2>2. r.form.team \in TeamIds \cup {NULL}
    BY <2>1, DbAssumption
  <2> QED BY <1>1, <1>2, <1>4, <2>2 DEF HeldOk, RegisterPoints
<1> QED BY <1>3, <1>4 DEF HeldOk, RegisterPoints

\* The request of w becomes r, and no team changes.
LEMMA HeldGoesOn ==
  ASSUME IInv, HeldInv, NEW w \in Workers, NEW r, req' = [req EXCEPT ![w] = r],
         team' = team, nextTeam' = nextTeam, HeldOk(r, team, nextTeam)
  PROVE  HeldInv'
BY DEF HeldInv, IInv, TypeOK

LEMMA HeldContinues ==
  ASSUME IInv, HeldInv, NEW w \in Workers, NEW p, Continue(w, p), UNCHANGED tables,
         HeldOk([req[w] EXCEPT !.at = p], team, nextTeam)
  PROVE  HeldInv'
<1>1. req' = [req EXCEPT ![w] = [req[w] EXCEPT !.at = p]]
  BY DEF Continue, IInv, TypeOK
<1> QED BY <1>1, HeldGoesOn DEF tables

LEMMA HeldAnswered ==
  ASSUME IInv, HeldInv, NEW w \in Workers, Answer(w), team' = team, nextTeam' = nextTeam
  PROVE  HeldInv'
<1>1. HeldOk(Idle, team, nextTeam)
  BY DEF HeldOk, Idle
<1> QED BY <1>1, HeldGoesOn DEF Answer

\* A request past the start of a registration goes on to point p.
LEMMA Onwards ==
  ASSUME IInv, NEW w \in Workers, req[w].at \in RegisterPoints, NEW p
  PROVE  /\ [req[w] EXCEPT !.at = p].at = p
         /\ [req[w] EXCEPT !.at = p].form = req[w].form
         /\ req[w].form \in Forms
         /\ req[w].form.team \in TeamIds \cup {NULL}
<1>1. req[w] \in [at : RegisterPoints, form : Forms]
  BY RequestOf DEF IInv, TypeOK
<1> QED BY <1>1, DbAssumption

LEMMA RegistrationHeld ==
  ASSUME IInv, HeldInv, NEW w \in Workers, RegistrationStep(w)
  PROVE  HeldInv'
<1>0. HeldOk(req[w], team, nextTeam)
  BY DEF HeldInv
<1>1. ASSUME NEW f \in Forms, Register(w, f) PROVE HeldInv'
  <2>1. HeldOk([at |-> "cap", form |-> f], team, nextTeam)
    BY DEF HeldOk
  <2> QED BY <1>1, <2>1, HeldGoesOn DEF Register, tables
<1>2. CASE CheckCap(w)
  <2>1. HeldOk([req[w] EXCEPT !.at = "sport"], team, nextTeam)
    BY <1>2, Onwards DEF HeldOk, CheckCap, RegisterPoints
  <2> QED BY <1>2, <2>1, HeldContinues, HeldAnswered DEF CheckCap, tables
<1>3. CASE CheckSport(w)
  <2> DEFINE f == req[w].form
  <2>1. req[w].at \in RegisterPoints
    BY <1>3 DEF CheckSport, RegisterPoints
  <2>2. CASE Answer(w)
    BY <1>3, <2>2, HeldAnswered DEF CheckSport, tables
  <2>3. CASE /\ Continue(w, "team") /\ f.role = "athlete" /\ f.team # NULL
             /\ CategoryFits(f)
    <3>1. HeldOk([req[w] EXCEPT !.at = "team"], team, nextTeam)
      BY <2>1, <2>3, Onwards DEF HeldOk, CategoryFits, IInv, TypeOK
    <3> QED BY <1>3, <2>3, <3>1, HeldContinues DEF CheckSport
  <2>4. CASE Continue(w, "duplicate") /\ ~ (f.role = "athlete" /\ f.team # NULL)
    <3>1. HeldOk([req[w] EXCEPT !.at = "duplicate"], team, nextTeam)
      BY <2>1, <2>4, Onwards DEF HeldOk
    <3> QED BY <1>3, <2>4, <3>1, HeldContinues DEF CheckSport
  <2> QED BY <1>3, <2>2, <2>3, <2>4 DEF CheckSport
<1>4. CASE CheckTeam(w)
  <2>1. req[w].at = "team" /\ req[w].at \in RegisterPoints
    BY <1>4 DEF CheckTeam, RegisterPoints
  <2>2. CASE Continue(w, "seats") /\ OwnTeam(req[w].form)
    <3>1. req[w].form.team < nextTeam
      <4>1. req[w].form.team \in TeamIds /\ team[req[w].form.team] # NULL
        BY <2>2 DEF OwnTeam, Teams
      <4>2. \A t \in TeamIds : t \in Nat
        BY DbAssumption DEF TeamIds
      <4>3. nextTeam \in Nat
        BY DEF IInv, TypeOK
      <4> QED BY <4>1, <4>2, <4>3 DEF HeldInv
    <3>2. HeldOk([req[w] EXCEPT !.at = "seats"], team, nextTeam)
      BY <1>0, <2>1, <2>2, <3>1, Onwards DEF HeldOk, OwnTeam
    <3> QED BY <1>4, <2>2, <3>2, HeldContinues DEF CheckTeam
  <2> QED BY <1>4, <2>2, HeldAnswered DEF CheckTeam, tables
<1>5. CASE CheckSeats(w)
  <2>1. HeldOk([req[w] EXCEPT !.at = "duplicate"], team, nextTeam)
    BY <1>0, <1>5, Onwards DEF HeldOk, CheckSeats, RegisterPoints
  <2> QED BY <1>5, <2>1, HeldContinues, HeldAnswered DEF CheckSeats, tables
<1>6. CASE CheckDuplicate(w)
  <2>1. HeldOk([req[w] EXCEPT !.at = "insert"], team, nextTeam)
    BY <1>0, <1>6, Onwards DEF HeldOk, CheckDuplicate, RegisterPoints
  <2> QED BY <1>6, <2>1, HeldContinues, HeldAnswered DEF CheckDuplicate, tables
<1>7. CASE InsertEntrant(w) \/ UpdateEntrant(w)
  BY <1>7, HeldAnswered DEF InsertEntrant, UpdateEntrant
<1>8. ASSUME NEW e \in Enrols, NEW ch \in Changes, LoadEntrant(w, e, ch) PROVE HeldInv'
  <2>1. HeldOk([at |-> "update", entrant |-> e, loaded |-> part[e], change |-> ch],
               team, nextTeam)
    BY DEF HeldOk
  <2> QED BY <1>8, <2>1, HeldGoesOn DEF LoadEntrant, tables
<1> QED BY <1>1, <1>2, <1>3, <1>4, <1>5, <1>6, <1>7, <1>8 DEF RegistrationStep

LEMMA RosterHeld ==
  ASSUME IInv, HeldInv, NEW w \in Workers, RosterStep(w)
  PROVE  HeldInv'
<1>0. HeldOk(req[w], team, nextTeam) /\ req[w] \in Request
  BY DEF HeldInv, IInv, TypeOK
<1>1. ASSUME NEW f \in TeamForms, CreateTeam(w, f) PROVE HeldInv'
  <2>1. HeldOk([at |-> "team_quota", form |-> f], team, nextTeam)
    BY DEF HeldOk
  <2> QED BY <1>1, <2>1, HeldGoesOn DEF CreateTeam, tables
<1>2. ASSUME NEW p \in {"team_name", "team_insert"}, Continue(w, p), UNCHANGED tables,
             req[w].at \in {"team_quota", "team_name"}
      PROVE  HeldInv'
  <2>1. req[w] \in [at : {"team_quota", "team_name", "team_insert"}, form : TeamForms]
    BY <1>0, <1>2, RequestOf
  <2>2. HeldOk([req[w] EXCEPT !.at = p], team, nextTeam)
    BY <2>1 DEF HeldOk
  <2> QED BY <1>2, <2>2, HeldContinues
<1>3. CASE CountTeams(w) \/ CheckTeamName(w)
  BY <1>2, <1>3, HeldAnswered DEF CountTeams, CheckTeamName, tables
<1>4. CASE InsertTeam(w)
  <2>1. /\ nextTeam \in TeamIds /\ nextTeam \in Nat
        /\ req \in [Workers -> Request] /\ team \in [TeamIds -> Team \cup {NULL}]
        /\ nextTeam' \in {nextTeam, nextTeam + 1}
    BY <1>4 DEF InsertTeam, IInv, TypeOK
  <2>2. \A t \in TeamIds : t \in Nat
    BY DbAssumption DEF TeamIds
  <2>3. CASE UNCHANGED <<team, nextTeam>>
    BY <1>4, <2>3, HeldAnswered DEF InsertTeam
  <2>4. CASE team' = [team EXCEPT ![nextTeam] = req[w].form] /\ nextTeam' = nextTeam + 1
    <3>1. \A t \in TeamIds : t < nextTeam => team'[t] = team[t]
      BY <2>1, <2>2, <2>4
    <3>2. \A v \in Workers : req'[v] \in {req[v], Idle}
      BY <1>4, <2>1 DEF InsertTeam, Answer
    <3>3. HeldOk(Idle, team', nextTeam')
      BY DEF HeldOk, Idle
    <3>4. \A v \in Workers : HeldOk(req[v], team', nextTeam')
      BY <2>1, <3>1, HeldStays DEF HeldInv
    <3>5. \A t \in TeamIds : t >= nextTeam' => team'[t] = NULL
      <4> SUFFICES ASSUME NEW t \in TeamIds, t >= nextTeam + 1 PROVE team'[t] = NULL
        BY <2>4
      <4>1. t # nextTeam /\ t >= nextTeam
        BY <2>1, <2>2
      <4> QED BY <2>4, <2>1, <4>1 DEF HeldInv
    <3> QED BY <3>2, <3>3, <3>4, <3>5 DEF HeldInv
  <2> QED BY <1>4, <2>3, <2>4 DEF InsertTeam
<1>5. ASSUME NEW t \in TeamIds, NEW e \in Enrols, AddMember(w, t, e) PROVE HeldInv'
  <2> DEFINE r == [at |-> "count", entrant |-> e, team |-> t, loaded |-> team[t]]
  <2>1. t < nextTeam
    <3>1. t \in Nat /\ nextTeam \in Nat /\ team[t] # NULL
      BY <1>5, DbAssumption DEF TeamIds, IInv, TypeOK, AddMember, Teams
    <3> QED BY <3>1 DEF HeldInv
  <2>2. HeldOk(r, team, nextTeam)
    BY <2>1 DEF HeldOk
  <2> QED BY <1>5, <2>2, HeldGoesOn DEF AddMember, tables
<1>6. ASSUME NEW t \in TeamIds, NEW e \in Enrols, RemoveMember(w, t, e) PROVE HeldInv'
  <2>1. HeldOk([at |-> "leave", entrant |-> e], team, nextTeam)
    BY DEF HeldOk
  <2> QED BY <1>6, <2>1, HeldGoesOn DEF RemoveMember, tables
<1>7. CASE CountMembers(w) \/ MatchMember(w)
  <2>1. req[w].at \in {"count", "match"}
    BY <1>7 DEF CountMembers, MatchMember
  <2>2. req[w] \in [at : {"count", "match", "join"}, entrant : Enrols, team : TeamIds,
                    loaded : Team]
    BY <1>0, <2>1, RequestOf
  <2>3. \A p \in {"match", "join"} : HeldOk([req[w] EXCEPT !.at = p], team, nextTeam)
    BY <1>0, <2>1, <2>2 DEF HeldOk
  <2> QED BY <1>7, <2>3, HeldContinues, HeldAnswered DEF CountMembers, MatchMember, tables
<1>8. CASE JoinTeam(w) \/ LeaveTeam(w)
  BY <1>8, HeldAnswered DEF JoinTeam, LeaveTeam
<1> QED BY <1>1, <1>3, <1>4, <1>5, <1>6, <1>7, <1>8 DEF RosterStep

LEMMA NextHeld == IInv /\ HeldInv /\ [Next]_vars => HeldInv'
<1> SUFFICES ASSUME IInv, HeldInv, [Next]_vars PROVE HeldInv'
  OBVIOUS
<1>1. ASSUME NEW w \in Workers, Abandon(w) PROVE HeldInv'
  BY <1>1, HeldAnswered DEF Abandon, Reject, tables
<1>2. ASSUME req' = req, nextTeam' = nextTeam,
             \A t \in TeamIds : team'[t] # NULL => team[t] # NULL /\ team'[t].sport = team[t].sport
      PROVE  HeldInv'
  <2>1. \A v \in Workers : req[v] \in Request
    BY DEF IInv, TypeOK
  <2>2. \A v \in Workers : HeldOk(req[v], team', nextTeam')
    BY <1>2, <2>1, HeldStays DEF HeldInv
  <2> QED BY <1>2, <2>2 DEF HeldInv
<1>3. CASE \E w \in Workers : RegistrationStep(w) \/ RosterStep(w) \/ Abandon(w)
  BY <1>1, <1>3, RegistrationHeld, RosterHeld
<1>4. CASE ~ \E w \in Workers : RegistrationStep(w) \/ RosterStep(w) \/ Abandon(w)
  <2>1. req' = req /\ nextTeam' = nextTeam
    BY <1>4 DEF Next, DeleteEntrant, DeleteTeam, UpdateTeam, DeleteCategory, SwitchPhase, vars
  <2>2. ~ \E w \in Workers : InsertTeam(w)
    BY <1>4 DEF RosterStep
  <2> QED BY <1>2, <2>1, <2>2, TeamsStay
<1> QED BY <1>3, <1>4

-----------------------------------------------------------------------------
(* The seats of a roster.                                                  *)

\* The requests that counted the members of team t and may still put one on it.
PastSeats(t) ==
  { w \in Workers :
      \/ req[w].at \in {"match", "join"} /\ req[w].team = t
      \/ /\ req[w].at \in {"duplicate", "insert"}
         /\ req[w].form.role = "athlete" /\ req[w].form.team = t }

\* Every m that no limit of the team exceeds bounds its members and those requests.
SeatsAtMost(t, m) == \A seats \in SeatLimits(t) : seats \in Nat /\ seats <= m
RosterInv ==
  \A t \in Teams, m \in Nat :
    SeatsAtMost(t, m) => Cardinality(Roster(t)) + Cardinality(PastSeats(t)) <= m + Slack

LEMMA FiniteRoster ==
  ASSUME NEW t
  PROVE  /\ IsFiniteSet(Roster(t)) /\ Cardinality(Roster(t)) \in Nat
         /\ IsFiniteSet(PastSeats(t)) /\ Cardinality(PastSeats(t)) \in Nat
BY Counted, FS_Subset, FS_CardinalityType DEF Roster, PastSeats

\* A team that stays keeps its limits.
LEMMA LimitsStay ==
  ASSUME NEW t, team'[t].sport = team[t].sport
  PROVE  \A m \in Nat : SeatsAtMost(t, m)' <=> SeatsAtMost(t, m)
BY DEF SeatsAtMost, SeatLimits, Limit

\* The invariant, for one team after a step.
RosterOf(t) ==
  \A m \in Nat :
    SeatsAtMost(t, m) => Cardinality(Roster(t)) + Cardinality(PastSeats(t)) <= m + Slack

\* Nobody joins the team, and no request comes closer to it.
LEMMA RosterKept ==
  ASSUME RosterInv, NEW t \in Teams, team'[t].sport = team[t].sport,
         Roster(t)' \subseteq Roster(t), PastSeats(t)' \subseteq PastSeats(t)
  PROVE  RosterOf(t)'
<1> SUFFICES ASSUME NEW m \in Nat, SeatsAtMost(t, m)
             PROVE  Cardinality(Roster(t)') + Cardinality(PastSeats(t)') <= m + Slack
  BY LimitsStay DEF RosterOf, Slack
<1>1. m + Slack \in Nat
  BY SlackIsNat
<1>2. Cardinality(Roster(t)) + Cardinality(PastSeats(t)) <= m + Slack
  BY DEF RosterInv
<1> QED BY <1>1, <1>2, FiniteRoster, Shrinking

\* A request that counted puts one on the team.
LEMMA RosterJoined ==
  ASSUME RosterInv, NEW t \in Teams, team'[t].sport = team[t].sport, NEW e,
         Roster(t)' \subseteq Roster(t) \cup {e},
         PastSeats(t)' \subseteq PastSeats(t), PastSeats(t)' # PastSeats(t)
  PROVE  RosterOf(t)'
<1> SUFFICES ASSUME NEW m \in Nat, SeatsAtMost(t, m)
             PROVE  Cardinality(Roster(t)') + Cardinality(PastSeats(t)') <= m + Slack
  BY LimitsStay DEF RosterOf, Slack
<1>1. m + Slack \in Nat
  BY SlackIsNat
<1>2. Cardinality(Roster(t)) + Cardinality(PastSeats(t)) <= m + Slack
  BY DEF RosterInv
<1> QED BY <1>1, <1>2, FiniteRoster, Moving

\* A request counts the team and finds a seat left.
LEMMA RosterCounted ==
  ASSUME NEW t \in Teams, team'[t].sport = team[t].sport,
         Roster(t)' \subseteq Roster(t), NEW seats \in SeatLimits(t),
         ~ Reached(seats, Cardinality(Roster(t)))
  PROVE  RosterOf(t)'
<1> SUFFICES ASSUME NEW m \in Nat, SeatsAtMost(t, m)
             PROVE  Cardinality(Roster(t)') + Cardinality(PastSeats(t)') <= m + Slack
  BY LimitsStay DEF RosterOf, Slack
<1>1. Cardinality(Roster(t)) < m
  <2>1. seats \in Nat /\ seats <= m /\ seats # NULL
    BY DbAssumption DEF SeatsAtMost
  <2> QED BY <2>1, FiniteRoster DEF Reached
<1>2. PastSeats(t)' \subseteq Workers
  BY DEF PastSeats
<1> QED BY <1>1, <1>2, FiniteRoster, Entering

\* A team that is new has nobody on it, and no request has counted it.
LEMMA RosterNew ==
  ASSUME NEW t, Roster(t)' = {}, PastSeats(t)' = {}
  PROVE  RosterOf(t)'
<1> SUFFICES ASSUME NEW m \in Nat
             PROVE  Cardinality({}) + Cardinality({}) <= m + Slack
  BY DEF RosterOf, Slack
<1> QED BY SlackIsNat, FS_EmptySet

\* Who is on a team after a step was on it, or was just put there.
LEMMA MembersStay ==
  ASSUME IInv, [Next]_vars
  PROVE  \/ \E w \in Workers : InsertEntrant(w) \/ JoinTeam(w)
         \/ \A e \in Enrols : part'[e] # NULL =>
              /\ part[e] # NULL
              /\ part'[e].team \in {part[e].team, NULL}
<1> DEFINE Stay == \A e \in Enrols : part'[e] # NULL =>
                     /\ part[e] # NULL
                     /\ part'[e].team \in {part[e].team, NULL}
<1>0. part \in [Enrols -> Row \cup {NULL}]
  BY DEF IInv, TypeOK
<1>1. ASSUME part' = part PROVE Stay
  BY <1>1
<1>2. ASSUME NEW w \in Workers, UpdateEntrant(w) PROVE Stay
  <2> DEFINE x == req[w].entrant
             new == Overlay(part[x], req[w].loaded, req[w].change)
  <2>1. CASE x \in Entrants /\ part' = [part EXCEPT ![x] = new]
    <3>1. part[x] \in Row /\ part[x] # NULL /\ x \in Enrols
      BY <1>0, <2>1 DEF Entrants
    <3>2. new.team = part[x].team
      BY <3>1 DEF Overlay, Row
    <3> HIDE DEF new
    <3> QED BY <1>0, <2>1, <3>1, <3>2
  <2> QED BY <1>1, <1>2, <2>1 DEF UpdateEntrant
<1>3. ASSUME NEW w \in Workers, LeaveTeam(w) PROVE Stay
  <2>1. CASE req[w].entrant \in Entrants /\ part' = [part EXCEPT ![req[w].entrant].team = NULL]
    <3> DEFINE x == req[w].entrant
    <3>1. part[x] \in Row /\ part[x] # NULL /\ x \in Enrols
      BY <1>0, <2>1 DEF Entrants
    <3>2. [part[x] EXCEPT !.team = NULL].team = NULL
      BY <3>1 DEF Row
    <3> QED BY <1>0, <2>1, <3>1, <3>2
  <2> QED BY <1>1, <1>3, <2>1 DEF LeaveTeam
<1>4. ASSUME NEW e \in Enrols, DeleteEntrant(e) PROVE Stay
  BY <1>0, <1>4 DEF DeleteEntrant
<1>5. ASSUME NEW t \in TeamIds, DeleteTeam(t) PROVE Stay
  <2> SUFFICES ASSUME NEW e \in Enrols, part'[e] # NULL
               PROVE  part[e] # NULL /\ part'[e].team \in {part[e].team, NULL}
    OBVIOUS
  <2>1. CASE e \in Roster(t)
    <3>1. part[e] \in Row /\ part[e] # NULL
      BY <1>0, <2>1 DEF Roster, Entrants
    <3> QED BY <1>5, <2>1, <3>1 DEF DeleteTeam, Row
  <2>2. CASE e \notin Roster(t)
    BY <1>5, <2>2 DEF DeleteTeam
  <2> QED BY <2>1, <2>2
<1>6. ASSUME NEW c \in Categories, DeleteCategory(c) PROVE Stay
  <2> SUFFICES ASSUME NEW x \in Enrols, part'[x] # NULL
               PROVE  part[x] # NULL /\ part'[x].team \in {part[x].team, NULL}
    OBVIOUS
  <2>1. CASE x \in Entrants /\ part[x].cat = c
    BY <1>0, <1>6, <2>1, NoCategory DEF DeleteCategory, Entrants
  <2>2. CASE ~ (x \in Entrants /\ part[x].cat = c)
    BY <1>6, <2>2 DEF DeleteCategory
  <2> QED BY <2>1, <2>2
<1>7. ASSUME NEW t \in TeamIds, NEW n \in TeamNames, NEW c \in Categories \cup {NULL},
             UpdateTeam(t, n, c)
      PROVE  part' = part
  BY <1>7 DEF UpdateTeam
<1>8. ASSUME NEW w \in Workers, RegistrationStep(w) PROVE Stay \/ InsertEntrant(w)
  BY <1>1, <1>2, <1>8 DEF RegistrationStep, Register, CheckCap, CheckSport, CheckTeam,
     CheckSeats, CheckDuplicate, LoadEntrant, tables
<1>9. ASSUME NEW w \in Workers, RosterStep(w) PROVE Stay \/ JoinTeam(w)
  BY <1>1, <1>3, <1>9 DEF RosterStep, CreateTeam, CountTeams, CheckTeamName, InsertTeam,
     AddMember, RemoveMember, CountMembers, MatchMember, tables
<1>10. ASSUME NEW w \in Workers, Abandon(w) PROVE part' = part
  BY <1>10 DEF Abandon, Reject, tables
<1>11. ASSUME UNCHANGED vars \/ SwitchPhase PROVE Stay
  BY <1>1, <1>11 DEF vars, SwitchPhase
<1> HIDE DEF Stay
<1>12. CASE \E w \in Workers : RegistrationStep(w) \/ RosterStep(w) \/ Abandon(w)
  BY <1>1, <1>8, <1>9, <1>10, <1>12 DEF Stay
<1>13. CASE ~ \E w \in Workers : RegistrationStep(w) \/ RosterStep(w) \/ Abandon(w)
  <2>1. ASSUME NEW t \in TeamIds, NEW n \in TeamNames, NEW c \in Categories \cup {NULL},
               UpdateTeam(t, n, c)
        PROVE  Stay
    BY <1>1, <1>7, <2>1
  <2> QED BY <1>4, <1>5, <1>6, <1>11, <1>13, <2>1 DEF Next, Stay
<1> QED BY <1>12, <1>13 DEF Stay

\* A request that counts no members comes no closer to a team.
LEMMA SeatRequestsStay ==
  ASSUME IInv, HeldInv, [Next]_vars, NEW t \in TeamIds
  PROVE  \/ \E w \in Workers : CountMembers(w) \/ CheckSeats(w)
         \/ PastSeats(t)' \subseteq PastSeats(t)
<1> DEFINE Stay == PastSeats(t)' \subseteq PastSeats(t)
           Past == {"match", "join", "duplicate", "insert"}
<1>0. req \in [Workers -> Request] /\ t # NULL
  BY DbAssumption DEF IInv, TypeOK, TeamIds
<1>1. CASE req' = req
  BY <1>1 DEF PastSeats
<1>2. ASSUME NEW w \in Workers, Answer(w) PROVE Stay
  BY <1>0, <1>2 DEF Answer, Idle, PastSeats
<1>3. ASSUME NEW w \in Workers, NEW p, Continue(w, p), p \notin Past PROVE Stay
  <2>1. [req[w] EXCEPT !.at = p].at = p
    <3>1. req[w] \in Request
      BY <1>0
    <3> QED BY <3>1 DEF Request, Idle, RegisterPoints
  <2>2. req'[w].at = p /\ \A v \in Workers \ {w} : req'[v] = req[v]
    BY <1>0, <1>3, <2>1 DEF Continue
  <2> QED BY <1>3, <2>2 DEF PastSeats
<1>4. ASSUME NEW w \in Workers, NEW r, req' = [req EXCEPT ![w] = r], r.at \notin Past
      PROVE  Stay
  BY <1>0, <1>4 DEF PastSeats
<1>5. ASSUME NEW w \in Workers, CheckSport(w) \/ CheckDuplicate(w) PROVE Stay
  <2> DEFINE f == req[w].form
  <2>1. req[w].at \in {"sport", "duplicate"} /\ req[w].at \in RegisterPoints
    BY <1>5 DEF CheckSport, CheckDuplicate, RegisterPoints
  <2>2. ASSUME Continue(w, "duplicate"), ~ (f.role = "athlete" /\ f.team # NULL) PROVE Stay
    <3>1. req'[w].form = f /\ req'[w].at = "duplicate"
          /\ \A v \in Workers \ {w} : req'[v] = req[v]
      BY <1>0, <2>1, <2>2, Onwards DEF Continue
    <3> QED BY <1>0, <2>2, <3>1 DEF PastSeats
  <2>3. ASSUME Continue(w, "insert"), req[w].at = "duplicate" PROVE Stay
    <3>1. req'[w].form = f /\ req'[w].at = "insert"
          /\ \A v \in Workers \ {w} : req'[v] = req[v]
      BY <1>0, <2>1, <2>3, Onwards DEF Continue
    <3> QED BY <2>3, <3>1 DEF PastSeats
  <2> QED BY <1>2, <1>3, <1>5, <2>2, <2>3 DEF CheckSport, CheckDuplicate
<1>6. ASSUME NEW w \in Workers, RegistrationStep(w) PROVE Stay \/ CheckSeats(w)
  <2>1. ASSUME NEW f \in Forms, Register(w, f) PROVE Stay
    BY <1>4, <2>1 DEF Register
  <2>2. ASSUME NEW e \in Enrols, NEW ch \in Changes, LoadEntrant(w, e, ch) PROVE Stay
    BY <1>4, <2>2 DEF LoadEntrant
  <2>3. ASSUME CheckCap(w) \/ CheckTeam(w) PROVE Stay
    BY <1>2, <1>3, <2>3 DEF CheckCap, CheckTeam
  <2>4. ASSUME InsertEntrant(w) \/ UpdateEntrant(w) PROVE Stay
    BY <1>2, <2>4 DEF InsertEntrant, UpdateEntrant
  <2> QED BY <1>5, <1>6, <2>1, <2>2, <2>3, <2>4 DEF RegistrationStep
<1>7. ASSUME NEW w \in Workers, MatchMember(w) PROVE Stay
  <2>1. req[w].at = "match"
    BY <1>7 DEF MatchMember
  <2>2. req[w] \in [at : {"count", "match", "join"}, entrant : Enrols, team : TeamIds,
                    loaded : Team]
    BY <1>0, <2>1, RequestOf
  <2>3. CASE Continue(w, "join")
    <3>1. req'[w].team = req[w].team /\ req'[w].at = "join"
          /\ \A v \in Workers \ {w} : req'[v] = req[v]
      BY <1>0, <2>2, <2>3 DEF Continue
    <3> QED BY <2>1, <3>1 DEF PastSeats
  <2> QED BY <1>2, <1>7, <2>3 DEF MatchMember
<1>8. ASSUME NEW w \in Workers, RosterStep(w) PROVE Stay \/ CountMembers(w)
  <2>1. ASSUME NEW f \in TeamForms, CreateTeam(w, f) PROVE Stay
    BY <1>4, <2>1 DEF CreateTeam
  <2>2. ASSUME NEW u \in TeamIds, NEW e \in Enrols, AddMember(w, u, e) \/ RemoveMember(w, u, e)
        PROVE  Stay
    BY <1>4, <2>2 DEF AddMember, RemoveMember
  <2>3. ASSUME CountTeams(w) \/ CheckTeamName(w) PROVE Stay
    BY <1>2, <1>3, <2>3 DEF CountTeams, CheckTeamName
  <2>4. ASSUME InsertTeam(w) \/ JoinTeam(w) \/ LeaveTeam(w) PROVE Stay
    BY <1>2, <2>4 DEF InsertTeam, JoinTeam, LeaveTeam
  <2> QED BY <1>7, <1>8, <2>1, <2>2, <2>3, <2>4 DEF RosterStep
<1>9. ASSUME NEW w \in Workers, Abandon(w) PROVE Stay
  BY <1>2, <1>9 DEF Abandon, Reject
<1> HIDE DEF Stay
<1>10. CASE \E w \in Workers : RegistrationStep(w) \/ RosterStep(w) \/ Abandon(w)
  BY <1>6, <1>8, <1>9, <1>10 DEF Stay
<1>11. CASE ~ \E w \in Workers : RegistrationStep(w) \/ RosterStep(w) \/ Abandon(w)
  <2>1. req' = req
    BY <1>11 DEF Next, DeleteEntrant, DeleteTeam, UpdateTeam, DeleteCategory, SwitchPhase, vars
  <2> QED BY <1>1, <2>1 DEF Stay
<1> QED BY <1>10, <1>11

\* The registration or the request of w puts one on team t, or on another.
LEMMA MemberComes ==
  ASSUME IInv, RosterInv, NEW w \in Workers, InsertEntrant(w) \/ JoinTeam(w), NEW t \in Teams
  PROVE  RosterOf(t)'
<1>0. /\ req \in [Workers -> Request] /\ part \in [Enrols -> Row \cup {NULL}]
      /\ t \in TeamIds /\ t # NULL
  BY DbAssumption DEF IInv, TypeOK, Teams, TeamIds
<1>1. team'[t].sport = team[t].sport /\ Answer(w)
  BY DEF InsertEntrant, JoinTeam
<1>2. req'[w] = Idle /\ \A v \in Workers \ {w} : req'[v] = req[v]
  BY <1>0, <1>1 DEF Answer
<1>3. PastSeats(t)' \subseteq PastSeats(t)
  BY <1>2 DEF PastSeats, Idle
<1>4. ASSUME w \in PastSeats(t) PROVE PastSeats(t)' # PastSeats(t)
  BY <1>2, <1>4 DEF PastSeats, Idle
<1>5. CASE InsertEntrant(w)
  <2> DEFINE row == NewRow(req[w].form)
  <2>1. req[w].at = "insert" /\ nextEnrol \in Enrols
        /\ part' \in {part, [part EXCEPT ![nextEnrol] = row]}
    BY <1>5 DEF InsertEntrant
  <2>2. \A e \in Enrols : part'[e] \in {part[e], row} /\ (e # nextEnrol => part'[e] = part[e])
    BY <1>0, <2>1
  <2>3. CASE row.team = t
    <3>1. req[w].form.role = "athlete" /\ req[w].form.team = t
      BY <1>0, <2>3 DEF NewRow
    <3>2. w \in PastSeats(t)
      BY <2>1, <3>1 DEF PastSeats
    <3>3. Roster(t)' \subseteq Roster(t) \cup {nextEnrol}
      BY <2>2 DEF Roster, Entrants
    <3> QED BY <1>1, <1>3, <1>4, <3>2, <3>3, RosterJoined
  <2>4. CASE row.team # t
    <3>1. Roster(t)' \subseteq Roster(t)
      BY <2>2, <2>4 DEF Roster, Entrants
    <3> QED BY <1>1, <1>3, <3>1, RosterKept
  <2> QED BY <2>3, <2>4
<1>6. CASE JoinTeam(w)
  <2> DEFINE e == req[w].entrant
  <2>1. req[w].at = "join" /\ req[w].at \in {"count", "match", "join"}
    BY <1>6 DEF JoinTeam
  <2>2. e \in Enrols
    BY <1>0, <2>1, RequestOf
  <2>3. /\ \A x \in Enrols : x # e => part'[x] = part[x]
        /\ part'[e] # part[e] => part[e] \in Row /\ part'[e] = [part[e] EXCEPT !.team = req[w].team]
    <3>1. CASE part' = part
      BY <3>1
    <3>2. CASE e \in Entrants /\ part' = [part EXCEPT ![e].team = req[w].team]
      BY <1>0, <2>2, <3>2 DEF Entrants
    <3> QED BY <1>6, <3>1, <3>2 DEF JoinTeam
  <2>4. part'[e] # part[e] => part'[e].team = req[w].team
    BY <2>3 DEF Row
  <2> HIDE DEF e
  <2>5. CASE req[w].team = t
    <3>1. w \in PastSeats(t)
      BY <2>1, <2>5 DEF PastSeats
    <3>2. Roster(t)' \subseteq Roster(t) \cup {e}
      BY <2>3 DEF Roster, Entrants
    <3> QED BY <1>1, <1>3, <1>4, <3>1, <3>2, RosterJoined
  <2>6. CASE req[w].team # t
    <3>1. Roster(t)' \subseteq Roster(t)
      BY <2>3, <2>4, <2>6 DEF Roster, Entrants
    <3> QED BY <1>1, <1>3, <3>1, RosterKept
  <2> QED BY <2>5, <2>6
<1> QED BY <1>5, <1>6

\* The request of w counts the members of team t, or of another.
LEMMA MembersCounted ==
  ASSUME IInv, HeldInv, RosterInv, NEW w \in Workers, CountMembers(w) \/ CheckSeats(w),
         NEW t \in Teams
  PROVE  RosterOf(t)'
<1>0. /\ req \in [Workers -> Request] /\ HeldOk(req[w], team, nextTeam)
      /\ t \in TeamIds /\ t # NULL /\ team[t] # NULL
  BY DbAssumption DEF IInv, TypeOK, HeldInv, Teams, TeamIds
<1>1. /\ team'[t].sport = team[t].sport /\ Roster(t)' = Roster(t)
  BY DEF CountMembers, CheckSeats, tables, Roster, Entrants
<1>2. CASE Answer(w)
  <2>1. PastSeats(t)' \subseteq PastSeats(t)
    BY <1>0, <1>2 DEF Answer, PastSeats, Idle
  <2> QED BY <1>1, <2>1, RosterKept
<1>3. CASE CountMembers(w) /\ ~ Answer(w)
  <2> DEFINE seats == Limit(req[w].loaded.sport, "team_size_max")
  <2>1. /\ req[w].at = "count" /\ req[w].at \in {"count", "match", "join"}
        /\ Continue(w, "match") /\ ~ Reached(seats, Cardinality(Roster(req[w].team)))
    BY <1>3 DEF CountMembers
  <2>2. req[w] \in [at : {"count", "match", "join"}, entrant : Enrols, team : TeamIds,
                    loaded : Team]
    BY <1>0, <2>1, RequestOf
  <2>3. req'[w].team = req[w].team /\ req'[w].at = "match"
        /\ \A v \in Workers \ {w} : req'[v] = req[v]
    BY <1>0, <2>1, <2>2 DEF Continue
  <2>4. CASE req[w].team = t
    <3>1. seats \in SeatLimits(t)
      BY <1>0, <2>1, <2>4 DEF HeldOk, SeatLimits
    <3> QED BY <1>1, <2>1, <2>4, <3>1, RosterCounted
  <2>5. CASE req[w].team # t
    <3>1. PastSeats(t)' \subseteq PastSeats(t)
      BY <2>3, <2>5 DEF PastSeats
    <3> QED BY <1>1, <3>1, RosterKept
  <2> QED BY <2>4, <2>5
<1>4. CASE CheckSeats(w) /\ ~ Answer(w)
  <2> DEFINE f == req[w].form
             seats == CategorySeats(f)
  <2>1. /\ req[w].at = "seats" /\ req[w].at \in RegisterPoints
        /\ Continue(w, "duplicate") /\ ~ Reached(seats, Cardinality(Roster(f.team)))
    BY <1>4 DEF CheckSeats, RegisterPoints
  <2>2. req'[w].form = f /\ req'[w].at = "duplicate"
        /\ \A v \in Workers \ {w} : req'[v] = req[v]
    BY <1>0, <2>1, Onwards DEF Continue
  <2>3. CASE f.team = t
    <3>1. seats \in SeatLimits(t)
      BY <1>0, <2>1, <2>3 DEF HeldOk, SeatLimits, CategorySeats
    <3> QED BY <1>1, <2>1, <2>3, <3>1, RosterCounted
  <2>4. CASE f.team # t
    <3>1. PastSeats(t)' \subseteq PastSeats(t)
      BY <2>1, <2>2, <2>4 DEF PastSeats
    <3> QED BY <1>1, <3>1, RosterKept
  <2> QED BY <2>3, <2>4
<1> QED BY <1>2, <1>3, <1>4

\* A team that was not there is made, and nobody knows it yet.
LEMMA TeamComes ==
  ASSUME IInv, NoDanglingTeam, HeldInv, NEW w \in Workers, InsertTeam(w),
         NEW t \in TeamIds, team[t] = NULL, team'[t] # NULL
  PROVE  RosterOf(t)'
<1>0. /\ req \in [Workers -> Request] /\ team \in [TeamIds -> Team \cup {NULL}]
      /\ t \in Nat /\ t # NULL
  BY DbAssumption DEF IInv, TypeOK, TeamIds
<1>1. t = nextTeam /\ part' = part
  BY <1>0 DEF InsertTeam
<1>2. \A v \in Workers : req'[v] \in {req[v], Idle}
  BY <1>0 DEF InsertTeam, Answer
<1>3. Roster(t)' = {}
  BY <1>0, <1>1 DEF Roster, Entrants, NoDanglingTeam, Teams
<1>4. PastSeats(t)' = {}
  <2>1. PastSeats(t) = {}
    BY <1>0, <1>1 DEF PastSeats, HeldInv, HeldOk
  <2>2. PastSeats(t)' \subseteq PastSeats(t)
    BY <1>2 DEF PastSeats, Idle
  <2> QED BY <2>1, <2>2
<1> QED BY <1>3, <1>4, RosterNew

LEMMA NextRoster ==
  IInv /\ NoDanglingTeam /\ HeldInv /\ RosterInv /\ [Next]_vars => RosterInv'
<1> SUFFICES ASSUME IInv, NoDanglingTeam, HeldInv, RosterInv, [Next]_vars,
                    NEW t \in TeamIds, team'[t] # NULL
             PROVE  RosterOf(t)'
  BY DEF RosterInv, RosterOf, Teams
<1>0. /\ t # NULL /\ team \in [TeamIds -> Team \cup {NULL}]
      /\ nextTeam \in Nat /\ \A u \in TeamIds : u \in Nat
  BY DbAssumption DEF IInv, TypeOK, TeamIds
<1>1. CASE team[t] = NULL
  BY <1>1, TeamsStay, TeamComes
<1>2. CASE team[t] # NULL
  <2>1. t \in Teams
    BY <1>2 DEF Teams
  <2>2. team'[t].sport = team[t].sport
    <3>1. ASSUME NEW w \in Workers, InsertTeam(w) PROVE team'[t] = team[t]
      <4>1. t # nextTeam
        BY <1>0, <1>2 DEF HeldInv
      <4> QED BY <1>0, <3>1, <4>1 DEF InsertTeam
    <3> QED BY <3>1, TeamsStay
  <2>3. CASE \E w \in Workers : InsertEntrant(w) \/ JoinTeam(w)
    BY <2>1, <2>3, MemberComes
  <2>4. CASE \E w \in Workers : CountMembers(w) \/ CheckSeats(w)
    BY <2>1, <2>4, MembersCounted
  <2>5. CASE /\ ~ \E w \in Workers : InsertEntrant(w) \/ JoinTeam(w)
             /\ ~ \E w \in Workers : CountMembers(w) \/ CheckSeats(w)
    <3>1. Roster(t)' \subseteq Roster(t)
      BY <1>0, <2>5, MembersStay DEF Roster, Entrants
    <3>2. PastSeats(t)' \subseteq PastSeats(t)
      BY <2>5, SeatRequestsStay
    <3> QED BY <2>1, <2>2, <3>1, <3>2, RosterKept
  <2> QED BY <2>3, <2>4, <2>5
<1> QED BY <1>1, <1>2

\* A roster whose limits are all set exceeds the largest of them by at most the
\* requests that counted at the same time, whichever of the two ways into a team
\* they take and whatever happens to the team meanwhile.
THEOREM RosterHolds == Spec => []RosterOvershootBounded
<1>1. Init => HeldInv /\ RosterInv
  BY DEF Init, HeldInv, HeldOk, Idle, RosterInv, Teams
<1>2. IInv /\ RosterInv => RosterOvershootBounded
  <2> SUFFICES ASSUME IInv, RosterInv, NEW t \in Teams, NULL \notin SeatLimits(t),
                      \A seats \in SeatLimits(t) :
                        ~ (Cardinality(Roster(t)) <= seats + Slack)
               PROVE  FALSE
    BY DEF RosterOvershootBounded
  <2> DEFINE n == Cardinality(Roster(t)) p == Cardinality(PastSeats(t))
             m == n - Slack - 1 s == Limit(team[t].sport, "team_size_max")
  <2>1. n \in Nat /\ p \in Nat /\ Slack \in Nat
    BY FiniteRoster, SlackIsNat
  <2>2. s \in SeatLimits(t) /\ \A seats \in SeatLimits(t) : seats \in Nat
    <3>1. team[t].sport \in Sports
      BY DEF Teams, IInv, TypeOK, Team
    <3>2. s \in Nat \cup {NULL}
      BY <3>1, LimitType
    <3>3. \A c \in Categories : CategoryRow[c].team_size_max \in Limits
      BY DbAssumption
    <3> HIDE DEF s
    <3>4. s \in SeatLimits(t)
      BY DEF SeatLimits, s
    <3> QED BY <3>2, <3>3, <3>4 DEF SeatLimits, Limits, s
  <2>3. \A seats \in SeatLimits(t) : ~ (n <= seats + Slack)
    OBVIOUS
  <2> HIDE DEF n, p, s
  <2>4. m \in Nat /\ \A seats \in SeatLimits(t) : seats <= m
    BY <2>1, <2>2, <2>3
  <2>5. n + p <= m + Slack
    BY <2>2, <2>4 DEF RosterInv, SeatsAtMost, n, p
  <2> QED BY <2>1, <2>5
<1> QED BY <1>1, <1>2, NextHeld, NextRoster, Inductive, NoTeamDangles, PTL DEF Spec
=============================================================================
