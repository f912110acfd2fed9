---------------------------- MODULE ReviewProof ----------------------------
(***************************************************************************)
(* Survey 3 and the review of submissions, on the server and in the client.*)
(*                                                                         *)
(* NumberSurvey, for any number of workers, organisations, sports and      *)
(* submissions: types are kept, an organisation has at most as many rows   *)
(* for a link as there are workers, and a final decision stands.           *)
(*                                                                         *)
(* ReviewDesks, for any desks, submissions, groups and events, and any     *)
(* number of decisions under way: what a desk offers is accepted, what it  *)
(* was told of does not come back, a bulk review stays in its event.       *)
(***************************************************************************)
EXTENDS NumberSurvey, ReviewDesks, FiniteSetTheorems, TLAPS

-----------------------------------------------------------------------------
(* NumberSurvey.                                                           *)

\* The rows of a key that were made for it, and the requests that looked for
\* one, saw none and are about to make one.
Own(l, o) == RowsOf(l, o) \ moved
Inserting(l, o) ==
  { w \in Workers : req[w].at = "insert_row" /\ req[w].link = l /\ req[w].form.org = o }

\* Row ids are taken in order, and not used again.
FreshInv == \A r \in RowIds : r >= nextRow => pps[r] = NULL

\* Every such request may still add a row.
TwinsInv ==
  \A l \in LinkIds, o \in Orgs :
    Cardinality(Own(l, o)) + Cardinality(Inserting(l, o)) <= Cardinality(Workers)

NumberIInv == NumberTypeOK /\ FreshInv /\ TwinsInv

-----------------------------------------------------------------------------
(* The operators.                                                          *)

\* A review goes from a status that is not final to a status.
LEMMA AcceptedNotFinal ==
  ASSUME NEW action \in Actions, NEW status, NEW note, Accepted(action, status, note)
  PROVE  status \notin Final /\ REVIEW_TRANSITIONS[action].to \in Status
<1>1. action \in {"submit", "approve", "reject", "flag", "request_revision"}
  BY DEF Actions, REVIEW_TRANSITIONS
<1>2. CASE action = "submit"
  BY <1>2 DEF Accepted, REVIEW_TRANSITIONS, Final, Status
<1>3. CASE action = "approve"
  BY <1>3 DEF Accepted, REVIEW_TRANSITIONS, Final, Status
<1>4. CASE action = "reject"
  BY <1>4 DEF Accepted, REVIEW_TRANSITIONS, Final, Status
<1>5. CASE action = "flag"
  BY <1>5 DEF Accepted, REVIEW_TRANSITIONS, Final, Status
<1>6. CASE action = "request_revision"
  BY <1>6 DEF Accepted, REVIEW_TRANSITIONS, Final, Status
<1> QED BY <1>1, <1>2, <1>3, <1>4, <1>5, <1>6

\* What the requests at each point carry.
LEMMA RequestOf ==
  ASSUME NEW q \in Request
  PROVE  /\ q.at \in {"find_link", "insert_link"} =>
              q \in [at : {"find_link", "insert_link"}, form : Forms]
         /\ q.at \in {"find_row", "insert_row"} =>
              q \in [at : {"find_row", "insert_row"}, form : Forms, link : LinkIds]
         /\ q.at = "patch" => q \in [at : {"patch"}, row : RowIds, org : Orgs \cup {NULL}]
         /\ q.at = "delete" => q \in [at : {"delete"}, row : RowIds]
         /\ q.at = "decide" => q \in [at : {"decide"}, rows : SUBSET RowIds,
                                      target : Status, bulk : BOOLEAN]
BY DEF Request, Idle

\* What is counted is finite.
LEMMA Counted ==
  ASSUME NEW l, NEW o
  PROVE  /\ IsFiniteSet(Workers) /\ Cardinality(Workers) \in Nat
         /\ IsFiniteSet(Own(l, o)) /\ Cardinality(Own(l, o)) \in Nat
         /\ IsFiniteSet(Inserting(l, o)) /\ Cardinality(Inserting(l, o)) \in Nat
         /\ Cardinality(Inserting(l, o)) <= Cardinality(Workers)
<1>1. IsFiniteSet(Workers) /\ Cardinality(Workers) \in Nat
  BY SurveyAssumption, FS_CardinalityType
<1>2. IsFiniteSet(RowIds)
  BY SurveyAssumption, FS_Interval DEF RowIds
<1>3. IsFiniteSet(Own(l, o)) /\ Cardinality(Own(l, o)) \in Nat
  <2>1. Own(l, o) \subseteq RowIds
    BY DEF Own, RowsOf, Submissions
  <2> QED BY <1>2, <2>1, FS_Subset, FS_CardinalityType
<1>4. /\ IsFiniteSet(Inserting(l, o)) /\ Cardinality(Inserting(l, o)) \in Nat
      /\ Cardinality(Inserting(l, o)) <= Cardinality(Workers)
  <2>1. Inserting(l, o) \subseteq Workers
    BY DEF Inserting
  <2> QED BY <1>1, <2>1, FS_Subset, FS_CardinalityType
<1> QED BY <1>1, <1>3, <1>4

\* The bound is kept for a key that gains neither a row nor a request.
LEMMA KeyKept ==
  ASSUME NEW l, NEW o,
         Cardinality(Own(l, o)) + Cardinality(Inserting(l, o)) <= Cardinality(Workers),
         Own(l, o)' \subseteq Own(l, o), Inserting(l, o)' \subseteq Inserting(l, o)
  PROVE  Cardinality(Own(l, o)') + Cardinality(Inserting(l, o)') <= Cardinality(Workers)
<1> DEFINE a == Cardinality(Own(l, o)) b == Cardinality(Inserting(l, o))
           aa == Cardinality(Own(l, o)') bb == Cardinality(Inserting(l, o)')
           n == Cardinality(Workers)
<1>1. a \in Nat /\ b \in Nat /\ n \in Nat
  BY Counted
<1>2. aa \in Nat /\ aa <= a
  <2>1. IsFiniteSet(Own(l, o))
    BY Counted
  <2> QED BY <2>1, FS_Subset, FS_CardinalityType
<1>3. bb \in Nat /\ bb <= b
  <2>1. IsFiniteSet(Inserting(l, o))
    BY Counted
  <2> QED BY <2>1, FS_Subset, FS_CardinalityType
<1>4. a + b <= n
  OBVIOUS
<1> HIDE DEF a, b, aa, bb, n
<1>5. aa + bb <= n
  BY <1>1, <1>2, <1>3, <1>4
<1> QED BY <1>5 DEF aa, bb, n

\* A worker whose request is not about to insert adds to no key.
LEMMA InsertingKept ==
  ASSUME NEW w, NEW q, req \in [Workers -> Request], req' = [req EXCEPT ![w] = q],
         q.at # "insert_row", NEW l, NEW o
  PROVE  Inserting(l, o)' \subseteq Inserting(l, o)
BY DEF Inserting

-----------------------------------------------------------------------------
(* Steps by their effect.                                                  *)

\* Only the request of one worker changes, and it is not about to insert.
LEMMA QuietStep ==
  ASSUME NumberIInv, NEW w \in Workers, NEW q \in Request, q.at # "insert_row",
         UNCHANGED tables, req' = [req EXCEPT ![w] = q]
  PROVE  NumberIInv'
<1>1. NumberTypeOK' /\ FreshInv'
  BY DEF NumberIInv, NumberTypeOK, FreshInv, tables
<1>2. TwinsInv'
  <2> SUFFICES ASSUME NEW l \in LinkIds, NEW o \in Orgs
               PROVE  Cardinality(Own(l, o)') + Cardinality(Inserting(l, o)')
                        <= Cardinality(Workers)
    BY DEF TwinsInv
  <2>1. Own(l, o)' \subseteq Own(l, o)
    BY DEF Own, RowsOf, Submissions, tables
  <2>2. Inserting(l, o)' \subseteq Inserting(l, o)
    BY InsertingKept DEF NumberIInv, NumberTypeOK
  <2> QED BY <2>1, <2>2, KeyKept DEF NumberIInv, TwinsInv
<1> QED BY <1>1, <1>2 DEF NumberIInv

\* Rows are deleted, decided, detached from their link or moved, and perhaps a
\* worker answers.
LEMMA EditStep ==
  ASSUME NumberIInv,
         pps' \in [RowIds -> Row \cup {NULL}], nextRow' = nextRow,
         moved \subseteq moved', moved' \subseteq RowIds,
         seo' \in [LinkIds -> Link \cup {NULL}], nextLink' = nextLink, open' = open,
         \A r \in RowIds : pps'[r] # NULL =>
            /\ pps[r] # NULL
            /\ pps'[r].link \in {pps[r].link, NULL}
            /\ r \notin moved' => pps'[r].org = pps[r].org,
         req' = req \/ \E w \in Workers : Answer(w)
  PROVE  NumberIInv'
<1>1. req' \in [Workers -> Request]
  <2>1. req \in [Workers -> Request] /\ Idle \in Request
    BY DEF NumberIInv, NumberTypeOK, Request
  <2> QED BY <2>1 DEF Answer
<1>2. NumberTypeOK' /\ FreshInv'
  BY <1>1 DEF NumberIInv, NumberTypeOK, FreshInv
<1>3. TwinsInv'
  <2> SUFFICES ASSUME NEW l \in LinkIds, NEW o \in Orgs
               PROVE  Cardinality(Own(l, o)') + Cardinality(Inserting(l, o)')
                        <= Cardinality(Workers)
    BY DEF TwinsInv
  <2>1. l # NULL
    BY SurveyAssumption DEF LinkIds
  <2>2. Own(l, o)' \subseteq Own(l, o)
    BY <2>1 DEF Own, RowsOf, Submissions
  <2>3. Inserting(l, o)' \subseteq Inserting(l, o)
    <3>1. CASE req' = req
      BY <3>1 DEF Inserting
    <3>2. CASE \E w \in Workers : Answer(w)
      <4>1. PICK w \in Workers : req' = [req EXCEPT ![w] = Idle]
        BY <3>2 DEF Answer
      <4>2. req \in [Workers -> Request] /\ Idle.at # "insert_row"
        BY DEF NumberIInv, NumberTypeOK, Idle
      <4> QED BY <4>1, <4>2, InsertingKept
    <3> QED BY <3>1, <3>2
  <2> QED BY <2>2, <2>3, KeyKept DEF NumberIInv, TwinsInv
<1> QED BY <1>2, <1>3 DEF NumberIInv

-----------------------------------------------------------------------------
(* The actions.                                                            *)

LEMMA NumberInitIInv == NumberInit => NumberIInv
<1> SUFFICES ASSUME NumberInit PROVE NumberIInv
  OBVIOUS
<1>1. NumberTypeOK
  <2>1. Idle \in Request
    BY DEF Request
  <2>2. req \in [Workers -> Request]
    BY <2>1 DEF NumberInit
  <2>3. /\ seo \in [LinkIds -> Link \cup {NULL}]
        /\ pps \in [RowIds -> Row \cup {NULL}]
    BY DEF NumberInit
  <2>4. nextLink \in Nat \ {0} /\ nextRow \in Nat \ {0}
    BY DEF NumberInit
  <2> QED BY <2>2, <2>3, <2>4 DEF NumberInit, NumberTypeOK
<1>2. FreshInv
  BY DEF NumberInit, FreshInv
<1>3. TwinsInv
  <2> SUFFICES ASSUME NEW l \in LinkIds, NEW o \in Orgs
               PROVE  Cardinality(Own(l, o)) + Cardinality(Inserting(l, o))
                        <= Cardinality(Workers)
    BY DEF TwinsInv
  <2>1. Own(l, o) = {} /\ Inserting(l, o) = {}
    BY DEF NumberInit, Own, RowsOf, Submissions, Inserting, Idle
  <2>2. Cardinality(Own(l, o)) = 0 /\ Cardinality(Inserting(l, o)) = 0
    BY <2>1, FS_EmptySet
  <2> QED BY <2>2, Counted
<1> QED BY <1>1, <1>2, <1>3 DEF NumberIInv

\* create, up to the lookup of the row.
LEMMA SubmitStep ==
  ASSUME NumberIInv, NEW w \in Workers, NEW f \in Forms, Submit(w, f)
  PROVE  NumberIInv'
<1>1. [at |-> "find_link", form |-> f] \in Request
  BY DEF Request
<1> QED BY <1>1, QuietStep DEF Submit, Begin

LEMMA FindLinkStep ==
  ASSUME NumberIInv, NEW w \in Workers, FindLink(w)
  PROVE  NumberIInv'
<1> DEFINE f == req[w].form
           found == LinksOf(f.sport, f.host)
           l == CHOOSE x \in found : TRUE
<1>1. f \in Forms
  BY RequestOf DEF FindLink, NumberIInv, NumberTypeOK
<1>2. found # {} => l \in LinkIds
  BY DEF LinksOf, Links
<1>3. CASE found = {}
  <2>1. [at |-> "insert_link", form |-> f] \in Request
    BY <1>1 DEF Request
  <2> QED BY <1>3, <2>1, QuietStep DEF FindLink
<1>4. CASE found # {}
  <2>1. [at |-> "find_row", form |-> f, link |-> l] \in Request
    BY <1>1, <1>2, <1>4 DEF Request
  <2> QED BY <1>4, <2>1, QuietStep DEF FindLink
<1> QED BY <1>3, <1>4

LEMMA InsertLinkStep ==
  ASSUME NumberIInv, NEW w \in Workers, InsertLink(w)
  PROVE  NumberIInv'
<1> DEFINE f == req[w].form
           q == [at |-> "find_row", form |-> f, link |-> nextLink]
<1>1. f \in Forms /\ f.sport \in Sports /\ f.host \in Orgs
  BY RequestOf, SurveyAssumption DEF InsertLink, NumberIInv, NumberTypeOK
<1>2. CASE LinksOf(f.sport, f.host) = {}
  <2>1. /\ seo' = [seo EXCEPT ![nextLink] = [sport |-> f.sport, org |-> f.host]]
        /\ nextLink' = nextLink + 1 /\ nextLink \in LinkIds
        /\ req' = [req EXCEPT ![w] = q]
        /\ UNCHANGED <<pps, nextRow, moved, open>>
    BY <1>2 DEF InsertLink
  <2>2. q \in Request /\ q.at # "insert_row"
    BY <1>1, <2>1 DEF Request
  <2> HIDE DEF q
  <2>3. [sport |-> f.sport, org |-> f.host] \in Link
    BY <1>1 DEF Link
  <2>4. NumberTypeOK' /\ FreshInv'
    BY <2>1, <2>2, <2>3 DEF NumberIInv, NumberTypeOK, FreshInv
  <2>5. TwinsInv'
    <3> SUFFICES ASSUME NEW l \in LinkIds, NEW o \in Orgs
                 PROVE  Cardinality(Own(l, o)') + Cardinality(Inserting(l, o)')
                          <= Cardinality(Workers)
      BY DEF TwinsInv
    <3>1. Own(l, o)' \subseteq Own(l, o)
      BY <2>1 DEF Own, RowsOf, Submissions
    <3>2. Inserting(l, o)' \subseteq Inserting(l, o)
      BY <2>1, <2>2, InsertingKept DEF NumberIInv, NumberTypeOK
    <3> QED BY <3>1, <3>2, KeyKept DEF NumberIInv, TwinsInv
  <2> QED BY <2>4, <2>5 DEF NumberIInv
<1>3. CASE LinksOf(f.sport, f.host) # {}
  <2>1. Idle \in Request /\ Idle.at # "insert_row"
    BY DEF Request, Idle
  <2> QED BY <1>3, <2>1, QuietStep DEF InsertLink, Answer, tables
<1> QED BY <1>2, <1>3

\* The lookup that finds no row lets the request go on to insert one.  At that
\* moment the key has no row, so all workers together stay within the bound.
LEMMA FindRowStep ==
  ASSUME NumberIInv, NEW w \in Workers, FindRow(w)
  PROVE  NumberIInv'
<1>1. /\ req[w].at = "find_row" /\ UNCHANGED tables
      /\ req[w] \in [at : {"find_row", "insert_row"}, form : Forms, link : LinkIds]
  BY RequestOf DEF FindRow, NumberIInv, NumberTypeOK
<1>2. CASE RowsOf(req[w].link, req[w].form.org) = {}
  <2> DEFINE q == [req[w] EXCEPT !.at = "insert_row"]
  <2>1. req' = [req EXCEPT ![w] = q]
    BY <1>2 DEF FindRow, NumberIInv, NumberTypeOK
  <2>2. /\ q \in Request /\ q.at = "insert_row"
        /\ q.link = req[w].link /\ q.form = req[w].form
    BY <1>1 DEF Request
  <2> HIDE DEF q
  <2>3. NumberTypeOK' /\ FreshInv'
    BY <1>1, <2>1, <2>2 DEF NumberIInv, NumberTypeOK, FreshInv, tables
  <2>4. TwinsInv'
    <3> SUFFICES ASSUME NEW l \in LinkIds, NEW o \in Orgs
                 PROVE  Cardinality(Own(l, o)') + Cardinality(Inserting(l, o)')
                          <= Cardinality(Workers)
      BY DEF TwinsInv
    <3>1. Own(l, o)' = Own(l, o)
      BY <1>1 DEF Own, RowsOf, Submissions, tables
    <3>2. CASE l = req[w].link /\ o = req[w].form.org
      <4>1. Own(l, o) = {}
        BY <1>2, <3>2 DEF Own
      <4>2. Cardinality(Own(l, o)') = 0
        BY <3>1, <4>1, FS_EmptySet
      <4>3. /\ Cardinality(Inserting(l, o)') <= Cardinality(Workers)
            /\ Cardinality(Inserting(l, o)') \in Nat
        <5>1. Inserting(l, o)' \subseteq Workers
          BY DEF Inserting
        <5>2. IsFiniteSet(Workers)
          BY SurveyAssumption
        <5> QED BY <5>1, <5>2, FS_Subset, FS_CardinalityType
      <4> QED BY <4>2, <4>3
    <3>3. CASE ~ (l = req[w].link /\ o = req[w].form.org)
      <4>1. Inserting(l, o)' \subseteq Inserting(l, o)
        BY <2>1, <2>2, <3>3 DEF Inserting, NumberIInv, NumberTypeOK
      <4> QED BY <3>1, <4>1, KeyKept DEF NumberIInv, TwinsInv
    <3> QED BY <3>2, <3>3
  <2> QED BY <2>3, <2>4 DEF NumberIInv
<1>3. CASE RowsOf(req[w].link, req[w].form.org) # {}
  <2>1. Idle \in Request /\ Idle.at # "insert_row"
    BY DEF Request, Idle
  <2> QED BY <1>1, <1>3, <2>1, QuietStep DEF FindRow, Answer
<1> QED BY <1>2, <1>3

\* The insert takes the place it was counted for.
LEMMA InsertRowStep ==
  ASSUME NumberIInv, NEW w \in Workers, InsertRow(w)
  PROVE  NumberIInv'
<1>1. /\ req[w].at = "insert_row" /\ nextRow \in RowIds
      /\ req[w] \in [at : {"find_row", "insert_row"}, form : Forms, link : LinkIds]
      /\ Idle \in Request /\ Idle.at # "insert_row"
  BY RequestOf DEF InsertRow, NumberIInv, NumberTypeOK, Request, Idle
<1>2. CASE req[w].link \notin Links
  BY <1>1, <1>2, QuietStep DEF InsertRow, Answer, tables
<1>3. CASE req[w].link \in Links
  <2> DEFINE L == req[w].link O == req[w].form.org
  <2>1. L \in LinkIds /\ O \in Orgs
    BY <1>1, SurveyAssumption
  <2>2. /\ pps' = [pps EXCEPT ![nextRow] = NewRow(L, O)]
        /\ nextRow' = nextRow + 1
        /\ req' = [req EXCEPT ![w] = Idle]
        /\ UNCHANGED <<seo, nextLink, moved, open>>
    BY <1>3 DEF InsertRow, Answer
  <2>3. /\ NewRow(L, O) \in Row /\ NewRow(L, O) # NULL
        /\ NewRow(L, O).link = L /\ NewRow(L, O).org = O
    BY <2>1, SurveyAssumption DEF NewRow, Row, Status
  <2>4. w \in Inserting(L, O)
    BY <1>1 DEF Inserting
  <2> HIDE DEF L, O
  <2>5. NumberTypeOK'
    BY <1>1, <2>2, <2>3 DEF NumberIInv, NumberTypeOK
  <2>6. FreshInv'
    BY <1>1, <2>2 DEF NumberIInv, NumberTypeOK, FreshInv, RowIds
  <2>7. TwinsInv'
    <3> SUFFICES ASSUME NEW l \in LinkIds, NEW o \in Orgs
                 PROVE  Cardinality(Own(l, o)') + Cardinality(Inserting(l, o)')
                          <= Cardinality(Workers)
      BY DEF TwinsInv
    <3>1. Inserting(l, o)' \subseteq Inserting(l, o)
      BY <1>1, <2>2, InsertingKept DEF NumberIInv, NumberTypeOK
    <3>2. CASE l = L /\ o = O
      <4> DEFINE A == Own(l, o) B == Inserting(l, o)
                 AA == Own(l, o)' BB == Inserting(l, o)'
      <4>1. AA \subseteq A \cup {nextRow}
        BY <1>1, <2>2 DEF Own, RowsOf, Submissions, NumberIInv, NumberTypeOK
      <4>2. BB \subseteq B \ {w}
        BY <2>2, <1>1 DEF Inserting, NumberIInv, NumberTypeOK
      <4>3. /\ IsFiniteSet(A) /\ Cardinality(A) \in Nat
            /\ IsFiniteSet(B) /\ Cardinality(B) \in Nat /\ Cardinality(Workers) \in Nat
        BY Counted
      <4>4. w \in B
        BY <2>4, <3>2
      <4>5. Cardinality(A) + Cardinality(B) <= Cardinality(Workers)
        BY DEF NumberIInv, TwinsInv
      <4> HIDE DEF A, B, AA, BB
      <4>6. Cardinality(AA) <= Cardinality(A) + 1 /\ Cardinality(AA) \in Nat
        <5>1. /\ IsFiniteSet(A \cup {nextRow})
              /\ Cardinality(A \cup {nextRow}) \in Nat
              /\ Cardinality(A \cup {nextRow}) <= Cardinality(A) + 1
          <6>1. Cardinality(A \cup {nextRow}) =
                  IF nextRow \in A THEN Cardinality(A) ELSE Cardinality(A) + 1
            BY <4>3, FS_AddElement
          <6>2. IsFiniteSet(A \cup {nextRow})
            BY <4>3, FS_AddElement
          <6> QED BY <4>3, <6>1, <6>2
        <5>2. /\ IsFiniteSet(AA)
              /\ Cardinality(AA) <= Cardinality(A \cup {nextRow})
          BY <4>1, <5>1, FS_Subset
        <5>3. Cardinality(AA) \in Nat
          BY <5>2, FS_CardinalityType
        <5> QED BY <4>3, <5>1, <5>2, <5>3
      <4>7. Cardinality(BB) <= Cardinality(B) - 1 /\ Cardinality(BB) \in Nat
        <5>1. /\ IsFiniteSet(B \ {w})
              /\ Cardinality(B \ {w}) = Cardinality(B) - 1
          BY <4>3, <4>4, FS_RemoveElement
        <5>2. /\ IsFiniteSet(BB)
              /\ Cardinality(BB) <= Cardinality(B \ {w})
          BY <4>2, <5>1, FS_Subset
        <5>3. Cardinality(BB) \in Nat
          BY <5>2, FS_CardinalityType
        <5> QED BY <5>1, <5>2, <5>3
      <4>8. Cardinality(AA) + Cardinality(BB) <= Cardinality(Workers)
        BY <4>3, <4>5, <4>6, <4>7
      <4> QED BY <4>8 DEF AA, BB
    <3>3. CASE ~ (l = L /\ o = O)
      <4>1. Own(l, o)' \subseteq Own(l, o)
        BY <1>1, <2>2, <2>3, <3>3 DEF Own, RowsOf, Submissions, NumberIInv, NumberTypeOK
      <4> QED BY <3>1, <4>1, KeyKept DEF NumberIInv, TwinsInv
    <3> QED BY <3>2, <3>3
  <2> QED BY <2>5, <2>6, <2>7 DEF NumberIInv
<1> QED BY <1>2, <1>3

\* PATCH, DELETE, the decisions and the removal of links.
LEMMA PatchStep ==
  ASSUME NumberIInv, NEW w \in Workers, Patch(w)
  PROVE  NumberIInv'
<1> DEFINE r == req[w].row
<1>1. /\ r \in RowIds /\ req[w].org \in Orgs \cup {NULL}
      /\ pps \in [RowIds -> Row \cup {NULL}] /\ moved \subseteq RowIds
  BY RequestOf DEF Patch, NumberIInv, NumberTypeOK
<1>2. CASE r \in Submissions
  <2>1. /\ pps' = [pps EXCEPT ![r].org = req[w].org] /\ moved' = moved \cup {r}
        /\ Answer(w) /\ UNCHANGED <<seo, nextLink, nextRow, open>>
    BY <1>2 DEF Patch
  <2>2. pps[r] \in Row /\ pps[r] # NULL
    BY <1>1, <1>2 DEF Submissions
  <2>3. /\ [pps[r] EXCEPT !.org = req[w].org] \in Row
        /\ [pps[r] EXCEPT !.org = req[w].org].link = pps[r].link
    BY <1>1, <2>2 DEF Row
  <2>4. pps' \in [RowIds -> Row \cup {NULL}]
    BY <1>1, <2>1, <2>3
  <2>5. moved \subseteq moved' /\ moved' \subseteq RowIds
    BY <1>1, <2>1
  <2>6. \A x \in RowIds : pps'[x] # NULL =>
          /\ pps[x] # NULL
          /\ pps'[x].link \in {pps[x].link, NULL}
          /\ x \notin moved' => pps'[x].org = pps[x].org
    BY <1>1, <2>1, <2>2, <2>3
  <2> HIDE DEF r
  <2> QED BY <2>1, <2>4, <2>5, <2>6, EditStep DEF NumberIInv, NumberTypeOK
<1>3. CASE r \notin Submissions
  <2>1. UNCHANGED tables /\ Answer(w)
    BY <1>3 DEF Patch, tables
  <2>2. Idle \in Request /\ Idle.at # "insert_row"
    BY DEF Request, Idle
  <2> QED BY <2>1, <2>2, QuietStep DEF Answer
<1> QED BY <1>2, <1>3

LEMMA DeleteStep ==
  ASSUME NumberIInv, NEW w \in Workers, Delete(w)
  PROVE  NumberIInv'
<1>1. /\ pps' \in [RowIds -> Row \cup {NULL}]
      /\ \A r \in RowIds : pps'[r] # NULL => pps'[r] = pps[r]
  BY DEF Delete, NumberIInv, NumberTypeOK
<1>2. Answer(w) /\ UNCHANGED <<seo, nextLink, nextRow, moved, open>>
  BY DEF Delete
<1> QED BY <1>1, <1>2, EditStep DEF NumberIInv, NumberTypeOK

\* What a decision does to a row, if anything.
LEMMA DecideEffect ==
  ASSUME NumberTypeOK, NEW w \in Workers, Decide(w), NEW r \in RowIds
  PROVE  \/ pps'[r] = pps[r]
         \/ /\ r \in req[w].rows /\ pps[r] \in Row /\ pps[r] # NULL
            /\ pps'[r] \in Row /\ pps'[r] # NULL
            /\ pps'[r].link = pps[r].link /\ pps'[r].org = pps[r].org
<1>1. req[w].target \in Status
  BY RequestOf DEF Decide, NumberTypeOK
<1>2. CASE UNCHANGED pps
  BY <1>2
<1>3. CASE pps' = [x \in RowIds |->
                     IF x \in req[w].rows \cap Submissions
                     THEN [pps[x] EXCEPT !.status = req[w].target] ELSE pps[x]]
  <2>1. CASE r \in req[w].rows \cap Submissions
    <3>1. pps[r] \in Row /\ pps[r] # NULL
      BY <2>1 DEF Submissions, NumberTypeOK
    <3>2. pps'[r] = [pps[r] EXCEPT !.status = req[w].target]
      BY <1>3, <2>1
    <3>3. /\ pps'[r] \in Row
          /\ pps'[r].link = pps[r].link /\ pps'[r].org = pps[r].org
      BY <1>1, <3>1, <3>2 DEF Row
    <3>4. pps'[r] # NULL
      BY <3>3, SurveyAssumption
    <3> QED BY <2>1, <3>1, <3>3, <3>4
  <2>2. CASE r \notin req[w].rows \cap Submissions
    BY <1>3, <2>2
  <2> QED BY <2>1, <2>2
<1> QED BY <1>2, <1>3 DEF Decide

LEMMA DecideStep ==
  ASSUME NumberIInv, NEW w \in Workers, Decide(w)
  PROVE  NumberIInv'
<1>1. /\ Answer(w) /\ UNCHANGED <<seo, nextLink, nextRow, moved, open>>
      /\ NumberTypeOK
  BY DEF Decide, NumberIInv
<1>2. pps' \in [RowIds -> Row \cup {NULL}]
  <2>1. pps' = [r \in RowIds |-> pps'[r]]
    BY <1>1 DEF Decide, NumberTypeOK
  <2>2. \A r \in RowIds : pps'[r] \in Row \cup {NULL}
    BY <1>1, DecideEffect DEF NumberTypeOK
  <2> QED BY <2>1, <2>2
<1>3. \A r \in RowIds : pps'[r] # NULL =>
        pps[r] # NULL /\ pps'[r].link = pps[r].link /\ pps'[r].org = pps[r].org
  BY <1>1, DecideEffect
<1> QED BY <1>1, <1>2, <1>3, EditStep DEF NumberTypeOK

\* What the removal of links does to a row.
LEMMA RemoveEffect ==
  ASSUME NumberTypeOK, NEW gone, RemoveLinks(gone), NEW r \in RowIds
  PROVE  \/ pps'[r] = pps[r]
         \/ /\ pps[r] \in Row /\ pps[r] # NULL
            /\ pps'[r] \in Row /\ pps'[r] # NULL
            /\ pps'[r].link = NULL /\ pps'[r].org = pps[r].org
            /\ pps'[r].status = pps[r].status
<1>1. CASE r \in Submissions /\ pps[r].link \in gone
  <2>1. pps[r] \in Row /\ pps[r] # NULL
    BY <1>1 DEF Submissions, NumberTypeOK
  <2>2. pps'[r] = [pps[r] EXCEPT !.link = NULL]
    BY <1>1 DEF RemoveLinks
  <2>3. /\ pps'[r] \in Row /\ pps'[r].link = NULL
        /\ pps'[r].org = pps[r].org /\ pps'[r].status = pps[r].status
    BY <2>1, <2>2 DEF Row
  <2>4. pps'[r] # NULL
    BY <2>3, SurveyAssumption
  <2> QED BY <2>1, <2>3, <2>4
<1>2. CASE ~ (r \in Submissions /\ pps[r].link \in gone)
  BY <1>2 DEF RemoveLinks
<1> QED BY <1>1, <1>2

LEMMA RemoveLinksStep ==
  ASSUME NumberIInv, NEW gone, RemoveLinks(gone)
  PROVE  NumberIInv'
<1>1. UNCHANGED <<nextLink, nextRow, moved, open, req>> /\ NumberTypeOK
  BY DEF RemoveLinks, NumberIInv
<1>2. seo' \in [LinkIds -> Link \cup {NULL}]
  BY <1>1 DEF RemoveLinks, NumberTypeOK
<1>3. pps' \in [RowIds -> Row \cup {NULL}]
  <2>1. pps' = [r \in RowIds |-> pps'[r]]
    BY DEF RemoveLinks
  <2>2. \A r \in RowIds : pps'[r] \in Row \cup {NULL}
    BY <1>1, RemoveEffect DEF NumberTypeOK
  <2> QED BY <2>1, <2>2
<1>4. \A r \in RowIds : pps'[r] # NULL =>
        /\ pps[r] # NULL /\ pps'[r].link \in {pps[r].link, NULL}
        /\ pps'[r].org = pps[r].org
  BY <1>1, RemoveEffect
<1> QED BY <1>1, <1>2, <1>3, <1>4, EditStep DEF NumberTypeOK

\* The requests that read a row before they write it.
LEMMA LoadStep ==
  ASSUME NumberIInv, NEW w \in Workers,
         \/ \E r \in RowIds, o \in Orgs \cup {NULL} : LoadForPatch(w, r, o)
         \/ \E r \in RowIds : LoadForDelete(w, r)
  PROVE  NumberIInv'
<1>1. ASSUME NEW r \in RowIds, NEW o \in Orgs \cup {NULL}, LoadForPatch(w, r, o)
      PROVE  NumberIInv'
  <2>1. [at |-> "patch", row |-> r, org |-> o] \in Request
    BY DEF Request
  <2> QED BY <1>1, <2>1, QuietStep DEF LoadForPatch, Begin
<1>2. ASSUME NEW r \in RowIds, LoadForDelete(w, r)
      PROVE  NumberIInv'
  <2>1. [at |-> "delete", row |-> r] \in Request
    BY DEF Request
  <2> QED BY <1>2, <2>1, QuietStep DEF LoadForDelete, Begin
<1> QED BY <1>1, <1>2

LEMMA ReviewStep ==
  ASSUME NumberIInv, NEW w \in Workers, NEW r \in RowIds, NEW action \in Reviews,
         NEW note \in BOOLEAN, Review(w, r, action, note)
  PROVE  NumberIInv'
<1> DEFINE to == REVIEW_TRANSITIONS[action].to
<1>1. to \in Status
  BY AcceptedNotFinal, SurveyAssumption DEF Review
<1>2. [at |-> "decide", rows |-> {r}, target |-> to, bulk |-> FALSE] \in Request
  <2> HIDE DEF to
  <2> QED BY <1>1 DEF Request
<1> QED BY <1>2, QuietStep DEF Review, Begin

LEMMA ReviewBulkStep ==
  ASSUME NumberIInv, NEW w \in Workers, NEW o \in Orgs, NEW action \in DOMAIN BulkTarget,
         ReviewBulk(w, o, action)
  PROVE  NumberIInv'
<1> DEFINE to == BulkTarget[action] rows == Pending(o)
<1>1. to \in Status
  BY DEF BulkTarget, Status
<1>2. rows \in SUBSET RowIds
  BY DEF Pending, Submissions
<1>3. [at |-> "decide", rows |-> rows, target |-> to, bulk |-> TRUE] \in Request
  <2> HIDE DEF to, rows
  <2> QED BY <1>1, <1>2 DEF Request
<1> QED BY <1>3, QuietStep DEF ReviewBulk, Begin

\* Neither a new link nor the phase touches a row or a request.
LEMMA AroundStep ==
  ASSUME NumberIInv,
         SwitchPhase \/ \E s \in Sports, o \in Orgs : AddLink(s, o)
  PROVE  NumberIInv'
<1>1. UNCHANGED <<pps, nextRow, moved, req>>
  BY DEF SwitchPhase, AddLink
<1>2. NumberTypeOK' /\ FreshInv'
  <2>1. CASE SwitchPhase
    BY <2>1 DEF NumberIInv, NumberTypeOK, FreshInv, SwitchPhase
  <2>2. ASSUME NEW s \in Sports, NEW o \in Orgs, AddLink(s, o)
        PROVE  NumberTypeOK' /\ FreshInv'
    <3>1. [sport |-> s, org |-> o] \in Link
      BY DEF Link
    <3>2. /\ seo' = [seo EXCEPT ![nextLink] = [sport |-> s, org |-> o]]
          /\ nextLink' = nextLink + 1 /\ open' = open
      BY <2>2 DEF AddLink
    <3>3. seo' \in [LinkIds -> Link \cup {NULL}]
      BY <3>1, <3>2 DEF NumberIInv, NumberTypeOK
    <3>4. nextLink' \in Nat \ {0}
      BY <3>2 DEF NumberIInv, NumberTypeOK
    <3> QED BY <1>1, <3>2, <3>3, <3>4 DEF NumberIInv, NumberTypeOK, FreshInv
  <2> QED BY <2>1, <2>2
<1>3. TwinsInv'
  <2> SUFFICES ASSUME NEW l \in LinkIds, NEW o \in Orgs
               PROVE  Cardinality(Own(l, o)') + Cardinality(Inserting(l, o)')
                        <= Cardinality(Workers)
    BY DEF TwinsInv
  <2>1. Own(l, o)' \subseteq Own(l, o) /\ Inserting(l, o)' \subseteq Inserting(l, o)
    BY <1>1 DEF Own, RowsOf, Submissions, Inserting
  <2> QED BY <2>1, KeyKept DEF NumberIInv, TwinsInv
<1> QED BY <1>2, <1>3 DEF NumberIInv

LEMMA AbandonStep ==
  ASSUME NumberIInv, NEW w \in Workers, Abandon(w)
  PROVE  NumberIInv'
<1>1. Idle \in Request /\ Idle.at # "insert_row"
  BY DEF Request, Idle
<1> QED BY <1>1, QuietStep DEF Abandon, Answer

LEMMA NumberNextIInv == NumberIInv /\ [NumberNext]_numberVars => NumberIInv'
<1> SUFFICES ASSUME NumberIInv, [NumberNext]_numberVars PROVE NumberIInv'
  OBVIOUS
<1>1. CASE UNCHANGED numberVars
  <2>1. UNCHANGED <<seo, nextLink, pps, nextRow, moved, open, req>>
    BY <1>1 DEF numberVars
  <2>2. NumberTypeOK' /\ FreshInv'
    BY <2>1 DEF NumberIInv, NumberTypeOK, FreshInv
  <2>3. TwinsInv'
    BY <2>1 DEF NumberIInv, TwinsInv, Own, RowsOf, Submissions, Inserting
  <2> QED BY <2>2, <2>3 DEF NumberIInv
<1>2. ASSUME NEW w \in Workers, WorkerStep(w) PROVE NumberIInv'
  BY <1>2, SubmitStep, FindLinkStep, InsertLinkStep, FindRowStep, InsertRowStep,
     LoadStep, PatchStep, DeleteStep, ReviewStep, ReviewBulkStep, DecideStep, AbandonStep
     DEF WorkerStep
<1>3. ASSUME NEW l \in LinkIds, RemoveOrgFromSport(l) PROVE NumberIInv'
  BY <1>3, RemoveLinksStep DEF RemoveOrgFromSport
<1>4. ASSUME NEW o \in Orgs, RemoveOrgFromEvent(o) PROVE NumberIInv'
  BY <1>4, RemoveLinksStep DEF RemoveOrgFromEvent
<1> QED BY <1>1, <1>2, <1>3, <1>4, AroundStep DEF NumberNext

LEMMA NumberInductive == NumberSpec => []NumberIInv
BY NumberInitIInv, NumberNextIInv, PTL DEF NumberSpec

-----------------------------------------------------------------------------
(* The theorems.                                                           *)

\* Every row, link and request keeps its type.
THEOREM NumberSurveyTypeCorrect == NumberSpec => []NumberTypeOK
<1>1. NumberIInv => NumberTypeOK
  BY DEF NumberIInv
<1> QED BY <1>1, NumberInductive, PTL

\* The upsert of survey 3 lets at most one row per concurrent request through.
THEOREM TwinsHold == NumberSpec => []TwinsBounded
<1>1. NumberIInv => TwinsBounded
  <2> SUFFICES ASSUME NumberIInv, NEW l \in LinkIds, NEW o \in Orgs
               PROVE  Cardinality(Own(l, o)) <= Cardinality(Workers)
    BY DEF TwinsBounded, Own
  <2>1. /\ Cardinality(Own(l, o)) \in Nat /\ Cardinality(Inserting(l, o)) \in Nat
        /\ Cardinality(Workers) \in Nat
    BY Counted
  <2>2. Cardinality(Own(l, o)) + Cardinality(Inserting(l, o)) <= Cardinality(Workers)
    BY DEF NumberIInv, TwinsInv
  <2> QED BY <2>1, <2>2
<1> QED BY <1>1, NumberInductive, PTL

\* A decided row keeps its status in every step but its deletion.
LEMMA StatusKept ==
  ASSUME NumberIInv, [NumberNext]_numberVars, NEW r \in RowIds, DecisionTaken(r)
  PROVE  pps'[r] = NULL \/ (pps'[r] # NULL /\ pps'[r].status = pps[r].status)
<1> DEFINE Kept == pps'[r] = NULL \/ (pps'[r] # NULL /\ pps'[r].status = pps[r].status)
<1>0. /\ NumberTypeOK /\ FreshInv /\ pps \in [RowIds -> Row \cup {NULL}]
      /\ pps[r] \in Row /\ pps[r] # NULL
  BY DEF NumberIInv, NumberTypeOK, DecisionTaken, Submissions
<1>1. ASSUME UNCHANGED pps PROVE Kept
  BY <1>0, <1>1
<1>2. ASSUME NEW w \in Workers, InsertRow(w) PROVE Kept
  <2>1. r # nextRow
    BY <1>0, <1>2 DEF InsertRow, FreshInv, RowIds
  <2>2. pps'[r] = pps[r]
    BY <1>0, <1>2, <2>1 DEF InsertRow
  <2> QED BY <1>0, <2>2
<1>3. ASSUME NEW w \in Workers, Patch(w) PROVE Kept
  <2>1. [pps[r] EXCEPT !.org = req[w].org].status = pps[r].status
    BY <1>0 DEF Row
  <2>2. req[w].org \in Orgs \cup {NULL}
    BY <1>0, <1>3, RequestOf DEF Patch, NumberTypeOK
  <2>3. [pps[r] EXCEPT !.org = req[w].org] \in Row
    BY <1>0, <2>2 DEF Row
  <2>4. pps'[r] \in {pps[r], [pps[r] EXCEPT !.org = req[w].org]}
    BY <1>0, <1>3 DEF Patch
  <2> QED BY <1>0, <2>1, <2>3, <2>4, SurveyAssumption
<1>4. ASSUME NEW w \in Workers, Delete(w) PROVE Kept
  BY <1>0, <1>4 DEF Delete
<1>5. ASSUME NEW w \in Workers, Decide(w) PROVE Kept
  <2>1. r \notin req[w].rows
    BY <1>5 DEF Decide, DecisionTaken, InReview
  <2>2. pps'[r] = pps[r]
    BY <1>0, <1>5, <2>1, DecideEffect
  <2> QED BY <1>0, <2>2
<1>6. ASSUME NEW gone, RemoveLinks(gone) PROVE Kept
  BY <1>0, <1>6, RemoveEffect
<1> HIDE DEF Kept
<1>7. ASSUME NEW w \in Workers, WorkerStep(w) PROVE Kept
  BY <1>1, <1>2, <1>3, <1>4, <1>5, <1>7 DEF WorkerStep, Submit, FindLink, InsertLink,
     FindRow, LoadForPatch, LoadForDelete, Review, ReviewBulk, Abandon, tables
<1>8. Kept
  BY <1>1, <1>6, <1>7 DEF NumberNext, numberVars, AddLink, RemoveOrgFromSport, RemoveOrgFromEvent,
     SwitchPhase
<1> QED BY <1>8 DEF Kept

\* A request that is not about the row does not bring it into review.
LEMMA StaysFree ==
  ASSUME NumberTypeOK, NEW r, ~ InReview(r), NEW w \in Workers, NEW q,
         req' = [req EXCEPT ![w] = q], q.at = "decide" => r \notin q.rows
  PROVE  ~ InReview(r)'
BY DEF InReview, NumberTypeOK

\* No worker starts to review a decided row.
LEMMA NobodyStarts ==
  ASSUME NumberIInv, [NumberNext]_numberVars, NEW r \in RowIds, DecisionTaken(r)
  PROVE  ~ InReview(r)'
<1>0. /\ NumberTypeOK /\ ~ InReview(r) /\ pps[r].status \in Final
      /\ req \in [Workers -> Request]
  BY DEF NumberIInv, NumberTypeOK, DecisionTaken
<1>1. ASSUME UNCHANGED req PROVE ~ InReview(r)'
  BY <1>0, <1>1 DEF InReview
<1>2. ASSUME NEW w \in Workers, Answer(w) PROVE ~ InReview(r)'
  BY <1>0, <1>2, StaysFree DEF Answer, Idle
<1>3. ASSUME NEW w \in Workers, NEW f \in Forms, Submit(w, f) PROVE ~ InReview(r)'
  BY <1>0, <1>3, StaysFree DEF Submit, Begin
<1>4. ASSUME NEW w \in Workers, FindLink(w) PROVE ~ InReview(r)'
  <2> DEFINE f == req[w].form
             found == LinksOf(f.sport, f.host)
             q == IF found = {} THEN [at |-> "insert_link", form |-> f]
                  ELSE [at |-> "find_row", form |-> f, link |-> CHOOSE l \in found : TRUE]
  <2>1. req' = [req EXCEPT ![w] = q]
    BY <1>4 DEF FindLink
  <2>2. q.at # "decide"
    OBVIOUS
  <2> HIDE DEF q
  <2> QED BY <1>0, <2>1, <2>2, StaysFree
<1>5. ASSUME NEW w \in Workers, InsertLink(w) PROVE ~ InReview(r)'
  <2>1. ASSUME req' = [req EXCEPT ![w] =
                         [at |-> "find_row", form |-> req[w].form, link |-> nextLink]]
        PROVE  ~ InReview(r)'
    BY <1>0, <2>1, StaysFree
  <2> QED BY <1>2, <1>5, <2>1 DEF InsertLink
<1>6. ASSUME NEW w \in Workers, FindRow(w) PROVE ~ InReview(r)'
  <2> DEFINE q == [req[w] EXCEPT !.at = "insert_row"]
  <2>1. req[w] \in [at : {"find_row", "insert_row"}, form : Forms, link : LinkIds]
    BY <1>0, <1>6, RequestOf DEF FindRow
  <2>2. q.at # "decide"
    BY <2>1
  <2>3. req' = [req EXCEPT ![w] = q] \/ Answer(w)
    BY <1>0, <1>6 DEF FindRow
  <2> HIDE DEF q
  <2> QED BY <1>0, <1>2, <2>2, <2>3, StaysFree
<1>7. ASSUME NEW w \in Workers, NEW x \in RowIds, NEW o, LoadForPatch(w, x, o)
      PROVE  ~ InReview(r)'
  BY <1>0, <1>7, StaysFree DEF LoadForPatch, Begin
<1>8. ASSUME NEW w \in Workers, NEW x \in RowIds, LoadForDelete(w, x)
      PROVE  ~ InReview(r)'
  BY <1>0, <1>8, StaysFree DEF LoadForDelete, Begin
<1>9. ASSUME NEW w \in Workers, NEW x \in RowIds, NEW action \in Reviews,
             NEW note \in BOOLEAN, Review(w, x, action, note)
      PROVE  ~ InReview(r)'
  <2>1. r # x
    BY <1>0, <1>9, AcceptedNotFinal, SurveyAssumption DEF Review
  <2> DEFINE to == REVIEW_TRANSITIONS[action].to
  <2>2. req' = [req EXCEPT ![w] = [at |-> "decide", rows |-> {x}, target |-> to,
                                   bulk |-> FALSE]]
    BY <1>9 DEF Review, Begin
  <2> HIDE DEF to
  <2> QED BY <1>0, <2>1, <2>2, StaysFree
<1>10. ASSUME NEW w \in Workers, NEW o \in Orgs, NEW action, ReviewBulk(w, o, action)
       PROVE  ~ InReview(r)'
  <2> DEFINE to == BulkTarget[action] rows == Pending(o)
  <2>1. r \notin rows
    BY <1>0 DEF Pending, Final
  <2>2. req' = [req EXCEPT ![w] = [at |-> "decide", rows |-> rows, target |-> to,
                                   bulk |-> TRUE]]
    BY <1>10 DEF ReviewBulk, Begin
  <2> HIDE DEF to, rows
  <2> QED BY <1>0, <2>1, <2>2, StaysFree
<1>11. ASSUME NEW w \in Workers, WorkerStep(w) PROVE ~ InReview(r)'
  BY <1>2, <1>3, <1>4, <1>5, <1>6, <1>7, <1>8, <1>9, <1>10, <1>11
     DEF WorkerStep, InsertRow, Patch, Delete, Decide, Abandon
<1> QED
  BY <1>1, <1>11 DEF NumberNext, numberVars, AddLink, RemoveOrgFromSport, RemoveOrgFromEvent,
     RemoveLinks, SwitchPhase

\* Whatever is submitted, reviewed, moved or removed, an APPROVED or REJECTED
\* submission nobody has in hand stays as it was decided until it is deleted.
THEOREM DecisionsStand == NumberSpec => DecisionFinal
<1>1. NumberIInv /\ [NumberNext]_numberVars =>
        [\A r \in RowIds :
           DecisionTaken(r) => \/ pps'[r] = NULL
                               \/ DecisionTaken(r)' /\ pps'[r].status = pps[r].status]_numberVars
  <2> SUFFICES ASSUME NumberIInv, [NumberNext]_numberVars, NEW r \in RowIds, DecisionTaken(r)
               PROVE  \/ pps'[r] = NULL
                      \/ DecisionTaken(r)' /\ pps'[r].status = pps[r].status
    OBVIOUS
  <2>1. pps[r].status \in Final
    BY DEF DecisionTaken
  <2> QED BY <2>1, StatusKept, NobodyStarts DEF DecisionTaken, Submissions
<1> QED BY <1>1, NumberInductive, PTL DEF NumberSpec, DecisionFinal

-----------------------------------------------------------------------------
(* ReviewDesks.                                                            *)

\* Decided by now, or withdrawn: not a submission to decide on, unless it is
\* submitted again.
Settled(s) == db[s] \notin {"SUBMITTED", Nothing}

\* A list that a desk reads: what came or comes after a decision it has been
\* told of does not have the submission as pending, but what it had before a
\* reading that failed may.
ListOk(q, decided, observed) ==
  /\ q \in Query(Rows)
  /\ ~ observed /\ q.fetch = "idle" => q.data = Nothing
  /\ ~ cap.lag /\ ~ q.old =>
       \A s \in decided :
         /\ q.fetch = "answered" /\ q.answer # Nothing => q.answer[s] # "SUBMITTED"
         /\ q.fetch = "idle" /\ q.data # Nothing /\ ~ q.failed => q.data[s] # "SUBMITTED"

OnList(x) == x.screen \in {"list", "group"}

\* A page in order.
PageOk(x) ==
  /\ x \in Page
  /\ ListOk(x.list, x.decided, OnList(x))
  /\ x.screen = "group" \/ (x.screen = "detail" /\ x.via = "group") => x.held # Nothing
  /\ x.screen = "detail" => x.own # Nothing /\ x.row # Nothing
  /\ \A s \in x.decided : Settled(s)

\* A bulk review of a page with one event is of that event.
ScopeOk(m) ==
  m.what = "bulk" /\ cap.kind # "number" /\ Cardinality(m.seen) = 1 =>
    /\ m.event \in m.seen
    /\ m.at = "done" => \A s \in m.touched : EventOf[s] = m.event

\* A mutation the screens can send; once served, it has settled what it touched,
\* but for what was submitted again.
SendingOk(m) ==
  /\ m \in Sending
  /\ m.action \in {"approve", "reject", "flag"}
  /\ m.what = "bulk" \/ cap.kind = "sport" => m.action \in {"approve", "reject"}
  /\ m.what = "one" => m.row # Nothing
  /\ m.at = "done" => m.result # Nothing /\ \A s \in m.told : Settled(s)
  /\ ScopeOk(m)

Tables == {db, replica} \subseteq [Subs -> Status \union {Nothing, "GONE"}]

IInv == /\ DOMAIN desk = Desks /\ desk = [d \in Desks |-> desk[d]]
        /\ \A d \in Desks : PageOk(desk[d])
        /\ \A m \in muts : SendingOk(m)
        /\ Tables /\ cap \in Bounds /\ sent \in 0 .. cap.sends

-----------------------------------------------------------------------------
(* Types.                                                                  *)

LEMMA Apart ==
  /\ Nothing \notin Groups /\ Nothing \notin Events /\ Nothing \notin Status
  /\ Nothing \notin Subs /\ Nothing \notin Rows /\ Nothing # "SUBMITTED" /\ "SUBMITTED" \in Status
  /\ EventOf \in [Subs -> Events]
BY DeskAssumption DEF Status

LEMMA CapOk ==
  ASSUME cap \in Bounds
  PROVE  /\ cap.admins \subseteq Desks /\ InUse \subseteq Desks /\ cap.sends \in Nat
         /\ cap.kind \in Kinds /\ cap.lag \in BOOLEAN /\ cap.there \subseteq Subs
<1>1. cap \in Bound
  BY DeskAssumption
<1> QED BY <1>1 DEF Bound, InUse

LEMMA PageFields ==
  ASSUME NEW x \in Page
  PROVE  /\ x.screen \in {"list", "group", "detail"} /\ x.via \in {"list", "group"}
         /\ x.group \in Maybe(Groups) /\ x.held \in Maybe(Rows) /\ x.row \in Maybe(Subs)
         /\ x.own \in Maybe(Status) /\ x.reviewed \in Maybe(Status)
         /\ x.list \in Query(Rows) /\ x.detail \in Query(Status) /\ x.decided \subseteq Subs
BY DEF Page

LEMMA SendingFields ==
  ASSUME NEW m \in Sending
  PROVE  /\ m.desk \in Desks /\ m.what \in {"one", "bulk"} /\ m.row \in Maybe(Subs)
         /\ m.group \in Maybe(Groups) /\ m.event \in Maybe(Events) /\ m.home \in BOOLEAN
         /\ m.at \in {"sent", "done", "refused"} /\ m.seen \subseteq Events
         /\ m.touched \subseteq Subs /\ m.told \subseteq Subs /\ m.result \in Maybe(Status)
         /\ m.note \in BOOLEAN
BY DEF Sending

-----------------------------------------------------------------------------
(* Queries.                                                                *)

LEMMA QueryTypes ==
  ASSUME NEW S, NEW q \in Query(S), NEW b \in BOOLEAN
  PROVE  /\ Unread \in Query(S) /\ Asked(q) \in Query(S) /\ Unobserved(q) \in Query(S)
         /\ Received(q, b) \in Query(S) /\ Failed(q, b) \in Query(S)
         /\ Invalidated(q, b) \in Query(S)
         /\ \A a \in S : [q EXCEPT !.fetch = "answered", !.answer = a] \in Query(S)
<1>1. Unread \in Query(S)
  BY DEF Unread, Query, Maybe, Fetch
<1>0. Refetched(q) \in Query(S)
  <2>1. q.failed \in BOOLEAN /\ (q.failed /\ q.data # Nothing) \in BOOLEAN
    BY DEF Query
  <2> QED BY <2>1 DEF Refetched, Query, Maybe, Fetch
<1>2. Asked(q) \in Query(S)
  BY <1>0 DEF Asked
<1>6. Failed(q, b) \in Query(S)
  BY <1>1 DEF Failed, Query, Maybe, Fetch
<1>3. Received(q, b) \in Query(S)
  BY <1>1 DEF Received, Query, Maybe, Fetch
<1>4. Invalidated(q, b) \in Query(S)
  <2>1. (q.old \/ q.fetch = "answered") \in BOOLEAN
    OBVIOUS
  <2>2. [q EXCEPT !.old = q.old \/ q.fetch = "answered"] \in Query(S)
    BY <2>1 DEF Query
  <2> QED BY <1>0, <2>2 DEF Invalidated
<1>5. \A a \in S : [q EXCEPT !.fetch = "answered", !.answer = a] \in Query(S)
  BY DEF Query, Maybe, Fetch
<1> QED BY <1>1, <1>2, <1>3, <1>4, <1>5, <1>6 DEF Unobserved

\* What the hooks do to a list keeps it in order.
LEMMA ListSteps ==
  ASSUME NEW q, NEW decided, NEW more, NEW b \in BOOLEAN, ListOk(q, decided, b)
  PROVE  /\ \A o \in BOOLEAN : ListOk(Asked(q), decided, o)
         /\ ListOk(Unobserved(q), decided, FALSE)
         /\ q.fetch = "answered" => ListOk(Received(q, b), decided, b)
         /\ ListOk(Failed(q, b), decided, b)
         /\ ListOk(Invalidated(q, b), decided \union more, b)
<1>1. q \in Query(Rows)
  BY DEF ListOk
<1>2. /\ Unread \in Query(Rows) /\ Asked(q) \in Query(Rows) /\ Unobserved(q) \in Query(Rows)
      /\ Received(q, b) \in Query(Rows) /\ Failed(q, b) \in Query(Rows)
      /\ Invalidated(q, b) \in Query(Rows)
  BY <1>1, QueryTypes
<1>3. ASSUME NEW o \in BOOLEAN PROVE ListOk(Asked(q), decided, o)
  <2>1. CASE q.fetch = "idle"
    <3>1. Asked(q).fetch = "asked"
      BY <1>1, <2>1 DEF Asked, Refetched, Query
    <3> QED BY <1>2, <3>1 DEF ListOk
  <2>2. CASE q.fetch # "idle"
    BY <2>2 DEF Asked, ListOk
  <2> QED BY <2>1, <2>2
<1>4. ListOk(Unobserved(q), decided, FALSE)
  <2>1. CASE q.fetch = "idle"
    BY <1>2, <2>1 DEF Unobserved, Unread, ListOk
  <2>2. CASE q.fetch # "idle"
    BY <2>2 DEF Unobserved, ListOk
  <2> QED BY <2>1, <2>2
<1>5. ASSUME q.fetch = "answered" PROVE ListOk(Received(q, b), decided, b)
  <2>1. CASE b
    <3> DEFINE r == [q EXCEPT !.data = q.answer, !.fetch = "idle", !.answer = Nothing,
                              !.failed = FALSE]
    <3>1. r.data = q.answer /\ r.fetch = "idle" /\ r.old = q.old
      BY <1>1 DEF Query
    <3>2. Received(q, b) = r
      BY <2>1 DEF Received
    <3> HIDE DEF r
    <3> QED BY <1>2, <1>5, <2>1, <3>1, <3>2 DEF ListOk
  <2>2. CASE ~ b
    BY <1>2, <2>2 DEF Received, Unread, ListOk
  <2> QED BY <2>1, <2>2
<1>7. ListOk(Failed(q, b), decided, b)
  <2>1. CASE b
    <3>1. Failed(q, b).fetch = "idle" /\ Failed(q, b).failed
      BY <1>1, <2>1 DEF Failed, Query
    <3> QED BY <1>2, <2>1, <3>1 DEF ListOk
  <2>2. CASE ~ b
    BY <1>2, <2>2 DEF Failed, Unread, ListOk
  <2> QED BY <2>1, <2>2
<1>6. ListOk(Invalidated(q, b), decided \union more, b)
  <2>1. CASE b /\ (q.fetch = "idle" \/ q.data # Nothing)
    <3>1. Invalidated(q, b).fetch = "asked"
      BY <1>1, <2>1 DEF Invalidated, Refetched, Query
    <3> QED BY <1>2, <3>1 DEF ListOk
  <2>2. CASE ~ (b /\ (q.fetch = "idle" \/ q.data # Nothing))
    <3> DEFINE r == [q EXCEPT !.old = q.old \/ q.fetch = "answered"]
    <3>1. /\ r.data = q.data /\ r.fetch = q.fetch /\ r.answer = q.answer
          /\ q.fetch = "answered" => r.old
      BY <1>1 DEF Query
    <3>2. Invalidated(q, b) = r
      BY <2>2 DEF Invalidated
    <3>3. q.fetch = "idle" => q.data = Nothing
      BY <2>2 DEF ListOk
    <3> HIDE DEF r
    <3> QED BY <1>2, <3>1, <3>2, <3>3 DEF ListOk
  <2> QED BY <2>1, <2>2
<1> QED BY <1>3, <1>4, <1>5, <1>6, <1>7

-----------------------------------------------------------------------------
(* Steps.                                                                  *)

\* A step of one desk.
LEMMA DeskStep ==
  ASSUME IInv, NEW d \in Desks, NEW x, desk' = [desk EXCEPT ![d] = x], PageOk(x),
         \A m \in muts' : SendingOk(m), UNCHANGED <<sent, db, replica, cap>>
  PROVE  IInv'
<1>1. \A y : PageOk(y)' <=> PageOk(y)
  BY DEF PageOk, ListOk, Settled
<1>2. \A m : SendingOk(m)' <=> SendingOk(m)
  BY DEF SendingOk, ScopeOk, Settled
<1>3. \A e \in Desks : PageOk(desk'[e])
  BY DEF IInv
<1>4. DOMAIN desk' = Desks /\ desk' = [e \in Desks |-> desk'[e]]
  BY DEF IInv
<1> QED BY <1>1, <1>2, <1>3, <1>4 DEF IInv, Tables

\* A step elsewhere, that leaves what is settled so.
LEMMA TableStep ==
  ASSUME IInv, UNCHANGED <<desk, cap>>, Tables', sent' \in 0 .. cap.sends,
         \A s \in Subs : Settled(s) => Settled(s)',
         \A m \in muts' : m \in muts \/ SendingOk(m)'
  PROVE  IInv'
<1>1. \A d \in Desks : PageOk(desk[d])'
  <2> SUFFICES ASSUME NEW d \in Desks PROVE PageOk(desk[d])'
    OBVIOUS
  <2>1. PageOk(desk[d]) /\ desk[d].decided \subseteq Subs
    BY PageFields DEF IInv, PageOk
  <2>2. ListOk(desk[d].list, desk[d].decided, OnList(desk[d]))'
    BY <2>1 DEF PageOk, ListOk, OnList
  <2> QED BY <2>1, <2>2 DEF PageOk, OnList
<1>2. \A m \in muts : SendingOk(m)'
  <2> SUFFICES ASSUME NEW m \in muts PROVE SendingOk(m)'
    OBVIOUS
  <2>1. SendingOk(m) /\ m.told \subseteq Subs
    BY SendingFields DEF IInv, SendingOk
  <2> QED BY <2>1 DEF SendingOk, ScopeOk
<1> QED BY <1>1, <1>2 DEF IInv

LEMMA ThePage ==
  ASSUME IInv, NEW d \in Desks
  PROVE  PageOk(desk[d]) /\ desk[d] \in Page /\ OnList(desk[d]) \in BOOLEAN
         /\ Listed(d) = OnList(desk[d]) /\ ListOk(desk[d].list, desk[d].decided, OnList(desk[d]))
         /\ \A m \in muts : SendingOk(m)
BY DEF IInv, PageOk, OnList, Listed

\* The list is served and comes, or does not.
LEMMA ListStepsOk ==
  ASSUME IInv, NEW d \in Desks, ListServed(d) \/ ListArrives(d) \/ ListFails(d) \/ Refocus(d)
  PROVE  IInv'
<1>1. /\ PageOk(desk[d]) /\ desk[d] \in Page /\ OnList(desk[d]) \in BOOLEAN
      /\ Listed(d) = OnList(desk[d]) /\ ListOk(desk[d].list, desk[d].decided, OnList(desk[d]))
      /\ \A m \in muts : SendingOk(m)
  BY ThePage
<1>2. UNCHANGED <<muts, sent, db, replica, cap>>
  BY DEF ListServed, ListArrives, ListFails, Refocus
<1>3. ASSUME NEW q, desk' = [desk EXCEPT ![d] = [desk[d] EXCEPT !.list = q]],
             ListOk(q, desk[d].decided, OnList(desk[d]))
      PROVE  IInv'
  <2> DEFINE x == [desk[d] EXCEPT !.list = q]
  <2>1. /\ x \in Page /\ x.list = q /\ x.decided = desk[d].decided
        /\ x.screen = desk[d].screen /\ x.via = desk[d].via /\ x.held = desk[d].held
        /\ x.own = desk[d].own /\ x.row = desk[d].row
    BY <1>1, <1>3 DEF Page, ListOk
  <2>2. desk' = [desk EXCEPT ![d] = x]
    BY <1>3
  <2> HIDE DEF x
  <2>3. PageOk(x)
    BY <1>1, <1>3, <2>1 DEF PageOk, OnList
  <2> QED BY <1>1, <1>2, <2>2, <2>3, DeskStep
<1>4. CASE ListServed(d)
  <2> DEFINE rows == Visible(d, IF cap.lag THEN replica ELSE db)
             q == [desk[d].list EXCEPT !.fetch = "answered", !.answer = rows]
  <2>1. desk[d].list.fetch = "asked" /\ desk' = [desk EXCEPT ![d] = [desk[d] EXCEPT !.list = q]]
    BY <1>4 DEF ListServed
  <2>2. rows \in Rows /\ (~ cap.lag => \A s \in Subs : rows[s] \in {Nothing, db[s]})
    BY DEF IInv, Tables, Visible, Rows, Maybe
  <2> HIDE DEF rows
  <2>3. desk[d].list \in Query(Rows)
    BY <1>1 DEF ListOk
  <2>4. /\ q \in Query(Rows) /\ q.fetch = "answered" /\ q.answer = rows
        /\ q.old = desk[d].list.old
    BY <2>2, <2>3, QueryTypes, ZenonT(60) DEF Query
  <2>5. \A s \in desk[d].decided : s \in Subs /\ db[s] # "SUBMITTED"
    BY <1>1, PageFields DEF PageOk, Settled
  <2> HIDE DEF q
  <2>6. ListOk(q, desk[d].decided, OnList(desk[d]))
    BY <2>2, <2>4, <2>5, Apart DEF ListOk
  <2> QED BY <1>3, <2>1, <2>6
<1>5. CASE ListArrives(d)
  <2> DEFINE q == Received(desk[d].list, OnList(desk[d]))
  <2>1. /\ desk[d].list.fetch = "answered"
        /\ desk' = [desk EXCEPT ![d] = [desk[d] EXCEPT !.list = q]]
    BY <1>1, <1>5 DEF ListArrives
  <2>2. ListOk(q, desk[d].decided, OnList(desk[d]))
    BY <1>1, <2>1, ListSteps
  <2> QED BY <1>3, <2>1, <2>2
<1>6. CASE ListFails(d)
  <2> DEFINE q == Failed(desk[d].list, OnList(desk[d]))
  <2>1. desk' = [desk EXCEPT ![d] = [desk[d] EXCEPT !.list = q]]
    BY <1>1, <1>6 DEF ListFails
  <2>2. ListOk(q, desk[d].decided, OnList(desk[d]))
    BY <1>1, ListSteps
  <2> QED BY <1>3, <2>1, <2>2
<1>7. CASE Refocus(d) /\ OnList(desk[d])
  <2> DEFINE q == Asked(desk[d].list)
  <2>1. desk' = [desk EXCEPT ![d] = [desk[d] EXCEPT !.list = q]]
    BY <1>1, <1>7 DEF Refocus
  <2>2. ListOk(q, desk[d].decided, OnList(desk[d]))
    BY <1>1, ListSteps
  <2> QED BY <1>3, <2>1, <2>2
<1>8. CASE Refocus(d) /\ ~ OnList(desk[d])
  <2> DEFINE x == [desk[d] EXCEPT !.detail = Asked(desk[d].detail)]
  <2>1. desk' = [desk EXCEPT ![d] = x] \/ desk' = [desk EXCEPT ![d] = desk[d]]
    BY <1>1, <1>8 DEF Refocus
  <2>2. Asked(desk[d].detail) \in Query(Status)
    BY <1>1, PageFields, QueryTypes
  <2>3. /\ x \in Page /\ x.list = desk[d].list /\ x.decided = desk[d].decided
        /\ x.screen = desk[d].screen /\ x.via = desk[d].via /\ x.held = desk[d].held
        /\ x.own = desk[d].own /\ x.row = desk[d].row
    BY <1>1, <2>2 DEF Page
  <2> HIDE DEF x
  <2>4. PageOk(x)
    BY <1>1, <2>3 DEF PageOk, OnList
  <2> QED BY <1>1, <1>2, <2>1, <2>4, DeskStep
<1> QED BY <1>4, <1>5, <1>6, <1>7, <1>8

\* The dialog, and the submission that survey 4 reads again.
LEMMA SmallStepsOk ==
  ASSUME IInv, NEW d \in Desks,
         (\E a \in {"reject", "flag"} : AskReason(d, a)) \/ CloseDialog(d)
           \/ DetailServed(d) \/ DetailArrives(d) \/ DetailFails(d)
  PROVE  IInv'
<1>1. /\ PageOk(desk[d]) /\ desk[d] \in Page /\ \A m \in muts : SendingOk(m)
  BY ThePage
<1>2. UNCHANGED <<muts, sent, db, replica, cap>>
  BY DEF AskReason, CloseDialog, DetailServed, DetailArrives, DetailFails
<1>3. ASSUME NEW x \in Page, desk' = [desk EXCEPT ![d] = x],
             x.list = desk[d].list, x.decided = desk[d].decided, x.screen = desk[d].screen,
             x.via = desk[d].via, x.held = desk[d].held, x.own = desk[d].own,
             x.row = desk[d].row
      PROVE  IInv'
  <2>1. PageOk(x)
    BY <1>1, <1>3 DEF PageOk, OnList
  <2> QED BY <1>1, <1>2, <1>3, <2>1, DeskStep
<1>4. CASE (\E a \in {"reject", "flag"} : AskReason(d, a)) \/ CloseDialog(d)
  <2>1. PICK a \in {"none", "reject", "flag"} : desk' = [desk EXCEPT ![d].dialog = a]
    BY <1>4 DEF AskReason, CloseDialog
  <2> DEFINE x == [desk[d] EXCEPT !.dialog = a]
  <2>2. /\ x \in Page /\ x.list = desk[d].list /\ x.decided = desk[d].decided
        /\ x.screen = desk[d].screen /\ x.via = desk[d].via /\ x.held = desk[d].held
        /\ x.own = desk[d].own /\ x.row = desk[d].row
    BY <1>1 DEF Page
  <2>3. desk' = [desk EXCEPT ![d] = x]
    BY <2>1
  <2> HIDE DEF x
  <2> QED BY <1>3, <2>2, <2>3
<1>5. ASSUME NEW q \in Query(Status), desk' = [desk EXCEPT ![d] = [desk[d] EXCEPT !.detail = q]]
      PROVE  IInv'
  <2> DEFINE x == [desk[d] EXCEPT !.detail = q]
  <2>2. /\ x \in Page /\ x.list = desk[d].list /\ x.decided = desk[d].decided
        /\ x.screen = desk[d].screen /\ x.via = desk[d].via /\ x.held = desk[d].held
        /\ x.own = desk[d].own /\ x.row = desk[d].row
    BY <1>1 DEF Page
  <2>3. desk' = [desk EXCEPT ![d] = x]
    BY <1>5
  <2> HIDE DEF x
  <2> QED BY <1>3, <2>2, <2>3
<1>6. desk[d].detail \in Query(Status)
  BY <1>1, PageFields
<1>7. CASE DetailServed(d)
  <2> DEFINE q == [desk[d].detail EXCEPT !.fetch = "answered", !.answer = db[desk[d].row]]
  <2>1. db[desk[d].row] \in Status /\ desk' = [desk EXCEPT ![d] = [desk[d] EXCEPT !.detail = q]]
    BY <1>7 DEF DetailServed, There
  <2>2. q \in Query(Status)
    BY <1>6, <2>1, QueryTypes
  <2> QED BY <1>5, <2>1, <2>2
<1>8. CASE DetailArrives(d)
  <2> DEFINE q == Received(desk[d].detail, TRUE)
  <2>1. desk' = [desk EXCEPT ![d] = [desk[d] EXCEPT !.detail = q]]
    BY <1>8 DEF DetailArrives
  <2>2. q \in Query(Status)
    BY <1>6, QueryTypes
  <2> HIDE DEF q
  <2> QED BY <1>5, <2>1, <2>2
<1>9. CASE DetailFails(d)
  <2> DEFINE q == Failed(desk[d].detail, TRUE)
  <2>1. desk' = [desk EXCEPT ![d] = [desk[d] EXCEPT !.detail = q]]
    BY <1>9 DEF DetailFails
  <2>2. q \in Query(Status)
    BY <1>6, QueryTypes
  <2> HIDE DEF q
  <2> QED BY <1>5, <2>1, <2>2
<1> QED BY <1>4, <1>7, <1>8, <1>9

-----------------------------------------------------------------------------
(* Moving about.                                                           *)

\* A mutation whose component is gone.
LEMMA OrphansOk ==
  ASSUME IInv, NEW d \in Desks, muts' = Orphaned(d)
  PROVE  \A m \in muts' : SendingOk(m)
<1> SUFFICES ASSUME NEW n \in muts, NEW m, m \in {n, [n EXCEPT !.home = FALSE]}
             PROVE  SendingOk(m)
  BY DEF Orphaned
<1>1. SendingOk(n) /\ n \in Sending
  BY DEF IInv, SendingOk
<1>2. /\ m \in Sending /\ m.what = n.what /\ m.action = n.action /\ m.row = n.row
      /\ m.at = n.at /\ m.touched = n.touched /\ m.told = n.told /\ m.result = n.result
      /\ m.seen = n.seen /\ m.event = n.event
  <2>1. CASE m = n
    BY <1>1, <2>1
  <2>2. CASE m = [n EXCEPT !.home = FALSE]
    BY <1>1, <2>2 DEF Sending
  <2> QED BY <2>1, <2>2
<1> QED BY <1>1, <1>2 DEF SendingOk, ScopeOk

\* What is on screen of a group has the statuses of a list.
LEMMA GroupRows ==
  ASSUME NEW x \in Page, NEW d \in Desks, desk[d] = x, x.held # Nothing
  PROVE  Group(d) \in Rows
<1>1. x.held \in Rows /\ x.list \in Query(Rows)
  BY PageFields DEF Maybe
<1>2. x.list.data = Nothing \/ x.list.data \in Rows
  BY <1>1 DEF Query, Maybe
<1>3. \A S : \A r \in Rows : Restricted(r, S) \in Rows
  BY DEF Restricted, Rows, Maybe
<1> DEFINE live == IF desk[d].list.data = Nothing THEN {}
                   ELSE Present(desk[d].list.data) \intersect OfGroup(desk[d].group)
<1>4. Group(d) = IF live # {} THEN Restricted(x.list.data, live) ELSE x.held
  BY DEF Group
<1>5. live # {} => x.list.data \in Rows
  BY <1>2
<1> HIDE DEF live
<1> QED BY <1>1, <1>3, <1>4, <1>5

LEMMA OpenGroupOk ==
  ASSUME IInv, NEW d \in Desks, NEW g \in Groups, NEW statuses, OpenGroup(d, g, statuses)
  PROVE  IInv'
<1> DEFINE shown == {s \in OfGroup(g) : desk[d].list.data[s] \in statuses}
           held == Restricted(desk[d].list.data, shown)
           x == [desk[d] EXCEPT !.screen = "group", !.group = g, !.held = held,
                                !.list = Asked(desk[d].list)]
<1>1. /\ PageOk(desk[d]) /\ desk[d] \in Page /\ OnList(desk[d]) \in BOOLEAN
      /\ ListOk(desk[d].list, desk[d].decided, OnList(desk[d]))
  BY ThePage
<1>2. /\ desk[d].list.data # Nothing /\ desk' = [desk EXCEPT ![d] = x]
      /\ muts' = Orphaned(d) /\ UNCHANGED <<sent, db, replica, cap>>
  <2>1. desk' = [desk EXCEPT ![d] = x]
    BY DEF OpenGroup
  <2>2. desk[d].list.data # Nothing /\ muts' = Orphaned(d)
        /\ UNCHANGED <<sent, db, replica, cap>>
    BY DEF OpenGroup, RowsShown
  <2> QED BY <2>1, <2>2
<1>3. desk[d].list \in Query(Rows) /\ desk[d].list.data \in Rows
  BY <1>1, <1>2, PageFields DEF Query, Maybe
<1>4. held \in Rows /\ held # Nothing
  <2>1. held \in Rows
    BY <1>3 DEF Restricted, Rows, Maybe
  <2> QED BY <2>1, Apart
<1> HIDE DEF held
<1>5. ListOk(Asked(desk[d].list), desk[d].decided, TRUE) /\ Asked(desk[d].list) \in Query(Rows)
  BY <1>1, <1>3, ListSteps, QueryTypes
<1>6. /\ x \in Page /\ x.screen = "group" /\ x.held = held /\ x.decided = desk[d].decided
      /\ x.list = Asked(desk[d].list)
  BY <1>1, <1>4, <1>5 DEF Page, Maybe
<1> HIDE DEF x
<1>7. PageOk(x)
  BY <1>1, <1>4, <1>5, <1>6 DEF PageOk, OnList
<1> QED BY <1>2, <1>7, OrphansOk, DeskStep

LEMMA OpenRowOk ==
  ASSUME IInv, NEW d \in Desks, NEW s \in Subs, NEW rows \in Rows, NEW detail \in Query(Status),
         desk[d].screen \in {"list", "group"}, OpenRow(d, s, rows, detail)
  PROVE  IInv'
<1> DEFINE x == [desk[d] EXCEPT !.via = desk[d].screen, !.screen = "detail", !.row = s,
                                !.own = rows[s], !.list = Unobserved(desk[d].list),
                                !.detail = detail]
<1>1. /\ PageOk(desk[d]) /\ desk[d] \in Page /\ OnList(desk[d]) \in BOOLEAN
      /\ ListOk(desk[d].list, desk[d].decided, OnList(desk[d]))
  BY ThePage
<1>2. /\ rows[s] # Nothing /\ muts' = Orphaned(d) /\ UNCHANGED <<sent, db, replica, cap>>
  BY DEF OpenRow
<1>3. desk' = [desk EXCEPT ![d] = x]
  BY DEF OpenRow
<1>4. rows[s] \in Status
  BY <1>2 DEF Rows, Maybe
<1>5. /\ ListOk(Unobserved(desk[d].list), desk[d].decided, FALSE)
      /\ Unobserved(desk[d].list) \in Query(Rows)
  BY <1>1, ListSteps DEF ListOk
<1>6. /\ x \in Page /\ x.screen = "detail" /\ x.via = desk[d].screen /\ x.held = desk[d].held
      /\ x.decided = desk[d].decided /\ x.list = Unobserved(desk[d].list)
      /\ x.own = rows[s] /\ x.row = s
  BY <1>1, <1>4, <1>5 DEF Page, Maybe
<1> HIDE DEF x
<1>7. PageOk(x)
  <2>1. OnList(x) = FALSE
    BY <1>6 DEF OnList
  <2>2. ListOk(x.list, x.decided, OnList(x))
    BY <1>5, <1>6, <2>1
  <2>3. desk[d].screen = "group" => desk[d].held # Nothing
    BY <1>1 DEF PageOk
  <2>4. \A t \in x.decided : Settled(t)
    BY <1>1, <1>6 DEF PageOk
  <2>5. x.own # Nothing /\ x.row # Nothing
    BY <1>2, <1>6, Apart
  <2> QED BY <1>6, <2>2, <2>3, <2>4, <2>5 DEF PageOk
<1> QED BY <1>2, <1>3, <1>7, OrphansOk, DeskStep

LEMMA BackOk ==
  ASSUME IInv, NEW d \in Desks, Back(d)
  PROVE  IInv'
<1>1. /\ PageOk(desk[d]) /\ desk[d] \in Page /\ OnList(desk[d]) \in BOOLEAN
      /\ ListOk(desk[d].list, desk[d].decided, OnList(desk[d]))
  BY ThePage
<1>2. /\ desk[d].screen # "list" /\ muts' = Orphaned(d) /\ UNCHANGED <<sent, db, replica, cap>>
  BY DEF Back
<1>3. ListOk(Asked(desk[d].list), desk[d].decided, TRUE) /\ Asked(desk[d].list) \in Query(Rows)
  BY <1>1, ListSteps DEF ListOk
<1>4. CASE desk[d].screen = "detail"
  <2> DEFINE x == [desk[d] EXCEPT !.screen = desk[d].via, !.row = Nothing, !.own = Nothing,
                                  !.reviewed = Nothing, !.detail = Unread,
                                  !.list = Asked(desk[d].list)]
  <2>1. desk' = [desk EXCEPT ![d] = x]
    BY <1>4 DEF Back
  <2>2. Unread \in Query(Status)
    BY DEF Unread, Query, Maybe, Fetch
  <2>3. /\ x \in Page /\ x.screen = desk[d].via /\ x.held = desk[d].held
        /\ x.decided = desk[d].decided /\ x.list = Asked(desk[d].list)
    BY <1>1, <1>3, <2>2 DEF Page, Maybe
  <2>4. desk[d].via \in {"list", "group"}
    BY <1>1, PageFields
  <2> HIDE DEF x
  <2>5. PageOk(x)
    BY <1>1, <1>3, <1>4, <2>3, <2>4 DEF PageOk, OnList
  <2> QED BY <1>2, <2>1, <2>5, OrphansOk, DeskStep
<1>5. CASE desk[d].screen # "detail"
  <2> DEFINE x == [desk[d] EXCEPT !.screen = "list", !.group = Nothing, !.held = Nothing,
                                  !.list = Asked(desk[d].list)]
  <2>1. desk' = [desk EXCEPT ![d] = x]
    BY <1>5 DEF Back
  <2>2. /\ x \in Page /\ x.screen = "list"
        /\ x.decided = desk[d].decided /\ x.list = Asked(desk[d].list)
    BY <1>1, <1>3 DEF Page, Maybe
  <2> HIDE DEF x
  <2>3. PageOk(x)
    BY <1>1, <1>3, <2>2 DEF PageOk, OnList
  <2> QED BY <1>2, <2>1, <2>3, OrphansOk, DeskStep
<1> QED BY <1>4, <1>5

-----------------------------------------------------------------------------
(* Mutations.                                                              *)

\* A new mutation is one the screens can send.
LEMMA MutateOk ==
  ASSUME IInv, NEW m, Mutate(m), SendingOk(m)
  PROVE  IInv'
<1>1. /\ sent < cap.sends /\ muts' = muts \union {m} /\ sent' = sent + 1
      /\ UNCHANGED <<desk, db, replica, cap>>
  BY DEF Mutate
<1>2. cap.sends \in Nat /\ sent \in 0 .. cap.sends
  BY CapOk DEF IInv
<1>3. sent' \in 0 .. cap.sends
  BY <1>1, <1>2
<1>4. Tables'
  BY <1>1 DEF IInv, Tables
<1>5. \A n \in muts' : n \in muts \/ SendingOk(n)'
  <2>1. SendingOk(m)'
    BY <1>1 DEF SendingOk, ScopeOk, Settled
  <2> QED BY <1>1, <2>1
<1> QED BY <1>1, <1>3, <1>4, <1>5, TableStep DEF Settled

LEMMA ReviewRowOk ==
  ASSUME IInv, NEW d \in Desks, NEW a \in {"approve", "reject", "flag"},
         cap.kind = "sport" => a \in {"approve", "reject"},
         desk[d].screen = "detail", ReviewRow(d, a)
  PROVE  IInv'
<1> DEFINE m == Mutation(d, "one", desk[d].row, Nothing, a)
<1>1. Mutate(m)
  BY DEF ReviewRow
<1>2. desk[d].row \in Subs /\ a \in Actions
  <2>1. desk[d].row # Nothing /\ desk[d].row \in Maybe(Subs)
    BY ThePage, PageFields DEF PageOk
  <2> QED BY <2>1 DEF Maybe, Actions, REVIEW_TRANSITIONS
<1>0. sent \in Nat
  BY CapOk DEF IInv
<1>3. /\ m \in Sending /\ m.action = a /\ m.what = "one" /\ m.row = desk[d].row /\ m.at = "sent"
  BY <1>0, <1>2 DEF Mutation, Sending, Maybe
<1> HIDE DEF m
<1>4. SendingOk(m)
  BY <1>2, <1>3, Apart DEF SendingOk, ScopeOk
<1> QED BY <1>1, <1>4, MutateOk

LEMMA ReviewGroupOk ==
  ASSUME IInv, NEW d \in Desks, NEW a \in {"approve", "reject"}, NEW scope,
         desk[d].screen = "group",
         LET events == {EventOf[s] : s \in Present(Group(d))}
         IN  \/ cap.kind = "number" /\ scope = Nothing
             \/ scope = IF Cardinality(events) = 1 THEN CHOOSE e \in events : TRUE ELSE Nothing,
         ReviewGroup(d, a, scope)
  PROVE  IInv'
<1> DEFINE events == {EventOf[s] : s \in Present(Group(d))}
           n == Mutation(d, "bulk", Nothing, desk[d].group, a)
           m == [n EXCEPT !.event = scope, !.seen = events]
<1>1. Mutate(m)
  BY DEF ReviewGroup
<1>2. desk[d].group \in Maybe(Groups) /\ a \in Actions
  <2>1. desk[d].group \in Maybe(Groups)
    BY ThePage, PageFields
  <2> QED BY <2>1 DEF Actions, REVIEW_TRANSITIONS
<1>3. events \subseteq Events
  BY Apart DEF Present
<1> HIDE DEF events
<1>4. scope \in Maybe(Events) /\ (cap.kind # "number" /\ Cardinality(events) = 1 => scope \in events)
  <2>1. Cardinality(events) = 1 => (CHOOSE e \in events : TRUE) \in events
    <3>1. CASE events = {}
      BY <3>1, FS_EmptySet
    <3>2. CASE events # {}
      BY <3>2
    <3> QED BY <3>1, <3>2
  <2> QED BY <1>3, <2>1 DEF events, Maybe
<1>0. sent \in Nat
  BY CapOk DEF IInv
<1>5. n \in Sending /\ n.action = a /\ n.what = "bulk" /\ n.at = "sent"
  BY <1>0, <1>2 DEF Mutation, Sending, Maybe
<1> HIDE DEF n
<1>6. /\ m \in Sending /\ m.action = a /\ m.what = "bulk" /\ m.at = "sent"
      /\ m.event = scope /\ m.seen = events
  BY <1>3, <1>4, <1>5 DEF Sending
<1> HIDE DEF m
<1>7. SendingOk(m)
  BY <1>4, <1>6 DEF SendingOk, ScopeOk
<1> QED BY <1>1, <1>7, MutateOk

\* A mutation that is served.
LEMMA ServedOk ==
  ASSUME IInv, NEW m \in muts, NEW rows \in SUBSET Subs, NEW status \in Status \ {"SUBMITTED"},
         ScopeOk([m EXCEPT !.at = "done", !.touched = rows, !.told = rows, !.result = status]),
         Served(m, rows, status)
  PROVE  IInv'
<1> DEFINE n == [m EXCEPT !.at = "done", !.touched = rows, !.told = rows, !.result = status]
<1>1. db' = [s \in Subs |-> IF s \in rows THEN status ELSE db[s]]
  BY DEF Served
<1>2. muts' = (muts \ {m}) \union {n} /\ UNCHANGED <<desk, sent, replica, cap>>
  BY DEF Served
<1>3. db \in [Subs -> Status \union {Nothing, "GONE"}]
      /\ replica \in [Subs -> Status \union {Nothing, "GONE"}]
  BY DEF IInv, Tables
<1>4. Tables'
  <2>1. db' \in [Subs -> Status \union {Nothing, "GONE"}]
    BY <1>1, <1>3
  <2> QED BY <1>2, <1>3, <2>1 DEF Tables
<1>5. \A s \in Subs : Settled(s) \/ s \in rows => Settled(s)'
  BY <1>1, Apart DEF Settled
<1>6. SendingOk(m)
  BY DEF IInv
<1>7. /\ n \in Sending /\ n.what = m.what /\ n.action = m.action /\ n.row = m.row
      /\ n.told = rows /\ n.result = status
  BY <1>6 DEF SendingOk, Sending, Maybe
<1>8. ScopeOk(n)'
  BY <1>2 DEF ScopeOk
<1> HIDE DEF n
<1>9. SendingOk(n)'
  BY <1>2, <1>5, <1>6, <1>7, <1>8, Apart DEF SendingOk
<1>10. sent' \in 0 .. cap.sends
  BY <1>2 DEF IInv
<1> QED BY <1>2, <1>4, <1>5, <1>9, <1>10, TableStep

\* One that is refused, or lost.
LEMMA FailsOk ==
  ASSUME IInv, NEW m \in muts, Refused(m) \/ Fails(m)
  PROVE  IInv'
<1> DEFINE n == [m EXCEPT !.at = "refused"]
<1>1. muts' \subseteq muts \union {n} /\ UNCHANGED <<desk, sent, db, replica, cap>>
  BY DEF Refused, Fails
<1>2. SendingOk(m)
  BY DEF IInv
<1>3. /\ n \in Sending /\ n.what = m.what /\ n.action = m.action /\ n.row = m.row
      /\ n.at = "refused" /\ n.seen = m.seen /\ n.event = m.event
  BY <1>2 DEF SendingOk, Sending
<1> HIDE DEF n
<1>4. SendingOk(n)'
  BY <1>1, <1>2, <1>3 DEF SendingOk, ScopeOk
<1>5. Tables' /\ sent' \in 0 .. cap.sends
  BY <1>1 DEF IInv, Tables
<1> QED BY <1>1, <1>4, <1>5, TableStep DEF Settled

\* One whose answer is heard: what it was told of is decided from then on.
LEMMA HeardOk ==
  ASSUME IInv, NEW m \in muts, NEW shown \in Page, Heard(m, shown),
         shown.list = desk[m.desk].list, shown.decided = desk[m.desk].decided,
         shown.screen = desk[m.desk].screen, shown.via = desk[m.desk].via,
         shown.held = desk[m.desk].held, shown.row = desk[m.desk].row,
         desk[m.desk].own # Nothing => shown.own # Nothing
  PROVE  IInv'
<1> DEFINE d == m.desk
           b == IF m.home THEN [shown EXCEPT !.dialog = "none"] ELSE desk[d]
           q == Invalidated(b.list, Listed(d))
           detail == IF cap.kind = "category" /\ b.screen = "detail"
                     THEN Invalidated(b.detail, TRUE) ELSE b.detail
           x == [b EXCEPT !.list = q, !.detail = detail, !.decided = b.decided \union m.told]
<1>1. SendingOk(m) /\ d \in Desks /\ m.told \subseteq Subs
  BY SendingFields DEF IInv, SendingOk
<1>2. /\ PageOk(desk[d]) /\ desk[d] \in Page /\ OnList(desk[d]) \in BOOLEAN
      /\ Listed(d) = OnList(desk[d]) /\ ListOk(desk[d].list, desk[d].decided, OnList(desk[d]))
  BY <1>1, ThePage
<1>3. m.at = "done" /\ muts' = muts \ {m} /\ UNCHANGED <<sent, db, replica, cap>>
  BY DEF Heard
<1>4. desk' = [desk EXCEPT ![d] = x]
  BY DEF Heard
<1>5. /\ b \in Page /\ b.list = desk[d].list /\ b.decided = desk[d].decided
      /\ b.screen = desk[d].screen /\ b.via = desk[d].via /\ b.held = desk[d].held
      /\ b.row = desk[d].row /\ (desk[d].own # Nothing => b.own # Nothing)
  <2>1. CASE m.home
    BY <2>1 DEF Page
  <2>2. CASE ~ m.home
    BY <1>2, <2>2
  <2> QED BY <2>1, <2>2
<1> HIDE DEF b
<1>6. ListOk(q, b.decided \union m.told, OnList(desk[d])) /\ q \in Query(Rows)
  <2>1. ListOk(b.list, b.decided, OnList(desk[d])) /\ q = Invalidated(b.list, OnList(desk[d]))
    BY <1>2, <1>5
  <2> HIDE DEF q
  <2>2. ListOk(q, b.decided \union m.told, OnList(desk[d]))
    BY <1>2, <2>1, ListSteps
  <2> QED BY <2>2 DEF ListOk
<1>7. detail \in Query(Status)
  BY <1>5, PageFields, QueryTypes
<1> HIDE DEF q, detail
<1>8. b.decided \subseteq Subs
  BY <1>5, PageFields
<1>9. /\ x \in Page /\ x.list = q /\ x.decided = b.decided \union m.told
      /\ x.screen = desk[d].screen /\ x.via = desk[d].via /\ x.held = desk[d].held
      /\ x.row = desk[d].row /\ x.own = b.own
  BY <1>1, <1>5, <1>6, <1>7, <1>8 DEF Page
<1> HIDE DEF x
<1>10. \A s \in x.decided : Settled(s)
  BY <1>1, <1>2, <1>3, <1>5, <1>9 DEF PageOk, SendingOk
<1>11. PageOk(x)
  BY <1>2, <1>5, <1>6, <1>9, <1>10 DEF PageOk, OnList
<1>12. \A n \in muts' : SendingOk(n)
  BY <1>3 DEF IInv
<1> QED BY <1>1, <1>3, <1>4, <1>11, <1>12, DeskStep

\* The answers the screens wait for: the row takes over the status, or nothing.
LEMMA AnswersOk ==
  ASSUME IInv, NEW m \in muts,
         \/ Heard(m, [desk[m.desk] EXCEPT !.own = m.result])
         \/ Heard(m, [desk[m.desk] EXCEPT !.reviewed = m.result])
         \/ Heard(m, desk[m.desk])
  PROVE  IInv'
<1>1. SendingOk(m) /\ m.desk \in Desks /\ m.result \in Maybe(Status) /\ m.at = "done"
  BY SendingFields DEF IInv, SendingOk, Heard
<1>2. desk[m.desk] \in Page /\ m.result # Nothing
  BY <1>1, ThePage DEF SendingOk
<1>3. CASE Heard(m, [desk[m.desk] EXCEPT !.own = m.result])
  <2> DEFINE x == [desk[m.desk] EXCEPT !.own = m.result]
  <2>1. /\ x \in Page /\ x.list = desk[m.desk].list /\ x.decided = desk[m.desk].decided
        /\ x.screen = desk[m.desk].screen /\ x.via = desk[m.desk].via
        /\ x.held = desk[m.desk].held /\ x.row = desk[m.desk].row /\ x.own # Nothing
    BY <1>1, <1>2 DEF Page
  <2>2. Heard(m, x)
    BY <1>3
  <2> HIDE DEF x
  <2> QED BY <2>1, <2>2, HeardOk
<1>4. CASE Heard(m, [desk[m.desk] EXCEPT !.reviewed = m.result])
  <2> DEFINE x == [desk[m.desk] EXCEPT !.reviewed = m.result]
  <2>1. /\ x \in Page /\ x.list = desk[m.desk].list /\ x.decided = desk[m.desk].decided
        /\ x.screen = desk[m.desk].screen /\ x.via = desk[m.desk].via
        /\ x.held = desk[m.desk].held /\ x.row = desk[m.desk].row
        /\ x.own = desk[m.desk].own
    BY <1>1, <1>2 DEF Page
  <2>2. Heard(m, x)
    BY <1>4
  <2> HIDE DEF x
  <2> QED BY <2>1, <2>2, HeardOk
<1>5. CASE Heard(m, desk[m.desk])
  BY <1>2, <1>5, HeardOk
<1> QED BY <1>3, <1>4, <1>5

-----------------------------------------------------------------------------
(* Elsewhere.                                                              *)

\* Submitted again: it is no longer among what any desk has been or will be told.
LEMMA ResubmittedOk ==
  ASSUME IInv, NEW s \in Subs, Resubmitted(s)
  PROVE  IInv'
<1>1. /\ db' = [db EXCEPT ![s] = "SUBMITTED"]
      /\ desk' = [d \in Desks |-> [desk[d] EXCEPT !.decided = desk[d].decided \ {s}]]
      /\ muts' = {[m EXCEPT !.told = m.told \ {s}] : m \in muts}
      /\ UNCHANGED <<sent, replica, cap>>
  BY DEF Resubmitted
<1>2. /\ db \in [Subs -> Status \union {Nothing, "GONE"}]
      /\ replica \in [Subs -> Status \union {Nothing, "GONE"}]
  BY DEF IInv, Tables
<1>3. Tables' /\ \A t \in Subs \ {s} : Settled(t) => Settled(t)'
  BY <1>1, <1>2, Apart DEF Tables, Settled
<1>4. ASSUME NEW y \in Page, NEW x \in Page, PageOk(y),
             x.list = y.list, x.decided = y.decided \ {s}, x.screen = y.screen,
             x.via = y.via, x.held = y.held, x.own = y.own, x.row = y.row
      PROVE  PageOk(x)'
  <2>1. y.decided \subseteq Subs
    BY PageFields
  <2>2. ListOk(x.list, x.decided, OnList(x))'
    BY <1>1, <1>4 DEF PageOk, ListOk, OnList
  <2>3. \A t \in x.decided : Settled(t)'
    BY <1>3, <1>4, <2>1 DEF PageOk
  <2> QED BY <1>4, <2>2, <2>3 DEF PageOk, OnList
<1>7. ASSUME NEW d \in Desks PROVE PageOk(desk[d])'
  <2> DEFINE x == [desk[d] EXCEPT !.decided = desk[d].decided \ {s}]
  <2>1. PageOk(desk[d]) /\ desk[d] \in Page
    BY ThePage
  <2>2. /\ x \in Page /\ x.list = desk[d].list /\ x.decided = desk[d].decided \ {s}
        /\ x.screen = desk[d].screen /\ x.via = desk[d].via /\ x.held = desk[d].held
        /\ x.own = desk[d].own /\ x.row = desk[d].row
    BY <2>1 DEF Page
  <2>3. desk'[d] = x
    BY <1>1
  <2> HIDE DEF x
  <2> QED BY <1>4, <2>1, <2>2, <2>3
<1>5. ASSUME NEW m \in muts' PROVE SendingOk(m)'
  <2>1. PICK n \in muts : m = [n EXCEPT !.told = n.told \ {s}]
    BY <1>1
  <2>2. SendingOk(n) /\ n \in Sending /\ n.told \subseteq Subs
    BY SendingFields DEF IInv, SendingOk
  <2>3. /\ m \in Sending /\ m.what = n.what /\ m.action = n.action /\ m.row = n.row
        /\ m.at = n.at /\ m.touched = n.touched /\ m.told = n.told \ {s}
        /\ m.result = n.result /\ m.seen = n.seen /\ m.event = n.event
    BY <2>1, <2>2 DEF Sending
  <2>4. \A t \in m.told : t \in n.told /\ (Settled(t) => Settled(t)')
    BY <1>3, <2>2, <2>3
  <2> QED BY <1>1, <2>2, <2>3, <2>4 DEF SendingOk, ScopeOk
<1>6. DOMAIN desk' = Desks /\ desk' = [d \in Desks |-> desk'[d]]
  BY <1>1
<1> QED BY <1>1, <1>3, <1>5, <1>6, <1>7 DEF IInv

LEMMA ElsewhereOk ==
  ASSUME IInv, \/ \E s \in Subs : NewSubmission(s) \/ Withdrawn(s) \/ SentBack(s) \/ Resubmitted(s)
               \/ Replicate
  PROVE  IInv'
<1>1. /\ db \in [Subs -> Status \union {Nothing, "GONE"}]
      /\ replica \in [Subs -> Status \union {Nothing, "GONE"}] /\ sent \in 0 .. cap.sends
  BY DEF IInv, Tables
<1>2. CASE Replicate
  BY <1>1, <1>2, TableStep DEF Replicate, Tables, Settled
<1>3. ASSUME NEW s \in Subs, NEW v \in Status \union {"GONE"},
             UNCHANGED <<desk, muts, sent, replica, cap>>, db' = [db EXCEPT ![s] = v],
             v = "SUBMITTED" => db[s] = Nothing
      PROVE  IInv'
  <2>1. Tables'
    BY <1>1, <1>3 DEF Tables
  <2>2. "GONE" # Nothing
    BY DeskAssumption
  <2>3. \A t \in Subs : Settled(t) => Settled(t)'
    BY <1>1, <1>3, <2>2, Apart DEF Settled
  <2> QED BY <1>1, <1>3, <2>1, <2>3, TableStep
<1>4. ASSUME NEW s \in Subs, NewSubmission(s) \/ Withdrawn(s) \/ SentBack(s) PROVE IInv'
  <2>1. CASE NewSubmission(s)
    BY <1>3, <2>1 DEF NewSubmission, Status
  <2>2. CASE Withdrawn(s)
    BY <1>3, <2>2 DEF Withdrawn
  <2>3. CASE SentBack(s)
    BY <1>3, <2>3 DEF SentBack, Status
  <2> QED BY <1>4, <2>1, <2>2, <2>3
<1> QED BY <1>2, <1>4, ResubmittedOk

-----------------------------------------------------------------------------
(* The three surveys.                                                      *)

\* The statuses a decision leads to.
LEMMA Targets ==
  /\ \A a \in {"approve", "reject"} : BulkTarget[a] \in Status \ {"SUBMITTED"}
  /\ \A a \in {"approve", "reject", "flag"} :
       REVIEW_TRANSITIONS[a].to \in Status \ {"SUBMITTED"}
BY DEF BulkTarget, REVIEW_TRANSITIONS, Status

\* The decisions the screens offer.
LEMMA Offers ==
  ASSUME NEW status \in Status
  PROVE  /\ SportAllowed[status] \subseteq {"approve", "reject"}
         /\ NumberAllowed[status] \subseteq {"approve", "reject", "flag"}
         /\ CategoryAllowed[status] \subseteq {"approve", "reject", "flag"}
BY DEF SportAllowed, NumberAllowed, CategoryAllowed, Status

\* The status on a screen is one.
LEMMA ShownOk ==
  ASSUME IInv, NEW d \in Desks, desk[d].screen = "detail"
  PROVE  desk[d].own \in Status /\ CategoryShown(d) \in Status /\ desk[d].row \in Subs
<1>1. PageOk(desk[d]) /\ desk[d] \in Page
  BY ThePage
<1>2. desk[d].own \in Status /\ desk[d].row \in Subs
  BY <1>1, PageFields DEF PageOk, Maybe
<1>3. desk[d].reviewed \in Maybe(Status) /\ desk[d].detail.data \in Maybe(Status)
  BY <1>1, PageFields DEF Query
<1> QED BY <1>2, <1>3 DEF CategoryShown, Maybe

\* A group's rows are of a group on screen.
LEMMA GroupOnScreen ==
  ASSUME IInv, NEW d \in Desks, desk[d].screen = "group"
  PROVE  Group(d) \in Rows
<1>1. PageOk(desk[d]) /\ desk[d] \in Page
  BY ThePage
<1>2. desk[d].held # Nothing
  BY <1>1 DEF PageOk
<1> QED BY <1>1, <1>2, GroupRows

\* One submission is served, or a bulk of those of the event asked for.
LEMMA OneServed ==
  ASSUME IInv, NEW m \in muts, m.what = "one", NEW status \in Status \ {"SUBMITTED"},
         Served(m, {m.row}, status)
  PROVE  IInv'
<1>1. SendingOk(m) /\ m.row \in Subs
  BY SendingFields DEF IInv, SendingOk, Maybe
<1> DEFINE n == [m EXCEPT !.at = "done", !.touched = {m.row}, !.told = {m.row}, !.result = status]
<1>2. n.what = "one"
  BY <1>1 DEF SendingOk, Sending
<1>3. ScopeOk(n)
  BY <1>2 DEF ScopeOk
<1> QED BY <1>1, <1>3, ServedOk

LEMMA BulkServed ==
  ASSUME IInv, NEW m \in muts, m.what = "bulk", NEW rows \in SUBSET Subs,
         cap.kind # "number" => \A s \in rows : m.event \in {EventOf[s], Nothing},
         Served(m, rows, BulkTarget[m.action])
  PROVE  IInv'
<1>1. SendingOk(m) /\ m \in Sending /\ m.action \in {"approve", "reject"}
  BY DEF IInv, SendingOk
<1>2. BulkTarget[m.action] \in Status \ {"SUBMITTED"}
  BY <1>1, Targets
<1> DEFINE n == [m EXCEPT !.at = "done", !.touched = rows, !.told = rows,
                          !.result = BulkTarget[m.action]]
<1>3. n.what = "bulk" /\ n.seen = m.seen /\ n.event = m.event /\ n.touched = rows
  BY <1>1 DEF Sending
<1>4. m.seen \subseteq Events
  BY <1>1, SendingFields
<1> HIDE DEF n
<1>5. ScopeOk(n)
  BY <1>1, <1>3, <1>4, Apart DEF SendingOk, ScopeOk
<1> QED BY <1>2, <1>5, ServedOk DEF n

LEMMA SportOk ==
  ASSUME IInv, SportReview
  PROVE  IInv'
<1>1. cap.kind = "sport" /\ cap.admins \subseteq Desks
  BY CapOk DEF IInv, SportReview
<1>2. ASSUME NEW d \in Desks, SportDesk(d) PROVE IInv'
  <2>1. CASE \E g \in Groups : OpenSportOrg(d, g)
    BY <2>1, OpenGroupOk DEF OpenSportOrg
  <2>2. ASSUME NEW s \in Subs, OpenSportRow(d, s) PROVE IInv'
    <3>1. desk[d].screen = "group" /\ OpenRow(d, s, Group(d), Unread)
      BY <2>2 DEF OpenSportRow
    <3>2. Unread \in Query(Status)
      BY DEF Unread, Query, Maybe, Fetch
    <3> QED BY <3>1, <3>2, GroupOnScreen, OpenRowOk
  <2>3. ASSUME NEW a \in Actions, SportOrgReview(d, a) PROVE IInv'
    <3>1. desk[d].screen = "group" /\ a \in {"approve", "reject"}
          /\ ReviewGroup(d, a, SportScope(d))
      BY <2>3 DEF SportOrgReview
    <3> QED BY <3>1, ReviewGroupOk DEF SportScope
  <2>4. ASSUME NEW a \in Actions, SportRowReview(d, a) PROVE IInv'
    BY <2>4, ReviewRowOk DEF SportRowReview
  <2>5. CASE SportRejectAsked(d)
    BY <2>5, SmallStepsOk DEF SportRejectAsked
  <2> QED BY <1>2, <2>1, <2>2, <2>3, <2>4, <2>5 DEF SportDesk
<1>3. ASSUME NEW m \in muts,
             ReviewSportOrg(m) \/ ReviewSportOrgBulk(m) \/ SportRowReviewed(m) \/ SportOrgReviewed(m)
      PROVE  IInv'
  <2>1. CASE ReviewSportOrg(m)
    <3>1. SendingOk(m) /\ m.what = "one"
      BY <2>1 DEF IInv, ReviewSportOrg
    <3>2. BulkTarget[m.action] \in Status \ {"SUBMITTED"}
      BY <1>1, <3>1, Targets DEF SendingOk
    <3>3. Served(m, {m.row}, BulkTarget[m.action]) \/ Refused(m)
      BY <2>1 DEF ReviewSportOrg
    <3> QED BY <3>1, <3>2, <3>3, OneServed, FailsOk
  <2>2. CASE ReviewSportOrgBulk(m)
    <3> DEFINE rows == {s \in OfGroup(m.group) : db[s] = "SUBMITTED"
                                                 /\ m.event \in {EventOf[s], Nothing}}
    <3>1. m.what = "bulk" /\ Served(m, rows, BulkTarget[m.action])
      BY <2>2 DEF ReviewSportOrgBulk
    <3>2. rows \in SUBSET Subs /\ \A s \in rows : m.event \in {EventOf[s], Nothing}
      BY DEF OfGroup
    <3> HIDE DEF rows
    <3> QED BY <3>1, <3>2, BulkServed
  <2>3. CASE SportRowReviewed(m) \/ SportOrgReviewed(m)
    BY <2>3, AnswersOk DEF SportRowReviewed, SportOrgReviewed
  <2> QED BY <1>3, <2>1, <2>2, <2>3
<1> QED BY <1>1, <1>2, <1>3 DEF SportReview

LEMMA NumberOk ==
  ASSUME IInv, NumberReview
  PROVE  IInv'
<1>1. cap.kind = "number" /\ InUse \subseteq Desks
  BY CapOk DEF IInv, NumberReview
<1>2. ASSUME NEW d \in Desks, NumberDesk(d) PROVE IInv'
  <2>0. Unread \in Query(Status)
    BY DEF Unread, Query, Maybe, Fetch
  <2>1. CASE \E g \in Groups : OpenNumberOrg(d, g)
    BY <2>1, OpenGroupOk DEF OpenNumberOrg
  <2>2. ASSUME NEW s \in Subs, OpenNumberRow(d, s) PROVE IInv'
    <3>1. desk[d].screen = "group" /\ OpenRow(d, s, Group(d), Unread)
      BY <2>2 DEF OpenNumberRow
    <3> QED BY <2>0, <3>1, GroupOnScreen, OpenRowOk
  <2>3. ASSUME NEW s \in Subs, OpenOwnRow(d, s) PROVE IInv'
    <3>1. /\ desk[d].screen = "list" /\ desk[d].list.data # Nothing
          /\ OpenRow(d, s, desk[d].list.data, Unread)
      BY <2>3 DEF OpenOwnRow, RowsShown
    <3>2. desk[d].list.data \in Rows
      BY <3>1, ThePage, PageFields DEF Query, Maybe
    <3> QED BY <2>0, <3>1, <3>2, OpenRowOk
  <2>4. ASSUME NEW a \in Actions, NumberOrgReview(d, a) PROVE IInv'
    <3>1. desk[d].screen = "group" /\ a \in {"approve", "reject"}
          /\ ReviewGroup(d, a, Nothing)
      BY <2>4 DEF NumberOrgReview
    <3> QED BY <1>1, <3>1, ReviewGroupOk
  <2>5. ASSUME NEW a \in Actions, NumberRowReview(d, a) PROVE IInv'
    BY <1>1, <2>5, ReviewRowOk DEF NumberRowReview
  <2>6. ASSUME NEW a \in Actions, NumberReasonAsked(d, a) PROVE IInv'
    <3>1. a \in {"reject", "flag"}
      <4>1. CASE a = "reject"
        BY <4>1
      <4>2. CASE a # "reject"
        <5>1. desk[d].screen = "detail" /\ a \in NumberAllowed[desk[d].own] \ {"approve"}
          BY <2>6, <4>2 DEF NumberReasonAsked
        <5> QED BY <5>1, ShownOk, Offers
      <4> QED BY <4>1, <4>2
    <3> QED BY <2>6, <3>1, SmallStepsOk DEF NumberReasonAsked
  <2> QED BY <1>2, <2>1, <2>2, <2>3, <2>4, <2>5, <2>6 DEF NumberDesk
<1>3. ASSUME NEW m \in muts,
             ReviewParticipation(m) \/ ReviewBulkByOrg(m) \/ NumberRowReviewed(m)
               \/ NumberOrgReviewed(m)
      PROVE  IInv'
  <2>1. CASE ReviewParticipation(m)
    <3>1. SendingOk(m) /\ m.what = "one"
      BY <2>1 DEF IInv, ReviewParticipation
    <3>2. REVIEW_TRANSITIONS[m.action].to \in Status \ {"SUBMITTED"}
      BY <3>1, Targets DEF SendingOk
    <3>3. Served(m, {m.row}, REVIEW_TRANSITIONS[m.action].to) \/ Refused(m)
      BY <2>1 DEF ReviewParticipation
    <3> QED BY <3>1, <3>2, <3>3, OneServed, FailsOk
  <2>2. CASE ReviewBulkByOrg(m)
    <3> DEFINE rows == {s \in OfGroup(m.group) : db[s] = "SUBMITTED"}
    <3>1. m.what = "bulk" /\ Served(m, rows, BulkTarget[m.action])
      BY <2>2 DEF ReviewBulkByOrg
    <3>2. rows \in SUBSET Subs
      BY DEF OfGroup
    <3> HIDE DEF rows
    <3> QED BY <1>1, <3>1, <3>2, BulkServed
  <2>3. CASE NumberRowReviewed(m) \/ NumberOrgReviewed(m)
    BY <2>3, AnswersOk DEF NumberRowReviewed, NumberOrgReviewed
  <2> QED BY <1>3, <2>1, <2>2, <2>3
<1> QED BY <1>1, <1>2, <1>3 DEF NumberReview

LEMMA CategoryOk ==
  ASSUME IInv, CategoryReview
  PROVE  IInv'
<1>1. cap.kind = "category" /\ cap.admins \subseteq Desks
  BY CapOk DEF IInv, CategoryReview
<1>2. ASSUME NEW d \in Desks, CategoryDesk(d) PROVE IInv'
  <2>1. CASE \E g \in Groups : OpenSportGroup(d, g)
    BY <2>1, OpenGroupOk DEF OpenSportGroup
  <2>2. ASSUME NEW s \in Subs, OpenCategoryRow(d, s) PROVE IInv'
    <3>1. desk[d].screen = "group" /\ OpenRow(d, s, Group(d), Asked(Unread))
      BY <2>2 DEF OpenCategoryRow
    <3>2. Asked(Unread) \in Query(Status)
      BY DEF Asked, Refetched, Unread, Query, Maybe, Fetch
    <3> QED BY <3>1, <3>2, GroupOnScreen, OpenRowOk
  <2>3. CASE DetailServed(d) \/ DetailArrives(d) \/ DetailFails(d)
    BY <2>3, SmallStepsOk
  <2>4. ASSUME NEW a \in Actions, CategorySportReview(d, a) PROVE IInv'
    <3>1. desk[d].screen = "group" /\ a \in {"approve", "reject"}
          /\ ReviewGroup(d, a, CategoryScope(d))
      BY <2>4 DEF CategorySportReview
    <3> QED BY <3>1, ReviewGroupOk DEF CategoryScope
  <2>5. ASSUME NEW a \in Actions, CategoryRowReview(d, a) PROVE IInv'
    BY <1>1, <2>5, ReviewRowOk DEF CategoryRowReview
  <2>6. ASSUME NEW a \in Actions, CategoryReasonAsked(d, a) PROVE IInv'
    <3>1. a \in {"reject", "flag"}
      <4>1. CASE a = "reject"
        BY <4>1
      <4>2. CASE a # "reject"
        <5>1. desk[d].screen = "detail" /\ a \in CategoryAllowed[CategoryShown(d)] \ {"approve"}
          BY <2>6, <4>2 DEF CategoryReasonAsked
        <5> QED BY <5>1, ShownOk, Offers
      <4> QED BY <4>1, <4>2
    <3> QED BY <2>6, <3>1, SmallStepsOk DEF CategoryReasonAsked
  <2> QED BY <1>2, <2>1, <2>2, <2>3, <2>4, <2>5, <2>6 DEF CategoryDesk
<1>3. ASSUME NEW m \in muts,
             ReviewCategory(m) \/ ReviewBulkBySport(m) \/ CategoryRowReviewed(m)
               \/ CategorySportReviewed(m)
      PROVE  IInv'
  <2>1. CASE ReviewCategory(m)
    <3>1. SendingOk(m) /\ m.what = "one"
      BY <2>1 DEF IInv, ReviewCategory
    <3>2. REVIEW_TRANSITIONS[m.action].to \in Status \ {"SUBMITTED"}
      BY <3>1, Targets DEF SendingOk
    <3>3. Served(m, {m.row}, REVIEW_TRANSITIONS[m.action].to) \/ Refused(m)
      BY <2>1 DEF ReviewCategory
    <3> QED BY <3>1, <3>2, <3>3, OneServed, FailsOk
  <2>2. CASE ReviewBulkBySport(m)
    <3> DEFINE rows == {s \in OfGroup(m.group) : db[s] = "SUBMITTED"
                                                 /\ m.event \in {EventOf[s], Nothing}}
    <3>1. m.what = "bulk" /\ Served(m, rows, BulkTarget[m.action])
      BY <2>2 DEF ReviewBulkBySport
    <3>2. rows \in SUBSET Subs /\ \A s \in rows : m.event \in {EventOf[s], Nothing}
      BY DEF OfGroup
    <3> HIDE DEF rows
    <3> QED BY <3>1, <3>2, BulkServed
  <2>3. CASE CategoryRowReviewed(m) \/ CategorySportReviewed(m)
    BY <2>3, AnswersOk DEF CategoryRowReviewed, CategorySportReviewed
  <2> QED BY <1>3, <2>1, <2>2, <2>3
<1> QED BY <1>1, <1>2, <1>3 DEF CategoryReview

-----------------------------------------------------------------------------
(* The invariant.                                                          *)

LEMMA InitOk ==
  ASSUME Init
  PROVE  IInv
<1>1. cap \in Bounds /\ muts = {} /\ sent = 0 /\ cap.sends \in Nat /\ cap.there \subseteq Subs
  BY CapOk DEF Init
<1>2. /\ db = [s \in Subs |-> IF s \in cap.there THEN "SUBMITTED" ELSE Nothing]
      /\ replica = db
  BY DEF Init
<1>3. Tables
  BY <1>2, Apart DEF Tables
<1>4. Unread \in Query(Rows) /\ Unread \in Query(Status) /\ Asked(Unread) \in Query(Rows)
      /\ Asked(Unread).fetch = "asked"
  BY DEF Asked, Refetched, Unread, Query, Maybe, Fetch
<1>5. ListOk(Asked(Unread), {}, TRUE) /\ ListOk(Unread, {}, TRUE)
  BY <1>4 DEF ListOk
<1>6. Blank \in Page
  BY <1>4 DEF Blank, Page, Maybe
<1>7. ASSUME NEW q \in {Unread, Asked(Unread)} PROVE PageOk([Blank EXCEPT !.list = q])
  <2> DEFINE x == [Blank EXCEPT !.list = q]
  <2>1. x \in Page /\ x.list = q /\ x.decided = {} /\ x.screen = "list"
    BY <1>4, <1>6, <1>7 DEF Page, Blank
  <2> HIDE DEF x
  <2>2. PageOk(x)
    BY <1>5, <1>7, <2>1 DEF PageOk, OnList
  <2> QED BY <2>2 DEF x
<1>8. PageOk(Blank)
  <2>1. Blank.list = Unread /\ Blank.decided = {} /\ Blank.screen = "list"
    BY DEF Blank
  <2> QED BY <1>5, <1>6, <2>1 DEF PageOk, OnList
<1>9. \A d \in Desks : PageOk(desk[d])
  <2> SUFFICES ASSUME NEW d \in Desks PROVE PageOk(desk[d])
    OBVIOUS
  <2>1. desk[d] = Blank \/ desk[d] = [Blank EXCEPT !.list = Asked(Unread)]
    BY DEF Init, Blank
  <2> QED BY <1>7, <1>8, <2>1
<1>10. DOMAIN desk = Desks /\ desk = [d \in Desks |-> desk[d]]
  BY DEF Init
<1> QED BY <1>1, <1>3, <1>9, <1>10 DEF IInv

LEMMA StepOk ==
  ASSUME IInv, [Next]_vars
  PROVE  IInv'
<1>1. InUse \subseteq Desks
  BY CapOk DEF IInv
<1>2. CASE SportReview \/ NumberReview \/ CategoryReview
  BY <1>2, SportOk, NumberOk, CategoryOk
<1>3. ASSUME NEW d \in InUse,
             \/ ListServed(d) \/ ListArrives(d) \/ ListFails(d) \/ Refocus(d)
             \/ Back(d) \/ CloseDialog(d)
      PROVE  IInv'
  BY <1>1, <1>3, ListStepsOk, BackOk, SmallStepsOk
<1>4. ASSUME NEW m \in muts, Fails(m) PROVE IInv'
  BY <1>4, FailsOk
<1>5. CASE \/ \E s \in Subs : NewSubmission(s) \/ Withdrawn(s) \/ SentBack(s) \/ Resubmitted(s)
           \/ Replicate
  BY <1>5, ElsewhereOk
<1>6. CASE UNCHANGED vars
  <2>1. Tables' /\ sent' \in 0 .. cap.sends
    BY <1>6 DEF IInv, Tables, vars
  <2> QED BY <1>6, <2>1, TableStep DEF vars, Settled
<1> QED BY <1>2, <1>3, <1>4, <1>5, <1>6 DEF Next

-----------------------------------------------------------------------------
(* What it shows.                                                          *)

LEMMA TypesShow ==
  ASSUME IInv
  PROVE  TypeOK
<1>1. desk \in [Desks -> Page]
  BY DEF IInv, PageOk
<1>2. muts \subseteq Sending
  BY DEF IInv, SendingOk
<1> QED BY <1>1, <1>2 DEF IInv, Tables, TypeOK

\* The tables of the screens offer what the server accepts.
LEMMA TablesAgree ==
  ASSUME NEW status \in Status
  PROVE  /\ \A a \in SportAllowed[status] : Accepted(a, status, TRUE)
         /\ \A a \in NumberAllowed[status] : Accepted(a, status, TRUE)
         /\ \A a \in CategoryAllowed[status] : Accepted(a, status, TRUE)
BY DEF SportAllowed, NumberAllowed, CategoryAllowed, Accepted, REVIEW_TRANSITIONS, Status

LEMMA OffersShow ==
  ASSUME IInv
  PROVE  OffersAccepted
<1> SUFFICES ASSUME NEW d \in cap.admins, desk[d].screen = "detail", db[desk[d].row] = Shown(d),
                    NEW a \in Offered(d)
             PROVE  Accepted(a, Shown(d), TRUE)
  BY DEF OffersAccepted
<1>1. d \in Desks /\ cap.kind \in Kinds
  BY CapOk DEF IInv
<1>2. Shown(d) \in Status
  BY <1>1, ShownOk DEF Shown
<1> QED BY <1>1, <1>2, TablesAgree DEF Offered, Kinds

LEMMA QueueShows ==
  ASSUME IInv
  PROVE  QueueFollows
<1> SUFFICES ASSUME NEW d \in InUse, ~ cap.lag, ~ desk[d].list.old, ~ desk[d].list.failed,
                    desk[d].list.fetch = "idle", desk[d].list.data # Nothing,
                    NEW s \in desk[d].decided
             PROVE  desk[d].list.data[s] # "SUBMITTED"
  BY DEF QueueFollows
<1>1. d \in Desks
  BY CapOk DEF IInv
<1>2. ListOk(desk[d].list, desk[d].decided, OnList(desk[d]))
  BY <1>1, ThePage
<1> QED BY <1>2 DEF ListOk

LEMMA BulkShows ==
  ASSUME IInv
  PROVE  BulkStaysInEvent
BY DEF IInv, SendingOk, ScopeOk, BulkStaysInEvent

LEMMA Invariant == Spec => []IInv
BY InitOk, StepOk, PTL DEF Spec

\* The desks, the decisions under way and the submissions have the types of the
\* model, whatever desks there are and whatever becomes of the requests.
THEOREM DesksTypeCorrect == Spec => []TypeOK
BY Invariant, TypesShow, PTL

\* The tables ALLOWED of the three screens, and the status each of them takes
\* over from a list, an answer or what it has read again: what is offered for a
\* status that is still that of the submission, the server accepts.
THEOREM OffersHold == Spec => []OffersAccepted
BY Invariant, OffersShow, PTL

\* invalidateQueries in onSuccess of the review hooks: no list that came after
\* an answer a desk has heard has what it decided as pending, unless it was sent
\* back and submitted again since.
THEOREM QueueHolds == Spec => []QueueFollows
BY Invariant, QueueShows, PTL

\* The events_id that the bulk reviews of surveys 2 and 4 are sent with: they
\* decide nothing of another event than the one that was on screen.
THEOREM BulkHolds == Spec => []BulkStaysInEvent
BY Invariant, BulkShows, PTL
=============================================================================
