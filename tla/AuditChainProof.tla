-------------------------- MODULE AuditChainProof ---------------------------
(***************************************************************************)
(* Proofs about AuditChain, for any number of workers, users, actions,     *)
(* appends per transaction and transactions.                               *)
(*                                                                         *)
(* The invariants TLC checks are not inductive: whether the next row links *)
(* to the right predecessor depends on who holds the lock and on what an   *)
(* open transaction has read.  IInv says that much: only the lock holder   *)
(* has rows in flight, and the committed rows followed by those rows are   *)
(* one well-linked chain.                                                  *)
(***************************************************************************)
EXTENDS AuditChain, SequenceTheorems, FiniteSetTheorems, TLAPS

-----------------------------------------------------------------------------
(* The inductive invariant.                                                *)

\* The hash the next row of a chain points at.
Link(rows) == IF rows = <<>> THEN GENESIS_HASH ELSE rows[Len(rows)].row_hash

\* Ids ascend and are below n, and every row commits to the row before it: its
\* hash stands for as many contents as there are rows so far.
Chained(rows, n) ==
  /\ \A i \in 1 .. Len(rows) : rows[i].id < n
  /\ \A i, j \in 1 .. Len(rows) : i < j => rows[i].id < rows[j].id
  /\ \A i \in 1 .. Len(rows) :
       /\ rows[i].prev_hash =
            IF i = 1 THEN GENESIS_HASH ELSE rows[i - 1].row_hash
       /\ rows[i].row_hash = compute_row_hash(rows[i].prev_hash, rows[i].content)
       /\ Len(rows[i].row_hash) = i

Locked == {"read", "insert", "ship", "done"}

\* Inside append() and until the end of the transaction the lock is held.
LockInv == \A w \in Writers : tx[w].at \in Locked => holder = w

\* What each statement of the transaction leaves for the next.
TxInv ==
  \A w \in Writers :
    /\ tx[w].at \notin Locked => tx[w].rows = <<>>
    /\ tx[w].at = "insert" => tx[w].prev = Link(Visible(w))
    /\ tx[w].at \in {"ship", "done"} => tx[w].rows # <<>>
    /\ Len(tx[w].rows) <= MaxBatch
    /\ tx[w].at \in {"read", "insert"} => Len(tx[w].rows) < MaxBatch

ChainInv ==
  /\ Chained(log, nextId)
  /\ \A w \in Writers : Chained(Visible(w), nextId)

\* A shipped copy is of an id already drawn, and agrees with any row, committed
\* or in flight, that bears it.
SiemInv ==
  \A e \in siem :
    /\ e.id < nextId
    /\ \A i \in 1 .. Len(log) : log[i].id = e.id => log[i] = e
    /\ \A w \in Writers : \A i \in 1 .. Len(Visible(w)) :
         Visible(w)[i].id = e.id => Visible(w)[i] = e

IInv == TypeOK /\ LockInv /\ TxInv /\ ChainInv /\ SiemInv

-----------------------------------------------------------------------------
(* Lemmas about the operators.                                             *)

\* Leaving the lock queue leaves a queue of writers (the end of any
\* transaction that was still blocked on the advisory lock).
LEMMA LeaveQueueType ==
  ASSUME NEW q \in Seq(Writers), NEW w \in Writers
  PROVE  LeaveQueue(q, w) \in Seq(Writers)
<1>1. CASE \E i \in DOMAIN q : q[i] = w
  <2> DEFINE k == CHOOSE i \in DOMAIN q : q[i] = w
  <2>1. k \in 1 .. Len(q) /\ Len(q) \in Nat
    BY <1>1, LenProperties
  <2>2. \A i \in 1 .. Len(q) : q[i] \in Writers
    BY ElementOfSeq
  <2>3. LeaveQueue(q, w) = SubSeq(q, 1, k - 1) \o SubSeq(q, k + 1, Len(q))
    BY <1>1 DEF LeaveQueue
  <2> HIDE DEF k
  <2>4. /\ k - 1 \in Int /\ k + 1 \in Int /\ Len(q) \in Int
        /\ \A i \in 1 .. (k - 1) : q[i] \in Writers
        /\ \A i \in (k + 1) .. Len(q) : q[i] \in Writers
    BY <2>1, <2>2
  <2>5. SubSeq(q, 1, k - 1) \in Seq(Writers)
    BY <2>4, SubSeqProperties
  <2>6. SubSeq(q, k + 1, Len(q)) \in Seq(Writers)
    BY <2>4, SubSeqProperties
  <2> QED
    BY <2>3, <2>5, <2>6, ConcatProperties
<1>2. CASE ~ \E i \in DOMAIN q : q[i] = w
  BY <1>2 DEF LeaveQueue
<1> QED
  BY <1>1, <1>2

LEMMA ConcatAppend ==
  ASSUME NEW S, NEW s \in Seq(S), NEW t \in Seq(S), NEW e \in S
  PROVE  s \o Append(t, e) = Append(s \o t, e)
<1> DEFINE u == <<e>>
<1>1. u \in Seq(S)
  BY SMT
<1>2. s \o t \in Seq(S)
  BY ConcatProperties
<1>3. Append(t, e) = t \o u
  BY AppendIsConcat
<1>4. Append(s \o t, e) = (s \o t) \o u
  BY <1>2, AppendIsConcat
<1> HIDE DEF u
<1>5. s \o (t \o u) = (s \o t) \o u
  BY <1>1, ConcatAssociative
<1> QED
  BY <1>3, <1>4, <1>5, Zenon

\* The domain of a sequence of rows, and their ids.
LEMMA RowsType ==
  ASSUME NEW rows \in Seq(Row)
  PROVE  /\ DOMAIN rows = 1 .. Len(rows) /\ Len(rows) \in Nat
         /\ \A j \in 1 .. Len(rows) : rows[j] \in Row /\ rows[j].id \in Nat
<1>1. DOMAIN rows = 1 .. Len(rows) /\ Len(rows) \in Nat
  BY LenProperties
<1>2. ASSUME NEW j \in 1 .. Len(rows)
      PROVE  rows[j] \in Row /\ rows[j].id \in Nat
  <2>1. rows[j] \in Row
    BY ElementOfSeq
  <2> QED
    BY <2>1 DEF Row
<1> QED
  BY <1>1, <1>2

\* The row with the highest id of a chain is its last one, so the SELECT of
\* append() returns the hash the next row has to point at.
LEMMA LastHashIsLink ==
  ASSUME NEW rows \in Seq(Row), NEW n \in Nat, Chained(rows, n)
  PROVE  /\ LastHash(rows) = Link(rows)
         /\ Link(rows) \in Hash
<1>1. CASE rows = <<>>
  BY <1>1 DEF LastHash, Link, GENESIS_HASH, Hash
<1>2. CASE rows # <<>>
  <2>1. Len(rows) \in 1 .. Len(rows)
    BY <1>2, EmptySeq
  <2>0. /\ DOMAIN rows = 1 .. Len(rows) /\ Len(rows) \in Nat
        /\ \A j \in 1 .. Len(rows) : rows[j].id \in Nat
    BY RowsType
  <2>2. ASSUME NEW j \in DOMAIN rows
        PROVE  rows[j].id <= rows[Len(rows)].id
    <3>1. j < Len(rows) => rows[j].id < rows[Len(rows)].id
      BY <2>0, <2>1 DEF Chained
    <3> QED
      BY <2>0, <2>1, <3>1
  <2>3. ASSUME NEW i \in DOMAIN rows,
               \A j \in DOMAIN rows : rows[j].id <= rows[i].id
        PROVE  i = Len(rows)
    <3>1. i < Len(rows) => rows[i].id < rows[Len(rows)].id
      BY <2>0, <2>1 DEF Chained
    <3>2. rows[Len(rows)].id <= rows[i].id
      BY <2>0, <2>1, <2>3
    <3> QED
      BY <2>0, <2>1, <3>1, <3>2
  <2>4. Newest(rows) = Len(rows)
    BY <2>1, <2>2, <2>3 DEF Newest
  <2>5. rows[Len(rows)] \in Row
    BY <2>1, ElementOfSeq
  <2> QED
    BY <1>2, <2>4, <2>5 DEF LastHash, Link, Row
<1> QED
  BY <1>1, <1>2

\* verify_rows accepts every chain.
LEMMA ChainedVerifies ==
  ASSUME NEW rows \in Seq(Row), NEW n \in Nat, Chained(rows, n)
  PROVE  verify_rows(rows)
<1> SUFFICES ASSUME NEW i \in 1 .. Len(rows)
             PROVE  /\ rows[i].prev_hash = PrevOf(rows, i)
                    /\ rows[i].row_hash =
                         compute_row_hash(PrevOf(rows, i), rows[i].content)
  BY DEF verify_rows
<1> DEFINE older == { j \in DOMAIN rows : rows[j].id < rows[i].id }
<1>0. /\ DOMAIN rows = 1 .. Len(rows) /\ Len(rows) \in Nat
      /\ \A j \in 1 .. Len(rows) : rows[j].id \in Nat
      /\ \A j, k \in 1 .. Len(rows) : j < k => rows[j].id < rows[k].id
  BY RowsType DEF Chained
<1>1. older = 1 .. (i - 1)
  <2>1. ASSUME NEW j \in 1 .. Len(rows)
        PROVE  rows[j].id < rows[i].id <=> j < i
    <3>1. /\ j < i => rows[j].id < rows[i].id
          /\ i < j => rows[i].id < rows[j].id
          /\ i = j \/ i < j \/ j < i
      BY <1>0
    <3> QED
      BY <1>0, <3>1
  <2> QED
    BY <1>0, <2>1
<1>2. PrevOf(rows, i) = IF i = 1 THEN GENESIS_HASH ELSE rows[i - 1].row_hash
  <2>1. CASE i = 1
    BY <1>1, <2>1 DEF PrevOf
  <2>2. CASE i # 1
    <3>1. i - 1 \in older /\ \A k \in older : rows[k].id <= rows[i - 1].id
      <4>1. i - 1 \in older
        BY <1>0, <1>1, <2>2
      <4>2. ASSUME NEW k \in older
            PROVE  rows[k].id <= rows[i - 1].id
        <5>1. k \in 1 .. (i - 1) /\ k \in 1 .. Len(rows) /\ i - 1 \in 1 .. Len(rows)
          BY <1>0, <1>1, <4>1
        <5>2. k < i - 1 => rows[k].id < rows[i - 1].id
          BY <1>0, <5>1
        <5> QED
          BY <1>0, <5>1, <5>2
      <4> QED
        BY <4>1, <4>2
    <3>2. ASSUME NEW j \in older, \A k \in older : rows[k].id <= rows[j].id
          PROVE  j = i - 1
      <4>1. j \in 1 .. (i - 1) /\ j \in 1 .. Len(rows) /\ i - 1 \in 1 .. Len(rows)
        BY <1>0, <1>1
      <4>2. j < i - 1 => rows[j].id < rows[i - 1].id
        BY <1>0, <4>1
      <4>3. rows[i - 1].id <= rows[j].id
        BY <3>1, <3>2
      <4> QED
        BY <1>0, <4>1, <4>2, <4>3
    <3>3. (CHOOSE j \in older : \A k \in older : rows[k].id <= rows[j].id) = i - 1
      BY <3>1, <3>2
    <3> QED
      BY <2>2, <3>1, <3>3 DEF PrevOf
  <2> QED
    BY <2>1, <2>2
<1> QED
  BY <1>2 DEF Chained

\* A row that points at the end of a chain and takes the next id extends it.
LEMMA AppendChained ==
  ASSUME NEW rows \in Seq(Row), NEW n \in Nat, Chained(rows, n),
         NEW r \in Row, r.id = n, r.prev_hash = Link(rows),
         r.row_hash = compute_row_hash(r.prev_hash, r.content)
  PROVE  Chained(Append(rows, r), n + 1)
<1> DEFINE new == Append(rows, r)
<1>1. /\ Len(new) = Len(rows) + 1
      /\ \A i \in 1 .. Len(rows) : new[i] = rows[i]
      /\ new[Len(rows) + 1] = r
      /\ Len(rows) \in Nat
  BY AppendProperties, LenProperties
<1>2. \A i \in 1 .. Len(rows) : rows[i].id \in Nat
  BY RowsType
<1> HIDE DEF new
<1>3. ASSUME NEW i \in 1 .. Len(new)
      PROVE  new[i].id < n + 1
  <2>1. CASE i \in 1 .. Len(rows)
    <3>1. rows[i].id < n /\ rows[i].id \in Nat
      BY <1>2, <2>1 DEF Chained
    <3> QED
      BY <1>1, <2>1, <3>1
  <2>2. CASE i = Len(rows) + 1
    BY <1>1, <2>2
  <2> QED
    BY <1>1, <2>1, <2>2
<1>4. ASSUME NEW i \in 1 .. Len(new), NEW j \in 1 .. Len(new), i < j
      PROVE  new[i].id < new[j].id
  <2>0. i \in 1 .. Len(rows)
    BY <1>1, <1>4
  <2>1. CASE j \in 1 .. Len(rows)
    <3>1. rows[i].id < rows[j].id
      BY <1>4, <2>0, <2>1 DEF Chained
    <3> QED
      BY <1>1, <2>0, <2>1, <3>1
  <2>2. CASE j = Len(rows) + 1
    <3>1. rows[i].id < n
      BY <2>0 DEF Chained
    <3> QED
      BY <1>1, <2>0, <2>2, <3>1
  <2> QED
    BY <1>1, <2>1, <2>2
<1>5. ASSUME NEW i \in 1 .. Len(new)
      PROVE  /\ new[i].prev_hash =
                  IF i = 1 THEN GENESIS_HASH ELSE new[i - 1].row_hash
             /\ new[i].row_hash = compute_row_hash(new[i].prev_hash, new[i].content)
             /\ Len(new[i].row_hash) = i
  <2>1. CASE i \in 1 .. Len(rows)
    <3>1. new[i] = rows[i] /\ (i # 1 => new[i - 1] = rows[i - 1])
      BY <1>1, <2>1
    <3> QED
      BY <2>1, <3>1 DEF Chained
  <2>2. CASE i = Len(rows) + 1
    <3>1. rows = <<>> <=> i = 1
      BY <2>2, EmptySeq
    <3>2. Len(Link(rows)) + 1 = i
      BY <1>1, <2>2, <3>1 DEF Link, Chained, GENESIS_HASH
    <3>3. Len(r.row_hash) = Len(r.prev_hash) + 1
      BY AppendProperties DEF Row, Hash, compute_row_hash
    <3> QED
      BY <1>1, <2>2, <3>1, <3>2, <3>3 DEF Link
  <2> QED
    BY <1>1, <2>1, <2>2
<1> QED
  BY <1>3, <1>4, <1>5 DEF Chained, new

\* The rows with a lower id than row b.
Before(rows, b) == { k \in DOMAIN rows : rows[k].id < rows[b].id }

\* What verify_chain recomputes for row b, when the rows with lower ids are the
\* first a - 1 of the chain, stands for a - 1 contents.
LEMMA PrevLength ==
  ASSUME NEW rows \in Seq(Row), NEW n \in Nat, Chained(rows, n),
         NEW a \in 1 .. Len(rows), NEW new, NEW b,
         Before(new, b) = 1 .. (a - 1),
         \A k \in 1 .. (a - 1) : new[k].id = rows[k].id /\ new[k].row_hash = rows[k].row_hash
  PROVE  Len(PrevOf(new, b)) = a - 1
<1> DEFINE older == { k \in DOMAIN new : new[k].id < new[b].id }
<1>0. /\ older = 1 .. (a - 1) /\ Len(rows) \in Nat
      /\ PrevOf(new, b) = IF older = {} THEN GENESIS_HASH
                          ELSE new[CHOOSE j \in older :
                                     \A k \in older : new[k].id <= new[j].id].row_hash
  BY RowsType DEF PrevOf, Before
<1> HIDE DEF older
<1>1. CASE a = 1
  <2>1. older = {}
    BY <1>0, <1>1
  <2> QED
    BY <1>0, <1>1, <2>1, EmptySeq DEF GENESIS_HASH
<1>2. CASE a # 1
  <2> DEFINE m == CHOOSE j \in older : \A k \in older : new[k].id <= new[j].id
  <2>1. a - 1 \in older /\ \A k \in older : k \in 1 .. Len(rows) /\ k \in 1 .. (a - 1)
    BY <1>0, <1>2
  <2>2. \A k \in older : /\ new[k].id = rows[k].id /\ new[k].row_hash = rows[k].row_hash
                         /\ rows[k].id \in Nat
    BY <2>1, RowsType
  <2>3. \A j, k \in older : j < k => new[j].id < new[k].id
    BY <2>1, <2>2 DEF Chained
  <2>4. \A k \in older : new[k].id <= new[a - 1].id
    <3> SUFFICES ASSUME NEW k \in older PROVE new[k].id <= new[a - 1].id
      OBVIOUS
    <3>1. k = a - 1 \/ k < a - 1
      BY <2>1
    <3> QED
      BY <2>1, <2>2, <2>3, <3>1
  <2>5. m \in older /\ \A k \in older : new[k].id <= new[m].id
    BY <2>1, <2>4
  <2> HIDE DEF m
  <2>6. m = a - 1
    <3>1. m = a - 1 \/ m < a - 1
      BY <2>1, <2>5
    <3>2. ~ new[m].id < new[a - 1].id
      BY <2>1, <2>2, <2>5
    <3> QED
      BY <2>1, <2>3, <2>5, <3>1, <3>2
  <2>7. PrevOf(new, b) = rows[a - 1].row_hash
    BY <1>0, <2>1, <2>2, <2>6 DEF m
  <2> QED
    BY <2>1, <2>7 DEF Chained
<1> QED
  BY <1>1, <1>2

\* What a row of a chain points at stands for the rows before it.
LEMMA PrevHashLength ==
  ASSUME NEW rows \in Seq(Row), NEW n \in Nat, Chained(rows, n), NEW i \in 1 .. Len(rows)
  PROVE  Len(rows[i].prev_hash) = i - 1
<1>1. CASE i = 1
  BY <1>1, EmptySeq DEF Chained, GENESIS_HASH
<1>2. CASE i # 1
  <2>1. i - 1 \in 1 .. Len(rows)
    BY <1>2, RowsType
  <2> QED
    BY <1>2, <2>1 DEF Chained
<1> QED
  BY <1>1, <1>2

\* Another content does not hash to what is stored.
LEMMA EditShows ==
  ASSUME NEW rows \in Seq(Row), NEW n \in Nat, Chained(rows, n), NEW i \in 1 .. Len(rows),
         NEW c \in Content, c # rows[i].content
  PROVE  ~ verify_rows([rows EXCEPT ![i].content = c])
<1> DEFINE new == [rows EXCEPT ![i].content = c]
<1>1. /\ DOMAIN rows = 1 .. Len(rows) /\ rows[i] \in Row
      /\ rows[i].row_hash = Append(rows[i].prev_hash, rows[i].content)
  BY RowsType DEF Chained, compute_row_hash
<1>2. /\ i \in DOMAIN new /\ new[i].content = c
      /\ new[i].prev_hash = rows[i].prev_hash /\ new[i].row_hash = rows[i].row_hash
  BY <1>1 DEF Row
<1>3. rows[i].prev_hash \in Seq(Content) /\ rows[i].content \in Content
  BY <1>1 DEF Row, Hash
<1>4. Append(rows[i].prev_hash, c) # Append(rows[i].prev_hash, rows[i].content)
  <2> DEFINE p == rows[i].prev_hash d == rows[i].content
  <2> HIDE DEF p, d
  <2>1. p \in Seq(Content) /\ d \in Content /\ d # c
    BY <1>3 DEF p, d
  <2>2. Append(p, c)[Len(p) + 1] = c /\ Append(p, d)[Len(p) + 1] = d
    BY <2>1, AppendProperties
  <2> QED
    BY <2>1, <2>2 DEF p, d
<1> HIDE DEF new
<1>5. ASSUME verify_rows(new) PROVE FALSE
  BY <1>1, <1>2, <1>4, <1>5 DEF verify_rows, compute_row_hash
<1> QED
  BY <1>5 DEF new

\* The row after a gap points at the row that is gone.
LEMMA GapShows ==
  ASSUME NEW rows \in Seq(Row), NEW n \in Nat, Chained(rows, n), NEW i \in 1 .. Len(rows),
         i < Len(rows)
  PROVE  ~ verify_rows(SubSeq(rows, 1, i - 1) \o SubSeq(rows, i + 1, Len(rows)))
<1> DEFINE p == SubSeq(rows, 1, i - 1) q == SubSeq(rows, i + 1, Len(rows)) new == p \o q
           len == Len(rows)
<1>0. len \in Nat /\ DOMAIN rows = 1 .. len /\ \A k \in 1 .. len : rows[k] \in Row /\ rows[k].id \in Nat
  BY RowsType
<1>1. p \in Seq(Row) /\ Len(p) = i - 1 /\ \A k \in 1 .. (i - 1) : p[k] = rows[k]
  <2>1. /\ 1 \in Int /\ i - 1 \in Int /\ i - 1 >= 0
        /\ \A k \in 1 .. (i - 1) : rows[k] \in Row
    BY <1>0
  <2>2. /\ p \in Seq(Row) /\ Len(p) = IF 1 <= i - 1 THEN (i - 1) - 1 + 1 ELSE 0
        /\ \A k \in 1 .. ((i - 1) - 1 + 1) : p[k] = rows[1 + k - 1]
    BY <2>1, SubSeqProperties
  <2> HIDE DEF p
  <2> QED
    BY <2>1, <2>2
<1>2. /\ q \in Seq(Row) /\ Len(q) = len - i
      /\ \A k \in 1 .. (len - i) : q[k] = rows[i + k]
  <2>1. /\ i + 1 \in Int /\ len \in Int /\ i + 1 <= len
        /\ \A k \in (i + 1) .. len : rows[k] \in Row
    BY <1>0
  <2>2. /\ q \in Seq(Row) /\ Len(q) = IF i + 1 <= len THEN len - (i + 1) + 1 ELSE 0
        /\ \A k \in 1 .. (len - (i + 1) + 1) : q[k] = rows[(i + 1) + k - 1]
    BY <2>1, SubSeqProperties
  <2> HIDE DEF q, len
  <2> QED
    BY <2>1, <2>2
<1> HIDE DEF p, q
<1>3. /\ new \in Seq(Row) /\ Len(new) = len - 1
      /\ \A k \in 1 .. (len - 1) : new[k] = IF k <= i - 1 THEN rows[k] ELSE rows[k + 1]
  <2>1. /\ new \in Seq(Row) /\ Len(new) = Len(p) + Len(q)
        /\ \A k \in 1 .. (Len(p) + Len(q)) :
             new[k] = IF k <= Len(p) THEN p[k] ELSE q[k - Len(p)]
    BY <1>1, <1>2, ConcatProperties
  <2> HIDE DEF new, len
  <2>2. Len(p) + Len(q) = len - 1
    BY <1>0, <1>1, <1>2
  <2>3. ASSUME NEW k \in 1 .. (len - 1)
        PROVE  new[k] = IF k <= i - 1 THEN rows[k] ELSE rows[k + 1]
    <3>1. new[k] = IF k <= i - 1 THEN p[k] ELSE q[k - (i - 1)]
      BY <1>1, <1>2, <2>1, <2>2
    <3>2. CASE k <= i - 1
      BY <1>1, <1>2, <3>1, <3>2
    <3>3. CASE ~ (k <= i - 1)
      <4>1. k - (i - 1) \in 1 .. (len - i) /\ i + (k - (i - 1)) = k + 1
        BY <1>0, <3>3
      <4> QED
        BY <1>1, <1>2, <3>1, <3>3, <4>1
    <3> QED
      BY <3>2, <3>3
  <2> QED
    BY <2>1, <2>2, <2>3
<1> HIDE DEF new
<1>4. DOMAIN new = 1 .. (len - 1) /\ i \in DOMAIN new /\ new[i] = rows[i + 1]
      /\ \A k \in 1 .. (i - 1) : new[k] = rows[k]
  <2>1. DOMAIN new = 1 .. Len(new)
    BY <1>3, LenProperties
  <2> HIDE DEF len
  <2>2. i \in 1 .. (len - 1) /\ ~ (i <= i - 1)
    BY <1>0 DEF len
  <2>3. \A k \in 1 .. (i - 1) : k \in 1 .. (len - 1) /\ k <= i - 1
    BY <1>0, <2>2
  <2> QED
    BY <1>3, <2>1, <2>2, <2>3
<1> HIDE DEF len
<1>5. Before(new, i) = 1 .. (i - 1)
  <2>0. i \in 1 .. (len - 1)
    BY <1>4
  <2> SUFFICES ASSUME NEW k \in 1 .. (len - 1)
               PROVE  new[k].id < new[i].id <=> k \in 1 .. (i - 1)
    BY <1>0, <1>4, <2>0 DEF Before
  <2>1. CASE k <= i - 1
    <3>1. k \in 1 .. len /\ i + 1 \in 1 .. len /\ k < i + 1
      BY <1>0, <1>4, <2>1
    <3>2. rows[k].id < rows[i + 1].id
      BY <3>1 DEF Chained, len
    <3> QED
      BY <1>0, <1>3, <1>4, <2>1, <3>2
  <2>2. CASE ~ (k <= i - 1)
    <3>1. k + 1 \in 1 .. len /\ i + 1 \in 1 .. len /\ (k + 1 = i + 1 \/ i + 1 < k + 1)
      BY <1>0, <1>4, <2>2
    <3>2. i + 1 < k + 1 => rows[i + 1].id < rows[k + 1].id
      BY <3>1 DEF Chained, len
    <3>3. ~ rows[k + 1].id < rows[i + 1].id
      BY <1>0, <3>1, <3>2
    <3> QED
      BY <1>3, <1>4, <2>2, <3>3
  <2> QED
    BY <2>1, <2>2
<1>6. Len(PrevOf(new, i)) = i - 1
  <2>1. \A k \in 1 .. (i - 1) : new[k].id = rows[k].id /\ new[k].row_hash = rows[k].row_hash
    BY <1>4
  <2> QED
    BY <1>5, <2>1, PrevLength
<1>7. Len(new[i].prev_hash) = i
  <2>1. i + 1 \in 1 .. Len(rows)
    BY <1>0 DEF len
  <2> QED
    BY <1>4, <2>1, PrevHashLength
<1>8. ASSUME verify_rows(new) PROVE FALSE
  BY <1>0, <1>4, <1>6, <1>7, <1>8 DEF verify_rows
<1> QED
  BY <1>8 DEF new, p, q

\* Rows a and b have each other's id.
Exchanged(rows, new, a, b) ==
  /\ DOMAIN new = DOMAIN rows
  /\ new[a].id = rows[b].id /\ new[b].id = rows[a].id
  /\ new[b].prev_hash = rows[b].prev_hash
  /\ \A k \in 1 .. Len(rows) : k # a /\ k # b => new[k] = rows[k]

\* Of two rows exchanged, the one that moves forward points too far back.
LEMMA MovedShows ==
  ASSUME NEW rows \in Seq(Row), NEW n \in Nat, Chained(rows, n),
         NEW a \in 1 .. Len(rows), NEW b \in 1 .. Len(rows), a < b,
         NEW new, Exchanged(rows, new, a, b)
  PROVE  ~ verify_rows(new)
<1>0. /\ Len(rows) \in Nat /\ DOMAIN new = 1 .. Len(rows)
      /\ \A k \in 1 .. Len(rows) : rows[k].id \in Nat
      /\ \A j, k \in 1 .. Len(rows) : j < k => rows[j].id < rows[k].id
  BY RowsType DEF Chained, Exchanged
<1>1. Before(new, b) = 1 .. (a - 1)
  <2> SUFFICES ASSUME NEW k \in 1 .. Len(rows)
               PROVE  new[k].id < rows[a].id <=> k < a
    BY <1>0 DEF Exchanged, Before
  <2>1. CASE k = a
    <3>1. rows[a].id < rows[b].id
      BY <1>0
    <3> QED
      BY <1>0, <2>1, <3>1 DEF Exchanged
  <2>2. CASE k = b
    BY <1>0, <2>2 DEF Exchanged
  <2>3. CASE k # a /\ k # b
    <3>1. k < a \/ a < k
      BY <1>0, <2>3
    <3>2. /\ k < a => rows[k].id < rows[a].id
          /\ a < k => rows[a].id < rows[k].id
      BY <1>0
    <3> QED
      BY <1>0, <2>3, <3>1, <3>2 DEF Exchanged
  <2> QED
    BY <2>1, <2>2, <2>3
<1>2. Len(PrevOf(new, b)) = a - 1
  <2>1. \A k \in 1 .. (a - 1) : new[k].id = rows[k].id /\ new[k].row_hash = rows[k].row_hash
    BY <1>0 DEF Exchanged
  <2> QED
    BY <1>1, <2>1, PrevLength
<1>3. Len(rows[b].prev_hash) = b - 1
  BY PrevHashLength
<1>4. ASSUME verify_rows(new) PROVE FALSE
  BY <1>0, <1>2, <1>3, <1>4 DEF verify_rows, Exchanged
<1> QED
  BY <1>4

-----------------------------------------------------------------------------
(* Every step preserves the inductive invariant: one lemma per action.     *)

\* The shape of what each writer's transaction holds.
LEMMA VisibleType ==
  ASSUME TypeOK, NEW w \in Writers
  PROVE  /\ tx[w] \in TxState
         /\ tx[w].at \in Points /\ tx[w].prev \in Hash /\ tx[w].rows \in Seq(Row)
         /\ Visible(w) \in Seq(Row)
         /\ tx[w].rows = <<>> => Visible(w) = log
<1>1. tx[w] \in TxState /\ log \in Seq(Row)
  BY DEF TypeOK
<1>2. tx[w].at \in Points /\ tx[w].prev \in Hash /\ tx[w].rows \in Seq(Row)
  BY <1>1 DEF TxState
<1> QED
  BY <1>1, <1>2, ConcatProperties, ConcatEmptySeq DEF Visible

\* Only the lock holder has rows in flight.
LEMMA OthersIdle ==
  ASSUME LockInv, TxInv, NEW w \in Writers, tx[w].at \in Locked,
         NEW v \in Writers, v # w
  PROVE  tx[v].at \notin Locked /\ tx[v].rows = <<>>
BY DEF LockInv, TxInv

\* A step that touches neither rows nor SIEM copies keeps the chain and the
\* agreement with the SIEM.
LEMMA QuietStep ==
  ASSUME IInv, UNCHANGED <<log, nextId, siem>>,
         \A v \in Writers : tx'[v].rows = tx[v].rows
  PROVE  /\ \A v \in Writers : Visible(v)' = Visible(v)
         /\ ChainInv' /\ SiemInv'
<1>1. \A v \in Writers : Visible(v)' = Visible(v)
  BY DEF Visible
<1>2. ChainInv'
  BY <1>1 DEF IInv, ChainInv, Chained
<1>3. SiemInv'
  BY <1>1 DEF IInv, SiemInv
<1> QED
  BY <1>1, <1>2, <1>3

LEMMA InitIInv == Init => IInv
<1> SUFFICES ASSUME Init PROVE IInv
  OBVIOUS
<1>1. /\ log = <<>> /\ nextId = 1 /\ siem = {}
      /\ tx = [w \in Writers |-> IdleTx]
  BY DEF Init
<1>2. IdleTx \in TxState
  BY DEF IdleTx, TxState, Points, Hash, GENESIS_HASH
<1>3. TypeOK
  BY <1>1, <1>2 DEF Init, TypeOK
<1>4. LockInv /\ TxInv
  BY <1>1, ChainAssumption, EmptySeq DEF LockInv, TxInv, IdleTx, Locked
<1>5. \A w \in Writers : Visible(w) = <<>>
  BY <1>1 DEF Visible, IdleTx
<1>6. ChainInv /\ SiemInv
  BY <1>1, <1>5, EmptySeq DEF ChainInv, Chained, SiemInv
<1> QED
  BY <1>3, <1>4, <1>6 DEF IInv

LEMMA AskLockStep ==
  ASSUME IInv, NEW w \in Writers, AskLock(w)
  PROVE  IInv'
<1>1. TypeOK /\ LockInv /\ TxInv
  BY DEF IInv
<1>2. /\ tx' = [tx EXCEPT ![w].at = "lock"] /\ tx[w].at = "idle"
      /\ waiters' = Append(waiters, w)
      /\ started' = started + 1
      /\ UNCHANGED <<log, nextId, users, holder, siem, refused>>
  BY DEF AskLock
<1>3. TypeOK'
  <2>1. tx' \in [Writers -> TxState]
    BY <1>1, <1>2 DEF TypeOK, TxState, Points
  <2>2. waiters' \in Seq(Writers)
    BY <1>1, <1>2, AppendProperties DEF TypeOK
  <2> QED
    BY <1>1, <1>2, <2>1, <2>2 DEF TypeOK
<1>4. \A v \in Writers : /\ tx'[v].rows = tx[v].rows
                         /\ tx'[v].prev = tx[v].prev
                         /\ tx'[v].at = IF v = w THEN "lock" ELSE tx[v].at
  BY <1>1, <1>2 DEF TypeOK, TxState
<1>5. /\ \A v \in Writers : Visible(v)' = Visible(v)
      /\ ChainInv' /\ SiemInv'
  BY <1>2, <1>4, QuietStep
<1>6. LockInv'
  BY <1>1, <1>2, <1>4 DEF LockInv, Locked
<1>7. TxInv'
  BY <1>1, <1>2, <1>4, <1>5 DEF TxInv, Locked, Link
<1> QED
  BY <1>3, <1>5, <1>6, <1>7 DEF IInv

LEMMA TakeLockStep ==
  ASSUME IInv, NEW w \in Writers, TakeLock(w)
  PROVE  IInv'
<1>1. TypeOK /\ LockInv /\ TxInv
  BY DEF IInv
<1>2. /\ tx' = [tx EXCEPT ![w].at = "read"] /\ tx[w].at = "lock"
      /\ holder = NoWriter /\ holder' = w
      /\ waiters # <<>> /\ waiters' = Tail(waiters)
      /\ UNCHANGED <<log, nextId, users, siem, refused, started>>
  BY DEF TakeLock
<1>3. TypeOK'
  <2>1. tx' \in [Writers -> TxState]
    BY <1>1, <1>2 DEF TypeOK, TxState, Points
  <2>2. waiters' \in Seq(Writers)
    BY <1>1, <1>2, HeadTailProperties DEF TypeOK
  <2> QED
    BY <1>1, <1>2, <2>1, <2>2 DEF TypeOK
<1>4. \A v \in Writers : /\ tx'[v].rows = tx[v].rows
                         /\ tx'[v].prev = tx[v].prev
                         /\ tx'[v].at = IF v = w THEN "read" ELSE tx[v].at
  BY <1>1, <1>2 DEF TypeOK, TxState
<1>5. /\ \A v \in Writers : Visible(v)' = Visible(v)
      /\ ChainInv' /\ SiemInv'
  BY <1>2, <1>4, QuietStep
<1>6. LockInv'
  BY <1>1, <1>2, <1>4, ChainAssumption DEF LockInv
<1>7. TxInv'
  <2>1. tx[w].rows = <<>>
    BY <1>1, <1>2 DEF TxInv, Locked
  <2>2. Len(tx'[w].rows) < MaxBatch
    BY <1>4, <2>1, ChainAssumption, EmptySeq
  <2> QED
    BY <1>1, <1>2, <1>4, <1>5, <2>2 DEF TxInv, Locked, Link
<1> QED
  BY <1>3, <1>5, <1>6, <1>7 DEF IInv

LEMMA ReadLastHashStep ==
  ASSUME IInv, NEW w \in Writers, ReadLastHash(w)
  PROVE  IInv'
<1>1. TypeOK /\ LockInv /\ TxInv /\ ChainInv
  BY DEF IInv
<1>2. /\ tx' = [tx EXCEPT ![w].at = "insert", ![w].prev = LastHash(Visible(w))]
      /\ tx[w].at = "read"
      /\ UNCHANGED <<log, nextId, users, holder, waiters, siem, refused, started>>
  BY DEF ReadLastHash
<1>3. LastHash(Visible(w)) = Link(Visible(w)) /\ LastHash(Visible(w)) \in Hash
  <2>1. Visible(w) \in Seq(Row) /\ nextId \in Nat /\ Chained(Visible(w), nextId)
    BY <1>1, VisibleType DEF TypeOK, ChainInv
  <2> QED
    BY <2>1, LastHashIsLink
<1>4. TypeOK'
  <2>1. tx' \in [Writers -> TxState]
    BY <1>1, <1>2, <1>3 DEF TypeOK, TxState, Points
  <2> QED
    BY <1>1, <1>2, <2>1 DEF TypeOK
<1>5. \A v \in Writers :
        /\ tx'[v].rows = tx[v].rows
        /\ tx'[v].prev = IF v = w THEN LastHash(Visible(w)) ELSE tx[v].prev
        /\ tx'[v].at = IF v = w THEN "insert" ELSE tx[v].at
  BY <1>1, <1>2 DEF TypeOK, TxState
<1>6. /\ \A v \in Writers : Visible(v)' = Visible(v)
      /\ ChainInv' /\ SiemInv'
  BY <1>2, <1>5, QuietStep
<1>7. LockInv'
  BY <1>1, <1>2, <1>5 DEF LockInv, Locked
<1>8. TxInv'
  <2> SUFFICES ASSUME NEW v \in Writers
               PROVE  /\ tx'[v].at \notin Locked => tx'[v].rows = <<>>
                      /\ tx'[v].at = "insert" => tx'[v].prev = Link(log' \o tx'[v].rows)
                      /\ tx'[v].at \in {"ship", "done"} => tx'[v].rows # <<>>
                      /\ Len(tx'[v].rows) <= MaxBatch
                      /\ tx'[v].at \in {"read", "insert"} => Len(tx'[v].rows) < MaxBatch
    BY DEF TxInv, Link, Visible
  <2>1. CASE v = w
    <3>1. log' \o tx'[w].rows = Visible(w)
      BY <1>6 DEF Visible
    <3>2. /\ tx'[w].at = "insert" /\ tx'[w].rows = tx[w].rows
          /\ tx'[w].prev = Link(log' \o tx'[w].rows)
      BY <1>3, <1>5, <3>1
    <3>3. Len(tx[w].rows) <= MaxBatch /\ Len(tx[w].rows) < MaxBatch
      BY <1>1, <1>2 DEF TxInv
    <3> QED
      BY <2>1, <3>2, <3>3 DEF Locked
  <2>2. CASE v # w
    BY <1>1, <1>2, <1>5, <2>2, ZenonT(60) DEF TxInv, Locked, Visible
  <2> QED
    BY <2>1, <2>2
<1> QED
  BY <1>4, <1>6, <1>7, <1>8 DEF IInv

LEMMA InsertRowStep ==
  ASSUME IInv, NEW w \in Writers, NEW c \in Content, InsertRow(w, c)
  PROVE  IInv'
<1> DEFINE row == [id |-> nextId, content |-> c, prev_hash |-> tx[w].prev,
                   row_hash |-> compute_row_hash(tx[w].prev, c)]
<1>1. TypeOK /\ LockInv /\ TxInv /\ ChainInv /\ SiemInv
  BY DEF IInv
<1>2. /\ tx' = [tx EXCEPT ![w].at = "ship", ![w].rows = Append(@, row)]
      /\ tx[w].at = "insert" /\ nextId' = nextId + 1
      /\ UNCHANGED <<log, users, holder, waiters, siem, refused, started>>
  BY DEF InsertRow
<1>3. /\ tx[w].rows \in Seq(Row) /\ tx[w].prev \in Hash /\ log \in Seq(Row)
      /\ Visible(w) \in Seq(Row) /\ nextId \in Nat
  BY <1>1, VisibleType DEF TypeOK
<1>4. compute_row_hash(tx[w].prev, c) \in Hash
  BY <1>3, AppendProperties DEF compute_row_hash, Hash
<1>5. /\ row \in Row /\ row.id = nextId
      /\ row.prev_hash = tx[w].prev
      /\ row.row_hash = compute_row_hash(row.prev_hash, row.content)
  BY <1>3, <1>4 DEF Row
<1> HIDE DEF row
<1>6. /\ Append(tx[w].rows, row) \in Seq(Row)
      /\ Len(Append(tx[w].rows, row)) = Len(tx[w].rows) + 1
      /\ Append(tx[w].rows, row) # <<>>
      /\ Len(tx[w].rows) \in Nat
  BY <1>3, <1>5, AppendProperties, LenProperties, SMTT(90)
<1>7. \A v \in Writers :
        /\ tx'[v].rows = IF v = w THEN Append(tx[w].rows, row) ELSE tx[v].rows
        /\ tx'[v].prev = tx[v].prev
        /\ tx'[v].at = IF v = w THEN "ship" ELSE tx[v].at
  BY <1>1, <1>2 DEF TypeOK, TxState
<1>8. TypeOK'
  <2>1. tx' \in [Writers -> TxState]
    BY <1>1, <1>2, <1>6 DEF TypeOK, TxState, Points
  <2>2. nextId' \in Nat \ {0}
    BY <1>2, <1>3
  <2> QED
    BY <1>1, <1>2, <2>1, <2>2 DEF TypeOK
<1>9. /\ Visible(w)' = Append(Visible(w), row)
      /\ \A v \in Writers \ {w} : Visible(v)' = log /\ Visible(v) = log
  <2>1. Visible(w)' = log \o Append(tx[w].rows, row)
    BY <1>2, <1>7 DEF Visible
  <2>2. log \o Append(tx[w].rows, row) = Append(log \o tx[w].rows, row)
    <3> DEFINE rs == tx[w].rows
    <3>1. log \in Seq(Row) /\ rs \in Seq(Row) /\ row \in Row
      BY <1>3, <1>5
    <3> HIDE DEF rs
    <3>2. log \o Append(rs, row) = Append(log \o rs, row)
      BY <3>1, ConcatAppend
    <3> QED
      BY <3>2 DEF rs
  <2>3. Visible(w)' = Append(Visible(w), row)
    BY <2>1, <2>2 DEF Visible
  <2>4. \A v \in Writers \ {w} : Visible(v)' = log /\ Visible(v) = log
    <3> SUFFICES ASSUME NEW v \in Writers \ {w}
                 PROVE  Visible(v)' = log /\ Visible(v) = log
      OBVIOUS
    <3>1. tx[v].rows = <<>>
      BY <1>1, <1>2, OthersIdle DEF Locked
    <3> QED
      BY <1>2, <1>3, <1>7, <3>1, ConcatEmptySeq DEF Visible
  <2> QED
    BY <2>3, <2>4
<1>10. ChainInv'
  <2>1. Chained(Visible(w)', nextId')
    <3>1. Chained(Visible(w), nextId) /\ row.prev_hash = Link(Visible(w))
      BY <1>1, <1>2, <1>5 DEF ChainInv, TxInv
    <3> QED
      BY <1>2, <1>3, <1>5, <1>9, <3>1, AppendChained
  <2>2. Chained(log, nextId')
    <3>1. \A i \in 1 .. Len(log) : log[i].id < nextId'
      <4> SUFFICES ASSUME NEW i \in 1 .. Len(log) PROVE log[i].id < nextId'
        OBVIOUS
      <4>1. log[i].id < nextId /\ log[i].id \in Nat
        BY <1>1, <1>3, RowsType DEF ChainInv, Chained
      <4> QED
        BY <1>2, <1>3, <4>1
    <3> QED
      BY <1>1, <3>1 DEF ChainInv, Chained
  <2>3. \A v \in Writers : Chained(Visible(v)', nextId')
    BY <1>9, <2>1, <2>2
  <2> QED
    BY <1>2, <2>2, <2>3 DEF ChainInv, Chained
<1>11. SiemInv'
  <2> SUFFICES ASSUME NEW e \in siem
               PROVE  /\ e.id < nextId'
                      /\ \A i \in 1 .. Len(log) : log[i].id = e.id => log[i] = e
                      /\ \A v \in Writers :
                           \A i \in 1 .. Len(log' \o tx'[v].rows) :
                             (log' \o tx'[v].rows)[i].id = e.id =>
                               (log' \o tx'[v].rows)[i] = e
    BY <1>2, ZenonT(60) DEF SiemInv, Visible
  <2>1. e.id \in Nat /\ e.id < nextId
    BY <1>1 DEF SiemInv, TypeOK, Row
  <2>2. \A i \in 1 .. Len(log) : log[i].id = e.id => log[i] = e
    BY <1>1 DEF SiemInv
  <2> DEFINE rows(v) == log' \o tx'[v].rows
  <2>3. ASSUME NEW i \in 1 .. Len(rows(w)), rows(w)[i].id = e.id
        PROVE  rows(w)[i] = e
    <3>1. /\ Len(rows(w)) = Len(Visible(w)) + 1
          /\ \A j \in 1 .. Len(Visible(w)) : rows(w)[j] = Visible(w)[j]
          /\ rows(w)[Len(Visible(w)) + 1] = row
          /\ Len(Visible(w)) \in Nat
      <4>1. rows(w) = Append(Visible(w), row)
        BY <1>9 DEF Visible
      <4> QED
        BY <1>3, <1>5, <4>1, AppendProperties, LenProperties
    <3>2. i \in 1 .. Len(Visible(w))
      BY <1>3, <1>5, <2>1, <2>3, <3>1, SMTT(60)
    <3> QED
      BY <1>1, <2>3, <3>1, <3>2, SMTT(90) DEF SiemInv
  <2>4. ASSUME NEW v \in Writers, v # w
        PROVE  rows(v) = log
    BY <1>9, <2>4 DEF Visible
  <2> HIDE DEF rows
  <2>5. ASSUME NEW v \in Writers, NEW i \in 1 .. Len(rows(v)), rows(v)[i].id = e.id
        PROVE  rows(v)[i] = e
    <3>1. CASE v = w
      BY <2>3, <2>5, <3>1
    <3>2. CASE v # w
      BY <2>2, <2>4, <2>5, <3>2
    <3> QED
      BY <3>1, <3>2
  <2>6. e.id < nextId'
    BY <1>2, <1>3, <2>1
  <2> QED
    BY <2>2, <2>5, <2>6 DEF rows
<1>12. LockInv'
  BY <1>1, <1>2, <1>7 DEF LockInv, Locked
<1>13. TxInv'
  <2> SUFFICES ASSUME NEW v \in Writers
               PROVE  /\ tx'[v].at \notin Locked => tx'[v].rows = <<>>
                      /\ tx'[v].at = "insert" => tx'[v].prev = Link(log' \o tx'[v].rows)
                      /\ tx'[v].at \in {"ship", "done"} => tx'[v].rows # <<>>
                      /\ Len(tx'[v].rows) <= MaxBatch
                      /\ tx'[v].at \in {"read", "insert"} => Len(tx'[v].rows) < MaxBatch
    BY DEF TxInv, Link, Visible
  <2>1. CASE v = w
    <3>1. Len(tx[w].rows) < MaxBatch
      BY <1>1, <1>2 DEF TxInv
    <3>2. Len(tx'[w].rows) <= MaxBatch
      <4>1. Len(tx'[w].rows) = Len(tx[w].rows) + 1
        BY <1>6, <1>7
      <4> QED
        BY <1>6, <3>1, <4>1, ChainAssumption
    <3> QED
      BY <1>6, <1>7, <2>1, <3>2 DEF Locked
  <2>2. CASE v # w
    BY <1>1, <1>2, <1>7, <2>2, ZenonT(60) DEF TxInv, Locked, Visible
  <2> QED
    BY <2>1, <2>2
<1> QED
  BY <1>8, <1>10, <1>11, <1>12, <1>13 DEF IInv

LEMMA ShipEventStep ==
  ASSUME IInv, NEW w \in Writers, ShipEvent(w)
  PROVE  IInv'
<1> DEFINE row == tx[w].rows[Len(tx[w].rows)]
<1>1. TypeOK /\ LockInv /\ TxInv /\ ChainInv /\ SiemInv
  BY DEF IInv
<1>2. /\ tx' = [tx EXCEPT ![w].at = "done"] /\ tx[w].at = "ship"
      /\ siem' = siem \cup {row} \/ siem' = siem
      /\ UNCHANGED <<log, nextId, users, holder, waiters, refused, started>>
  BY DEF ShipEvent
<1>3. /\ tx[w].rows \in Seq(Row) /\ log \in Seq(Row) /\ Visible(w) \in Seq(Row)
      /\ nextId \in Nat /\ tx[w].rows # <<>>
  BY <1>1, <1>2, VisibleType DEF TypeOK, TxInv
<1>4. \A v \in Writers :
        /\ tx'[v].rows = tx[v].rows
        /\ tx'[v].prev = tx[v].prev
        /\ tx'[v].at = IF v = w THEN "done" ELSE tx[v].at
  BY <1>1, <1>2 DEF TypeOK, TxState
<1>5. \A v \in Writers : Visible(v)' = Visible(v)
  BY <1>2, <1>4 DEF Visible
\* The copy is of the last row the transaction sees.
<1>6. /\ Len(tx[w].rows) \in 1 .. Len(tx[w].rows)
      /\ Len(log) \in Nat
      /\ Len(Visible(w)) = Len(log) + Len(tx[w].rows)
      /\ row = Visible(w)[Len(Visible(w))]
      /\ Len(Visible(w)) \in 1 .. Len(Visible(w))
      /\ \A i \in 1 .. Len(log) : i \in 1 .. Len(Visible(w)) /\ Visible(w)[i] = log[i]
  <2>1. /\ Len(tx[w].rows) \in Nat /\ Len(tx[w].rows) # 0 /\ Len(log) \in Nat
    BY <1>3, LenProperties, EmptySeq
  <2>2. /\ Len(Visible(w)) = Len(log) + Len(tx[w].rows)
        /\ \A i \in 1 .. Len(log) + Len(tx[w].rows) :
             Visible(w)[i] = IF i <= Len(log) THEN log[i] ELSE tx[w].rows[i - Len(log)]
    BY <1>3, ConcatProperties DEF Visible
  <2>3. /\ Len(tx[w].rows) \in 1 .. Len(tx[w].rows)
        /\ Len(Visible(w)) \in 1 .. Len(Visible(w))
        /\ \A i \in 1 .. Len(log) : i \in 1 .. Len(Visible(w)) /\ i <= Len(log)
    BY <2>1, <2>2
  <2>4. row = Visible(w)[Len(Visible(w))]
    <3> DEFINE n == Len(Visible(w))
    <3>1. n \in 1 .. Len(log) + Len(tx[w].rows) /\ ~ (n <= Len(log))
          /\ n - Len(log) = Len(tx[w].rows)
      BY <2>1, <2>2
    <3> HIDE DEF n
    <3>2. Visible(w)[n] = tx[w].rows[n - Len(log)]
      BY <2>2, <3>1
    <3> QED
      BY <3>1, <3>2 DEF n
  <2>5. \A i \in 1 .. Len(log) : Visible(w)[i] = log[i]
    BY <2>1, <2>2, <2>3
  <2> QED
    BY <2>1, <2>2, <2>3, <2>4, <2>5
<1> HIDE DEF row
<1>7. row \in Row /\ row.id \in Nat /\ row.id < nextId
  BY <1>1, <1>3, <1>6, RowsType DEF ChainInv, Chained
<1>8. \A i \in 1 .. Len(Visible(w)) : Visible(w)[i].id = row.id => Visible(w)[i] = row
  <2> SUFFICES ASSUME NEW i \in 1 .. Len(Visible(w)), Visible(w)[i].id = row.id
               PROVE  i = Len(Visible(w))
    BY <1>6
  <2>1. i < Len(Visible(w)) => Visible(w)[i].id < row.id
    BY <1>1, <1>6 DEF ChainInv, Chained
  <2> QED
    BY <1>6, <1>7, <2>1
<1>9. \A i \in 1 .. Len(log) : log[i].id = row.id => log[i] = row
  BY <1>6, <1>8
<1>10. TypeOK'
  <2>1. tx' \in [Writers -> TxState]
    BY <1>1, <1>2 DEF TypeOK, TxState, Points
  <2>2. siem' \subseteq Row
    BY <1>1, <1>2, <1>7 DEF TypeOK
  <2> QED
    BY <1>1, <1>2, <2>1, <2>2 DEF TypeOK
<1>11. ChainInv'
  BY <1>1, <1>2, <1>5 DEF ChainInv, Chained
<1>12. SiemInv'
  <2> SUFFICES ASSUME NEW e \in siem'
               PROVE  /\ e.id < nextId
                      /\ \A i \in 1 .. Len(log) : log[i].id = e.id => log[i] = e
                      /\ \A v \in Writers : \A i \in 1 .. Len(Visible(v)) :
                           Visible(v)[i].id = e.id => Visible(v)[i] = e
    BY <1>2, <1>5 DEF SiemInv
  <2>1. CASE e \in siem
    BY <1>1, <2>1 DEF SiemInv
  <2>2. CASE e = row
    <3>1. ASSUME NEW v \in Writers, v # w
          PROVE  Visible(v) = log
      <4>1. tx[v].rows = <<>>
        BY <1>1, <1>2, <3>1, OthersIdle DEF Locked
      <4> QED
        BY <1>3, <4>1, ConcatEmptySeq DEF Visible
    <3>2. ASSUME NEW v \in Writers
          PROVE  \A i \in 1 .. Len(Visible(v)) :
                   Visible(v)[i].id = row.id => Visible(v)[i] = row
      BY <1>8, <1>9, <3>1
    <3> QED
      BY <1>7, <1>9, <2>2, <3>2
  <2> QED
    BY <1>2, <2>1, <2>2
<1>13. LockInv'
  BY <1>1, <1>2, <1>4 DEF LockInv, Locked
<1>14. TxInv'
  BY <1>1, <1>2, <1>4, <1>5 DEF TxInv, Locked, Link
<1> QED
  BY <1>10, <1>11, <1>12, <1>13, <1>14 DEF IInv

LEMMA AppendAgainStep ==
  ASSUME IInv, NEW w \in Writers, AppendAgain(w)
  PROVE  IInv'
<1>1. TypeOK /\ LockInv /\ TxInv
  BY DEF IInv
<1>2. /\ tx' = [tx EXCEPT ![w].at = "read"] /\ tx[w].at = "done"
      /\ Len(tx[w].rows) < MaxBatch
      /\ UNCHANGED <<log, nextId, users, holder, waiters, siem, refused, started>>
  BY DEF AppendAgain
<1>3. TypeOK'
  <2>1. tx' \in [Writers -> TxState]
    BY <1>1, <1>2 DEF TypeOK, TxState, Points
  <2> QED
    BY <1>1, <1>2, <2>1 DEF TypeOK
<1>4. \A v \in Writers : /\ tx'[v].rows = tx[v].rows
                         /\ tx'[v].prev = tx[v].prev
                         /\ tx'[v].at = IF v = w THEN "read" ELSE tx[v].at
  BY <1>1, <1>2 DEF TypeOK, TxState
<1>5. /\ \A v \in Writers : Visible(v)' = Visible(v)
      /\ ChainInv' /\ SiemInv'
  BY <1>2, <1>4, QuietStep
<1>6. LockInv'
  BY <1>1, <1>2, <1>4 DEF LockInv, Locked
<1>7. TxInv'
  BY <1>1, <1>2, <1>4, <1>5 DEF TxInv, Locked, Link
<1> QED
  BY <1>3, <1>5, <1>6, <1>7 DEF IInv

\* What the end of w's transaction leaves: an idle writer without the lock.
LEMMA EndTxType ==
  ASSUME IInv, NEW w \in Writers, EndTx(w)
  PROVE  /\ holder' \in Writers \cup {NoWriter}
         /\ waiters' \in Seq(Writers)
         /\ tx' \in [Writers -> TxState]
         /\ \A v \in Writers : /\ v # w => tx'[v] = tx[v]
                               /\ v = w => tx'[v] = IdleTx
         /\ LockInv'
<1>1. TypeOK /\ LockInv
  BY DEF IInv
<1>2. /\ holder' = IF holder = w THEN NoWriter ELSE holder
      /\ waiters' = LeaveQueue(waiters, w)
      /\ tx' = [tx EXCEPT ![w] = IdleTx]
  BY DEF EndTx
<1>3. IdleTx \in TxState
  BY DEF IdleTx, TxState, Points, Hash, GENESIS_HASH
<1>4. waiters' \in Seq(Writers)
  BY <1>1, <1>2, LeaveQueueType DEF TypeOK
<1>5. \A v \in Writers : /\ v # w => tx'[v] = tx[v]
                         /\ v = w => tx'[v] = IdleTx
  BY <1>1, <1>2 DEF TypeOK
<1>6. LockInv'
  <2> SUFFICES ASSUME NEW v \in Writers, tx'[v].at \in Locked
               PROVE  holder' = v
    BY DEF LockInv
  <2>1. v # w
    BY <1>5 DEF IdleTx, Locked
  <2> QED
    BY <1>1, <1>2, <1>5, <2>1 DEF LockInv
<1> QED
  BY <1>1, <1>2, <1>3, <1>4, <1>5, <1>6 DEF TypeOK

\* After a transaction that saw rows ends with log' = rows, whatever the other
\* transactions knew still holds, since they had nothing in flight.
LEMMA EndTxTxInv ==
  ASSUME IInv, NEW w \in Writers, EndTx(w), log' \in Seq(Row),
         \A v \in Writers \ {w} : tx[v].at = "insert" => log' = log
  PROVE  TxInv'
<1>1. TypeOK /\ TxInv
  BY DEF IInv
<1>2. \A v \in Writers : /\ v # w => tx'[v] = tx[v]
                         /\ v = w => tx'[v] = IdleTx
  BY EndTxType DEF EndTx
<1> SUFFICES ASSUME NEW v \in Writers
             PROVE  /\ tx'[v].at \notin Locked => tx'[v].rows = <<>>
                    /\ tx'[v].at = "insert" => tx'[v].prev = Link(log' \o tx'[v].rows)
                    /\ tx'[v].at \in {"ship", "done"} => tx'[v].rows # <<>>
                    /\ Len(tx'[v].rows) <= MaxBatch
                    /\ tx'[v].at \in {"read", "insert"} => Len(tx'[v].rows) < MaxBatch
  BY DEF TxInv, Link, Visible
<1>3. CASE v = w
  BY <1>2, <1>3, ChainAssumption, EmptySeq DEF IdleTx, Locked
<1>4. CASE v # w
  BY <1>1, <1>2, <1>4 DEF TxInv, Visible
<1> QED
  BY <1>3, <1>4

LEMMA RollbackStep ==
  ASSUME IInv, NEW w \in Writers, Rollback(w)
  PROVE  IInv'
<1>1. TypeOK /\ ChainInv /\ SiemInv
  BY DEF IInv
<1>2. EndTx(w) /\ UNCHANGED <<log, nextId, users, siem, refused, started>>
  BY DEF Rollback
<1>3. /\ holder' \in Writers \cup {NoWriter} /\ waiters' \in Seq(Writers)
      /\ tx' \in [Writers -> TxState] /\ LockInv'
      /\ \A v \in Writers : /\ v # w => tx'[v] = tx[v]
                            /\ v = w => tx'[v] = IdleTx
  BY <1>2, EndTxType
<1>4. TypeOK'
  BY <1>1, <1>2, <1>3 DEF TypeOK
<1>5. log \in Seq(Row) /\ TxInv'
  BY <1>1, <1>2, EndTxTxInv DEF TypeOK
<1>6. \A v \in Writers : /\ v # w => log' \o tx'[v].rows = Visible(v)
                         /\ v = w => log' \o tx'[v].rows = log
  <2>1. log \o <<>> = log
    BY <1>5, ConcatEmptySeq
  <2>2. IdleTx.rows = <<>>
    BY DEF IdleTx
  <2> SUFFICES ASSUME NEW v \in Writers
               PROVE  /\ v # w => log' \o tx'[v].rows = log \o tx[v].rows
                      /\ v = w => log' \o tx'[v].rows = log
    BY DEF Visible
  <2> QED
    BY <1>2, <1>3, <2>1, <2>2, Zenon
<1>7. ChainInv'
  <2>1. \A v \in Writers : Chained(log' \o tx'[v].rows, nextId)
    BY <1>1, <1>6 DEF ChainInv
  <2> QED
    BY <1>1, <1>2, <2>1 DEF ChainInv, Chained, Visible
<1>8. SiemInv'
  <2> SUFFICES ASSUME NEW e \in siem
               PROVE  /\ e.id < nextId
                      /\ \A i \in 1 .. Len(log) : log[i].id = e.id => log[i] = e
                      /\ \A v \in Writers :
                           \A i \in 1 .. Len(log' \o tx'[v].rows) :
                             (log' \o tx'[v].rows)[i].id = e.id =>
                               (log' \o tx'[v].rows)[i] = e
    BY <1>2 DEF SiemInv, Visible
  <2>1. \A v \in Writers : \A i \in 1 .. Len(log' \o tx'[v].rows) :
          (log' \o tx'[v].rows)[i].id = e.id => (log' \o tx'[v].rows)[i] = e
    <3> SUFFICES ASSUME NEW v \in Writers
                 PROVE  \A i \in 1 .. Len(log' \o tx'[v].rows) :
                          (log' \o tx'[v].rows)[i].id = e.id =>
                            (log' \o tx'[v].rows)[i] = e
      OBVIOUS
    <3>1. CASE v = w
      BY <1>1, <1>6, <3>1 DEF SiemInv
    <3>2. CASE v # w
      BY <1>1, <1>6, <3>2 DEF SiemInv
    <3> QED
      BY <3>1, <3>2
  <2> QED
    BY <1>1, <2>1 DEF SiemInv
<1> QED
  BY <1>3, <1>4, <1>5, <1>7, <1>8 DEF IInv

LEMMA CommitStep ==
  ASSUME IInv, NEW w \in Writers, Commit(w)
  PROVE  IInv'
<1>1. TypeOK /\ LockInv /\ TxInv /\ ChainInv /\ SiemInv
  BY DEF IInv
<1>2. /\ EndTx(w) /\ tx[w].at = "done" /\ log' = Visible(w)
      /\ UNCHANGED <<nextId, users, siem, refused, started>>
  BY DEF Commit, Visible
<1>3. /\ holder' \in Writers \cup {NoWriter} /\ waiters' \in Seq(Writers)
      /\ tx' \in [Writers -> TxState] /\ LockInv'
      /\ \A v \in Writers : /\ v # w => tx'[v] = tx[v]
                            /\ v = w => tx'[v] = IdleTx
  BY <1>2, EndTxType
<1>4. Visible(w) \in Seq(Row)
  BY <1>1, VisibleType
<1>5. TypeOK'
  BY <1>1, <1>2, <1>3, <1>4 DEF TypeOK
<1>6. \A v \in Writers \ {w} : tx[v].at \notin Locked /\ tx[v].rows = <<>>
  BY <1>1, <1>2, OthersIdle DEF Locked
<1>7. TxInv'
  BY <1>2, <1>4, <1>6, EndTxTxInv DEF Locked
\* Nobody else has rows in flight: every reader now sees the committed rows.
<1>8. \A v \in Writers : log' \o tx'[v].rows = Visible(w)
  <2>1. \A v \in Writers : tx'[v].rows = <<>>
    <3>1. IdleTx.rows = <<>>
      BY DEF IdleTx
    <3> QED
      BY <1>3, <1>6, <3>1, Zenon
  <2>2. log' \o <<>> = Visible(w)
    BY <1>2, <1>4, ConcatEmptySeq
  <2> QED
    BY <2>1, <2>2, Zenon
<1>9. ChainInv'
  <2>1. Chained(log', nextId) /\ nextId' = nextId
    BY <1>1, <1>2 DEF ChainInv
  <2>2. \A v \in Writers : Chained(log' \o tx'[v].rows, nextId)
    BY <1>2, <1>8, <2>1
  <2> QED
    BY <2>1, <2>2 DEF ChainInv, Chained, Visible
<1>10. SiemInv'
  <2> SUFFICES ASSUME NEW e \in siem
               PROVE  /\ e.id < nextId
                      /\ \A i \in 1 .. Len(log') : log'[i].id = e.id => log'[i] = e
                      /\ \A v \in Writers :
                           \A i \in 1 .. Len(log' \o tx'[v].rows) :
                             (log' \o tx'[v].rows)[i].id = e.id =>
                               (log' \o tx'[v].rows)[i] = e
    BY <1>2 DEF SiemInv, Visible
  <2>1. /\ e.id < nextId
        /\ \A i \in 1 .. Len(Visible(w)) : Visible(w)[i].id = e.id => Visible(w)[i] = e
    BY <1>1 DEF SiemInv
  <2> QED
    BY <1>2, <1>8, <2>1
<1> QED
  BY <1>3, <1>5, <1>7, <1>9, <1>10 DEF IInv

LEMMA DeleteUserStep ==
  ASSUME IInv, NEW u \in Users, DeleteUser(u)
  PROVE  IInv'
<1>1. /\ UNCHANGED <<log, nextId, holder, waiters, tx, siem, started>>
      /\ users' \subseteq users
      /\ refused' \subseteq refused \cup {u}
  BY DEF DeleteUser
<1>2. TypeOK'
  BY <1>1 DEF IInv, TypeOK
<1>3. ChainInv' /\ SiemInv' /\ \A v \in Writers : Visible(v)' = Visible(v)
  BY <1>1, QuietStep
<1>4. LockInv' /\ TxInv'
  BY <1>1 DEF IInv, LockInv, TxInv, Visible
<1> QED
  BY <1>2, <1>3, <1>4 DEF IInv

-----------------------------------------------------------------------------
(* The theorems.                                                           *)

LEMMA NextIInv == IInv /\ [Next]_vars => IInv'
<1> SUFFICES ASSUME IInv, [Next]_vars PROVE IInv'
  OBVIOUS
<1>1. ASSUME NEW w \in Writers, AskLock(w) \/ Proceed(w) \/ Rollback(w)
      PROVE  IInv'
  <2>1. CASE AskLock(w)
    BY <2>1, AskLockStep DEF AskLock
  <2>2. CASE TakeLock(w)
    BY <2>2, TakeLockStep DEF TakeLock
  <2>3. CASE ReadLastHash(w)
    BY <2>3, ReadLastHashStep DEF ReadLastHash
  <2>4. ASSUME NEW c \in Content, InsertRow(w, c)
        PROVE  IInv'
    BY <2>4, InsertRowStep DEF InsertRow
  <2>5. CASE ShipEvent(w)
    BY <2>5, ShipEventStep DEF ShipEvent
  <2>6. CASE AppendAgain(w)
    BY <2>6, AppendAgainStep DEF AppendAgain
  <2>7. CASE Commit(w)
    BY <2>7, CommitStep DEF Commit
  <2>8. CASE Rollback(w)
    BY <2>8, RollbackStep DEF Rollback
  <2> QED
    BY <1>1, <2>1, <2>2, <2>3, <2>4, <2>5, <2>6, <2>7, <2>8 DEF Proceed
<1>2. ASSUME NEW u \in Users, DeleteUser(u)
      PROVE  IInv'
  BY <1>2, DeleteUserStep DEF DeleteUser
<1>3. CASE UNCHANGED vars
  <2>1. /\ UNCHANGED <<log, nextId, users, holder, waiters, tx, siem, refused, started>>
    BY <1>3 DEF vars
  <2>2. ChainInv' /\ SiemInv'
    BY <2>1, QuietStep
  <2> QED
    BY <2>1, <2>2 DEF IInv, TypeOK, LockInv, TxInv, Visible
<1> QED
  BY <1>1, <1>2, <1>3 DEF Next

LEMMA Inductive == Spec => []IInv
BY InitIInv, NextIInv, PTL DEF Spec

\* Every variable keeps its type; what the ORDER BY id DESC LIMIT 1 of append()
\* returns is always a hash.
THEOREM TypeCorrect == Spec => []TypeOK
<1>1. IInv => TypeOK
  BY DEF IInv
<1> QED
  BY Inductive, <1>1, PTL

\* verify_chain never reports a break: with any number of workers appending,
\* rolling back and crashing, the advisory lock keeps the chain from forking.
THEOREM ChainNeverForks == Spec => []ChainVerifies
<1>1. IInv => ChainVerifies
  BY ChainedVerifies DEF IInv, TypeOK, ChainInv, ChainVerifies
<1> QED
  BY Inductive, <1>1, PTL

\* A row edited, taken out from before the end, or exchanged with another is
\* found by verify_chain, in every state of the log, open transactions included.
THEOREM TamperingShows == Spec => []TamperEvident
<1>1. IInv => TamperEvident
  <2> SUFFICES ASSUME IInv, NEW i \in DOMAIN log
               PROVE  /\ \A c \in Content \ {log[i].content} :
                           ~ verify_rows([log EXCEPT ![i].content = c])
                      /\ i < Len(log) =>
                           ~ verify_rows(SubSeq(log, 1, i - 1) \o SubSeq(log, i + 1, Len(log)))
                      /\ \A j \in DOMAIN log \ {i} :
                           ~ verify_rows([log EXCEPT ![i].id = log[j].id, ![j].id = log[i].id])
    BY DEF TamperEvident
  <2>1. /\ log \in Seq(Row) /\ nextId \in Nat /\ Chained(log, nextId)
        /\ DOMAIN log = 1 .. Len(log) /\ Len(log) \in Nat
        /\ \A k \in 1 .. Len(log) : log[k] \in Row
    BY RowsType DEF IInv, TypeOK, ChainInv
  <2>2. ASSUME NEW j \in DOMAIN log, j # i
        PROVE  ~ verify_rows([log EXCEPT ![i].id = log[j].id, ![j].id = log[i].id])
    <3> DEFINE new == [log EXCEPT ![i].id = log[j].id, ![j].id = log[i].id]
    <3>1. Exchanged(log, new, i, j) /\ Exchanged(log, new, j, i)
      BY <2>1, <2>2 DEF Row, Exchanged
    <3> HIDE DEF new
    <3>2. i < j \/ j < i
      BY <2>1, <2>2
    <3>3. CASE i < j
      <4>1. ~ verify_rows(new)
        BY <2>1, <3>1, <3>3, MovedShows
      <4> QED
        BY <4>1 DEF new
    <3>4. CASE j < i
      <4>1. ~ verify_rows(new)
        BY <2>1, <3>1, <3>4, MovedShows
      <4> QED
        BY <4>1 DEF new
    <3> QED
      BY <3>2, <3>3, <3>4
  <2> QED
    BY <2>1, <2>2, EditShows, GapShows
<1> QED
  BY Inductive, <1>1, PTL

\* The SIEM never holds a copy that contradicts the committed row of its id,
\* although it is sent copies of rows that are rolled back later.
THEOREM SiemNeverContradicts == Spec => []SiemAgrees
<1>1. IInv => SiemAgrees
  <2> SUFFICES ASSUME IInv, NEW e \in siem, NEW i \in DOMAIN log, log[i].id = e.id
               PROVE  log[i] = e
    BY DEF SiemAgrees
  <2>1. i \in 1 .. Len(log)
    BY RowsType DEF IInv, TypeOK
  <2> QED
    BY <2>1 DEF IInv, SiemInv
<1> QED
  BY Inductive, <1>1, PTL

-----------------------------------------------------------------------------
(* The chain implements the append-only log.                               *)

Contents(rows) == [k \in 1 .. Len(rows) |-> rows[k].content]

\* Ids ascend along a chain, so ordering it by id changes nothing.
LEMMA HistoryIsLog ==
  ASSUME log \in Seq(Row), nextId \in Nat, Chained(log, nextId)
  PROVE  History = Contents(log)
<1>1. /\ DOMAIN log = 1 .. Len(log) /\ Len(log) \in Nat
      /\ \A j \in 1 .. Len(log) : log[j].id \in Nat
      /\ \A j, k \in 1 .. Len(log) : j < k => log[j].id < log[k].id
  BY RowsType DEF Chained
<1>2. ASSUME NEW i \in 1 .. Len(log)
      PROVE  Rank(i) = i
  <2>1. ASSUME NEW j \in 1 .. Len(log)
        PROVE  log[j].id <= log[i].id <=> j <= i
    <3>1. /\ j < i => log[j].id < log[i].id
          /\ i < j => log[i].id < log[j].id
          /\ i = j \/ i < j \/ j < i
      BY <1>1
    <3> QED
      BY <1>1, <3>1
  <2>2. { j \in DOMAIN log : log[j].id <= log[i].id } = 1 .. i
    BY <1>1, <2>1
  <2>3. Cardinality(1 .. i) = i
    BY FS_Interval
  <2> QED
    BY <2>2, <2>3 DEF Rank
<1>3. ASSUME NEW k \in 1 .. Len(log)
      PROVE  (CHOOSE i \in DOMAIN log : Rank(i) = k) = k
  <2>1. k \in DOMAIN log /\ Rank(k) = k
    BY <1>1, <1>2
  <2>2. \A i \in DOMAIN log : Rank(i) = k => i = k
    BY <1>1, <1>2
  <2> QED
    BY <2>1, <2>2
<1>4. \A k \in 1 .. Len(log) :
        log[CHOOSE i \in DOMAIN log : Rank(i) = k].content = log[k].content
  BY <1>3
<1> QED
  BY <1>4, Zenon DEF History, Contents

LEMMA ContentsType ==
  ASSUME NEW rows \in Seq(Row)
  PROVE  /\ Contents(rows) \in Seq(Content)
         /\ Len(Contents(rows)) = Len(rows)
         /\ \A i \in 1 .. Len(rows) : Contents(rows)[i] = rows[i].content
<1>1. /\ Len(rows) \in Nat
      /\ \A j \in 1 .. Len(rows) : rows[j].content \in Content
  BY RowsType DEF Row
<1> QED
  BY <1>1 DEF Contents

\* Adding rows adds their contents at the end.
LEMMA ContentsGrow ==
  ASSUME NEW s \in Seq(Row), NEW t \in Seq(Row)
  PROVE  LET new == Contents(s \o t)
         IN  /\ Len(new) = Len(s) + Len(t)
             /\ SubSeq(new, Len(s) + 1, Len(new)) \in Seq(Content)
             /\ new = Contents(s) \o SubSeq(new, Len(s) + 1, Len(new))
<1> DEFINE new == Contents(s \o t)
           n   == Len(s)
           b   == SubSeq(new, n + 1, Len(new))
<1>1. /\ s \o t \in Seq(Row) /\ Len(s \o t) = n + Len(t)
      /\ n \in Nat /\ Len(t) \in Nat
      /\ \A i \in 1 .. n : (s \o t)[i] = s[i]
  BY ConcatProperties, LenProperties
<1>2. /\ new \in Seq(Content) /\ Len(new) = n + Len(t)
      /\ \A i \in 1 .. n : new[i] = s[i].content
      /\ \A i \in 1 .. Len(new) : new[i] \in Content
  <2>1. /\ new \in Seq(Content) /\ Len(new) = n + Len(t)
        /\ \A i \in 1 .. n + Len(t) : new[i] = (s \o t)[i].content
    BY <1>1, ContentsType
  <2>2. \A i \in 1 .. Len(new) : new[i] \in Content
    BY <2>1, ElementOfSeq
  <2> QED
    BY <1>1, <2>1, <2>2
<1>3. /\ Contents(s) \in Seq(Content) /\ Len(Contents(s)) = n
      /\ \A i \in 1 .. n : Contents(s)[i] = s[i].content
  BY ContentsType
<1> HIDE DEF new, n
<1>4. /\ b \in Seq(Content)
      /\ Len(b) = Len(t)
      /\ \A i \in 1 .. Len(t) : b[i] = new[n + i]
  <2>1. n + 1 \in Int /\ Len(new) \in Int /\ \A i \in (n + 1) .. Len(new) : new[i] \in Content
    BY <1>1, <1>2
  <2>2. /\ b \in Seq(Content)
        /\ Len(b) = IF n + 1 <= Len(new) THEN Len(new) - (n + 1) + 1 ELSE 0
        /\ \A i \in 1 .. Len(new) - (n + 1) + 1 : b[i] = new[n + 1 + i - 1]
    BY <2>1, SubSeqProperties
  <2> QED
    BY <1>1, <1>2, <2>2
<1> HIDE DEF b
<1>5. /\ Contents(s) \o b \in Seq(Content)
      /\ Len(Contents(s) \o b) = n + Len(t)
      /\ \A i \in 1 .. n + Len(t) :
           (Contents(s) \o b)[i] = IF i <= n THEN Contents(s)[i] ELSE b[i - n]
  <2> DEFINE c == Contents(s)
  <2>1. c \in Seq(Content) /\ b \in Seq(Content) /\ Len(c) = n /\ Len(b) = Len(t)
    BY <1>3, <1>4
  <2> HIDE DEF c
  <2>2. /\ c \o b \in Seq(Content)
        /\ Len(c \o b) = n + Len(t)
        /\ \A i \in 1 .. n + Len(t) : (c \o b)[i] = IF i <= n THEN c[i] ELSE b[i - n]
    <3>1. /\ c \o b \in Seq(Content)
          /\ Len(c \o b) = Len(c) + Len(b)
          /\ \A i \in 1 .. Len(c) + Len(b) :
               (c \o b)[i] = IF i <= Len(c) THEN c[i] ELSE b[i - Len(c)]
      BY <2>1, ConcatProperties
    <3> QED
      BY <2>1, <3>1
  <2> QED
    BY <2>2 DEF c
<1>6. ASSUME NEW i \in 1 .. Len(new)
      PROVE  new[i] = (Contents(s) \o b)[i]
  <2>1. CASE i <= n
    <3>1. i \in 1 .. n /\ i \in 1 .. n + Len(t)
      BY <1>1, <1>2, <2>1
    <3>2. new[i] = s[i].content /\ Contents(s)[i] = s[i].content
      BY <1>2, <1>3, <3>1
    <3>3. (Contents(s) \o b)[i] = Contents(s)[i]
      BY <1>5, <2>1, <3>1
    <3> QED
      BY <3>2, <3>3
  <2>2. CASE ~ (i <= n)
    <3>1. i - n \in 1 .. Len(t) /\ n + (i - n) = i
      BY <1>1, <1>2, <2>2
    <3> QED
      BY <1>1, <1>2, <1>4, <1>5, <2>2, <3>1
  <2> QED
    BY <2>1, <2>2
<1>7. new = Contents(s) \o b
  BY <1>2, <1>5, <1>6, SeqEqual
<1> QED
  BY <1>2, <1>4, <1>7 DEF b, new, n

\* A committed transaction is one append to the abstract history, and no other
\* step - a rollback, a deleted user, a lost SIEM copy - shows in it.
THEOREM ImplementsAuditLog == Spec => RefinesAuditLog
<1>0. IInv => History = Contents(log)
  BY HistoryIsLog DEF IInv, TypeOK, ChainInv
<1>3. (IInv => History = Contents(log))'
  BY <1>0, PTL
<1>1. Init => Trail!Init
  <2> SUFFICES ASSUME Init PROVE History = <<>>
    BY DEF Trail!Init
  <2>1. IInv
    BY InitIInv
  <2>2. History = Contents(<<>>)
    BY <1>0, <2>1 DEF Init
  <2> QED
    BY <2>2, EmptySeq DEF Contents
<1>2. IInv /\ IInv' /\ [Next]_vars => [Trail!Next]_History
  <2> SUFFICES ASSUME IInv, IInv', [Next]_vars PROVE [Trail!Next]_History
    OBVIOUS
  <2>1. History = Contents(log)
    BY <1>0
  <2>2. History' = Contents(log')
    BY <1>3 DEF Contents
  <2>3. ASSUME NEW w \in Writers, Commit(w)
        PROVE  Trail!Next
    <3>1. log \in Seq(Row) /\ tx[w].rows \in Seq(Row) /\ log' = log \o tx[w].rows
      BY <2>3, VisibleType DEF IInv, TypeOK, Commit
    <3>2. Len(tx[w].rows) \in 1 .. MaxBatch
      <4>1. tx[w].rows # <<>> /\ Len(tx[w].rows) <= MaxBatch
        BY <2>3 DEF IInv, TxInv, Commit
      <4> QED
        BY <3>1, <4>1, EmptySeq, ChainAssumption
    <3>3. /\ Len(History) = Len(log)
          /\ Len(log) \in Nat
      BY <2>1, <3>1, ContentsType, LenProperties
    <3>4. /\ Len(History') = Len(log) + Len(tx[w].rows)
          /\ SubSeq(History', Len(log) + 1, Len(History')) \in Seq(Content)
          /\ History' = History \o SubSeq(History', Len(log) + 1, Len(History'))
      BY <2>1, <2>2, <3>1, ContentsGrow
    <3>5. Len(History') \in (Len(log) + 1) .. (Len(log) + MaxBatch)
      BY <3>2, <3>3, <3>4, ChainAssumption
    <3> QED
      BY <3>3, <3>4, <3>5 DEF Trail!Next, Trail!AppendBatch
  <2>4. CASE log' = log
    BY <2>1, <2>2, <2>4
  <2>5. (\E w \in Writers : Commit(w)) \/ log' = log
    BY DEF Next, vars, Proceed, AskLock, TakeLock, ReadLastHash, InsertRow,
           ShipEvent, AppendAgain, Rollback, DeleteUser
  <2> QED
    BY <2>3, <2>4, <2>5
<1> QED
  BY Inductive, <1>1, <1>2, PTL DEF Spec, RefinesAuditLog, Trail!Spec
=============================================================================
