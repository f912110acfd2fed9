--------------------------- MODULE OpenSurveyProof ---------------------------
(***************************************************************************)
(* The open survey: proofs for any events, fields, options and browsers,   *)
(* and any number of submissions and of an administrator's requests.       *)
(***************************************************************************)
EXTENDS OpenSurvey, FiniteSetTheorems, TLAPS

\* Submissions that have read the rows there are, and are to write.
Reading == {m \in jobs : m.at = "read"}

\* A submission that has been let in is of fields of its event; one that has
\* been written has left a row of each.
LetIn(m) ==
  /\ m.at \in {"read", "saved"} => DOMAIN m.given \subseteq Defined(m.event)
  /\ m.at = "saved" => \A f \in DOMAIN m.given : RowsOf(f) # {}
JobsInv == IsFiniteSet(jobs) /\ \A m \in jobs : LetIn(m)

\* Unless submissions have overlapped, a field has one row, and a submission
\* that has read the rows has found all there are of its fields.
OneRow   == \A i, j \in DOMAIN rows : rows[i][1] = rows[j][1] => i = j
Exact(m) == \A f \in DOMAIN m.given \ DOMAIN m.found : RowsOf(f) = {}
AloneInv ==
  ~overlap =>
    /\ OneRow
    /\ \A m, n \in Reading : m = n
    /\ \A m \in Reading : Exact(m)

\* What a browser has heard to be saved is what the rows hold.
Held(e, given) ==
  /\ DOMAIN given \subseteq Defined(e)
  /\ \A f \in DOMAIN given : RowsOf(f) # {} /\ \A i \in RowsOf(f) : rows[i][2] = given[f]
SavedInv ==
  \A u \in Browsers : \A e \in Events : fill[u].saved[e] # Nothing => Held(e, fill[u].saved[e])

\* A view that is on its way, or on the screen and not being read, shows it.
Agree(view, given) == \A f \in DOMAIN view \intersect DOMAIN given : view[f].value = given[f]
Follows(p, e) ==
  p.saved[e] # Nothing =>
    /\ p.fetch[e].at = "served" /\ ~p.fetch[e].old => Agree(p.fetch[e].view, p.saved[e])
    /\ p.event = e /\ p.fetch[e].at = "idle" /\ p.data[e] # Nothing => Agree(p.data[e], p.saved[e])
ViewInv == \A u \in Browsers : \A e \in Events : Follows(fill[u], e)

FillInv == FillTypeOK /\ JobsInv /\ AloneInv /\ SavedInv /\ ViewInv
IInv == DbTypeOK /\ BuilderTypeOK /\ FillInv /\ overlap \in BOOLEAN /\ cap \in Bounds

-----------------------------------------------------------------------------
(* A finite set in an order.                                               *)

\* The members of S that are before x in the order R.
Under(S, R, x) == {y \in S : <<y, x>> \in R}

\* In a strict order more are before one that is after.
LEMMA Higher ==
  ASSUME NEW S, IsFiniteSet(S), NEW R,
         \A z \in S : <<z, z>> \notin R,
         \A u, v, w \in S : <<u, v>> \in R /\ <<v, w>> \in R => <<u, w>> \in R,
         NEW x \in S, NEW y \in S, <<x, y>> \in R
  PROVE  Cardinality(Under(S, R, x)) < Cardinality(Under(S, R, y))
<1> DEFINE X == Under(S, R, x)
           Y == Under(S, R, y)
<1>1. X \subseteq Y /\ x \in Y /\ x \notin X BY DEF Under
<1>2. Y \subseteq S BY DEF Under
<1> HIDE DEF X, Y
<1>3. X # Y BY <1>1
<1>4. IsFiniteSet(Y) BY <1>2, FS_Subset
<1>5. IsFiniteSet(X) /\ Cardinality(X) \in Nat /\ Cardinality(Y) \in Nat BY <1>1, <1>4, FS_Subset, FS_CardinalityType
<1>6. Cardinality(X) <= Cardinality(Y) /\ Cardinality(X) # Cardinality(Y) BY <1>1, <1>3, <1>4, FS_Subset
<1>7. Cardinality(X) < Cardinality(Y) BY <1>5, <1>6
<1> QED BY <1>7 DEF X, Y

\* In a total order every number of members is that before one of them.
LEMMA Ranks ==
  ASSUME NEW S, IsFiniteSet(S), NEW R,
         \A x \in S : <<x, x>> \notin R,
         \A x, y, z \in S : <<x, y>> \in R /\ <<y, z>> \in R => <<x, z>> \in R,
         \A x, y \in S : x # y => <<x, y>> \in R \/ <<y, x>> \in R
  PROVE  /\ \A x \in S : /\ IsFiniteSet(Under(S, R, x))
                        /\ Cardinality(Under(S, R, x)) \in 0 .. Cardinality(S) - 1
         /\ \A x, y \in S : Cardinality(Under(S, R, x)) = Cardinality(Under(S, R, y)) => x = y
         /\ \A n \in 0 .. Cardinality(S) - 1 : \E x \in S : Cardinality(Under(S, R, x)) = n
<1> DEFINE size(x) == Cardinality(Under(S, R, x))
           rank == [x \in S |-> size(x)]
           T == {rank[x] : x \in S}
           N == 0 .. Cardinality(S) - 1
<1>1. Cardinality(S) \in Nat BY FS_CardinalityType
<1>2. \A x \in S : Under(S, R, x) \subseteq S /\ x \notin Under(S, R, x) BY DEF Under
<1>3. \A x \in S : IsFiniteSet(Under(S, R, x)) /\ size(x) \in Nat /\ size(x) < Cardinality(S)
  <2> TAKE x \in S
  <2>1. Under(S, R, x) # S BY <1>2
  <2> QED BY <1>2, <2>1, FS_Subset, FS_CardinalityType
<1>4. \A x, y \in S : <<x, y>> \in R => size(x) < size(y)
  <2> TAKE x, y \in S
  <2> HAVE <<x, y>> \in R
  <2> QED BY Higher
<1>5. \A x, y \in S : size(x) = size(y) => x = y
  <2> HIDE DEF size
  <2> SUFFICES ASSUME NEW x \in S, NEW y \in S, size(x) = size(y), x # y PROVE FALSE OBVIOUS
  <2>1. size(x) \in Nat /\ size(y) \in Nat BY <1>3
  <2>2. size(x) < size(y) \/ size(y) < size(x) BY <1>4
  <2> QED BY <2>1, <2>2
<1> HIDE DEF size
<1>6. rank \in Bijection(S, T)
  <2>1. rank \in [S -> T] OBVIOUS
  <2>2. \A x, y \in S : rank[x] = rank[y] => x = y BY <1>5
  <2>3. \A t \in T : \E x \in S : rank[x] = t OBVIOUS
  <2> QED BY <2>1, <2>2, <2>3 DEF Bijection, Injection, Surjection, IsInjective
<1>7. IsFiniteSet(T) /\ Cardinality(T) = Cardinality(S)
  <2>1. ExistsBijection(S, T) BY <1>6 DEF ExistsBijection
  <2> QED BY <2>1, FS_Bijection
<1>8. T \subseteq N BY <1>3, <1>1
<1>9. IsFiniteSet(N) /\ Cardinality(N) = Cardinality(S)
  <2> DEFINE n == Cardinality(S) - 1
  <2>1. n \in Int /\ n >= 0 - 1 /\ n + 1 = Cardinality(S) BY <1>1
  <2> HIDE DEF n
  <2>2. IsFiniteSet(0 .. n) /\ Cardinality(0 .. n) = IF 0 > n THEN 0 ELSE n - 0 + 1
    BY <2>1, FS_Interval, SMTT(60)
  <2>3. Cardinality(0 .. n) = n + 1 BY <2>1, <2>2
  <2> QED BY <2>1, <2>2, <2>3 DEF n
<1>10. T = N
  <2> HIDE DEF T, N
  <2> QED BY <1>7, <1>8, <1>9, FS_Subset
<1>11. \A n \in N : \E x \in S : size(x) = n BY <1>10
<1> QED BY <1>1, <1>3, <1>5, <1>11 DEF size

\* A finite set of numbers has a greatest.
LEMMA Greatest ==
  ASSUME NEW S, IsFiniteSet(S), S # {}, S \subseteq Nat
  PROVE  Max(S) \in S
<1> DEFINE R == {p \in S \X S : p[1] < p[2]}
           top == Cardinality(S) - 1
<1>1. Cardinality(S) \in Nat /\ Cardinality(S) # 0 BY FS_CardinalityType, FS_EmptySet
<1>2. \A x, y \in S : <<x, y>> \in R <=> x < y OBVIOUS
<1> HIDE DEF R
<1>3. \A n \in 0 .. top : \E x \in S : Cardinality(Under(S, R, x)) = n
  <2>1. \A x \in S : <<x, x>> \notin R BY <1>2
  <2>2. \A x, y, z \in S : <<x, y>> \in R /\ <<y, z>> \in R => <<x, z>> \in R BY <1>2
  <2>3. \A x, y \in S : x # y => <<x, y>> \in R \/ <<y, x>> \in R BY <1>2
  <2> QED BY <2>1, <2>2, <2>3, Ranks
<1>4. PICK x \in S : Cardinality(Under(S, R, x)) = top BY <1>1, <1>3
<1>5. Under(S, R, x) \subseteq S \ {x} BY <1>2 DEF Under
<1>6. IsFiniteSet(S \ {x}) /\ Cardinality(S \ {x}) = top BY FS_RemoveElement
<1>7. Under(S, R, x) = S \ {x} BY <1>4, <1>5, <1>6, FS_Subset
<1>8. \A y \in S : x >= y
  <2> TAKE y \in S
  <2>1. CASE y = x BY <2>1
  <2>2. CASE y # x
    <3>1. <<y, x>> \in R BY <2>2, <1>7 DEF Under
    <3> QED BY <3>1, <1>2
  <2> QED BY <2>1, <2>2
<1> QED BY <1>8 DEF Max

\* The list of some fields has each of them, once.
LEMMA SortedOk ==
  ASSUME DbTypeOK, NEW F, F \subseteq DOMAIN field
  PROVE  /\ IsFiniteSet(F) /\ Cardinality(F) \in Nat
         /\ Sorted(F) \in Seq(F) /\ Len(Sorted(F)) = Cardinality(F)
         /\ \A i, j \in DOMAIN Sorted(F) : Sorted(F)[i] = Sorted(F)[j] => i = j
         /\ \A f \in F : \E i \in DOMAIN Sorted(F) : Sorted(F)[i] = f
         /\ \A i, j \in DOMAIN Sorted(F) : Before(Sorted(F)[i], Sorted(F)[j]) => i < j
<1> DEFINE R == {p \in F \X F : Before(p[1], p[2])}
           n == Cardinality(F)
           s == Sorted(F)
<1>1. Len(field) \in Nat /\ DOMAIN field = 1 .. Len(field) /\ \A f \in DOMAIN field : field[f].order \in Nat
  <2>1. field \in Seq(Columns) BY DEF DbTypeOK
  <2>2. Len(field) \in Nat /\ DOMAIN field = 1 .. Len(field) /\ \A f \in DOMAIN field : field[f] \in Columns
    BY <2>1
  <2> QED BY <2>2 DEF Columns, Orders
<1>2. IsFiniteSet(F) /\ n \in Nat
  <2>1. IsFiniteSet(1 .. Len(field)) BY <1>1, FS_Interval
  <2>2. IsFiniteSet(F) BY <1>1, <2>1, FS_Subset
  <2> QED BY <2>2, FS_CardinalityType
<1>3. \A x, y \in F : <<x, y>> \in R <=> Before(x, y) OBVIOUS
<1> HIDE DEF R
<1>4. \A f \in F : f \in Nat /\ field[f].order \in Nat BY <1>1
<1>5. \A x \in F : <<x, x>> \notin R BY <1>3, <1>4 DEF Before
<1>6. \A x, y, z \in F : <<x, y>> \in R /\ <<y, z>> \in R => <<x, z>> \in R BY <1>3, <1>4 DEF Before
<1>7. \A x, y \in F : x # y => <<x, y>> \in R \/ <<y, x>> \in R BY <1>3, <1>4 DEF Before
<1>8. \A f \in F : {g \in F : Before(g, f)} = Under(F, R, f) BY <1>3 DEF Under
<1> DEFINE size(f) == Cardinality({g \in F : Before(g, f)})
<1>9. /\ \A f \in F : size(f) \in 0 .. n - 1
      /\ \A f, g \in F : size(f) = size(g) => f = g
      /\ \A k \in 0 .. n - 1 : \E f \in F : size(f) = k
  <2>1. \A f \in F : size(f) = Cardinality(Under(F, R, f)) BY <1>8
  <2> HIDE DEF size
  <2> QED BY <1>2, <1>5, <1>6, <1>7, <2>1, Ranks
<1>9a. \A f, g \in F : Before(f, g) => size(f) < size(g)
  <2> TAKE f, g \in F
  <2> HAVE Before(f, g)
  <2>1. size(f) = Cardinality(Under(F, R, f)) /\ size(g) = Cardinality(Under(F, R, g)) BY <1>8
  <2>2. <<f, g>> \in R BY <1>3
  <2> HIDE DEF size
  <2> QED BY <1>2, <1>5, <1>6, <2>1, <2>2, Higher
<1>10. s = [i \in 1 .. n |-> CHOOSE f \in F : size(f) = i - 1] BY DEF Sorted
<1> HIDE DEF size
<1>11. \A i \in 1 .. n : s[i] \in F /\ size(s[i]) = i - 1
  <2> TAKE i \in 1 .. n
  <2>1. i - 1 \in 0 .. n - 1 BY <1>2
  <2>2. \E f \in F : size(f) = i - 1 BY <2>1, <1>9
  <2> QED BY <2>2, <1>10
<1>12. DOMAIN s = 1 .. n /\ s \in [1 .. n -> F] BY <1>10, <1>11
<1> HIDE DEF s
<1>13. s \in Seq(F) /\ Len(s) = n BY <1>2, <1>12
<1>14. \A i, j \in 1 .. n : s[i] = s[j] => i = j BY <1>2, <1>11
<1>15. \A f \in F : \E i \in 1 .. n : s[i] = f
  <2> TAKE f \in F
  <2>1. size(f) \in 0 .. n - 1 BY <1>9
  <2>2. size(f) + 1 \in 1 .. n /\ (size(f) + 1) - 1 = size(f) BY <2>1, <1>2
  <2>3. size(s[size(f) + 1]) = size(f) /\ s[size(f) + 1] \in F BY <2>2, <1>11
  <2> QED BY <2>2, <2>3, <1>9
<1>16. \A i, j \in 1 .. n : Before(s[i], s[j]) => i < j
  <2> TAKE i, j \in 1 .. n
  <2> HAVE Before(s[i], s[j])
  <2>1. size(s[i]) < size(s[j]) BY <1>11, <1>9a
  <2>2. size(s[i]) = i - 1 /\ size(s[j]) = j - 1 BY <1>11
  <2> QED BY <2>1, <2>2, <1>2
<1> QED BY <1>2, <1>12, <1>13, <1>14, <1>15, <1>16 DEF s

-----------------------------------------------------------------------------
(* The steps of the database.                                              *)

\* What the fields and rows are like.
LEMMA DbFacts ==
  ASSUME DbTypeOK
  PROVE  /\ Len(field) \in Nat /\ DOMAIN field = 1 .. Len(field) /\ DOMAIN field \subseteq Ids
         /\ DOMAIN owner = DOMAIN field
         /\ \A f \in DOMAIN field : field[f] \in Columns /\ owner[f] \in Events
         /\ Len(rows) \in Nat /\ DOMAIN rows = 1 .. Len(rows)
         /\ \A i \in DOMAIN rows : /\ rows[i] = <<rows[i][1], rows[i][2]>>
                                   /\ rows[i][1] \in DOMAIN field /\ rows[i][2] \in Answer
         /\ \A e \in Events : Active(e) \subseteq Defined(e) /\ Defined(e) \subseteq DOMAIN field
<1>1. field \in Seq(Columns) /\ owner \in Seq(Events) /\ Len(owner) = Len(field) /\ Len(field) <= MaxFields
  BY DEF DbTypeOK
<1>2. rows \in Seq((1 .. Len(field)) \X Answer) BY DEF DbTypeOK
<1>3. Len(field) \in Nat /\ DOMAIN field = 1 .. Len(field) /\ DOMAIN owner = DOMAIN field BY <1>1
<1>4. DOMAIN field \subseteq Ids BY <1>1, <1>3, DbAssumption DEF Ids
<1>5. \A f \in DOMAIN field : field[f] \in Columns /\ owner[f] \in Events BY <1>1, <1>3
<1>6. Len(rows) \in Nat /\ DOMAIN rows = 1 .. Len(rows) BY <1>2
<1>7. \A i \in DOMAIN rows : rows[i] \in (1 .. Len(field)) \X Answer BY <1>2, <1>6
<1>8. \A e \in Events : Active(e) \subseteq Defined(e) /\ Defined(e) \subseteq DOMAIN field
  BY DEF Active, Defined
<1> QED BY <1>3, <1>4, <1>5, <1>6, <1>7, <1>8

\* No field goes, or to another event.
Grown == \A e \in Events : Defined(e) \subseteq Defined(e)'

LEMMA StillOk ==
  ASSUME DbTypeOK, UNCHANGED db
  PROVE  DbTypeOK' /\ Grown /\ rows' = rows
<1>1. phase' = phase /\ owner' = owner /\ field' = field /\ rows' = rows BY DEF db
<1>2. DbTypeOK' BY <1>1 DEF DbTypeOK
<1>3. Grown BY <1>1 DEF Grown, Defined
<1> QED BY <1>1, <1>2, <1>3

LEMMA DefineOk ==
  ASSUME DbTypeOK, NEW e \in Events, NEW c \in Columns, Len(field) < MaxFields, Define(e, c)
  PROVE  DbTypeOK' /\ Grown
<1>1. owner \in Seq(Events) /\ field \in Seq(Columns) /\ Len(owner) = Len(field) BY DEF DbTypeOK
<1>2. owner' = Append(owner, e) /\ field' = Append(field, c) /\ rows' = rows /\ phase' = phase BY DEF Define
<1>3. owner' \in Seq(Events) /\ field' \in Seq(Columns) BY <1>1, <1>2
<1>4. Len(owner') = Len(owner) + 1 /\ Len(field') = Len(field) + 1 /\ Len(field) \in Nat BY <1>1, <1>2
<1>5. Len(field') <= MaxFields BY <1>4, DbAssumption
<1>6. rows' \in Seq((1 .. Len(field')) \X Answer)
  <2>1. rows \in Seq((1 .. Len(field)) \X Answer) BY DEF DbTypeOK
  <2>2. (1 .. Len(field)) \X Answer \subseteq (1 .. Len(field')) \X Answer BY <1>4
  <2> QED BY <2>1, <2>2, <1>2
<1>7. phase' \subseteq Events BY <1>2 DEF DbTypeOK
<1>8. Grown
  <2>1. \A f \in DOMAIN field : f \in DOMAIN field' /\ owner'[f] = owner[f] BY <1>1, <1>2
  <2> QED BY <2>1 DEF Grown, Defined
<1> QED BY <1>1, <1>3, <1>4, <1>5, <1>6, <1>7, <1>8 DEF DbTypeOK

LEMMA PatchedOk ==
  ASSUME NEW c \in Columns, NEW diff, Part(diff)
  PROVE  Patched(c, diff) \in Columns
<1>1. DOMAIN c = {"type", "options", "required", "order", "active"} BY DEF Columns
<1>2. DOMAIN Patched(c, diff) = DOMAIN c BY DEF Patched
<1>3. \A k \in DOMAIN c : Patched(c, diff)[k] = (IF k \in DOMAIN diff THEN diff[k] ELSE c[k]) BY DEF Patched
<1>4. \A k \in DOMAIN c : c[k] \in TypeOf[k] BY <1>1 DEF Columns, TypeOf
<1>5. \A k \in DOMAIN c : Patched(c, diff)[k] \in TypeOf[k] BY <1>3, <1>4 DEF Part
<1>6. Patched(c, diff) = [k \in DOMAIN c |-> Patched(c, diff)[k]] BY <1>2 DEF Patched
<1> HIDE DEF Patched
<1>7. Patched(c, diff) = [type |-> Patched(c, diff).type, options |-> Patched(c, diff).options,
                          required |-> Patched(c, diff).required, order |-> Patched(c, diff).order,
                          active |-> Patched(c, diff).active] BY <1>6, <1>1
<1>8. /\ Patched(c, diff).type \in Types /\ Patched(c, diff).options \in SUBSET Options
      /\ Patched(c, diff).required \in BOOLEAN /\ Patched(c, diff).order \in Orders
      /\ Patched(c, diff).active \in BOOLEAN
  BY <1>5, <1>1 DEF TypeOf
<1> QED BY <1>7, <1>8 DEF Columns

LEMMA WriteOk ==
  ASSUME DbTypeOK, NEW f, NEW diff, Part(diff), Write(f, diff)
  PROVE  DbTypeOK' /\ Grown
<1>1. field \in Seq(Columns) BY DEF DbTypeOK
<1>2. field' = [field EXCEPT ![f] = Patched(@, diff)] /\ UNCHANGED <<phase, owner, rows>> BY DEF Write
<1>3. f \in DOMAIN field => Patched(field[f], diff) \in Columns BY <1>1, PatchedOk
<1>4. field' \in Seq(Columns) /\ Len(field') = Len(field) /\ DOMAIN field' = DOMAIN field
  <2>1. CASE f \in DOMAIN field BY <1>1, <1>2, <1>3, <2>1
  <2>2. CASE f \notin DOMAIN field
    <3>1. field' = field BY <1>1, <1>2, <2>2
    <3> QED BY <3>1, <1>1
  <2> QED BY <2>1, <2>2
<1> QED BY <1>2, <1>4 DEF DbTypeOK, Grown, Defined

LEMMA Joined ==
  ASSUME NEW S, NEW s \in Seq(S), NEW r \in Seq(S)
  PROVE  /\ s \o r \in Seq(S) /\ Len(s \o r) = Len(s) + Len(r)
         /\ \A i \in 1 .. Len(s) : (s \o r)[i] = s[i]
         /\ \A i \in 1 .. Len(s) + Len(r) : i > Len(s) => (s \o r)[i] = r[i - Len(s)]
OBVIOUS

\* What a submission that has found rows of its fields leaves: a row of each of
\* them, with what was given, and the others as they were.
LEMMA UpsertOk ==
  ASSUME DbTypeOK, NEW given, NEW found, Over(given, Answer), DOMAIN given \subseteq DOMAIN field,
         \A f \in DOMAIN found : f \in DOMAIN given /\ found[f] \in RowsOf(f),
         Upsert(given, found)
  PROVE  /\ DbTypeOK' /\ Grown
         /\ DOMAIN rows \subseteq DOMAIN rows'
         /\ \A i \in DOMAIN rows : rows'[i][1] = rows[i][1]
         /\ \A i \in DOMAIN rows' \ DOMAIN rows : rows'[i][1] \in DOMAIN given \ DOMAIN found
         /\ \A i, j \in DOMAIN rows' \ DOMAIN rows : rows'[i][1] = rows'[j][1] => i = j
         /\ \A f \in DOMAIN given : \E i \in DOMAIN rows' : rows'[i][1] = f
         /\ \A i \in DOMAIN rows : rows'[i] = rows[i] \/ rows[i][1] \in DOMAIN given
<1> DEFINE hit(i) == \E f \in DOMAIN found : found[f] = i
           upd == [i \in DOMAIN rows |-> IF hit(i) THEN <<rows[i][1], given[rows[i][1]]>> ELSE rows[i]]
           F   == DOMAIN given \ DOMAIN found
           ids == Sorted(F)
           new == [i \in DOMAIN ids |-> <<ids[i], given[ids[i]]>>]
           n   == Len(rows)
           X   == (1 .. Len(field)) \X Answer
<1>1. rows' = upd \o new /\ UNCHANGED <<phase, owner, field>> BY DEF Upsert, New
<1>2. /\ n \in Nat /\ DOMAIN rows = 1 .. n /\ DOMAIN field = 1 .. Len(field)
      /\ \A i \in 1 .. n : rows[i] \in X /\ rows[i][1] \in DOMAIN field /\ rows[i][2] \in Answer
      /\ \A i \in 1 .. n : rows[i] = <<rows[i][1], rows[i][2]>>
  BY DbFacts
<1>3. \A f \in DOMAIN given : given[f] \in Answer BY DEF Over
<1>4. \A i \in 1 .. n : hit(i) => rows[i][1] \in DOMAIN given BY DEF RowsOf
<1>5. /\ ids \in Seq(F) /\ Len(ids) \in Nat
      /\ \A i, j \in DOMAIN ids : ids[i] = ids[j] => i = j
      /\ \A f \in F : \E i \in DOMAIN ids : ids[i] = f
  <2>1. F \subseteq DOMAIN field OBVIOUS
  <2> QED BY <2>1, SortedOk
<1> HIDE DEF ids, hit
<1> DEFINE k == Len(ids)
<1>6. DOMAIN ids = 1 .. k /\ \A i \in 1 .. k : ids[i] \in F BY <1>5
<1>7. upd \in Seq(X) /\ Len(upd) = n
  <2>1. \A i \in 1 .. n : upd[i] \in X BY <1>2, <1>3, <1>4
  <2>2. upd \in [1 .. n -> X] BY <1>2, <2>1
  <2> QED BY <2>2, <1>2
<1>8. new \in Seq(X) /\ Len(new) = k
  <2>1. \A i \in 1 .. k : new[i] \in X BY <1>2, <1>3, <1>6
  <2>2. new \in [1 .. k -> X] BY <1>6, <2>1
  <2> QED BY <2>2, <1>5
<1>9. \A i \in 1 .. n : upd[i] = (IF hit(i) THEN <<rows[i][1], given[rows[i][1]]>> ELSE rows[i]) BY <1>2
<1>10. \A i \in 1 .. k : new[i][1] = ids[i] BY <1>6
<1> HIDE DEF upd, new, F, k, X
<1>11. /\ rows' \in Seq(X) /\ Len(rows') = n + k /\ DOMAIN rows' = 1 .. n + k
       /\ \A i \in 1 .. n : rows'[i] = upd[i]
       /\ \A i \in 1 .. n + k : i > n => rows'[i] = new[i - n]
  <2>1. rows' = upd \o new BY <1>1
  <2>2. /\ upd \o new \in Seq(X) /\ Len(upd \o new) = n + k
        /\ \A i \in 1 .. n : (upd \o new)[i] = upd[i]
        /\ \A i \in 1 .. n + k : i > n => (upd \o new)[i] = new[i - n]
    <3> DEFINE a == Len(upd)
               b == Len(new)
    <3>1. /\ upd \o new \in Seq(X) /\ Len(upd \o new) = a + b
          /\ \A i \in 1 .. a : (upd \o new)[i] = upd[i]
          /\ \A i \in 1 .. a + b : i > a => (upd \o new)[i] = new[i - a]
      BY <1>7, <1>8, Joined
    <3>2. a = n /\ b = k BY <1>7, <1>8
    <3> HIDE DEF a, b, n, k
    <3> QED BY <3>1, <3>2
  <2>3. DOMAIN (upd \o new) = 1 .. Len(upd \o new) BY <2>2
  <2> QED BY <2>1, <2>2, <2>3
<1>12. DbTypeOK'
  <2>1. rows' \in Seq((1 .. Len(field')) \X Answer) BY <1>1, <1>11 DEF X
  <2> QED BY <1>1, <2>1 DEF DbTypeOK
<1>13. Grown BY <1>1 DEF Grown, Defined
<1>14. k \in Nat BY <1>5 DEF k
<1>15. \A i \in 1 .. n : rows'[i][1] = rows[i][1]
  <2> TAKE i \in 1 .. n
  <2>1. rows'[i] = (IF hit(i) THEN <<rows[i][1], given[rows[i][1]]>> ELSE rows[i]) BY <1>9, <1>11
  <2>2. CASE hit(i) BY <2>1, <2>2
  <2>3. CASE ~hit(i) BY <2>1, <2>3
  <2> QED BY <2>2, <2>3
<1>16. \A i \in 1 .. n : rows'[i] = rows[i] \/ rows[i][1] \in DOMAIN given
  <2> TAKE i \in 1 .. n
  <2>1. rows'[i] = (IF hit(i) THEN <<rows[i][1], given[rows[i][1]]>> ELSE rows[i]) BY <1>9, <1>11
  <2> QED BY <2>1, <1>4
<1>9a. \A i \in 1 .. n + k : i > n => i - n \in 1 .. k /\ rows'[i][1] = ids[i - n]
  BY <1>2, <1>10, <1>11, <1>14
<1>18. \A f \in DOMAIN given : \E i \in 1 .. n + k : rows'[i][1] = f
  <2> TAKE f \in DOMAIN given
  <2>1. CASE f \in DOMAIN found
    <3>1. found[f] \in 1 .. n /\ rows[found[f]][1] = f BY <2>1, <1>2 DEF RowsOf
    <3> DEFINE j == found[f]
    <3>2. j \in 1 .. n /\ rows'[j][1] = f BY <3>1, <1>15
    <3> HIDE DEF j, n
    <3>3. j \in 1 .. n + k BY <3>2, <1>2, <1>14
    <3> QED BY <3>2, <3>3
  <2>2. CASE f \notin DOMAIN found
    <3>1. PICK i \in 1 .. k : ids[i] = f BY <2>2, <1>5, <1>6 DEF F
    <3> DEFINE j == i + n
    <3>2. j \in 1 .. n + k /\ j > n /\ j - n = i BY <1>2, <1>14
    <3> HIDE DEF j
    <3>3. rows'[j][1] = f BY <3>1, <3>2, <1>9a
    <3> HIDE DEF n
    <3> QED BY <3>2, <3>3
  <2> QED BY <2>1, <2>2
<1>19. DOMAIN rows = 1 .. n /\ DOMAIN rows' = 1 .. n + k BY <1>2, <1>11
<1>20. \A i \in DOMAIN rows' \ DOMAIN rows : i \in 1 .. n + k /\ i > n BY <1>19, <1>2, <1>14
<1>21. \A i \in DOMAIN rows' \ DOMAIN rows : rows'[i][1] \in F BY <1>20, <1>9a, <1>6
<1>22. \A i, j \in DOMAIN rows' \ DOMAIN rows : rows'[i][1] = rows'[j][1] => i = j
  <2> TAKE i, j \in DOMAIN rows' \ DOMAIN rows
  <2> HAVE rows'[i][1] = rows'[j][1]
  <2>1. i - n \in DOMAIN ids /\ j - n \in DOMAIN ids /\ ids[i - n] = ids[j - n] BY <1>20, <1>9a, <1>6
  <2>2. i - n = j - n BY <2>1, <1>5
  <2> QED BY <2>2, <1>20, <1>2, <1>14
<1>23. DOMAIN rows \subseteq DOMAIN rows' BY <1>19, <1>2, <1>14
<1> QED BY <1>12, <1>13, <1>15, <1>16, <1>18, <1>19, <1>21, <1>22, <1>23 DEF F

LEMMA RowsAfter ==
  ASSUME DbTypeOK, NEW given, NEW found, Over(given, Answer), DOMAIN given \subseteq DOMAIN field,
         \A f \in DOMAIN found : f \in DOMAIN given /\ found[f] \in RowsOf(f),
         Upsert(given, found)
  PROVE  /\ \A f : RowsOf(f) \subseteq RowsOf(f)'
         /\ \A f : f \notin DOMAIN given =>
              RowsOf(f)' = RowsOf(f) /\ \A i \in RowsOf(f) : rows'[i] = rows[i]
         /\ \A f \in DOMAIN given : RowsOf(f)' # {}
         /\ OneRow /\ (\A f \in DOMAIN given \ DOMAIN found : RowsOf(f) = {}) => OneRow'
<1>1. /\ DOMAIN rows \subseteq DOMAIN rows'
      /\ \A i \in DOMAIN rows : rows'[i][1] = rows[i][1]
      /\ \A i \in DOMAIN rows' \ DOMAIN rows : rows'[i][1] \in DOMAIN given \ DOMAIN found
      /\ \A i, j \in DOMAIN rows' \ DOMAIN rows : rows'[i][1] = rows'[j][1] => i = j
      /\ \A f \in DOMAIN given : \E i \in DOMAIN rows' : rows'[i][1] = f
      /\ \A i \in DOMAIN rows : rows'[i] = rows[i] \/ rows[i][1] \in DOMAIN given
  BY UpsertOk
<1>2. \A f : RowsOf(f) \subseteq RowsOf(f)' BY <1>1 DEF RowsOf
<1>3. \A f : f \notin DOMAIN given => RowsOf(f)' \subseteq RowsOf(f) BY <1>1 DEF RowsOf
<1>4. \A f : f \notin DOMAIN given => \A i \in RowsOf(f) : rows'[i] = rows[i] BY <1>1 DEF RowsOf
<1>5. \A f \in DOMAIN given : RowsOf(f)' # {} BY <1>1 DEF RowsOf
<1>6. ASSUME OneRow, \A f \in DOMAIN given \ DOMAIN found : RowsOf(f) = {}
      PROVE  OneRow'
  <2>1. \A i, j \in DOMAIN rows : rows'[i][1] = rows'[j][1] => i = j BY <1>1, <1>6 DEF OneRow
  <2>2. \A i \in DOMAIN rows, j \in DOMAIN rows' \ DOMAIN rows : rows'[i][1] # rows'[j][1]
    <3> TAKE i \in DOMAIN rows, j \in DOMAIN rows' \ DOMAIN rows
    <3>1. RowsOf(rows'[j][1]) = {} BY <1>1, <1>6
    <3>2. i \in RowsOf(rows[i][1]) BY DEF RowsOf
    <3> QED BY <3>1, <3>2, <1>1
  <2> QED BY <2>1, <2>2, <1>1 DEF OneRow
<1> QED BY <1>2, <1>3, <1>4, <1>5, <1>6

-----------------------------------------------------------------------------
(* The page, and what becomes of it and of the submissions when it shows.  *)

LEMMA Defaults ==
  ASSUME NEW p, PageOk(p), Mounted(p)
  PROVE  /\ Over(FieldsToDefaults(Fields(p)), Answer)
         /\ DOMAIN FieldsToDefaults(Fields(p)) = DOMAIN Fields(p)
<1>1. p.event \in Events BY DEF PageOk, Mounted, Maybe
<1>2. Over(Fields(p), SeenField) BY <1>1 DEF PageOk, Mounted, Fields, MaybeOver
<1>3. \A f \in DOMAIN Fields(p) : Fields(p)[f].value \in Answer BY <1>2 DEF Over, SeenField
<1>4. DOMAIN Fields(p) \subseteq Ids BY <1>2 DEF Over
<1> HIDE DEF Fields
<1> QED BY <1>3, <1>4 DEF Over, FieldsToDefaults

\* A page that renders: only its form changes.
LEMMA RenderedOk ==
  ASSUME NEW p, PageOk(p), FormOk(p), NEW q, PageOk(q), q.values = p.values, q.base = p.base,
         NEW r, r = Rendered(p, q)
  PROVE  /\ PageOk(r) /\ FormOk(r)
         /\ r.event = q.event /\ r.data = q.data /\ r.fetch = q.fetch /\ r.saved = q.saved
<1> DEFINE d == FieldsToDefaults(Fields(q))
<1>1. Over(<<>>, Answer) BY DEF Over
<1>2. ASSUME NEW v, NEW c \in BOOLEAN, Over(v, Answer), r = [q EXCEPT !.values = v, !.base = v, !.closed = c],
             Mounted(q) => DOMAIN v = DOMAIN Fields(q)
      PROVE  /\ PageOk(r) /\ FormOk(r)
             /\ r.event = q.event /\ r.data = q.data /\ r.fetch = q.fetch /\ r.saved = q.saved
  <2>1. /\ PageOk(r) /\ r.values = v /\ r.base = v
        /\ r.event = q.event /\ r.data = q.data /\ r.fetch = q.fetch /\ r.saved = q.saved
        /\ r.success = q.success
    <3>1. DOMAIN q = DOMAIN NewPage BY DEF PageOk
    <3>2. DOMAIN NewPage = {"event", "data", "fetch", "values", "base", "closed", "success", "sends", "saved"}
      BY DEF NewPage
    <3>3. /\ DOMAIN r = DOMAIN NewPage /\ r.values = v /\ r.base = v /\ r.closed = c
          /\ r.event = q.event /\ r.data = q.data /\ r.fetch = q.fetch /\ r.saved = q.saved
          /\ r.success = q.success /\ r.sends = q.sends
      BY <1>2, <3>1, <3>2
    <3> QED BY <1>2, <3>3 DEF PageOk
  <2> QED BY <2>1, <1>2 DEF FormOk, Mounted, Fields
<1>3. q.closed \in BOOLEAN BY DEF PageOk
<1>4. CASE ~Mounted(q)
  <2>1. r = [q EXCEPT !.values = <<>>, !.base = <<>>, !.closed = FALSE] BY <1>4 DEF Rendered
  <2> QED BY <2>1, <1>1, <1>2, <1>4
<1>5. CASE Mounted(q) /\ ~Mounted(p)
  <2>1. r = [Fresh(q) EXCEPT !.closed = FALSE] BY <1>5 DEF Rendered
  <2>2. r = [q EXCEPT !.values = d, !.base = d, !.closed = FALSE] BY <2>1 DEF Fresh
  <2>3. Over(d, Answer) /\ DOMAIN d = DOMAIN Fields(q) BY <1>5, Defaults
  <2> HIDE DEF d
  <2> QED BY <2>2, <2>3, <1>2
<1>6. CASE Mounted(q) /\ Mounted(p)
  <2>1. Over(d, Answer) /\ DOMAIN d = DOMAIN Fields(q) BY <1>6, Defaults
  <2>2. CASE d = p.base
    <3>1. r = q BY <1>6, <2>2 DEF Rendered
    <3> QED BY <3>1, <2>1, <2>2 DEF FormOk
  <2>3. CASE d # p.base
    <3>1. r = Fresh(q) BY <1>6, <2>3 DEF Rendered
    <3>2. r = [q EXCEPT !.values = d, !.base = d] BY <3>1 DEF Fresh
    <3>3. r = [q EXCEPT !.values = d, !.base = d, !.closed = q.closed]
      <4> HIDE DEF d
      <4>1. DOMAIN q = DOMAIN NewPage BY DEF PageOk
      <4> QED BY <3>2, <4>1 DEF NewPage
    <3> HIDE DEF d
    <3> QED BY <3>3, <2>1, <1>2, <1>3
  <2> QED BY <2>2, <2>3
<1> QED BY <1>4, <1>5, <1>6

\* A submission as it is when the page of u becomes q.
Muted(u, q, m) == IF m.by = u /\ ~Mounted(q) THEN [m EXCEPT !.heard = FALSE] ELSE m

LEMMA MutedOk ==
  ASSUME NEW u, NEW q, NEW m, JobOk(m), NEW n, n = Muted(u, q, m)
  PROVE  /\ JobOk(n) /\ n.by = m.by /\ n.no = m.no /\ n.event = m.event /\ n.given = m.given
         /\ n.at = m.at /\ n.found = m.found
<1>1. DOMAIN m = {"by", "no", "event", "given", "at", "found", "heard"} BY DEF JobOk
<1>2. CASE n = m BY <1>2
<1>3. CASE n = [m EXCEPT !.heard = FALSE]
  <2>1. /\ DOMAIN n = DOMAIN m /\ n.by = m.by /\ n.no = m.no /\ n.event = m.event /\ n.given = m.given
        /\ n.at = m.at /\ n.found = m.found /\ n.heard = FALSE
    BY <1>1, <1>3
  <2> QED BY <2>1 DEF JobOk
<1> QED BY <1>2, <1>3 DEF Muted

LEMMA ShowOk ==
  ASSUME FillTypeOK, NEW u \in Browsers, NEW q, PageOk(q),
         q.values = fill[u].values, q.base = fill[u].base, NEW js, Show(u, q, js)
  PROVE  /\ DOMAIN fill' = Browsers
         /\ \A v \in Browsers : v # u => fill'[v] = fill[v]
         /\ PageOk(fill'[u]) /\ FormOk(fill'[u])
         /\ fill'[u].event = q.event /\ fill'[u].data = q.data
         /\ fill'[u].fetch = q.fetch /\ fill'[u].saved = q.saved
         /\ jobs' = {Muted(u, q, m) : m \in js}
<1>1. DOMAIN fill = Browsers /\ PageOk(fill[u]) /\ FormOk(fill[u]) BY DEF FillTypeOK
<1>2. fill' = [fill EXCEPT ![u] = Rendered(fill[u], q)] BY DEF Show
<1>3. /\ fill'[u] = Rendered(fill[u], q) /\ DOMAIN fill' = Browsers
      /\ \A v \in Browsers : v # u => fill'[v] = fill[v]
  BY <1>1, <1>2
<1>4. jobs' = {Muted(u, q, m) : m \in js} BY DEF Show, Muted
<1> QED BY <1>1, <1>3, <1>4, RenderedOk

\* The image of a finite set.
LEMMA MutedFinite ==
  ASSUME NEW js, IsFiniteSet(js), NEW u, NEW q
  PROVE  IsFiniteSet({Muted(u, q, m) : m \in js})
<1> DEFINE T == {Muted(u, q, m) : m \in js}
           g == [m \in js |-> Muted(u, q, m)]
<1>1. g \in [js -> T] /\ \A t \in T : \E m \in js : g[m] = t OBVIOUS
<1>2. g \in Surjection(js, T) BY <1>1 DEF Surjection
<1> HIDE DEF T, g
<1>4. IsFiniteSet(T) BY <1>2, FS_Surjection
<1> QED BY <1>4 DEF T

LEMMA ShowStep ==
  ASSUME FillInv, UNCHANGED db, overlap => overlap',
         NEW u \in Browsers, NEW q, PageOk(q), q.values = fill[u].values, q.base = fill[u].base,
         \A e \in Events : q.saved[e] # Nothing => Held(e, q.saved[e]),
         \A e \in Events : Follows(q, e),
         NEW js, IsFiniteSet(js), \A m \in js : JobOk(m) /\ LetIn(m),
         ~overlap => \A m, n \in js : m.at = "read" /\ n.at = "read" => m = n /\ Exact(m),
         Show(u, q, js)
  PROVE  FillInv'
<1> DEFINE page == fill'[u]
<1>1. FillTypeOK BY DEF FillInv
<1>2. /\ DOMAIN fill' = Browsers
      /\ \A v \in Browsers : v # u => fill'[v] = fill[v]
      /\ PageOk(page) /\ FormOk(page)
      /\ page.event = q.event /\ page.data = q.data
      /\ page.fetch = q.fetch /\ page.saved = q.saved
      /\ jobs' = {Muted(u, q, m) : m \in js}
  BY <1>1, ShowOk
<1> HIDE DEF page
<1>3. rows' = rows /\ owner' = owner /\ field' = field BY DEF db
<1>4. \A f : RowsOf(f)' = RowsOf(f) BY <1>3 DEF RowsOf
<1>5. \A e : Defined(e)' = Defined(e) BY <1>3 DEF Defined
<1>6. IsFiniteSet(jobs') BY <1>2, MutedFinite
<1>7. \A n \in jobs' : JobOk(n)' /\ LetIn(n)'
  <2> TAKE n \in jobs'
  <2>1. PICK m \in js : n = Muted(u, q, m) BY <1>2
  <2>2. /\ JobOk(n) /\ n.by = m.by /\ n.no = m.no /\ n.event = m.event /\ n.given = m.given
        /\ n.at = m.at /\ n.found = m.found
    BY <2>1, MutedOk
  <2>3. LetIn(n) BY <2>2 DEF LetIn
  <2> QED BY <2>2, <2>3, <1>4, <1>5 DEF JobOk, LetIn
<1>8. FillTypeOK'
  <2>1. \A v \in Browsers : PageOk(fill[v])' /\ FormOk(fill[v])'
    <3> TAKE v \in Browsers
    <3>1. CASE v = u BY <3>1, <1>2 DEF page
    <3>2. CASE v # u BY <3>2, <1>1, <1>2 DEF FillTypeOK
    <3> QED BY <3>1, <3>2
  <2> QED BY <2>1, <1>2, <1>7 DEF FillTypeOK
<1>9. JobsInv' BY <1>6, <1>7 DEF JobsInv
<1>10. AloneInv'
  <2> SUFFICES ASSUME ~overlap' PROVE OneRow' /\ (\A m, n \in Reading' : m = n) /\ \A m \in Reading' : Exact(m)'
    BY DEF AloneInv
  <2>1. ~overlap /\ OneRow BY DEF FillInv, AloneInv
  <2>2. OneRow' BY <2>1, <1>3 DEF OneRow
  <2>3. ASSUME NEW n \in Reading'
        PROVE  \E m \in js : n = Muted(u, q, m) /\ m.at = "read" /\ n.given = m.given /\ n.found = m.found
    <3>1. n \in jobs' /\ n.at = "read" BY DEF Reading
    <3>2. PICK m \in js : n = Muted(u, q, m) BY <1>2, <3>1
    <3>3. n.at = m.at /\ n.given = m.given /\ n.found = m.found BY <3>2, MutedOk
    <3> QED BY <3>1, <3>2, <3>3
  <2>4. \A m, n \in Reading' : m = n BY <2>1, <2>3
  <2>5. \A m \in Reading' : Exact(m)' BY <2>1, <2>3, <1>4 DEF Exact
  <2> QED BY <2>2, <2>4, <2>5
<1>11. SavedInv'
  <2>1. \A v \in Browsers : \A e \in Events : fill'[v].saved[e] # Nothing => Held(e, fill'[v].saved[e])
    <3> TAKE v \in Browsers
    <3>1. CASE v = u BY <3>1, <1>2 DEF page
    <3>2. CASE v # u BY <3>2, <1>2 DEF FillInv, SavedInv
    <3> QED BY <3>1, <3>2
  <2>2. \A e : \A g : Held(e, g) => Held(e, g)' BY <1>3, <1>4, <1>5 DEF Held
  <2> QED BY <2>1, <2>2 DEF SavedInv
<1>12. ViewInv'
  <2>1. \A v \in Browsers : \A e \in Events : Follows(fill'[v], e)
    <3> TAKE v \in Browsers
    <3> TAKE e \in Events
    <3>1. CASE v = u BY <3>1, <1>2 DEF page, Follows
    <3>2. CASE v # u BY <3>2, <1>2 DEF FillInv, ViewInv
    <3> QED BY <3>1, <3>2
  <2> QED BY <2>1 DEF ViewInv
<1> QED BY <1>8, <1>9, <1>10, <1>11, <1>12 DEF FillInv

LEMMA FillFacts ==
  ASSUME FillInv, NEW u \in Browsers
  PROVE  /\ DOMAIN fill = Browsers /\ PageOk(fill[u]) /\ FormOk(fill[u])
         /\ DOMAIN fill[u] = {"event", "data", "fetch", "values", "base", "closed", "success", "sends", "saved"}
         /\ \A e \in Events : Follows(fill[u], e)
         /\ \A e \in Events : fill[u].saved[e] # Nothing => Held(e, fill[u].saved[e])
BY DEF FillInv, FillTypeOK, SavedInv, ViewInv, PageOk, NewPage

LEMMA JobsLeft ==
  ASSUME FillInv, NEW js, js \subseteq jobs
  PROVE  /\ IsFiniteSet(js) /\ \A m \in js : JobOk(m) /\ LetIn(m)
         /\ ~overlap => \A m, n \in js : m.at = "read" /\ n.at = "read" => m = n /\ Exact(m)
<1>1. IsFiniteSet(jobs) /\ \A m \in jobs : JobOk(m) /\ LetIn(m) BY DEF FillInv, FillTypeOK, JobsInv
<1>2. IsFiniteSet(js) BY <1>1, FS_Subset
<1>3. ~overlap => \A m, n \in jobs : m.at = "read" /\ n.at = "read" => m = n /\ Exact(m)
  BY DEF FillInv, AloneInv, Reading
<1> QED BY <1>1, <1>2, <1>3

\* A page that shows, with what is left of the submissions.
LEMMA ShowLeft ==
  ASSUME FillInv, UNCHANGED db, overlap => overlap',
         NEW u \in Browsers, NEW q, PageOk(q), q.values = fill[u].values, q.base = fill[u].base,
         \A e \in Events : q.saved[e] # Nothing => Held(e, q.saved[e]),
         \A e \in Events : Follows(q, e),
         NEW js, js \subseteq jobs, Show(u, q, js)
  PROVE  FillInv'
<1>1. /\ IsFiniteSet(js) /\ \A m \in js : JobOk(m) /\ LetIn(m)
      /\ ~overlap => \A m, n \in js : m.at = "read" /\ n.at = "read" => m = n /\ Exact(m)
  BY JobsLeft
<1> QED BY <1>1, ShowStep

\* A read that begins is of no view yet.
LEMMA AskedOk ==
  ASSUME NEW p, PageOk(p), NEW e \in Events, NEW r, r = Asked(p.fetch, e)
  PROVE  /\ DOMAIN r = Events /\ \A k \in Events : FetchOk(r[k])
         /\ r[e].at # "idle"
         /\ \A k \in Events : k # e => r[k] = p.fetch[k]
         /\ \A k \in Events : r[k].at = "served" => r[k] = p.fetch[k]
         /\ \A k \in Events : r[k].at = "idle" => p.fetch[k].at = "idle"
<1>1. DOMAIN p.fetch = Events /\ \A k \in Events : FetchOk(p.fetch[k]) BY DEF PageOk
<1>2. CASE p.fetch[e].at # "idle" BY <1>1, <1>2 DEF Asked
<1>3. CASE p.fetch[e].at = "idle"
  <2>1. r = [p.fetch EXCEPT ![e].at = "asked"] BY <1>3 DEF Asked
  <2>2. DOMAIN r = Events /\ \A k \in Events : k # e => r[k] = p.fetch[k] BY <1>1, <2>1
  <2>3. r[e] = [p.fetch[e] EXCEPT !.at = "asked"] BY <1>1, <2>1
  <2>4. DOMAIN p.fetch[e] = {"at", "view", "old"} BY <1>1 DEF FetchOk, NoFetch
  <2>5. DOMAIN r[e] = DOMAIN p.fetch[e] /\ r[e].at = "asked" /\ r[e].view = p.fetch[e].view /\ r[e].old = p.fetch[e].old
    BY <2>3, <2>4
  <2>6. FetchOk(r[e]) BY <1>1, <1>3, <2>5 DEF FetchOk
  <2> QED BY <1>1, <2>2, <2>5, <2>6
<1> QED BY <1>2, <1>3

LEMMA ChooseOk ==
  ASSUME FillInv, overlap => overlap', NEW u \in Browsers, NEW e \in Events, ChooseEvent(u, e)
  PROVE  FillInv'
<1> DEFINE p == fill[u]
           q == [p EXCEPT !.event = e, !.fetch = Asked(@, e)]
<1>1. Show(u, q, jobs) /\ UNCHANGED db BY DEF ChooseEvent
<1>2. /\ PageOk(p) /\ DOMAIN p = {"event", "data", "fetch", "values", "base", "closed", "success", "sends", "saved"}
      /\ \A k \in Events : Follows(p, k)
      /\ \A k \in Events : p.saved[k] # Nothing => Held(k, p.saved[k])
  BY FillFacts
<1>3. /\ DOMAIN q = DOMAIN p /\ q.event = e /\ q.fetch = Asked(p.fetch, e) /\ q.data = p.data
      /\ q.values = p.values /\ q.base = p.base /\ q.closed = p.closed /\ q.success = p.success
      /\ q.sends = p.sends /\ q.saved = p.saved
  BY <1>2
<1> HIDE DEF q, p
<1>4. PageOk(q) BY <1>2, <1>3, AskedOk DEF PageOk, Maybe
<1>5. \A k \in Events : Follows(q, k)
  <2> TAKE k \in Events
  <2>1. q.fetch[k].at = "served" => q.fetch[k] = p.fetch[k] BY <1>2, <1>3, AskedOk
  <2>2. q.event = k => q.fetch[k].at # "idle" BY <1>2, <1>3, AskedOk
  <2> QED BY <1>2, <1>3, <2>1, <2>2 DEF Follows
<1> QED BY <1>1, <1>2, <1>3, <1>4, <1>5, ShowLeft DEF p

LEMMA LeaveOk ==
  ASSUME FillInv, overlap => overlap', NEW u \in Browsers, Leave(u)
  PROVE  FillInv'
<1> DEFINE p == fill[u]
           q == [p EXCEPT !.event = Nothing, !.success = FALSE]
<1>1. Show(u, q, jobs) /\ UNCHANGED db BY DEF Leave
<1>2. /\ PageOk(p) /\ DOMAIN p = {"event", "data", "fetch", "values", "base", "closed", "success", "sends", "saved"}
      /\ \A k \in Events : Follows(p, k)
      /\ \A k \in Events : p.saved[k] # Nothing => Held(k, p.saved[k])
  BY FillFacts
<1>3. /\ DOMAIN q = DOMAIN p /\ q.event = Nothing /\ q.fetch = p.fetch /\ q.data = p.data
      /\ q.values = p.values /\ q.base = p.base /\ q.closed = p.closed /\ q.success = FALSE
      /\ q.sends = p.sends /\ q.saved = p.saved
  BY <1>2
<1> HIDE DEF q, p
<1>4. PageOk(q) BY <1>2, <1>3 DEF PageOk, Maybe
<1>5. \A k \in Events : Follows(q, k) BY <1>2, <1>3, DbAssumption DEF Follows
<1> QED BY <1>1, <1>2, <1>3, <1>4, <1>5, ShowLeft DEF p

LEMMA RefocusOk ==
  ASSUME FillInv, overlap => overlap', NEW u \in Browsers, Refocus(u)
  PROVE  FillInv'
<1> DEFINE p == fill[u]
           e == p.event
           q == [p EXCEPT !.fetch = Asked(@, e)]
<1>1. Show(u, q, jobs) /\ UNCHANGED db /\ e # Nothing BY DEF Refocus
<1>2. /\ PageOk(p) /\ DOMAIN p = {"event", "data", "fetch", "values", "base", "closed", "success", "sends", "saved"}
      /\ \A k \in Events : Follows(p, k)
      /\ \A k \in Events : p.saved[k] # Nothing => Held(k, p.saved[k])
  BY FillFacts
<1>3. /\ DOMAIN q = DOMAIN p /\ q.event = e /\ q.fetch = Asked(p.fetch, e) /\ q.data = p.data
      /\ q.values = p.values /\ q.base = p.base /\ q.closed = p.closed /\ q.success = p.success
      /\ q.sends = p.sends /\ q.saved = p.saved
  BY <1>2
<1>4. e \in Events BY <1>1, <1>2 DEF PageOk, Maybe
<1> HIDE DEF q, p, e
<1>5. PageOk(q) BY <1>2, <1>3, <1>4, AskedOk DEF PageOk, Maybe
<1>6. \A k \in Events : Follows(q, k)
  <2> TAKE k \in Events
  <2>1. q.fetch[k].at = "served" => q.fetch[k] = p.fetch[k] BY <1>2, <1>3, <1>4, AskedOk
  <2>2. q.event = k => q.fetch[k].at # "idle" BY <1>2, <1>3, <1>4, AskedOk
  <2> QED BY <1>2, <1>3, <2>1, <2>2 DEF Follows
<1> QED BY <1>1, <1>2, <1>3, <1>5, <1>6, ShowLeft DEF p

LEMMA AnotherOk ==
  ASSUME FillInv, overlap => overlap', NEW u \in Browsers, FillAnother(u)
  PROVE  FillInv'
<1> DEFINE p == fill[u]
           q == [p EXCEPT !.success = FALSE]
<1>1. Show(u, q, jobs) /\ UNCHANGED db BY DEF FillAnother
<1>2. /\ PageOk(p) /\ DOMAIN p = {"event", "data", "fetch", "values", "base", "closed", "success", "sends", "saved"}
      /\ \A k \in Events : Follows(p, k)
      /\ \A k \in Events : p.saved[k] # Nothing => Held(k, p.saved[k])
  BY FillFacts
<1>3. /\ DOMAIN q = DOMAIN p /\ q.event = p.event /\ q.fetch = p.fetch /\ q.data = p.data
      /\ q.values = p.values /\ q.base = p.base /\ q.closed = p.closed /\ q.success = FALSE
      /\ q.sends = p.sends /\ q.saved = p.saved
  BY <1>2
<1> HIDE DEF q, p
<1>4. PageOk(q) BY <1>2, <1>3 DEF PageOk
<1>5. \A k \in Events : Follows(q, k) BY <1>2, <1>3 DEF Follows
<1> QED BY <1>1, <1>2, <1>3, <1>4, <1>5, ShowLeft DEF p

\* What has been received is what was served, or nothing of the event.
LEMMA ReceivedOk ==
  ASSUME FillInv, overlap => overlap', NEW u \in Browsers, NEW e \in Events, NEW v, Over(v, SeenField),
         ~fill[u].fetch[e].old /\ fill[u].saved[e] # Nothing => Agree(v, fill[u].saved[e]),
         Received(u, e, v)
  PROVE  FillInv'
<1> DEFINE p == fill[u]
           s == IF p.fetch[e].old THEN Nothing ELSE p.saved[e]
           q == [p EXCEPT !.fetch[e] = NoFetch, !.data[e] = v, !.saved[e] = s]
<1>1. Show(u, q, jobs) /\ UNCHANGED db BY DEF Received
<1>2. /\ PageOk(p) /\ DOMAIN p = {"event", "data", "fetch", "values", "base", "closed", "success", "sends", "saved"}
      /\ \A k \in Events : Follows(p, k)
      /\ \A k \in Events : p.saved[k] # Nothing => Held(k, p.saved[k])
  BY FillFacts
<1>3. /\ DOMAIN q = DOMAIN p /\ q.event = p.event
      /\ q.fetch = [p.fetch EXCEPT ![e] = NoFetch] /\ q.data = [p.data EXCEPT ![e] = v]
      /\ q.values = p.values /\ q.base = p.base /\ q.closed = p.closed /\ q.success = p.success
      /\ q.sends = p.sends /\ q.saved = [p.saved EXCEPT ![e] = s]
  BY <1>2
<1>4. ~p.fetch[e].old /\ p.saved[e] # Nothing => Agree(v, p.saved[e]) OBVIOUS
<1> HIDE DEF q, p
<1>5. DOMAIN p.fetch = Events /\ DOMAIN p.data = Events /\ DOMAIN p.saved = Events BY <1>2 DEF PageOk
<1>6. /\ DOMAIN q.fetch = Events /\ DOMAIN q.data = Events /\ DOMAIN q.saved = Events
      /\ q.fetch[e] = NoFetch /\ q.data[e] = v /\ q.saved[e] = s
      /\ \A k \in Events : k # e => q.fetch[k] = p.fetch[k] /\ q.data[k] = p.data[k] /\ q.saved[k] = p.saved[k]
  BY <1>3, <1>5
<1>7. PageOk(q)
  <2>1. FetchOk(NoFetch) BY DEF FetchOk, NoFetch
  <2>2. MaybeOver(s, Answer) BY <1>2 DEF PageOk, MaybeOver
  <2>3. MaybeOver(v, SeenField) BY DEF MaybeOver
  <2> HIDE DEF s
  <2>4. \A k \in Events : MaybeOver(q.data[k], SeenField) /\ FetchOk(q.fetch[k]) /\ MaybeOver(q.saved[k], Answer)
    <3> TAKE k \in Events
    <3>1. CASE k = e BY <3>1, <1>6, <2>1, <2>2, <2>3
    <3>2. CASE k # e BY <3>2, <1>2, <1>6 DEF PageOk
    <3> QED BY <3>1, <3>2
  <2> QED BY <1>2, <1>3, <1>6, <2>4 DEF PageOk
<1>8. \A k \in Events : Follows(q, k)
  <2> TAKE k \in Events
  <2>1. CASE k = e
    <3>1. q.fetch[k].at = "idle" BY <2>1, <1>6 DEF NoFetch
    <3>2. s # Nothing => s = p.saved[e] /\ Agree(v, s) BY <1>4
    <3> QED BY <2>1, <1>6, <3>1, <3>2 DEF Follows
  <2>2. CASE k # e BY <2>2, <1>2, <1>3, <1>6 DEF Follows
  <2> QED BY <2>1, <2>2
<1>9. \A k \in Events : q.saved[k] # Nothing => Held(k, q.saved[k]) BY <1>2, <1>6
<1> QED BY <1>1, <1>3, <1>7, <1>8, <1>9, ShowLeft DEF p

LEMMA ArrivesOk ==
  ASSUME FillInv, overlap => overlap', NEW u \in Browsers, NEW e \in Events, FillArrives(u, e)
  PROVE  FillInv'
<1> DEFINE r == fill[u].fetch[e]
<1>1. r.at = "served" /\ Received(u, e, r.view) BY DEF FillArrives
<1>2. FetchOk(r) BY FillFacts DEF PageOk
<1>3. Over(r.view, SeenField) BY <1>1, <1>2 DEF FetchOk
<1>4. ~r.old /\ fill[u].saved[e] # Nothing => Agree(r.view, fill[u].saved[e])
  <2>1. Follows(fill[u], e) BY FillFacts
  <2> QED BY <1>1, <2>1 DEF Follows
<1> HIDE DEF r
<1> QED BY <1>1, <1>3, <1>4, ReceivedOk DEF r

LEMMA FillFailsOk ==
  ASSUME FillInv, overlap => overlap', NEW u \in Browsers, NEW e \in Events, FillFails(u, e)
  PROVE  FillInv'
<1> DEFINE v == <<>>
<1>1. Received(u, e, v) BY DEF FillFails
<1>2. Over(v, SeenField) BY DEF Over
<1>3. fill[u].saved[e] # Nothing => Agree(v, fill[u].saved[e]) BY DEF Agree
<1> HIDE DEF v
<1> QED BY <1>1, <1>2, <1>3, ReceivedOk

\* A step that only changes the page of a browser, and that not by showing another.
LEMMA PageStep ==
  ASSUME FillInv, UNCHANGED <<db, jobs>>, overlap => overlap', NEW u \in Browsers,
         DOMAIN fill' = Browsers, \A v \in Browsers : v # u => fill'[v] = fill[v],
         PageOk(fill'[u]), FormOk(fill'[u]), fill'[u].saved = fill[u].saved,
         \A e \in Events : Follows(fill'[u], e)
  PROVE  FillInv'
<1>1. rows' = rows /\ owner' = owner /\ field' = field /\ jobs' = jobs BY DEF db
<1>2. \A f : RowsOf(f)' = RowsOf(f) BY <1>1 DEF RowsOf
<1>3. \A e : Defined(e)' = Defined(e) BY <1>1 DEF Defined
<1>4. FillTypeOK'
  <2>1. \A v \in Browsers : PageOk(fill[v])' /\ FormOk(fill[v])'
    <3> TAKE v \in Browsers
    <3>1. CASE v = u BY <3>1
    <3>2. CASE v # u BY <3>2 DEF FillInv, FillTypeOK
    <3> QED BY <3>1, <3>2
  <2>2. \A m \in jobs' : JobOk(m)' BY <1>1, <1>2 DEF FillInv, FillTypeOK, JobOk
  <2> QED BY <2>1, <2>2 DEF FillTypeOK
<1>5. JobsInv' BY <1>1, <1>2, <1>3 DEF FillInv, JobsInv, LetIn
<1>6. AloneInv'
  <2>1. Reading' = Reading BY <1>1 DEF Reading
  <2>2. OneRow' <=> OneRow BY <1>1 DEF OneRow
  <2>3. \A m : Exact(m)' <=> Exact(m) BY <1>2 DEF Exact
  <2> QED BY <2>1, <2>2, <2>3 DEF FillInv, AloneInv
<1>7. SavedInv'
  <2>1. \A v \in Browsers : \A e \in Events : fill'[v].saved[e] # Nothing => Held(e, fill'[v].saved[e])
    <3> TAKE v \in Browsers
    <3>1. fill'[v].saved = fill[v].saved OBVIOUS
    <3> QED BY <3>1 DEF FillInv, SavedInv
  <2>2. \A e : \A g : Held(e, g) => Held(e, g)' BY <1>1, <1>2, <1>3 DEF Held
  <2> QED BY <2>1, <2>2 DEF SavedInv
<1>8. ViewInv'
  <2>1. \A v \in Browsers : \A e \in Events : Follows(fill'[v], e)
    <3> TAKE v \in Browsers
    <3>1. CASE v = u BY <3>1
    <3>2. CASE v # u BY <3>2 DEF FillInv, ViewInv
    <3> QED BY <3>1, <3>2
  <2> QED BY <2>1 DEF ViewInv
<1> QED BY <1>4, <1>5, <1>6, <1>7, <1>8 DEF FillInv

\* What is entered is an answer.
LEMMA InputsOk ==
  ASSUME NEW p, PageOk(p), FormOk(p), Mounted(p), NEW f \in DOMAIN Fields(p)
  PROVE  Inputs(f, p) \subseteq Answer /\ f \in DOMAIN p.values
<1>1. p.event \in Events BY DEF PageOk, Mounted, Maybe
<1>2. Over(Fields(p), SeenField) BY <1>1 DEF PageOk, Mounted, Fields, MaybeOver
<1> DEFINE c == Fields(p)[f]
<1>3. c \in SeenField BY <1>2 DEF Over
<1> HIDE DEF c
<1>4. c.type \in Types /\ c.options \subseteq Options BY <1>3 DEF SeenField
<1>5. f \in DOMAIN p.values BY DEF FormOk
<1>6. Text(f, p) \subseteq Answer BY DEF Text, Answer
<1>7. Radio(f, p) \subseteq Answer BY <1>4 DEF Radio, Answer, c
<1>8. Checkbox(f, p) \subseteq Answer BY <1>4 DEF Checkbox, Toggled, Answer, c
<1>9. Inputs(f, p) \in {Text(f, p), Radio(f, p), Checkbox(f, p)} BY <1>4 DEF Inputs, Types, c
<1> QED BY <1>5, <1>6, <1>7, <1>8, <1>9

LEMMA FillFieldOk ==
  ASSUME FillInv, overlap => overlap', NEW u \in Browsers, NEW f \in Ids, FillField(u, f)
  PROVE  FillInv'
<1> DEFINE p == fill[u]
           q == fill'[u]
<1>1. Mounted(p) /\ f \in DOMAIN Fields(p) /\ UNCHANGED <<db, jobs>> BY DEF FillField, Editable
<1>2. PICK a \in Inputs(f, p) \ {p.values[f]} : fill' = [fill EXCEPT ![u].values[f] = a]
  BY DEF FillField
<1>3. /\ DOMAIN fill = Browsers /\ PageOk(p) /\ FormOk(p)
      /\ DOMAIN p = {"event", "data", "fetch", "values", "base", "closed", "success", "sends", "saved"}
      /\ \A k \in Events : Follows(p, k)
  BY FillFacts
<1>4. DOMAIN fill' = Browsers /\ \A v \in Browsers : v # u => fill'[v] = fill[v] BY <1>2, <1>3
<1>5. q = [p EXCEPT !.values = [p.values EXCEPT ![f] = a]] BY <1>2, <1>3
<1>6. /\ DOMAIN q = DOMAIN p /\ q.event = p.event /\ q.fetch = p.fetch /\ q.data = p.data
      /\ q.values = [p.values EXCEPT ![f] = a] /\ q.base = p.base /\ q.closed = p.closed
      /\ q.success = p.success /\ q.sends = p.sends /\ q.saved = p.saved
  BY <1>3, <1>5
<1> HIDE DEF p
<1>7. a \in Answer /\ f \in DOMAIN p.values BY <1>1, <1>2, <1>3, InputsOk
<1>8. Over(p.values, Answer) BY <1>3 DEF PageOk
<1>9. DOMAIN q.values = DOMAIN p.values /\ Over(q.values, Answer) BY <1>6, <1>7, <1>8 DEF Over
<1>10. PageOk(q) BY <1>3, <1>6, <1>9 DEF PageOk
<1>11. FormOk(q) BY <1>3, <1>6, <1>9 DEF FormOk, Mounted, Fields
<1>12. \A k \in Events : Follows(q, k) BY <1>3, <1>6 DEF Follows
<1> QED BY <1>1, <1>4, <1>6, <1>10, <1>11, <1>12, PageStep DEF p

\* A view has the fields of its event, with what the rows hold.
LEMMA ViewOk ==
  ASSUME DbTypeOK, NEW e \in Events, NEW v \in FillViews(e)
  PROVE  /\ Over(v, SeenField)
         /\ \A given : Held(e, given) => Agree(v, given)
<1>1. PICK g \in Found(Active(e)) : v = [f \in Active(e) |-> Seen(f, g)] BY DEF FillViews
<1>2. /\ DOMAIN g = {f \in Active(e) : RowsOf(f) # {}}
      /\ \A f \in DOMAIN g : g[f] \in DOMAIN rows /\ rows[g[f]][1] = f
  BY DEF Found
<1>3. /\ Active(e) \subseteq DOMAIN field /\ DOMAIN field \subseteq Ids
      /\ \A f \in DOMAIN field : field[f] \in Columns
      /\ \A i \in DOMAIN rows : rows[i][2] \in Answer
  BY DbFacts
<1>4. ASSUME NEW f \in Active(e)
      PROVE  Seen(f, g) \in SeenField
  <2>1. field[f] \in Columns BY <1>3
  <2>2. field[f].type \in Types /\ field[f].options \in SUBSET Options /\ field[f].required \in BOOLEAN
    BY <2>1 DEF Columns
  <2>3. (IF f \in DOMAIN g THEN rows[g[f]][2] ELSE {}) \in Answer BY <1>2, <1>3 DEF Answer
  <2> QED BY <2>2, <2>3 DEF Seen, SeenField
<1>5. Over(v, SeenField) BY <1>1, <1>3, <1>4 DEF Over
<1>6. ASSUME NEW given, Held(e, given)
      PROVE  Agree(v, given)
  <2>1. ASSUME NEW f \in DOMAIN v \intersect DOMAIN given
        PROVE  v[f].value = given[f]
    <3>1. f \in Active(e) /\ v[f] = Seen(f, g) BY <1>1, <2>1
    <3>2. RowsOf(f) # {} /\ \A i \in RowsOf(f) : rows[i][2] = given[f] BY <1>6, <2>1 DEF Held
    <3>3. f \in DOMAIN g /\ g[f] \in RowsOf(f) BY <1>2, <3>1, <3>2 DEF RowsOf
    <3> QED BY <3>1, <3>2, <3>3 DEF Seen
  <2> QED BY <2>1 DEF Agree
<1> QED BY <1>5, <1>6

LEMMA GetFillViewOk ==
  ASSUME DbTypeOK, FillInv, overlap => overlap', NEW u \in Browsers, NEW e \in Events, GetFillView(u, e)
  PROVE  FillInv'
<1> DEFINE p == fill[u]
           q == fill'[u]
           r == p.fetch[e]
<1>1. UNCHANGED <<db, jobs>> BY DEF GetFillView
<1>2. PICK v \in FillViews(e) : fill' = [fill EXCEPT ![u].fetch[e] = [@ EXCEPT !.at = "served", !.view = v]]
  BY DEF GetFillView
<1>3. /\ DOMAIN fill = Browsers /\ PageOk(p) /\ FormOk(p)
      /\ DOMAIN p = {"event", "data", "fetch", "values", "base", "closed", "success", "sends", "saved"}
      /\ \A k \in Events : Follows(p, k)
      /\ \A k \in Events : p.saved[k] # Nothing => Held(k, p.saved[k])
  BY FillFacts
<1>4. DOMAIN fill' = Browsers /\ \A k \in Browsers : k # u => fill'[k] = fill[k] BY <1>2, <1>3
<1> DEFINE s == [r EXCEPT !.at = "served", !.view = v]
<1>5. q = [p EXCEPT !.fetch = [p.fetch EXCEPT ![e] = s]] BY <1>2, <1>3
<1> HIDE DEF s
<1>6. /\ DOMAIN q = DOMAIN p /\ q.event = p.event /\ q.fetch = [p.fetch EXCEPT ![e] = s] /\ q.data = p.data
      /\ q.values = p.values /\ q.base = p.base /\ q.closed = p.closed
      /\ q.success = p.success /\ q.sends = p.sends /\ q.saved = p.saved
  BY <1>3, <1>5
<1> HIDE DEF p
<1>7. DOMAIN p.fetch = Events /\ \A k \in Events : FetchOk(p.fetch[k]) BY <1>3 DEF PageOk
<1>8. /\ DOMAIN q.fetch = Events /\ q.fetch[e] = s
      /\ \A k \in Events : k # e => q.fetch[k] = p.fetch[k]
  BY <1>6, <1>7
<1>9. DOMAIN r = {"at", "view", "old"} /\ r.old \in BOOLEAN BY <1>7 DEF FetchOk, NoFetch
<1>10. DOMAIN s = DOMAIN r /\ s.at = "served" /\ s.view = v /\ s.old = r.old BY <1>9 DEF s
<1>11. Over(v, SeenField) /\ \A given : Held(e, given) => Agree(v, given) BY ViewOk
<1>12. FetchOk(s) BY <1>9, <1>10, <1>11 DEF FetchOk, NoFetch
<1>13. PageOk(q)
  <2>1. \A k \in Events : FetchOk(q.fetch[k]) BY <1>7, <1>8, <1>12
  <2> QED BY <1>3, <1>6, <1>8, <2>1 DEF PageOk
<1>14. FormOk(q) BY <1>3, <1>6 DEF FormOk, Mounted, Fields
<1>15. \A k \in Events : Follows(q, k)
  <2> TAKE k \in Events
  <2>1. CASE k = e BY <2>1, <1>3, <1>6, <1>8, <1>10, <1>11 DEF Follows
  <2>2. CASE k # e BY <2>2, <1>3, <1>6, <1>8 DEF Follows
  <2> QED BY <2>1, <2>2
<1> QED BY <1>1, <1>4, <1>6, <1>13, <1>14, <1>15, PageStep DEF p

LEMMA SubmitOk ==
  ASSUME FillInv, overlap => overlap', NEW u \in Browsers, Submit(u)
  PROVE  FillInv'
<1> DEFINE p == fill[u]
           q == [p EXCEPT !.sends = @ + 1]
           n == [by |-> u, no |-> p.sends + 1, event |-> p.event, given |-> Payload(p),
                 at |-> "sent", found |-> <<>>, heard |-> TRUE]
           js == jobs \union {n}
<1>1. Mounted(p) /\ p.sends < MaxSends /\ Show(u, q, js) /\ UNCHANGED db BY DEF Submit, Editable
<1>2. /\ PageOk(p) /\ FormOk(p)
      /\ DOMAIN p = {"event", "data", "fetch", "values", "base", "closed", "success", "sends", "saved"}
      /\ \A k \in Events : Follows(p, k)
      /\ \A k \in Events : p.saved[k] # Nothing => Held(k, p.saved[k])
  BY FillFacts
<1>3. /\ DOMAIN q = DOMAIN p /\ q.event = p.event /\ q.fetch = p.fetch /\ q.data = p.data
      /\ q.values = p.values /\ q.base = p.base /\ q.closed = p.closed /\ q.success = p.success
      /\ q.sends = p.sends + 1 /\ q.saved = p.saved
  BY <1>2
<1>4. /\ DOMAIN n = {"by", "no", "event", "given", "at", "found", "heard"}
      /\ n.by = u /\ n.no = p.sends + 1 /\ n.event = p.event /\ n.given = Payload(p) /\ n.at = "sent"
      /\ n.found = <<>> /\ n.heard = TRUE
  OBVIOUS
<1> HIDE DEF q, p, n
<1>5. p.sends + 1 \in 0 .. MaxSends /\ p.sends + 1 \in 1 .. MaxSends BY <1>1, <1>2, FillAssumption DEF PageOk
<1>6. PageOk(q) BY <1>2, <1>3, <1>5 DEF PageOk
<1>7. \A k \in Events : Follows(q, k) BY <1>2, <1>3 DEF Follows
<1>8. p.event \in Events BY <1>1, <1>2 DEF PageOk, Mounted, Maybe
<1>9. Over(n.given, Answer)
  <2>1. Over(p.values, Answer) /\ DOMAIN p.values = DOMAIN Fields(p) BY <1>1, <1>2 DEF PageOk, FormOk
  <2> QED BY <1>4, <2>1 DEF Payload, Over
<1>10. JobOk(n)
  <2>1. \A f \in DOMAIN n.found : FALSE BY <1>4
  <2>2. n.heard \in BOOLEAN BY <1>4
  <2> QED BY <1>4, <1>5, <1>8, <1>9, <2>1, <2>2 DEF JobOk
<1>11. LetIn(n) BY <1>4 DEF LetIn
<1>12. /\ IsFiniteSet(jobs) /\ \A m \in jobs : JobOk(m) /\ LetIn(m)
       /\ ~overlap => \A m, k \in jobs : m.at = "read" /\ k.at = "read" => m = k /\ Exact(m)
  BY JobsLeft
<1>13. IsFiniteSet(js) BY <1>12, FS_AddElement
<1>14. \A m \in js : JobOk(m) /\ LetIn(m) BY <1>10, <1>11, <1>12
<1>15. ~overlap => \A m, k \in js : m.at = "read" /\ k.at = "read" => m = k /\ Exact(m) BY <1>4, <1>12
<1> HIDE DEF js
<1> QED BY <1>1, <1>2, <1>3, <1>6, <1>7, <1>13, <1>14, <1>15, ShowStep DEF p

\* Unless submissions overlap, no two of them have read and not yet written.
Overlaps == overlap' = (overlap \/ Cardinality({m \in jobs' : m.at = "read"}) > 1)

LEMMA FewReaders ==
  ASSUME Overlaps, IsFiniteSet(jobs'), ~overlap'
  PROVE  \A m, n \in Reading' : m = n
<1> DEFINE R == {m \in jobs' : m.at = "read"}
<1>1. ~ (Cardinality(R) > 1) BY DEF Overlaps
<1>2. IsFiniteSet(R) BY FS_Subset
<1>3. R = Reading' BY DEF Reading
<1> HIDE DEF R
<1>4. SUFFICES ASSUME NEW m \in R, NEW n \in R, m # n PROVE FALSE BY <1>3
<1>5. {m, n} \subseteq R OBVIOUS
<1>6. IsFiniteSet({m}) /\ Cardinality({m}) = 1 BY FS_Singleton
<1>7. IsFiniteSet({m} \union {n}) /\ Cardinality({m} \union {n}) = Cardinality({m}) + 1 BY <1>4, <1>6, FS_AddElement
<1>8. {m} \union {n} \subseteq R OBVIOUS
<1>9. Cardinality({m} \union {n}) <= Cardinality(R) BY <1>2, <1>8, FS_Subset
<1>10. Cardinality(R) \in Nat BY <1>2, FS_CardinalityType
<1> QED BY <1>1, <1>6, <1>7, <1>9, <1>10

\* A submission becomes another: what is to be shown of it.
LEMMA BecomesOk ==
  ASSUME FillInv, Overlaps, UNCHANGED <<db, fill>>, NEW m \in jobs, NEW n, Becomes(m, n),
         JobOk(n), LetIn(n), n.at = "read" => Exact(n)
  PROVE  FillInv'
<1>1. rows' = rows /\ owner' = owner /\ field' = field /\ fill' = fill BY DEF db
<1>2. \A f : RowsOf(f)' = RowsOf(f) BY <1>1 DEF RowsOf
<1>3. \A e : Defined(e)' = Defined(e) BY <1>1 DEF Defined
<1>4. jobs' = (jobs \ {m}) \union {n} BY DEF Becomes
<1>5. IsFiniteSet(jobs) /\ \A k \in jobs : JobOk(k) /\ LetIn(k) BY JobsLeft
<1>6. IsFiniteSet(jobs')
  <2>1. IsFiniteSet(jobs \ {m}) BY <1>5, FS_RemoveElement
  <2> QED BY <2>1, <1>4, FS_AddElement
<1>7. \A k \in jobs' : JobOk(k) /\ LetIn(k) BY <1>4, <1>5
<1>8. \A k \in jobs' : JobOk(k)' /\ LetIn(k)' BY <1>2, <1>3, <1>7 DEF JobOk, LetIn
<1>9. FillTypeOK' BY <1>1, <1>8 DEF FillInv, FillTypeOK
<1>10. JobsInv' BY <1>6, <1>8 DEF JobsInv
<1>11. AloneInv'
  <2> SUFFICES ASSUME ~overlap' PROVE OneRow' /\ (\A k, l \in Reading' : k = l) /\ \A k \in Reading' : Exact(k)'
    BY DEF AloneInv
  <2>1. ~overlap BY DEF Overlaps
  <2>2. OneRow /\ \A k \in Reading : Exact(k) BY <2>1 DEF FillInv, AloneInv
  <2>3. OneRow' BY <2>2, <1>1 DEF OneRow
  <2>4. \A k \in Reading' : Exact(k) BY <2>2, <1>4 DEF Reading
  <2>5. \A k \in Reading' : Exact(k)' BY <2>4, <1>2 DEF Exact
  <2> QED BY <2>3, <2>5, <1>6, FewReaders
<1>12. SavedInv'
  <2>1. \A e : \A g : Held(e, g) => Held(e, g)' BY <1>1, <1>2, <1>3 DEF Held
  <2> QED BY <2>1, <1>1 DEF FillInv, SavedInv
<1>13. ViewInv' BY <1>1 DEF FillInv, ViewInv
<1> QED BY <1>9, <1>10, <1>11, <1>12, <1>13 DEF FillInv

LEMMA ReadsOk ==
  ASSUME DbTypeOK, FillInv, Overlaps, NEW m \in jobs, UpsertReads(m)
  PROVE  FillInv'
<1>1. JobOk(m) /\ LetIn(m) BY JobsLeft
<1>2. DOMAIN m = {"by", "no", "event", "given", "at", "found", "heard"} BY <1>1 DEF JobOk
<1>3. m.at = "sent" /\ UNCHANGED <<db, fill>> BY DEF UpsertReads
<1>4. ASSUME NEW a \in {"closed", "error"}, NEW n, n = [m EXCEPT !.at = a], Becomes(m, n)
      PROVE  FillInv'
  <2>1. /\ DOMAIN n = DOMAIN m /\ n.by = m.by /\ n.no = m.no /\ n.event = m.event /\ n.given = m.given
        /\ n.at = a /\ n.found = m.found /\ n.heard = m.heard
    BY <1>2, <1>4
  <2>2. JobOk(n) BY <1>1, <1>2, <2>1 DEF JobOk
  <2>3. LetIn(n) /\ n.at # "read" BY <2>1 DEF LetIn
  <2> QED BY <1>3, <1>4, <2>2, <2>3, BecomesOk
<1>5. CASE ~Gate(m.event)
  <2>1. Becomes(m, [m EXCEPT !.at = "closed"]) BY <1>5 DEF UpsertReads
  <2> QED BY <2>1, <1>4
<1>6. CASE Gate(m.event) /\ ~Known(m.event, m.given)
  <2>1. Becomes(m, [m EXCEPT !.at = "error"]) BY <1>6 DEF UpsertReads
  <2> QED BY <2>1, <1>4
<1>7. CASE Gate(m.event) /\ Known(m.event, m.given)
  <2>1. PICK g \in Found(DOMAIN m.given) : Becomes(m, [m EXCEPT !.at = "read", !.found = g])
    BY <1>7 DEF UpsertReads
  <2> DEFINE n == [m EXCEPT !.at = "read", !.found = g]
  <2>2. /\ DOMAIN n = DOMAIN m /\ n.by = m.by /\ n.no = m.no /\ n.event = m.event /\ n.given = m.given
        /\ n.at = "read" /\ n.found = g /\ n.heard = m.heard
    BY <1>2
  <2>3. Becomes(m, n) BY <2>1
  <2> HIDE DEF n
  <2>4. /\ DOMAIN g = {f \in DOMAIN m.given : RowsOf(f) # {}}
        /\ \A f \in DOMAIN g : g[f] \in DOMAIN rows /\ rows[g[f]][1] = f
    BY <2>1 DEF Found
  <2>5. \A f \in DOMAIN n.found : f \in DOMAIN n.given /\ n.found[f] \in RowsOf(f) BY <2>2, <2>4 DEF RowsOf
  <2>6. JobOk(n) BY <1>1, <1>2, <2>2, <2>5 DEF JobOk
  <2>7. Exact(n) BY <2>2, <2>4 DEF Exact
  <2>8. LetIn(n)
    <3>1. m.event \in Events BY <1>1 DEF JobOk
    <3>2. DOMAIN m.given \subseteq Defined(m.event) BY <1>7, <3>1, DbFacts DEF Known
    <3> QED BY <2>2, <3>2 DEF LetIn
  <2> QED BY <1>3, <2>3, <2>6, <2>7, <2>8, BecomesOk
<1> QED BY <1>5, <1>6, <1>7

LEMMA UpsertFailsOk ==
  ASSUME FillInv, Overlaps, NEW m \in jobs, UpsertFails(m)
  PROVE  FillInv'
<1> DEFINE n == [m EXCEPT !.at = "error"]
<1>1. JobOk(m) /\ LetIn(m) BY JobsLeft
<1>2. DOMAIN m = {"by", "no", "event", "given", "at", "found", "heard"} BY <1>1 DEF JobOk
<1>3. Becomes(m, n) /\ UNCHANGED <<db, fill>> BY DEF UpsertFails
<1>4. /\ DOMAIN n = DOMAIN m /\ n.by = m.by /\ n.no = m.no /\ n.event = m.event /\ n.given = m.given
      /\ n.at = "error" /\ n.found = m.found /\ n.heard = m.heard
  BY <1>2
<1> HIDE DEF n
<1>5. JobOk(n) BY <1>1, <1>2, <1>4 DEF JobOk
<1>6. LetIn(n) /\ n.at # "read" BY <1>4 DEF LetIn
<1> QED BY <1>3, <1>5, <1>6, BecomesOk

\* A page that has forgotten what was saved of an event.
Forgot(p, e) == [p EXCEPT !.saved[e] = Nothing]

LEMMA Forgets ==
  ASSUME NEW p, PageOk(p), FormOk(p), NEW e \in Events, \A k \in Events : Follows(p, k),
         NEW q, q = Forgot(p, e)
  PROVE  /\ PageOk(q) /\ FormOk(q) /\ \A k \in Events : Follows(q, k)
         /\ q.saved[e] = Nothing /\ \A k \in Events : k # e => q.saved[k] = p.saved[k]
<1>1. DOMAIN p = {"event", "data", "fetch", "values", "base", "closed", "success", "sends", "saved"}
  BY DEF PageOk, NewPage
<1>2. /\ DOMAIN q = DOMAIN p /\ q.event = p.event /\ q.fetch = p.fetch /\ q.data = p.data
      /\ q.values = p.values /\ q.base = p.base /\ q.closed = p.closed
      /\ q.success = p.success /\ q.sends = p.sends /\ q.saved = [p.saved EXCEPT ![e] = Nothing]
  BY <1>1 DEF Forgot
<1>3. DOMAIN p.saved = Events BY DEF PageOk
<1>4. DOMAIN q.saved = Events /\ q.saved[e] = Nothing /\ \A k \in Events : k # e => q.saved[k] = p.saved[k]
  BY <1>2, <1>3
<1>5. \A k \in Events : MaybeOver(q.saved[k], Answer) BY <1>4 DEF PageOk, MaybeOver
<1>6. PageOk(q) BY <1>2, <1>4, <1>5 DEF PageOk
<1>7. FormOk(q) BY <1>2 DEF FormOk, Mounted, Fields
<1>8. \A k \in Events : Follows(q, k)
  <2> TAKE k \in Events
  <2>1. CASE k = e BY <2>1, <1>4 DEF Follows
  <2>2. CASE k # e BY <2>2, <1>2, <1>4 DEF Follows
  <2> QED BY <2>1, <2>2
<1> QED BY <1>4, <1>6, <1>7, <1>8

LEMMA WritesOk ==
  ASSUME DbTypeOK, FillInv, Overlaps, NEW m \in jobs, UpsertWrites(m)
  PROVE  DbTypeOK' /\ FillInv'
<1> DEFINE n == [m EXCEPT !.at = "saved", !.found = <<>>]
           e == m.event
<1>1. /\ IsFiniteSet(jobs) /\ \A k \in jobs : JobOk(k) /\ LetIn(k)
      /\ ~overlap => \A k, l \in jobs : k.at = "read" /\ l.at = "read" => k = l /\ Exact(k)
  BY JobsLeft
<1>2. /\ m.at = "read" /\ Upsert(m.given, m.found) /\ jobs' = (jobs \ {m}) \union {n}
      /\ fill' = [u \in Browsers |-> [fill[u] EXCEPT !.saved[m.event] = Nothing]]
  BY DEF UpsertWrites, Becomes
<1>3. /\ DOMAIN m = {"by", "no", "event", "given", "at", "found", "heard"} /\ e \in Events
      /\ Over(m.given, Answer) /\ \A f \in DOMAIN m.found : f \in DOMAIN m.given /\ m.found[f] \in RowsOf(f)
  BY <1>1 DEF JobOk
<1>4. DOMAIN m.given \subseteq Defined(e) /\ Defined(e) \subseteq DOMAIN field
  <2>1. DOMAIN m.given \subseteq Defined(e) BY <1>1, <1>2 DEF LetIn
  <2> QED BY <2>1, <1>3, DbFacts
<1>5. DOMAIN m.given \subseteq DOMAIN field BY <1>4
<1>6. DbTypeOK' /\ Grown BY <1>2, <1>3, <1>5, UpsertOk
<1>7. /\ \A f : RowsOf(f) \subseteq RowsOf(f)'
      /\ \A f : f \notin DOMAIN m.given => RowsOf(f)' = RowsOf(f) /\ \A i \in RowsOf(f) : rows'[i] = rows[i]
      /\ \A f \in DOMAIN m.given : RowsOf(f)' # {}
      /\ OneRow /\ (\A f \in DOMAIN m.given \ DOMAIN m.found : RowsOf(f) = {}) => OneRow'
  BY <1>2, <1>3, <1>5, RowsAfter
<1>8. owner' = owner /\ field' = field BY <1>2 DEF Upsert
<1>9. \A k : Defined(k)' = Defined(k) BY <1>8 DEF Defined
<1>10. /\ DOMAIN n = DOMAIN m /\ n.by = m.by /\ n.no = m.no /\ n.event = e /\ n.given = m.given
       /\ n.at = "saved" /\ n.found = <<>> /\ n.heard = m.heard
  BY <1>3
<1> HIDE DEF n
<1>11. JobOk(n)' /\ LetIn(n)'
  <2>1. \A f \in DOMAIN n.found : FALSE BY <1>10
  <2>2. JobOk(n)' BY <1>1, <1>3, <1>10, <2>1 DEF JobOk
  <2>3. LetIn(n)' BY <1>4, <1>7, <1>9, <1>10 DEF LetIn
  <2> QED BY <2>2, <2>3
<1>12. \A k \in jobs : JobOk(k)' /\ LetIn(k)'
  <2> TAKE k \in jobs
  <2>1. JobOk(k) /\ LetIn(k) BY <1>1
  <2>2. JobOk(k)' BY <2>1, <1>7 DEF JobOk
  <2>3. LetIn(k)' BY <2>1, <1>7, <1>9 DEF LetIn
  <2> QED BY <2>2, <2>3
<1>13. \A k \in jobs' : JobOk(k)' /\ LetIn(k)' BY <1>2, <1>11, <1>12
<1>14. IsFiniteSet(jobs')
  <2>1. IsFiniteSet(jobs \ {m}) BY <1>1, FS_RemoveElement
  <2> QED BY <2>1, <1>2, FS_AddElement
<1>15. /\ DOMAIN fill' = Browsers
       /\ \A u \in Browsers : /\ PageOk(fill'[u]) /\ FormOk(fill'[u]) /\ \A k \in Events : Follows(fill'[u], k)
                              /\ fill'[u].saved[e] = Nothing
                              /\ \A k \in Events : k # e => fill'[u].saved[k] = fill[u].saved[k]
  <2>1. DOMAIN fill' = Browsers BY <1>2
  <2>2. ASSUME NEW u \in Browsers
        PROVE  /\ PageOk(fill'[u]) /\ FormOk(fill'[u]) /\ \A k \in Events : Follows(fill'[u], k)
               /\ fill'[u].saved[e] = Nothing
               /\ \A k \in Events : k # e => fill'[u].saved[k] = fill[u].saved[k]
    <3>1. fill'[u] = [fill[u] EXCEPT !.saved[e] = Nothing] BY <1>2
    <3>2. PageOk(fill[u]) /\ FormOk(fill[u]) /\ \A k \in Events : Follows(fill[u], k) BY FillFacts
    <3> DEFINE p == fill[u]
               q == fill'[u]
    <3> HIDE DEF e, p, q
    <3>3. q = Forgot(p, e) BY <3>1 DEF p, q, Forgot
    <3>4. PageOk(p) /\ FormOk(p) /\ \A k \in Events : Follows(p, k) BY <3>2 DEF p
    <3>5. /\ PageOk(q) /\ FormOk(q) /\ \A k \in Events : Follows(q, k)
          /\ q.saved[e] = Nothing /\ \A k \in Events : k # e => q.saved[k] = p.saved[k]
      BY <3>3, <3>4, <1>3, Forgets
    <3> QED BY <3>5 DEF p, q
  <2> QED BY <2>1, <2>2
<1>16. FillTypeOK' BY <1>13, <1>15 DEF FillTypeOK
<1>9a. JobsInv' BY <1>13, <1>14 DEF JobsInv
<1>18. AloneInv'
  <2> SUFFICES ASSUME ~overlap' PROVE OneRow' /\ (\A k, l \in Reading' : k = l) /\ \A k \in Reading' : Exact(k)'
    BY DEF AloneInv
  <2>1. ~overlap BY DEF Overlaps
  <2>2. OneRow /\ Exact(m) BY <2>1, <1>1, <1>2 DEF FillInv, AloneInv
  <2>3. OneRow' BY <2>2, <1>7 DEF Exact
  <2>4. Reading' = {} BY <2>1, <1>1, <1>2, <1>10 DEF Reading
  <2> QED BY <2>3, <2>4
<1>19. SavedInv'
  <2>1. ASSUME NEW k \in Events, k # e, NEW g, Held(k, g)
        PROVE  Held(k, g)'
    <3>1. \A f \in DOMAIN g : f \notin DOMAIN m.given BY <2>1, <1>4 DEF Held, Defined
    <3> QED BY <2>1, <3>1, <1>7, <1>9 DEF Held
  <2>2. ASSUME NEW u \in Browsers, NEW k \in Events, NEW g, g = fill'[u].saved[k], g # Nothing
        PROVE  Held(k, g)'
    <3>1. k # e BY <2>2, <1>15
    <3>2. g = fill[u].saved[k] BY <2>2, <3>1, <1>15
    <3>3. Held(k, g) BY <2>2, <3>2, FillFacts
    <3> QED BY <2>1, <3>1, <3>3
  <2> QED BY <2>2 DEF SavedInv
<1>20. ViewInv' BY <1>15 DEF ViewInv
<1> QED BY <1>6, <1>16, <1>9a, <1>18, <1>19, <1>20 DEF FillInv

\* After an answer no view that was read before it counts.
LEMMA InvalidatedOk ==
  ASSUME NEW p, PageOk(p), NEW e \in Events, NEW r, r = Invalidated(p, e)
  PROVE  /\ DOMAIN r = Events /\ \A k \in Events : FetchOk(r[k])
         /\ \A k \in Events : k # e => r[k] = p.fetch[k]
         /\ r[e].at = "served" => r[e].old
         /\ p.event = e /\ p.data[e] # Nothing => r[e].at # "idle"
<1>1. DOMAIN p.fetch = Events /\ \A k \in Events : FetchOk(p.fetch[k]) BY DEF PageOk
<1>2. CASE p.event = e /\ p.data[e] # Nothing
  <2> DEFINE s == [at |-> "asked", view |-> Nothing, old |-> FALSE]
  <2>1. r = [p.fetch EXCEPT ![e] = s] BY <1>2 DEF Invalidated
  <2>2. FetchOk(s) BY DEF FetchOk, NoFetch
  <2>3. s.at = "asked" OBVIOUS
  <2> HIDE DEF s
  <2>4. DOMAIN r = Events /\ r[e] = s /\ \A k \in Events : k # e => r[k] = p.fetch[k] BY <1>1, <2>1
  <2> QED BY <1>1, <2>2, <2>3, <2>4
<1>3. CASE ~ (p.event = e /\ p.data[e] # Nothing)
  <2> DEFINE o == p.fetch[e].at # "idle"
             s == [p.fetch[e] EXCEPT !.old = o]
  <2>1. r = [p.fetch EXCEPT ![e] = s] BY <1>1, <1>3 DEF Invalidated
  <2>2. DOMAIN p.fetch[e] = {"at", "view", "old"} BY <1>1 DEF FetchOk, NoFetch
  <2>3. o \in BOOLEAN BY Zenon
  <2> HIDE DEF o
  <2>4. DOMAIN s = {"at", "view", "old"} /\ s.at = p.fetch[e].at /\ s.view = p.fetch[e].view /\ s.old = o
    BY <2>2
  <2>5. FetchOk(s) BY <1>1, <2>2, <2>3, <2>4 DEF FetchOk
  <2> HIDE DEF s
  <2>6. DOMAIN r = Events /\ r[e] = s /\ \A k \in Events : k # e => r[k] = p.fetch[k] BY <1>1, <2>1
  <2>7. r[e].at = "served" => r[e].old BY <2>4, <2>6 DEF o
  <2> QED BY <1>1, <1>3, <2>5, <2>6, <2>7
<1> QED BY <1>2, <1>3

LEMMA ReplyOk ==
  ASSUME FillInv, overlap => overlap', NEW m \in jobs, Reply(m)
  PROVE  FillInv'
<1> DEFINE u == m.by
           p == fill[u]
           e == m.event
           js == jobs \ {m}
<1>1. JobOk(m) /\ LetIn(m) /\ UNCHANGED db BY JobsLeft DEF Reply
<1>2. u \in Browsers /\ e \in Events /\ m.heard \in BOOLEAN /\ Over(m.given, Answer) BY <1>1 DEF JobOk
<1>3. /\ PageOk(p) /\ FormOk(p)
      /\ DOMAIN p = {"event", "data", "fetch", "values", "base", "closed", "success", "sends", "saved"}
      /\ \A k \in Events : Follows(p, k)
      /\ \A k \in Events : p.saved[k] # Nothing => Held(k, p.saved[k])
  BY <1>2, FillFacts
<1>4. p.closed \in BOOLEAN /\ p.success \in BOOLEAN BY <1>3 DEF PageOk
<1>5. CASE m.at = "saved"
  <2> DEFINE f == Invalidated(p, e)
             c == p.success \/ m.heard
             s == IF IsLast(m) THEN m.given ELSE Nothing
             q == [p EXCEPT !.fetch = f, !.success = c, !.saved[e] = s]
  <2>1. Show(u, q, js) BY <1>5 DEF Reply
  <2>2. c \in BOOLEAN BY <1>2, <1>4, Zenon
  <2> HIDE DEF f, c, s
  <2>3. /\ DOMAIN q = DOMAIN p /\ q.event = p.event /\ q.fetch = f /\ q.data = p.data
        /\ q.values = p.values /\ q.base = p.base /\ q.closed = p.closed /\ q.success = c
        /\ q.sends = p.sends /\ q.saved = [p.saved EXCEPT ![e] = s]
    BY <1>3
  <2> HIDE DEF q, p, e
  <2>4. /\ DOMAIN f = Events /\ \A k \in Events : FetchOk(f[k])
        /\ \A k \in Events : k # e => f[k] = p.fetch[k]
        /\ f[e].at = "served" => f[e].old
        /\ p.event = e /\ p.data[e] # Nothing => f[e].at # "idle"
    BY <1>2, <1>3, InvalidatedOk DEF f
  <2>5. DOMAIN p.saved = Events BY <1>3 DEF PageOk
  <2>6. DOMAIN q.saved = Events /\ q.saved[e] = s /\ \A k \in Events : k # e => q.saved[k] = p.saved[k]
    BY <1>2, <2>3, <2>5
  <2>7. MaybeOver(s, Answer) BY <1>2 DEF s, MaybeOver
  <2>8. \A k \in Events : MaybeOver(q.saved[k], Answer) BY <1>3, <2>6, <2>7 DEF PageOk
  <2>9. PageOk(q) BY <1>3, <2>2, <2>3, <2>4, <2>6, <2>8 DEF PageOk
  <2>10. s # Nothing => Held(e, s)
    <3>1. SUFFICES ASSUME s # Nothing PROVE Held(e, s) OBVIOUS
    <3>2. IsLast(m) /\ s = m.given BY <3>1 DEF s
    <3>3. DOMAIN s \subseteq Defined(e) /\ \A k \in DOMAIN s : RowsOf(k) # {} BY <1>1, <1>5, <3>2 DEF LetIn, e
    <3>4. \A k \in DOMAIN s : \A i \in RowsOf(k) : rows[i][2] = s[k] BY <3>2 DEF IsLast
    <3> QED BY <3>3, <3>4 DEF Held
  <2>11. \A k \in Events : q.saved[k] # Nothing => Held(k, q.saved[k]) BY <1>3, <2>6, <2>10
  <2>12. \A k \in Events : Follows(q, k)
    <3> TAKE k \in Events
    <3>1. CASE k = e BY <3>1, <2>3, <2>4 DEF Follows
    <3>2. CASE k # e BY <3>2, <1>3, <2>3, <2>4, <2>6 DEF Follows
    <3> QED BY <3>1, <3>2
  <2>13. q.values = fill[u].values /\ q.base = fill[u].base BY <2>3 DEF p
  <2> HIDE DEF u
  <2> QED BY <1>1, <1>2, <2>1, <2>9, <2>11, <2>12, <2>13, ShowLeft
<1>6. CASE m.at = "closed"
  <2> DEFINE c == p.closed \/ m.heard
             q == [p EXCEPT !.closed = c]
  <2>1. Show(u, q, js) BY <1>6 DEF Reply
  <2>2. c \in BOOLEAN BY <1>2, <1>4, Zenon
  <2> HIDE DEF c
  <2>3. /\ DOMAIN q = DOMAIN p /\ q.event = p.event /\ q.fetch = p.fetch /\ q.data = p.data
        /\ q.values = p.values /\ q.base = p.base /\ q.closed = c /\ q.success = p.success
        /\ q.sends = p.sends /\ q.saved = p.saved
    BY <1>3
  <2> HIDE DEF q, p
  <2>4. PageOk(q) BY <1>3, <2>2, <2>3 DEF PageOk
  <2>5. \A k \in Events : Follows(q, k) BY <1>3, <2>3 DEF Follows
  <2>6. \A k \in Events : q.saved[k] # Nothing => Held(k, q.saved[k]) BY <1>3, <2>3
  <2>7. q.values = fill[u].values /\ q.base = fill[u].base BY <2>3 DEF p
  <2> HIDE DEF u
  <2> QED BY <1>1, <1>2, <2>1, <2>4, <2>5, <2>6, <2>7, ShowLeft
<1>7. CASE m.at = "error"
  <2>1. Show(u, p, js) BY <1>7 DEF Reply
  <2>2. p.values = fill[u].values /\ p.base = fill[u].base OBVIOUS
  <2> HIDE DEF u, p
  <2> QED BY <1>1, <1>2, <1>3, <2>1, <2>2, ShowLeft
<1> QED BY <1>5, <1>6, <1>7 DEF Reply

\* What happens to the fields leaves the answers alone.
LEMMA FillFrame ==
  ASSUME FillInv, Grown, UNCHANGED <<rows, fill, jobs, overlap>>
  PROVE  FillInv'
<1>1. \A f : RowsOf(f)' = RowsOf(f) BY DEF RowsOf
<1>2. FillTypeOK' BY <1>1 DEF FillInv, FillTypeOK, JobOk
<1>3. JobsInv'
  <2>1. \A m \in jobs : m.event \in Events /\ LetIn(m) BY DEF FillInv, FillTypeOK, JobsInv, JobOk
  <2>2. \A m \in jobs : LetIn(m)' BY <1>1, <2>1 DEF LetIn, Grown
  <2> QED BY <2>2 DEF FillInv, JobsInv
<1>4. AloneInv' BY <1>1 DEF FillInv, AloneInv, Reading, Exact, OneRow
<1>5. SavedInv'
  <2>1. \A e \in Events : \A g : Held(e, g) => Held(e, g)' BY <1>1 DEF Held, Grown
  <2> QED BY <2>1 DEF FillInv, SavedInv
<1>6. ViewInv' BY DEF FillInv, ViewInv
<1> QED BY <1>2, <1>3, <1>4, <1>5, <1>6 DEF FillInv

-----------------------------------------------------------------------------
(* The builder.                                                            *)

DeskFields == {"event", "all", "data", "fetch", "dialog", "moving", "on", "edits"}
Reads == [at: {"idle", "asked", "served"}, list: Lists]

LEMMA DeskFacts ==
  ASSUME NEW d, d \in Desk
  PROVE  /\ d.event \in Events /\ d.all \in BOOLEAN /\ d.on \in BOOLEAN /\ d.edits \in 0 .. MaxEdits
         /\ d.data \in [BOOLEAN -> Maybe(Lists)] /\ d.fetch \in [BOOLEAN -> Reads]
         /\ d.dialog \in Maybe([id: Ids \union {0}, form: Columns])
         /\ d.moving \in {"no", "patches", "refetch"}
BY DEF Desk, Reads

\* The list of the server.
LEMMA ListOk ==
  ASSUME DbTypeOK, desk.event \in Events, NEW a \in BOOLEAN
  PROVE  List(a) \in Lists
<1> DEFINE F == IF a THEN Defined(desk.event) ELSE Active(desk.event)
           ids == Sorted(F)
<1>1. F \subseteq DOMAIN field BY DbFacts
<1>2. ids \in Seq(F) BY <1>1, SortedOk
<1>3. \A f \in DOMAIN field : field[f] \in Columns /\ f \in Ids BY DbFacts
<1> DEFINE def(f) == [id |-> f, type |-> field[f].type, options |-> field[f].options,
                      required |-> field[f].required, order |-> field[f].order, active |-> field[f].active]
           s == [i \in DOMAIN ids |-> def(ids[i])]
<1>4. List(a) = s BY DEF List, ListFields
<1>5. \A f \in F : def(f) \in Def
  <2> TAKE f \in F
  <2>1. field[f] \in Columns /\ f \in Ids BY <1>1, <1>3
  <2> QED BY <2>1 DEF Def, Columns
<1> HIDE DEF ids, F, def
<1>6. \A i \in DOMAIN ids : ids[i] \in F BY <1>2
<1>7. s \in [1 .. Len(ids) -> Def] /\ Len(ids) \in Nat BY <1>2, <1>5, <1>6
<1> QED BY <1>4, <1>7 DEF Lists

LEMMA ListServedOk ==
  ASSUME DbTypeOK, BuilderTypeOK, NEW a \in BOOLEAN, ListServed(a)
  PROVE  BuilderTypeOK'
<1>1. desk \in Desk BY DEF BuilderTypeOK
<1>2. desk.event \in Events BY <1>1, DeskFacts
<1> DEFINE s == [at |-> "served", list |-> List(a)]
<1>3. s \in Reads BY <1>2, ListOk DEF Reads
<1>4. desk' = [desk EXCEPT !.fetch[a] = s] /\ UNCHANGED <<requests, wish>> BY DEF ListServed
<1> HIDE DEF s
<1>5. [desk.fetch EXCEPT ![a] = s] \in [BOOLEAN -> Reads] BY <1>1, <1>3, DeskFacts
<1>6. desk' \in Desk BY <1>1, <1>4, <1>5 DEF Desk, Reads
<1> QED BY <1>4, <1>6 DEF BuilderTypeOK

LEMMA ShowInactiveOk ==
  ASSUME BuilderTypeOK, ShowInactive
  PROVE  BuilderTypeOK'
<1> DEFINE a == ~desk.all
           n == IF desk.fetch[a].at = "idle" THEN "asked" ELSE desk.fetch[a].at
           f == [desk.fetch EXCEPT ![a].at = n]
<1>1. desk \in Desk BY DEF BuilderTypeOK
<1>2. a \in BOOLEAN BY Zenon
<1>3. desk' = [desk EXCEPT !.all = a, !.fetch = f] /\ UNCHANGED <<requests, wish>>
  BY <1>1 DEF ShowInactive, Desk
<1> HIDE DEF a
<1>4. desk.fetch \in [BOOLEAN -> Reads] BY <1>1, DeskFacts
<1>5. desk.fetch[a] \in Reads BY <1>2, <1>4
<1>6. n \in {"idle", "asked", "served"} BY <1>5 DEF Reads
<1> HIDE DEF n
<1>7. f \in [BOOLEAN -> Reads] BY <1>2, <1>4, <1>5, <1>6 DEF Reads
<1> HIDE DEF f
<1>8. desk' \in Desk BY <1>1, <1>2, <1>3, <1>7 DEF Desk, Reads
<1> QED BY <1>3, <1>8 DEF BuilderTypeOK

LEMMA ListArrivesOk ==
  ASSUME BuilderTypeOK, NEW a \in BOOLEAN, ListArrives(a)
  PROVE  BuilderTypeOK'
<1> DEFINE l == desk.fetch[a].list
           v == IF desk.moving = "refetch" /\ desk.on = a THEN "no" ELSE desk.moving
           w == IF \E r \in Awaited(a) : r.heard THEN Nothing ELSE desk.dialog
           f == [desk.fetch EXCEPT ![a] = NoRead]
           n == [desk.data EXCEPT ![a] = l]
<1>1. desk \in Desk /\ \A r \in requests : RequestOk(r) BY DEF BuilderTypeOK
<1>2. /\ desk' = [desk EXCEPT !.fetch = f, !.data = n, !.moving = v, !.dialog = w]
      /\ requests' = requests \ Awaited(a) /\ wish' = wish
  BY DEF ListArrives
<1>3. desk.fetch \in [BOOLEAN -> Reads] /\ desk.data \in [BOOLEAN -> Maybe(Lists)] BY <1>1, DeskFacts
<1>4. desk.fetch[a] \in Reads BY <1>3
<1>5. l \in Maybe(Lists) BY <1>4 DEF Reads, Maybe
<1>6. NoRead \in Reads
  <2>1. <<>> \in Lists BY DEF Lists
  <2> QED BY <2>1 DEF NoRead, Reads
<1> HIDE DEF l
<1>7. f \in [BOOLEAN -> Reads] BY <1>3, <1>6
<1>8. n \in [BOOLEAN -> Maybe(Lists)] BY <1>3, <1>5
<1>9. v \in {"no", "patches", "refetch"} BY <1>1, DeskFacts
<1>10. w \in Maybe([id: Ids \union {0}, form: Columns]) BY <1>1, DeskFacts DEF Maybe
<1> HIDE DEF f, n, v, w
<1>11. desk' \in Desk BY <1>1, <1>2, <1>7, <1>8, <1>9, <1>10 DEF Desk, Reads
<1> QED BY <1>1, <1>2, <1>11 DEF BuilderTypeOK

\* The fields that are listed.
LEMMA ListedOk ==
  ASSUME desk \in Desk
  PROVE  /\ Listed \in Seq(Def)
         /\ \A i \in DOMAIN Listed :
              /\ Listed[i] \in Def /\ Listed[i].id \in Ids
              /\ [k \in DOMAIN TypeOf |-> Listed[i][k]] \in Columns
<1>1. desk.all \in BOOLEAN /\ desk.data \in [BOOLEAN -> Maybe(Lists)] BY DeskFacts
<1>2. Shown \in Maybe(Lists) BY <1>1 DEF Shown
<1>3. Listed \in Seq(Def) BY <1>2 DEF Listed, Maybe, Lists
<1> HIDE DEF Listed
<1>4. ASSUME NEW i \in DOMAIN Listed
      PROVE  /\ Listed[i] \in Def /\ Listed[i].id \in Ids
             /\ [k \in DOMAIN TypeOf |-> Listed[i][k]] \in Columns
  <2>1. Listed[i] \in Def BY <1>3
  <2> DEFINE d == Listed[i]
             c == [k \in DOMAIN TypeOf |-> d[k]]
  <2> HIDE DEF d
  <2>2. d \in Def BY <2>1 DEF d
  <2>3. DOMAIN TypeOf = {"type", "options", "required", "order", "active"} BY DEF TypeOf
  <2>4. c = [type |-> d.type, options |-> d.options, required |-> d.required, order |-> d.order,
             active |-> d.active]
    BY <2>3
  <2>5. c \in Columns BY <2>2, <2>4 DEF Def, Columns
  <2> QED BY <2>1, <2>2, <2>5 DEF d, Def
<1> QED BY <1>3, <1>4

LEMMA OpenOk ==
  ASSUME BuilderTypeOK, NEW id \in Ids \union {0}, NEW form \in Columns, Open(id, form)
  PROVE  BuilderTypeOK'
<1> DEFINE w == [id |-> id, form |-> form]
<1>1. desk \in Desk BY DEF BuilderTypeOK
<1>2. desk' = [desk EXCEPT !.dialog = w] /\ UNCHANGED <<requests, wish>> BY DEF Open
<1>3. w \in Maybe([id: Ids \union {0}, form: Columns]) BY DEF Maybe
<1> HIDE DEF w
<1>4. desk' \in Desk BY <1>1, <1>2, <1>3 DEF Desk
<1> QED BY <1>2, <1>4 DEF BuilderTypeOK

LEMMA AddFieldOk ==
  ASSUME BuilderTypeOK, AddField
  PROVE  BuilderTypeOK'
<1>1. desk \in Desk BY DEF BuilderTypeOK
<1>2. Listed \in Seq(Def) BY <1>1, ListedOk
<1>3. NextSortOrder \in Nat
  <2> DEFINE S == {Listed[i].order : i \in DOMAIN Listed}
  <2>1. CASE Listed = <<>> BY <2>1 DEF NextSortOrder
  <2>2. CASE Listed # <<>>
    <3>1. Len(Listed) \in Nat /\ DOMAIN Listed = 1 .. Len(Listed) /\ 1 \in DOMAIN Listed BY <1>2, <2>2
    <3>2. \A i \in DOMAIN Listed : Listed[i].order \in Nat
      <4>1. \A i \in DOMAIN Listed : Listed[i] \in Def BY <1>1, ListedOk
      <4> QED BY <4>1 DEF Def, Orders
    <3>3. S # {} /\ S \subseteq Nat BY <3>1, <3>2
    <3>4. IsFiniteSet(S)
      <4> DEFINE g == [i \in DOMAIN Listed |-> Listed[i].order]
      <4>1. g \in [DOMAIN Listed -> S] /\ \A t \in S : \E i \in DOMAIN Listed : g[i] = t OBVIOUS
      <4>2. g \in Surjection(DOMAIN Listed, S) BY <4>1 DEF Surjection
      <4>3. IsFiniteSet(DOMAIN Listed) BY <3>1, FS_Interval
      <4> HIDE DEF g, S
      <4> QED BY <4>2, <4>3, FS_Surjection
    <3>5. Max(S) \in Nat
      <4> HIDE DEF S
      <4> QED BY <3>3, <3>4, Greatest
    <3>6. NextSortOrder = Max(S) + 1 BY <2>2 DEF NextSortOrder
    <3> HIDE DEF S
    <3> QED BY <3>5, <3>6
  <2> QED BY <2>1, <2>2
<1>4. Blank \in Columns BY <1>3 DEF Blank, Columns, Types, Orders
<1>5. Open(0, Blank) BY DEF AddField
<1> QED BY <1>4, <1>5, OpenOk

LEMMA EditFieldOk ==
  ASSUME BuilderTypeOK, NEW i \in DOMAIN Listed, EditField(i)
  PROVE  BuilderTypeOK'
<1>1. desk \in Desk BY DEF BuilderTypeOK
<1> DEFINE id == Listed[i].id
           form == [k \in DOMAIN TypeOf |-> Listed[i][k]]
<1>2. id \in Ids \union {0} /\ form \in Columns BY <1>1, ListedOk
<1>3. Open(id, form) BY DEF EditField
<1> HIDE DEF id, form
<1> QED BY <1>2, <1>3, OpenOk

LEMMA CloseDialogOk ==
  ASSUME BuilderTypeOK, CloseDialog
  PROVE  BuilderTypeOK'
<1>1. desk \in Desk /\ \A r \in requests : RequestOk(r) BY DEF BuilderTypeOK
<1>2. /\ desk' = [desk EXCEPT !.dialog = Nothing] /\ wish' = wish
      /\ requests' = {IF r.kind \in {"create", "update"} THEN [r EXCEPT !.heard = FALSE] ELSE r : r \in requests}
  BY DEF CloseDialog
<1>3. desk' \in Desk BY <1>1, <1>2 DEF Desk, Maybe
<1>4. \A r \in requests' : RequestOk(r)
  <2> TAKE s \in requests'
  <2>1. PICK r \in requests : s = r \/ s = [r EXCEPT !.heard = FALSE] BY <1>2
  <2>2. RequestOk(r) /\ DOMAIN r = {"no", "kind", "id", "set", "diff", "at", "on", "heard"}
    BY <1>1 DEF RequestOk
  <2>3. CASE s = [r EXCEPT !.heard = FALSE]
    <3>1. /\ DOMAIN s = DOMAIN r /\ s.no = r.no /\ s.kind = r.kind /\ s.id = r.id /\ s.set = r.set
          /\ s.diff = r.diff /\ s.at = r.at /\ s.on = r.on /\ s.heard = FALSE
      BY <2>2, <2>3
    <3> QED BY <2>2, <3>1 DEF RequestOk
  <2> QED BY <2>1, <2>2, <2>3
<1> QED BY <1>2, <1>3, <1>4 DEF BuilderTypeOK

\* A request that is sent.
LEMMA RequestSent ==
  ASSUME desk \in Desk, desk.edits < MaxEdits, NEW kind \in Kinds, NEW id \in Ids \union {0}, NEW set,
         IF kind = "create" THEN set \in Columns ELSE Part(set), NEW r, r = Request(kind, id, set)
  PROVE  RequestOk(r)
<1>1. desk.edits + 1 \in 1 .. MaxEdits BY DeskFacts, BuilderAssumption
<1>2. /\ DOMAIN r = {"no", "kind", "id", "set", "diff", "at", "on", "heard"}
      /\ r.no = desk.edits + 1 /\ r.kind = kind /\ r.id = id /\ r.set = set /\ r.diff = <<>>
      /\ r.at = "sent" /\ r.on = FALSE /\ r.heard = TRUE
  BY DEF Request
<1>3. r.on \in BOOLEAN /\ r.heard \in BOOLEAN BY <1>2
<1>4. Part(r.diff)
  <2>1. \A k \in DOMAIN r.diff : FALSE BY <1>2
  <2> QED BY <2>1 DEF Part
<1> QED BY <1>1, <1>2, <1>3, <1>4 DEF RequestOk

LEMMA SpentOk ==
  ASSUME desk \in Desk, desk.edits < MaxEdits, NEW v \in {"no", "patches", "refetch"}
  PROVE  [desk EXCEPT !.edits = @ + 1] \in Desk /\ [desk EXCEPT !.moving = v, !.edits = @ + 1] \in Desk
<1>1. desk.edits + 1 \in 0 .. MaxEdits BY DeskFacts, BuilderAssumption
<1> QED BY <1>1 DEF Desk

LEMMA ColumnsPart ==
  ASSUME NEW c \in Columns
  PROVE  Part(c)
<1>1. DOMAIN c = {"type", "options", "required", "order", "active"} BY DEF Columns
<1>2. \A k \in DOMAIN c : c[k] \in TypeOf[k] BY <1>1 DEF Columns, TypeOf
<1> QED BY <1>1, <1>2 DEF Part, TypeOf

LEMMA SaveOk ==
  ASSUME BuilderTypeOK, Save
  PROVE  BuilderTypeOK'
<1> DEFINE d == desk.dialog
           kind == IF d.id = 0 THEN "create" ELSE "update"
<1>1. desk \in Desk /\ \A r \in requests : RequestOk(r) BY DEF BuilderTypeOK
<1>2. d # Nothing /\ desk.edits < MaxEdits BY DEF Save
<1>3. d.id \in Ids \union {0} /\ d.form \in Columns BY <1>1, <1>2, DeskFacts DEF Maybe
<1>4. PICK c \in Edited(d) : requests' = requests \union {Request(kind, d.id, c)} BY DEF Save
<1>5. desk' = [desk EXCEPT !.edits = @ + 1] /\ wish' \in {wish, Nothing} BY DEF Save
<1> HIDE DEF d
<1>6. c \in Columns
  <2>1. PICK x \in Offered : c = Entered(d, x, TRUE) \/ c = Entered(d, x, FALSE) BY <1>4, Zenon DEF Edited
  <2>2. x \in [type: Types, options: SUBSET Options, required: BOOLEAN] BY BuilderAssumption DEF Offered
  <2>3. d.form.order \in Orders BY <1>3 DEF Columns
  <2>4. Entered(d, x, TRUE) \in Columns BY <2>2, <2>3 DEF Columns, Entered
  <2>5. Entered(d, x, FALSE) \in Columns BY <2>2, <2>3 DEF Columns, Entered
  <2> QED BY <2>1, <2>4, <2>5
<1>7. kind \in Kinds /\ IF kind = "create" THEN c \in Columns ELSE Part(c) BY <1>6, ColumnsPart DEF Kinds
<1> DEFINE r == Request(kind, d.id, c)
<1> HIDE DEF kind
<1>8. RequestOk(r) BY <1>1, <1>2, <1>3, <1>7, RequestSent
<1> HIDE DEF r
<1>9. \A s \in requests' : RequestOk(s) BY <1>1, <1>4, <1>8 DEF r
<1>10. desk' \in Desk BY <1>1, <1>2, <1>5, SpentOk
<1> QED BY <1>5, <1>9, <1>10 DEF BuilderTypeOK

LEMMA DeactivateOk ==
  ASSUME BuilderTypeOK, NEW i \in DOMAIN Listed, HandleDeactivate(i)
  PROVE  BuilderTypeOK'
<1> DEFINE set == [active |-> FALSE]
           id  == Listed[i].id
           r   == Request("deactivate", id, set)
<1>1. desk \in Desk /\ \A s \in requests : RequestOk(s) BY DEF BuilderTypeOK
<1>2. /\ desk.edits < MaxEdits /\ requests' = requests \union {r}
      /\ desk' = [desk EXCEPT !.edits = @ + 1] /\ wish' = wish
  BY DEF HandleDeactivate
<1>3. id \in Ids BY <1>1, ListedOk
<1>4. Part(set)
  <2>1. DOMAIN set = {"active"} /\ set["active"] = FALSE OBVIOUS
  <2>2. DOMAIN TypeOf = {"type", "options", "required", "order", "active"} /\ TypeOf["active"] = BOOLEAN
    BY DEF TypeOf
  <2> HIDE DEF set
  <2>3. \A k \in DOMAIN set : set[k] \in TypeOf[k]
    <3>1. TAKE k \in DOMAIN set
    <3>2. k = "active" BY <2>1
    <3>3. set[k] = FALSE BY <2>1, <3>2
    <3> QED BY <2>2, <3>2, <3>3, Zenon
  <2> QED BY <2>1, <2>2, <2>3 DEF Part
<1> HIDE DEF id, set
<1>5. RequestOk(r) BY <1>1, <1>2, <1>3, <1>4, RequestSent DEF Kinds
<1> HIDE DEF r
<1>6. \A s \in requests' : RequestOk(s) BY <1>1, <1>2, <1>5
<1>7. desk' \in Desk BY <1>1, <1>2, SpentOk
<1> QED BY <1>2, <1>6, <1>7 DEF BuilderTypeOK

LEMMA MoveOk ==
  ASSUME BuilderTypeOK, NEW i \in DOMAIN Listed, NEW j \in DOMAIN Listed, HandleMove(i, j)
  PROVE  BuilderTypeOK'
<1> DEFINE now == Swapped(Listed, i, j)
<1>1. desk \in Desk /\ \A s \in requests : RequestOk(s) BY DEF BuilderTypeOK
<1>2. /\ desk.edits < MaxEdits /\ requests' = requests \union Patches(Listed, now)
      /\ desk' = [desk EXCEPT !.moving = "patches", !.edits = @ + 1]
      /\ wish' = (IF Current THEN [ids |-> [k \in DOMAIN now |-> now[k].id], all |-> desk.all] ELSE Nothing)
  BY DEF HandleMove
<1>3. Listed \in Seq(Def) BY <1>1, ListedOk
<1>4. now \in Seq(Def)
  <2>1. Listed[i] \in Def /\ Listed[j] \in Def BY <1>3
  <2> HIDE DEF Listed
  <2> QED BY <1>3, <2>1 DEF Swapped
<1> HIDE DEF now
<1>5. Len(now) \in Nat /\ DOMAIN now = 1 .. Len(now) /\ \A k \in DOMAIN now : now[k] \in Def BY <1>4
<1>6. \A k \in DOMAIN now : now[k].id \in Ids BY <1>5 DEF Def
<1>7. ASSUME NEW r \in Patches(Listed, now)
      PROVE  RequestOk(r)
  <2>1. PICK k \in DOMAIN now : r = Request("order", now[k].id, [order |-> k - 1]) BY DEF Patches
  <2> DEFINE o == k - 1
             set == [order |-> o]
             id == now[k].id
  <2>2. o \in Orders BY <1>5 DEF Orders
  <2> HIDE DEF o
  <2>3. Part(set)
    <3>1. DOMAIN set = {"order"} /\ set["order"] = o OBVIOUS
    <3>2. DOMAIN TypeOf = {"type", "options", "required", "order", "active"} /\ TypeOf["order"] = Orders
      BY DEF TypeOf
    <3> QED BY <2>2, <3>1, <3>2 DEF Part
  <2>4. id \in Ids BY <1>6
  <2> HIDE DEF id, set
  <2>5. r = Request("order", id, set) BY <2>1 DEF id, set, o
  <2> QED BY <1>1, <1>2, <2>3, <2>4, <2>5, RequestSent DEF Kinds
<1>8. \A s \in requests' : RequestOk(s) BY <1>1, <1>2, <1>7
<1>9. desk' \in Desk BY <1>1, <1>2, SpentOk
<1>10. wish' = Nothing \/ wish' \in [ids: Seq(Ids), all: BOOLEAN]
  <2> DEFINE ids == [k \in DOMAIN now |-> now[k].id]
  <2>1. ids \in [1 .. Len(now) -> Ids] BY <1>5, <1>6
  <2>2. ids \in Seq(Ids) BY <1>5, <2>1
  <2>3. desk.all \in BOOLEAN BY <1>1, DeskFacts
  <2> HIDE DEF ids
  <2> QED BY <1>2, <2>2, <2>3 DEF ids
<1> QED BY <1>8, <1>9, <1>10 DEF BuilderTypeOK

\* A request changes, or goes.
LEMMA TurnsOk ==
  ASSUME BuilderTypeOK, NEW r \in requests, NEW s, RequestOk(s), Turns(r, s), desk' \in Desk, wish' \in {wish, Nothing}
  PROVE  BuilderTypeOK'
<1>1. \A q \in requests' : RequestOk(q) BY DEF BuilderTypeOK, Turns
<1> QED BY <1>1 DEF BuilderTypeOK

LEMMA GoesOk ==
  ASSUME BuilderTypeOK, NEW r, requests' = requests \ {r}, desk' \in Desk, wish' = wish
  PROVE  BuilderTypeOK'
<1>1. \A q \in requests' : RequestOk(q) BY DEF BuilderTypeOK
<1> QED BY <1>1 DEF BuilderTypeOK

\* The list on the screen is asked for.
LEMMA RefetchedOk ==
  ASSUME desk \in Desk, NEW d, d = Refetched(desk)
  PROVE  d \in Desk
<1> DEFINE a == desk.all
           r == [at |-> "asked", list |-> <<>>]
<1>1. CASE desk.data[a] = Nothing BY <1>1 DEF Refetched
<1>2. CASE desk.data[a] # Nothing
  <2>1. r \in Reads BY DEF Reads, Lists
  <2>2. a \in BOOLEAN /\ desk.fetch \in [BOOLEAN -> Reads] BY DeskFacts
  <2>3. d = [desk EXCEPT !.fetch[a] = r] BY <1>2 DEF Refetched
  <2> HIDE DEF r, a
  <2>4. [desk.fetch EXCEPT ![a] = r] \in [BOOLEAN -> Reads] BY <2>1, <2>2
  <2> DEFINE g == [desk.fetch EXCEPT ![a] = r]
  <2>5. d = [desk EXCEPT !.fetch = g] BY <2>3
  <2> HIDE DEF g
  <2>6. g \in [BOOLEAN -> Reads] BY <2>4 DEF g
  <2> QED BY <2>5, <2>6 DEF Desk, Reads
<1> QED BY <1>1, <1>2

LEMMA DiffersPart ==
  ASSUME NEW f, NEW c, Part(c)
  PROVE  Part(Differs(f, c))
<1> DEFINE D == {k \in DOMAIN c : c[k] # field[f][k]}
<1>1. DOMAIN Differs(f, c) = D /\ \A k \in D : Differs(f, c)[k] = c[k] BY DEF Differs
<1>2. D \subseteq DOMAIN c OBVIOUS
<1> HIDE DEF D
<1>3. \A k \in D : c[k] \in TypeOf[k] BY <1>2 DEF Part
<1> QED BY <1>1, <1>2, <1>3 DEF Part

\* What the endpoints make of the fields.
LEMMA LoadsOk ==
  ASSUME DbTypeOK, BuilderTypeOK, NEW r \in requests, Loads(r)
  PROVE  BuilderTypeOK' /\ DbTypeOK' /\ Grown /\ rows' = rows
<1>1. desk \in Desk /\ RequestOk(r) BY DEF BuilderTypeOK
<1>2. DOMAIN r = {"no", "kind", "id", "set", "diff", "at", "on", "heard"} BY <1>1 DEF RequestOk
<1>3. desk' = desk /\ wish' = wish BY DEF Loads
<1>4. CASE r.kind = "create"
  <2> DEFINE s == [r EXCEPT !.at = "done"]
  <2>1. r.set \in Columns BY <1>1, <1>4 DEF RequestOk
  <2>2. Len(field) < MaxFields /\ Define(desk.event, r.set) /\ Turns(r, s) BY <1>4 DEF Loads
  <2>3. /\ DOMAIN s = DOMAIN r /\ s.no = r.no /\ s.kind = r.kind /\ s.id = r.id /\ s.set = r.set
        /\ s.diff = r.diff /\ s.on = r.on /\ s.heard = r.heard /\ s.at = "done"
    BY <1>2
  <2> HIDE DEF s
  <2>4. RequestOk(s) BY <1>1, <2>3 DEF RequestOk
  <2>5. BuilderTypeOK' BY <1>1, <1>3, <2>2, <2>4, TurnsOk
  <2>6. desk.event \in Events BY <1>1, DeskFacts
  <2>7. rows' = rows BY <2>2 DEF Define
  <2> QED BY <2>1, <2>2, <2>5, <2>6, <2>7, DefineOk
<1>5. CASE r.kind # "create"
  <2> DEFINE diff == Differs(r.id, r.set)
             s == [r EXCEPT !.at = "loaded", !.diff = diff]
  <2>1. Part(r.set) BY <1>1, <1>5 DEF RequestOk
  <2>2. Turns(r, s) /\ UNCHANGED db BY <1>5 DEF Loads
  <2>3. Part(diff) BY <2>1, DiffersPart
  <2> HIDE DEF diff
  <2>4. /\ DOMAIN s = DOMAIN r /\ s.no = r.no /\ s.kind = r.kind /\ s.id = r.id /\ s.set = r.set
        /\ s.diff = diff /\ s.on = r.on /\ s.heard = r.heard /\ s.at = "loaded"
    BY <1>2
  <2> HIDE DEF s
  <2>5. RequestOk(s) BY <1>1, <1>5, <2>1, <2>3, <2>4 DEF RequestOk
  <2>6. BuilderTypeOK' BY <1>1, <1>3, <2>2, <2>5, TurnsOk
  <2>7. DbTypeOK' /\ Grown /\ rows' = rows BY <2>2, StillOk
  <2> QED BY <2>6, <2>7
<1> QED BY <1>4, <1>5

LEMMA CommitsOk ==
  ASSUME DbTypeOK, BuilderTypeOK, NEW r \in requests, Commits(r)
  PROVE  BuilderTypeOK' /\ DbTypeOK' /\ Grown /\ rows' = rows
<1> DEFINE none == <<>>
           s == [r EXCEPT !.at = "done", !.diff = none]
<1>1. desk \in Desk /\ RequestOk(r) BY DEF BuilderTypeOK
<1>2. DOMAIN r = {"no", "kind", "id", "set", "diff", "at", "on", "heard"} BY <1>1 DEF RequestOk
<1>3. desk' = desk /\ wish' = wish /\ Turns(r, s) /\ Write(r.id, r.diff) BY DEF Commits
<1>4. Part(none)
  <2>1. \A k \in DOMAIN none : FALSE OBVIOUS
  <2> HIDE DEF none
  <2> QED BY <2>1 DEF Part
<1>5. Part(r.diff)
  <2>1. r.kind = "create" => r.diff = none BY <1>1 DEF RequestOk
  <2>2. r.kind # "create" => Part(r.diff) BY <1>1 DEF RequestOk
  <2> HIDE DEF none
  <2> QED BY <1>4, <2>1, <2>2
<1>6. /\ DOMAIN s = DOMAIN r /\ s.no = r.no /\ s.kind = r.kind /\ s.id = r.id /\ s.set = r.set
      /\ s.diff = none /\ s.on = r.on /\ s.heard = r.heard /\ s.at = "done"
  BY <1>2
<1> HIDE DEF s
<1>7. RequestOk(s)
  <2>1. none = <<>> OBVIOUS
  <2> HIDE DEF none
  <2> QED BY <1>1, <1>4, <1>6, <2>1 DEF RequestOk
<1> HIDE DEF none
<1>8. BuilderTypeOK' BY <1>1, <1>3, <1>7, TurnsOk
<1>9. rows' = rows BY <1>3 DEF Write
<1> QED BY <1>3, <1>5, <1>8, <1>9, WriteOk

LEMMA FailsOk ==
  ASSUME BuilderTypeOK, NEW r \in requests, Fails(r)
  PROVE  BuilderTypeOK'
<1> DEFINE s == [r EXCEPT !.at = "failed"]
<1>1. desk \in Desk /\ RequestOk(r) BY DEF BuilderTypeOK
<1>2. DOMAIN r = {"no", "kind", "id", "set", "diff", "at", "on", "heard"} BY <1>1 DEF RequestOk
<1>3. desk' = desk /\ wish' \in {wish, Nothing} /\ Turns(r, s) BY DEF Fails
<1>4. /\ DOMAIN s = DOMAIN r /\ s.no = r.no /\ s.kind = r.kind /\ s.id = r.id /\ s.set = r.set
      /\ s.diff = r.diff /\ s.on = r.on /\ s.heard = r.heard /\ s.at = "failed"
  BY <1>2
<1> HIDE DEF s
<1>5. RequestOk(s) BY <1>1, <1>4 DEF RequestOk
<1> QED BY <1>1, <1>3, <1>5, TurnsOk

LEMMA SavedOk ==
  ASSUME BuilderTypeOK, NEW r \in requests, Saved(r)
  PROVE  BuilderTypeOK'
<1> DEFINE a == desk.all
           s == [r EXCEPT !.at = "refetch", !.on = a]
           d == Refetched(desk)
<1>1. desk \in Desk /\ RequestOk(r) BY DEF BuilderTypeOK
<1>2. wish' = wish BY DEF Saved
<1>3. CASE r.at = "failed"
  <2>1. requests' = requests \ {r} /\ desk' = desk BY <1>3 DEF Saved
  <2> QED BY <1>1, <1>2, <2>1, GoesOk
<1>4. CASE r.at # "failed"
  <2>1. Turns(r, s) /\ desk' = d BY <1>4 DEF Saved
  <2>2. d \in Desk BY <1>1, RefetchedOk
  <2>3. a \in BOOLEAN BY <1>1, DeskFacts
  <2>4. DOMAIN r = {"no", "kind", "id", "set", "diff", "at", "on", "heard"} BY <1>1 DEF RequestOk
  <2> HIDE DEF a, d
  <2>5. /\ DOMAIN s = DOMAIN r /\ s.no = r.no /\ s.kind = r.kind /\ s.id = r.id /\ s.set = r.set
        /\ s.diff = r.diff /\ s.on = a /\ s.heard = r.heard /\ s.at = "refetch"
    BY <2>4
  <2> HIDE DEF s
  <2>6. RequestOk(s) BY <1>1, <2>3, <2>5 DEF RequestOk
  <2> QED BY <1>2, <2>1, <2>2, <2>6, TurnsOk
<1> QED BY <1>3, <1>4

LEMMA DeactivatedOk ==
  ASSUME BuilderTypeOK, NEW r \in requests, Deactivated(r)
  PROVE  BuilderTypeOK'
<1> DEFINE d == Refetched(desk)
<1>1. desk \in Desk BY DEF BuilderTypeOK
<1>2. d \in Desk BY <1>1, RefetchedOk
<1>3. wish' = wish /\ requests' = requests \ {r} /\ desk' \in {d, desk} BY DEF Deactivated
<1> HIDE DEF d
<1> QED BY <1>1, <1>2, <1>3, GoesOk

LEMMA ForgottenOk ==
  ASSUME BuilderTypeOK, NEW r \in requests, Forgotten(r)
  PROVE  BuilderTypeOK'
<1>1. desk \in Desk BY DEF BuilderTypeOK
<1>2. wish' = wish /\ requests' = requests \ {r} /\ desk' = desk BY DEF Forgotten
<1> QED BY <1>1, <1>2, GoesOk

\* Requests that nothing waits for any more.
LEMMA UnheardOk ==
  ASSUME NEW r, RequestOk(r)
  PROVE  RequestOk([r EXCEPT !.heard = FALSE])
<1> DEFINE s == [r EXCEPT !.heard = FALSE]
<1>1. DOMAIN r = {"no", "kind", "id", "set", "diff", "at", "on", "heard"} BY DEF RequestOk
<1>2. /\ DOMAIN s = DOMAIN r /\ s.no = r.no /\ s.kind = r.kind /\ s.id = r.id /\ s.set = r.set
      /\ s.diff = r.diff /\ s.on = r.on /\ s.at = r.at /\ s.heard = FALSE
  BY <1>1
<1> HIDE DEF s
<1>3. s.heard \in BOOLEAN BY <1>2
<1>4. RequestOk(s) BY <1>2, <1>3 DEF RequestOk
<1> QED BY <1>4 DEF s

LEMMA ReorderedOk ==
  ASSUME BuilderTypeOK, Reordered
  PROVE  BuilderTypeOK'
<1> DEFINE d == Refetched(desk)
           a == desk.all
           R == {r \in Moves : r.at \in {"sent", "loaded"}}
           U == {[r EXCEPT !.heard = FALSE] : r \in R}
<1>1. desk \in Desk /\ \A r \in requests : RequestOk(r) BY DEF BuilderTypeOK
<1>2. d \in Desk /\ a \in BOOLEAN BY <1>1, RefetchedOk, DeskFacts
<1>3. /\ desk' = [d EXCEPT !.moving = "refetch", !.on = a]
      /\ requests' = (requests \ Moves) \union U /\ wish' = wish
  BY DEF Reordered
<1>4. R \subseteq requests BY DEF Moves
<1> HIDE DEF d, a, R
<1>5. desk' \in Desk BY <1>2, <1>3 DEF Desk
<1>6. \A s \in U : RequestOk(s) BY <1>1, <1>4, UnheardOk
<1> HIDE DEF U
<1>7. \A s \in requests' : RequestOk(s) BY <1>1, <1>3, <1>6
<1> QED BY <1>3, <1>5, <1>7 DEF BuilderTypeOK

-----------------------------------------------------------------------------
(* The whole.                                                              *)

LEMMA InitOk ==
  ASSUME Init
  PROVE  IInv
<1>1. /\ cap \in Bounds /\ phase = Events /\ owner = cap.owner /\ field = cap.field /\ rows = <<>>
      /\ fill = [u \in Browsers |-> NewPage] /\ jobs = {} /\ desk = NewDesk(cap.owner[1])
      /\ requests = {} /\ wish = Nothing /\ overlap = FALSE
  BY DEF Init
<1>2. /\ cap.owner \in Seq(Events) /\ cap.field \in Seq(Columns) /\ cap.owner # <<>>
      /\ Len(cap.owner) = Len(cap.field) /\ Len(cap.field) <= MaxFields
  BY <1>1, BoundAssumption DEF Bound
<1>3. DbTypeOK BY <1>1, <1>2 DEF DbTypeOK
<1>4. PageOk(NewPage) /\ FormOk(NewPage) /\ \A e \in Events : NewPage.saved[e] = Nothing
  <2> DEFINE n == NewPage
             none == <<>>
  <2>1. /\ n.event = Nothing /\ n.data = [e \in Events |-> Nothing] /\ n.fetch = [e \in Events |-> NoFetch]
        /\ n.values = none /\ n.base = none /\ n.closed = FALSE /\ n.success = FALSE /\ n.sends = 0
        /\ n.saved = [e \in Events |-> Nothing]
    BY DEF NewPage
  <2>2. FetchOk(NoFetch)
    <3>1. NoFetch.at = "idle" /\ NoFetch.view = Nothing /\ NoFetch.old = FALSE BY DEF NoFetch
    <3>2. NoFetch.old \in BOOLEAN BY <3>1
    <3> QED BY <3>1, <3>2 DEF FetchOk
  <2>3. Over(none, Answer)
    <3>1. DOMAIN none = {} OBVIOUS
    <3> HIDE DEF none
    <3> QED BY <3>1 DEF Over
  <2>4. DOMAIN n = DOMAIN NewPage OBVIOUS
  <2>5. 0 \in 0 .. MaxSends BY FillAssumption
  <2> HIDE DEF n, none
  <2>6. n.closed \in BOOLEAN /\ n.success \in BOOLEAN BY <2>1
  <2>7. \A e \in Events : MaybeOver(n.data[e], SeenField) /\ FetchOk(n.fetch[e]) /\ MaybeOver(n.saved[e], Answer)
    BY <2>1, <2>2 DEF MaybeOver
  <2>8. DOMAIN n.data = Events /\ DOMAIN n.fetch = Events /\ DOMAIN n.saved = Events BY <2>1
  <2>9. PageOk(n) BY <2>1, <2>3, <2>4, <2>5, <2>6, <2>7, <2>8 DEF PageOk, Maybe
  <2>10. FormOk(n) BY <2>1 DEF FormOk, Mounted
  <2> QED BY <2>1, <2>9, <2>10 DEF n
<1>5. FillInv
  <2>1. \A u \in Browsers : fill[u] = NewPage BY <1>1
  <2>2. FillTypeOK BY <1>1, <1>4, <2>1 DEF FillTypeOK
  <2>3. JobsInv BY <1>1, FS_EmptySet DEF JobsInv
  <2>4. AloneInv BY <1>1 DEF AloneInv, OneRow, Reading
  <2>5. SavedInv BY <1>4, <2>1 DEF SavedInv
  <2>6. ViewInv BY <1>4, <2>1 DEF ViewInv, Follows
  <2> QED BY <2>2, <2>3, <2>4, <2>5, <2>6 DEF FillInv
<1>6. BuilderTypeOK
  <2> DEFINE e == cap.owner[1]
             d == desk
             none == <<>>
             read(a) == [NoRead EXCEPT !.at = IF a THEN "idle" ELSE "asked"]
  <2>1. e \in Events BY <1>2
  <2>2. /\ d = NewDesk(e) BY <1>1
  <2> HIDE DEF e, d
  <2>3. none \in Lists BY DEF Lists
  <2>4. \A a \in BOOLEAN : read(a) \in Reads
    <3> DEFINE idle  == [at |-> "idle", list |-> none]
               asked == [at |-> "asked", list |-> none]
    <3>1. \A a \in BOOLEAN : read(a) = idle \/ read(a) = asked BY DEF NoRead
    <3> HIDE DEF none, read
    <3>2. idle \in Reads BY <2>3 DEF Reads
    <3>3. asked \in Reads BY <2>3 DEF Reads
    <3> HIDE DEF idle, asked
    <3> QED BY <3>1, <3>2, <3>3, Zenon
  <2> DEFINE f == [a \in BOOLEAN |-> read(a)]
             v == [a \in BOOLEAN |-> Nothing]
  <2>5. f \in [BOOLEAN -> Reads] BY <2>4
  <2>6. v \in [BOOLEAN -> Maybe(Lists)] BY DEF Maybe
  <2>7. d = [event |-> e, all |-> FALSE, data |-> v, fetch |-> f, dialog |-> Nothing, moving |-> "no",
             on |-> FALSE, edits |-> 0]
    BY <2>2 DEF NewDesk
  <2>8. 0 \in 0 .. MaxEdits BY BuilderAssumption
  <2> HIDE DEF f, v, none
  <2>9. d \in Desk BY <2>1, <2>5, <2>6, <2>7, <2>8 DEF Desk, Reads, Maybe
  <2> QED BY <1>1, <2>9 DEF BuilderTypeOK, d
<1>7. overlap \in BOOLEAN BY <1>1
<1> QED BY <1>1, <1>3, <1>5, <1>6, <1>7 DEF IInv

\* The members at their pages.
LEMMA FillsDb ==
  ASSUME NEW u, Fills(u)
  PROVE  UNCHANGED db
BY DEF Fills, ChooseEvent, GetFillView, FillArrives, FillFails, Received, Leave, Refocus, FillAnother,
       FillField, Submit

LEMMA FillsOk ==
  ASSUME IInv, NEW u \in cap.browsers, Fills(u), overlap => overlap'
  PROVE  DbTypeOK' /\ FillInv'
<1>1. DbTypeOK /\ FillInv /\ cap \in Bounds BY DEF IInv
<1>2. u \in Browsers /\ cap.events \subseteq Events
  <2>1. cap \in Bound BY <1>1, BoundAssumption
  <2> QED BY <2>1, SMTT(60) DEF Bound
<1>3. UNCHANGED db BY FillsDb
<1>4. DbTypeOK' BY <1>1, <1>3, StillOk
<1>5. CASE \E e \in cap.events :
             ChooseEvent(u, e) \/ GetFillView(u, e) \/ FillArrives(u, e) \/ (cap.faults /\ FillFails(u, e))
  <2>1. PICK e \in Events : ChooseEvent(u, e) \/ GetFillView(u, e) \/ FillArrives(u, e) \/ FillFails(u, e)
    BY <1>2, <1>5
  <2> QED BY <1>1, <1>2, <1>4, <2>1, ChooseOk, GetFillViewOk, ArrivesOk, FillFailsOk
<1>6. CASE Leave(u) \/ Refocus(u) \/ FillAnother(u)
  BY <1>1, <1>2, <1>4, <1>6, LeaveOk, RefocusOk, AnotherOk
<1>7. CASE (\E f \in Ids : FillField(u, f)) \/ Submit(u)
  BY <1>1, <1>2, <1>4, <1>7, FillFieldOk, SubmitOk
<1> QED BY <1>5, <1>6, <1>7 DEF Fills

\* Their submissions at the server.
LEMMA ServesOk ==
  ASSUME DbTypeOK, FillInv, NEW m \in jobs, Serves(m), Overlaps
  PROVE  DbTypeOK' /\ FillInv'
<1>1. overlap => overlap' BY DEF Overlaps
<1>2. CASE UpsertWrites(m) BY <1>2, WritesOk
<1>3. CASE UpsertReads(m) \/ UpsertFails(m) \/ Reply(m)
  <2>1. UNCHANGED db BY <1>3 DEF UpsertReads, UpsertFails, Reply
  <2> QED BY <1>1, <1>3, <2>1, StillOk, ReadsOk, UpsertFailsOk, ReplyOk
<1> QED BY <1>2, <1>3 DEF Serves

\* The administrator.
LEMMA BuildsOk ==
  ASSUME DbTypeOK, BuilderTypeOK, Builds
  PROVE  BuilderTypeOK' /\ DbTypeOK' /\ Grown /\ rows' = rows
<1>1. CASE \E a \in BOOLEAN : ListServed(a) \/ ListArrives(a)
  <2>1. PICK a \in BOOLEAN : ListServed(a) \/ ListArrives(a) BY <1>1
  <2>2. UNCHANGED db BY <2>1 DEF ListServed, ListArrives
  <2>3. BuilderTypeOK' BY <2>1, ListServedOk, ListArrivesOk
  <2> QED BY <2>2, <2>3, StillOk
<1>2. CASE CloseDialog \/ Reordered \/ ShowInactive \/ AddField \/ Save
  <2>1. UNCHANGED db BY <1>2 DEF CloseDialog, Reordered, ShowInactive, AddField, Open, Save
  <2>2. BuilderTypeOK' BY <1>2, CloseDialogOk, ReorderedOk, ShowInactiveOk, AddFieldOk, SaveOk
  <2> QED BY <2>1, <2>2, StillOk
<1>3. CASE \E i \in DOMAIN Listed : EditField(i) \/ HandleDeactivate(i) \/ \E j \in DOMAIN Listed : HandleMove(i, j)
  <2>1. PICK i \in DOMAIN Listed : EditField(i) \/ HandleDeactivate(i) \/ \E j \in DOMAIN Listed : HandleMove(i, j)
    BY <1>3
  <2>2. UNCHANGED db BY <2>1 DEF EditField, Open, HandleDeactivate, HandleMove
  <2>3. BuilderTypeOK' BY <2>1, EditFieldOk, DeactivateOk, MoveOk
  <2> QED BY <2>2, <2>3, StillOk
<1>4. CASE \E r \in requests : Loads(r) \/ Commits(r) \/ Fails(r) \/ Saved(r) \/ Deactivated(r) \/ Forgotten(r)
  <2>1. PICK r \in requests : Loads(r) \/ Commits(r) \/ Fails(r) \/ Saved(r) \/ Deactivated(r) \/ Forgotten(r)
    BY <1>4
  <2>2. CASE Loads(r) \/ Commits(r) BY <2>2, LoadsOk, CommitsOk
  <2>3. CASE Fails(r) \/ Saved(r) \/ Deactivated(r) \/ Forgotten(r)
    <3>1. UNCHANGED db BY <2>3 DEF Fails, Saved, Deactivated, Forgotten
    <3>2. BuilderTypeOK' BY <2>3, FailsOk, SavedOk, DeactivatedOk, ForgottenOk
    <3> QED BY <3>1, <3>2, StillOk
  <2> QED BY <2>1, <2>2, <2>3
<1> QED BY <1>1, <1>2, <1>3, <1>4 DEF Builds

LEMMA SwitchPhaseOk ==
  ASSUME DbTypeOK, NEW e \in Events, SwitchPhase(e)
  PROVE  DbTypeOK' /\ Grown /\ rows' = rows
<1>1. owner' = owner /\ field' = field /\ rows' = rows BY DEF SwitchPhase
<1>2. phase' \subseteq Events BY DEF SwitchPhase, DbTypeOK
<1>3. DbTypeOK' BY <1>1, <1>2 DEF DbTypeOK
<1>4. Grown BY <1>1 DEF Grown, Defined
<1> QED BY <1>1, <1>3, <1>4

LEMMA NextOk ==
  ASSUME IInv, [Next]_vars
  PROVE  IInv'
<1>1. DbTypeOK /\ BuilderTypeOK /\ FillInv /\ overlap \in BOOLEAN /\ cap \in Bounds BY DEF IInv
<1>2. CASE /\ (\E u \in cap.browsers : Fills(u)) \/ (\E m \in jobs : Serves(m))
           /\ overlap' = (overlap \/ Cardinality({m \in jobs' : m.at = "read"}) > 1)
           /\ UNCHANGED <<desk, requests, wish, cap>>
  <2>1. Overlaps BY <1>2 DEF Overlaps
  <2>2. overlap => overlap' BY <1>2
  <2>3. overlap' \in BOOLEAN BY <1>2
  <2>4. DbTypeOK' /\ FillInv' BY <1>1, <1>2, <2>1, <2>2, FillsOk, ServesOk
  <2>5. BuilderTypeOK' BY <1>1, <1>2 DEF BuilderTypeOK
  <2> QED BY <1>1, <1>2, <2>3, <2>4, <2>5 DEF IInv
<1>3. CASE Builds /\ UNCHANGED <<fill, jobs, overlap, cap>>
  <2>1. BuilderTypeOK' /\ DbTypeOK' /\ Grown /\ rows' = rows BY <1>1, <1>3, BuildsOk
  <2>2. FillInv' BY <1>1, <1>3, <2>1, FillFrame
  <2> QED BY <1>1, <1>3, <2>1, <2>2 DEF IInv
<1>4. CASE /\ \E e \in cap.events : SwitchPhase(e)
           /\ UNCHANGED <<fill, jobs, desk, requests, wish, overlap, cap>>
  <2>1. cap.events \subseteq Events BY <1>1, BoundAssumption DEF Bound
  <2>2. DbTypeOK' /\ Grown /\ rows' = rows BY <1>1, <1>4, <2>1, SwitchPhaseOk
  <2>3. FillInv' BY <1>1, <1>4, <2>2, FillFrame
  <2>4. BuilderTypeOK' BY <1>1, <1>4 DEF BuilderTypeOK
  <2> QED BY <1>1, <1>4, <2>2, <2>3, <2>4 DEF IInv
<1>5. CASE UNCHANGED vars
  <2>1. UNCHANGED db /\ UNCHANGED <<fill, jobs, desk, requests, wish, overlap, cap>> BY <1>5 DEF vars, db
  <2>2. DbTypeOK' /\ Grown /\ rows' = rows BY <1>1, <2>1, StillOk
  <2>3. FillInv' BY <1>1, <2>1, <2>2, FillFrame
  <2>4. BuilderTypeOK' BY <1>1, <2>1 DEF BuilderTypeOK
  <2> QED BY <1>1, <2>1, <2>2, <2>3, <2>4 DEF IInv
<1> QED BY <1>2, <1>3, <1>4, <1>5 DEF Next

THEOREM OpenSurveyInvariance == Spec => []IInv
<1>1. Init => IInv BY InitOk
<1>2. IInv /\ [Next]_vars => IInv' BY NextOk
<1> QED BY <1>1, <1>2, PTL DEF Spec

\* Every value is of its type: the fields, the answers, the pages with their
\* reads and forms, the submissions, and the builder with its requests.
THEOREM OpenSurveyTypeCorrect == Spec => []TypeOK
<1>1. IInv => TypeOK BY DEF IInv, TypeOK, FillInv
<1> QED BY <1>1, OpenSurveyInvariance, PTL

\* With one row of a field, those that are answered are counted once each.
LEMMA CountExact ==
  ASSUME DbTypeOK, OneRow, NEW e
  PROVE  Completed(e) <=> Answered(e)
<1> DEFINE R == Required(e)
           I == {i \in DOMAIN rows : rows[i][1] \in R /\ rows[i][2] # {}}
           g == [i \in I |-> rows[i][1]]
           B == {g[i] : i \in I}
<1>1. IsFiniteSet(R)
  <2>1. R \subseteq DOMAIN field BY DEF Required, Active, Defined
  <2>2. IsFiniteSet(DOMAIN field) BY DbFacts, FS_Interval
  <2> QED BY <2>1, <2>2, FS_Subset
<1>2. IsFiniteSet(I)
  <2>1. I \subseteq DOMAIN rows OBVIOUS
  <2>2. IsFiniteSet(DOMAIN rows) BY DbFacts, FS_Interval
  <2> QED BY <2>1, <2>2, FS_Subset
<1>3. g \in Bijection(I, B)
  <2>1. g \in [I -> B] OBVIOUS
  <2>2. \A i, j \in I : g[i] = g[j] => i = j BY DEF OneRow
  <2>3. \A b \in B : \E i \in I : g[i] = b OBVIOUS
  <2> HIDE DEF g, I, B
  <2> QED BY <2>1, <2>2, <2>3 DEF Bijection, Injection, Surjection, IsInjective
<1>4. Cardinality(B) = Cardinality(I)
  <2>1. ExistsBijection(I, B) BY <1>3 DEF ExistsBijection
  <2> QED BY <1>2, <2>1, FS_Bijection
<1>5. B \subseteq R OBVIOUS
<1>6. Completed(e) <=> Cardinality(I) >= Cardinality(R) BY DEF Completed, Count
<1>7. B = R <=> Answered(e)
  <2>1. ASSUME B = R
        PROVE  Answered(e)
    <3>1. \A f \in R : \E i \in I : f = rows[i][1] BY <2>1
    <3> QED BY <3>1 DEF Answered, RowsOf
  <2>2. ASSUME Answered(e)
        PROVE  R \subseteq B
    <3>1. \A f \in R : \E i \in I : rows[i][1] = f BY <2>2 DEF Answered, RowsOf
    <3> QED BY <3>1
  <2> QED BY <1>5, <2>1, <2>2
<1> HIDE DEF B, I, R, g
<1>8. /\ IsFiniteSet(B) /\ Cardinality(B) \in Nat /\ Cardinality(R) \in Nat
      /\ Cardinality(B) <= Cardinality(R) /\ (Cardinality(B) = Cardinality(R) => B = R)
  BY <1>1, <1>5, FS_Subset, FS_CardinalityType
<1>9. Completed(e) <=> B = R BY <1>4, <1>6, <1>8
<1> QED BY <1>7, <1>9

\* The overview has an organisation as complete exactly when every required
\* field is answered, unless two of its submissions have overlapped: whatever
\* administrators do to the fields, and however many members submit.
THEOREM OverviewHolds == Spec => []OverviewExact
<1>1. IInv => OverviewExact
  <2> SUFFICES ASSUME IInv, ~overlap, NEW e \in cap.events
               PROVE  Completed(e) <=> Answered(e)
    BY DEF OverviewExact
  <2>1. DbTypeOK /\ OneRow BY DEF IInv, FillInv, AloneInv
  <2> QED BY <2>1, CountExact
<1> QED BY <1>1, OpenSurveyInvariance, PTL

\* What a browser has heard to be saved is not covered by an older view, unless
\* that view was being read, behind another event, when it heard.
THEOREM FillFollowsHolds == Spec => []FillFollows
<1>1. IInv => FillFollows
  <2> SUFFICES ASSUME IInv, NEW u \in cap.browsers, NEW e \in cap.events,
                      fill[u].event = e, fill[u].saved[e] # Nothing,
                      fill[u].fetch[e].at = "idle", fill[u].data[e] # Nothing
               PROVE  Agree(fill[u].data[e], fill[u].saved[e])
    BY DEF FillFollows, Agree
  <2>1. u \in Browsers /\ e \in Events BY BoundAssumption DEF IInv, Bound
  <2> QED BY <2>1 DEF IInv, FillInv, ViewInv, Follows
<1> QED BY <1>1, OpenSurveyInvariance, PTL

-----------------------------------------------------------------------------
(* A move.                                                                 *)

\* A patch that has yet to write the order of field f.
Writes(r, f) == r.kind = "order" /\ r.id = f /\ r.at \in {"sent", "loaded"}

\* A patch of the move gives the field at place k its number: it is to write
\* it, or has seen that it is there.
Patch(r, k) ==
  /\ r.id = wish.ids[k] /\ r.set = [order |-> k - 1]
  /\ r.at = "loaded" => IF "order" \in DOMAIN r.diff THEN r.diff["order"] = k - 1
                        ELSE field[r.id].order = k - 1

\* A move under way, or one that is over, that nothing has disturbed: every
\* field has its number, or a patch that will write it, and nothing else is
\* under way that writes orders.
MoveOn ==
  /\ \A k \in DOMAIN wish.ids : wish.ids[k] \in DOMAIN field
  /\ \A k, l \in DOMAIN wish.ids : wish.ids[k] = wish.ids[l] => k = l
  /\ \A k \in DOMAIN wish.ids :
       field[wish.ids[k]].order = k - 1 \/ \E r \in requests : Writes(r, wish.ids[k])
  /\ \A r \in requests : r.kind # "update"
  /\ \A r \in requests : r.kind = "order" =>
       /\ r.heard /\ r.at \in {"sent", "loaded", "done"} /\ desk.moving = "patches"
       /\ \E k \in DOMAIN wish.ids : Patch(r, k)

\* A deactivation writes no order.
ActiveOnly(r) == r.kind = "deactivate" => "order" \notin DOMAIN r.set /\ "order" \notin DOMAIN r.diff

MoveInv == (\A r \in requests : ActiveOnly(r)) /\ (wish # Nothing => MoveOn)

\* No order of a field changes.
Kept == \A f \in DOMAIN field : f \in DOMAIN field' /\ field'[f].order = field[f].order

\* A request that writes no order.
Plain(r) == r.kind \notin {"update", "order"} /\ ActiveOnly(r)

\* What concerns neither patches nor orders leaves a move as it is.
LEMMA Carried ==
  ASSUME MoveInv, wish' = wish, Kept,
         \A r \in requests' : ActiveOnly(r),
         wish # Nothing => /\ \A r \in requests' : r \in requests \/ Plain(r)
                           /\ \A r \in requests : r.kind = "order" => r \in requests'
                           /\ desk.moving = "patches" => desk'.moving = "patches"
  PROVE  MoveInv'
<1> SUFFICES ASSUME wish # Nothing
             PROVE  MoveOn'
  BY DEF MoveInv
<1>1. MoveOn BY DEF MoveInv
<1>2. \A k \in DOMAIN wish.ids : wish.ids[k] \in DOMAIN field' BY <1>1 DEF MoveOn, Kept
<1>3. \A k \in DOMAIN wish.ids :
        field'[wish.ids[k]].order = k - 1 \/ \E r \in requests' : Writes(r, wish.ids[k])
  <2> TAKE k \in DOMAIN wish.ids
  <2>1. CASE field[wish.ids[k]].order = k - 1 BY <1>1, <2>1 DEF MoveOn, Kept
  <2>2. CASE \E r \in requests : Writes(r, wish.ids[k]) BY <2>2 DEF Writes
  <2> QED BY <1>1, <2>1, <2>2 DEF MoveOn
<1>4. \A r \in requests' : r.kind # "update" BY <1>1 DEF MoveOn, Plain
<1>5. ASSUME NEW r \in requests', r.kind = "order"
      PROVE  /\ r.heard /\ r.at \in {"sent", "loaded", "done"} /\ desk'.moving = "patches"
             /\ \E k \in DOMAIN wish.ids : Patch(r, k)'
  <2>1. r \in requests BY <1>5 DEF Plain
  <2>2. /\ r.heard /\ r.at \in {"sent", "loaded", "done"} /\ desk.moving = "patches"
    BY <1>1, <1>5, <2>1 DEF MoveOn
  <2>3. PICK k \in DOMAIN wish.ids : Patch(r, k) BY <1>1, <1>5, <2>1 DEF MoveOn
  <2>4. field'[r.id].order = field[r.id].order BY <1>1, <2>3 DEF MoveOn, Patch, Kept
  <2>5. Patch(r, k)' BY <2>3, <2>4 DEF Patch
  <2> QED BY <2>2, <2>5
<1> QED BY <1>1, <1>2, <1>3, <1>4, <1>5 DEF MoveOn

\* When the fields are left alone.
LEMMA KeptStill ==
  ASSUME field' = field
  PROVE  Kept
BY DEF Kept

\* The list of the server has each field at most once, with its order.
LEMMA ListFacts ==
  ASSUME DbTypeOK, NEW a
  PROVE  /\ \A k \in DOMAIN List(a) :
              List(a)[k].id \in DOMAIN field /\ List(a)[k].order = field[List(a)[k].id].order
         /\ \A k, l \in DOMAIN List(a) : List(a)[k].id = List(a)[l].id => k = l
<1> DEFINE F == IF a THEN Defined(desk.event) ELSE Active(desk.event)
           ids == Sorted(F)
<1>1. F \subseteq DOMAIN field BY DEF Defined, Active
<1>2. ids \in Seq(F) /\ \A i, j \in DOMAIN ids : ids[i] = ids[j] => i = j BY <1>1, SortedOk
<1>3. ids = ListFields(desk.event, a) BY DEF ListFields
<1> HIDE DEF ids
<1>4. /\ DOMAIN List(a) = DOMAIN ids
      /\ \A k \in DOMAIN ids : List(a)[k].id = ids[k] /\ List(a)[k].order = field[ids[k]].order
  BY <1>3 DEF List
<1>5. \A k \in DOMAIN ids : ids[k] \in F BY <1>2
<1> QED BY <1>1, <1>2, <1>4, <1>5

\* A move that starts from the server's list.
LEMMA MoveStarts ==
  ASSUME DbTypeOK, BuilderTypeOK, MoveInv, NEW i \in DOMAIN Listed, NEW j \in DOMAIN Listed, HandleMove(i, j)
  PROVE  MoveInv'
<1> DEFINE now == Swapped(Listed, i, j)
           at(k) == IF k = i THEN j ELSE IF k = j THEN i ELSE k
<1>1. /\ requests' = requests \union Patches(Listed, now)
      /\ desk' = [desk EXCEPT !.moving = "patches", !.edits = @ + 1]
      /\ wish' = (IF Current THEN [ids |-> [k \in DOMAIN now |-> now[k].id], all |-> desk.all] ELSE Nothing)
      /\ field' = field
  BY DEF HandleMove, db
<1>2. desk'.moving = "patches"
  <2>1. desk \in Desk BY DEF BuilderTypeOK
  <2> QED BY <1>1, <2>1 DEF Desk
<1>3. DOMAIN now = DOMAIN Listed /\ \A k \in DOMAIN Listed : at(k) \in DOMAIN Listed /\ now[k] = Listed[at(k)]
  BY DEF Swapped
<1>4. \A k, l \in DOMAIN Listed : at(k) = at(l) => k = l OBVIOUS
<1> HIDE DEF now, at
<1>5. \A r \in Patches(Listed, now) : \E k \in DOMAIN now :
        /\ r.id = now[k].id /\ r.set = [order |-> k - 1]
        /\ r.kind = "order" /\ r.at = "sent" /\ r.heard = TRUE
  BY DEF Patches, Request
<1>6. \A r \in requests' : ActiveOnly(r) BY <1>1, <1>5 DEF MoveInv, ActiveOnly
<1>7. CASE ~Current BY <1>1, <1>6, <1>7 DEF MoveInv
<1>8. CASE Current
  <2> DEFINE ids == [k \in DOMAIN now |-> now[k].id]
  <2>1. wish' = [ids |-> ids, all |-> desk.all] BY <1>1, <1>8
  <2>2. wish'.ids = ids BY <2>1
  <2>3. DOMAIN ids = DOMAIN Listed /\ \A k \in DOMAIN Listed : ids[k] = Listed[at(k)].id /\ ids[k] = now[k].id
    BY <1>3
  <2> HIDE DEF ids
  <2>4. /\ \A k \in DOMAIN Listed :
             Listed[k].id \in DOMAIN field /\ Listed[k].order = field[Listed[k].id].order
        /\ \A k, l \in DOMAIN Listed : Listed[k].id = Listed[l].id => k = l
    BY <1>8, ListFacts DEF Current
  <2>5. \A r \in requests : r.kind \notin {"update", "order"} BY <1>8 DEF Current
  <2>6. \A k \in DOMAIN ids : ids[k] \in DOMAIN field BY <1>3, <2>3, <2>4
  <2>7. \A k, l \in DOMAIN ids : ids[k] = ids[l] => k = l BY <1>3, <1>4, <2>3, <2>4
  <2>8. \A k \in DOMAIN ids : field[ids[k]].order = k - 1 \/ \E r \in requests' : Writes(r, ids[k])
    <3> TAKE k \in DOMAIN ids
    <3>1. now[k].order = field[ids[k]].order BY <1>3, <2>3, <2>4
    <3>2. CASE now[k].order = k - 1 BY <3>1, <3>2
    <3>3. CASE now[k].order # k - 1
      <4> DEFINE r == Request("order", now[k].id, [order |-> k - 1])
      <4>1. r \in Patches(Listed, now) BY <1>3, <2>3, <3>3 DEF Patches
      <4>2. Writes(r, ids[k]) BY <2>3 DEF Writes, Request
      <4> QED BY <1>1, <4>1, <4>2
    <3> QED BY <3>2, <3>3
  <2>9. \A r \in requests' : r.kind # "update" BY <1>1, <1>5, <2>5
  <2>10. ASSUME NEW r \in requests', r.kind = "order"
         PROVE  /\ r.heard /\ r.at \in {"sent", "loaded", "done"} /\ desk'.moving = "patches"
                /\ \E k \in DOMAIN ids : Patch(r, k)'
    <3>1. r \in Patches(Listed, now) BY <1>1, <2>5, <2>10
    <3>2. PICK k \in DOMAIN now :
            /\ r.id = now[k].id /\ r.set = [order |-> k - 1]
            /\ r.kind = "order" /\ r.at = "sent" /\ r.heard = TRUE
      BY <1>5, <3>1
    <3>3. k \in DOMAIN ids /\ r.id = ids[k] BY <1>3, <2>3, <3>2
    <3>4. Patch(r, k)' BY <2>2, <3>2, <3>3 DEF Patch
    <3> QED BY <1>2, <3>2, <3>3, <3>4
  <2>11. MoveOn' BY <1>1, <2>2, <2>6, <2>7, <2>8, <2>9, <2>10 DEF MoveOn
  <2> QED BY <1>6, <2>11 DEF MoveInv
<1> QED BY <1>7, <1>8

\* The endpoints.
LEMMA MoveLoads ==
  ASSUME DbTypeOK, BuilderTypeOK, MoveInv, NEW r \in requests, Loads(r)
  PROVE  MoveInv'
<1>1. RequestOk(r) /\ ActiveOnly(r) BY DEF BuilderTypeOK, MoveInv
<1>2. DOMAIN r = {"no", "kind", "id", "set", "diff", "at", "on", "heard"} BY <1>1 DEF RequestOk
<1>3. desk' = desk /\ wish' = wish /\ r.at = "sent" BY DEF Loads
<1>4. \A q \in requests : ActiveOnly(q) BY DEF MoveInv
<1>5. CASE r.kind = "create"
  <2> DEFINE s == [r EXCEPT !.at = "done"]
  <2>1. Define(desk.event, r.set) /\ Turns(r, s) BY <1>5 DEF Loads
  <2>2. s.kind = "create" BY <1>2, <1>5
  <2> HIDE DEF s
  <2>3. Plain(s) BY <2>2 DEF Plain, ActiveOnly
  <2>4. Kept
    <3>1. field \in Seq(Columns) /\ field' = Append(field, r.set) BY <2>1 DEF DbTypeOK, Define
    <3>2. Len(field) \in Nat /\ DOMAIN field = 1 .. Len(field) BY <3>1
    <3>3. DOMAIN field' = 1 .. Len(field) + 1 /\ \A f \in 1 .. Len(field) : field'[f] = field[f] BY <3>1
    <3> QED BY <3>2, <3>3 DEF Kept
  <2>5. \A q \in requests' : q \in requests \/ q = s BY <2>1 DEF Turns
  <2>6. \A q \in requests : q.kind = "order" => q \in requests' BY <1>5, <2>1 DEF Turns
  <2>7. \A q \in requests' : ActiveOnly(q) BY <1>4, <2>3, <2>5 DEF Plain
  <2> QED BY <1>3, <2>3, <2>4, <2>5, <2>6, <2>7, Carried
<1>6. CASE r.kind # "create"
  <2> DEFINE diff == Differs(r.id, r.set)
             loaded == [r EXCEPT !.at = "loaded", !.diff = diff]
  <2>0. PICK s : s = loaded OBVIOUS
  <2>1. Turns(r, s) /\ field' = field BY <1>6, <2>0 DEF Loads, db
  <2>2. /\ DOMAIN diff = {k \in DOMAIN r.set : r.set[k] # field[r.id][k]}
        /\ \A k \in DOMAIN diff : diff[k] = r.set[k]
    BY DEF Differs
  <2> HIDE DEF diff
  <2>3. s.kind = r.kind /\ s.id = r.id /\ s.set = r.set /\ s.diff = diff /\ s.heard = r.heard /\ s.at = "loaded"
    BY <1>2, <2>0
  <2>4. ActiveOnly(s) BY <1>1, <2>2, <2>3 DEF ActiveOnly
  <2>5. \A q \in requests' : q \in requests \/ q = s BY <2>1 DEF Turns
  <2>6. \A q \in requests' : ActiveOnly(q) BY <1>4, <2>4, <2>5
  <2>7. CASE r.kind # "order"
    <3>1. \A q \in requests : q.kind = "order" => q \in requests' BY <2>1, <2>7 DEF Turns
    <3>2. wish # Nothing => Plain(s) BY <2>3, <2>4, <2>7 DEF Plain, MoveInv, MoveOn
    <3> QED BY <1>3, <2>1, <2>5, <2>6, <3>1, <3>2, Carried, KeptStill
  <2>8. CASE r.kind = "order" /\ wish # Nothing
    <3>1. MoveOn BY <2>8 DEF MoveInv
    <3>2. PICK k \in DOMAIN wish.ids : Patch(r, k) BY <2>8, <3>1 DEF MoveOn
    <3>3. r.id = wish.ids[k] /\ r.set = [order |-> k - 1] BY <3>2 DEF Patch
    <3>4. DOMAIN r.set = {"order"} /\ r.set["order"] = k - 1 BY <3>3
    <3>5. IF "order" \in DOMAIN diff THEN diff["order"] = k - 1 ELSE field[r.id].order = k - 1
      BY <2>2, <3>4
    <3>6. Patch(s, k)'
      <4>1. s.id = wish'.ids[k] /\ s.set = [order |-> k - 1] BY <1>3, <2>3, <3>3
      <4>2. IF "order" \in DOMAIN s.diff THEN s.diff["order"] = k - 1 ELSE field'[s.id].order = k - 1
        BY <2>1, <2>3, <3>5
      <4> QED BY <4>1, <4>2 DEF Patch
    <3>7. \A n \in DOMAIN wish.ids :
            field'[wish.ids[n]].order = n - 1 \/ \E q \in requests' : Writes(q, wish.ids[n])
      <4> TAKE n \in DOMAIN wish.ids
      <4>1. CASE \E q \in requests : Writes(q, wish.ids[n])
        <5>1. PICK q \in requests : Writes(q, wish.ids[n]) BY <4>1
        <5>2. CASE q = r
          <6>1. Writes(s, wish.ids[n]) BY <2>3, <5>1, <5>2 DEF Writes
          <6> QED BY <2>1, <6>1 DEF Turns
        <5>3. CASE q # r BY <2>1, <5>1, <5>3 DEF Turns
        <5> QED BY <5>2, <5>3
      <4> QED BY <2>1, <3>1, <4>1 DEF MoveOn
    <3>8. \A q \in requests : \A n : Patch(q, n) => Patch(q, n)' BY <1>3, <2>1 DEF Patch
    <3>9. \A q \in requests' : q.kind = "order" =>
            /\ q.heard /\ q.at \in {"sent", "loaded", "done"} /\ desk'.moving = "patches"
            /\ \E n \in DOMAIN wish.ids : Patch(q, n)'
      <4>1. r.heard /\ desk.moving = "patches" BY <2>8, <3>1 DEF MoveOn
      <4>2. \A q \in requests : q.kind = "order" =>
              /\ q.heard /\ q.at \in {"sent", "loaded", "done"}
              /\ \E n \in DOMAIN wish.ids : Patch(q, n)'
        BY <3>1, <3>8 DEF MoveOn
      <4>3. s.heard /\ s.at \in {"sent", "loaded", "done"} BY <2>3, <4>1
      <4> QED BY <1>3, <2>5, <3>6, <4>1, <4>2, <4>3
    <3>10. \A q \in requests' : q.kind # "update" BY <2>3, <2>5, <2>8, <3>1 DEF MoveOn
    <3>11. MoveOn' BY <1>3, <2>1, <3>1, <3>7, <3>9, <3>10 DEF MoveOn
    <3> QED BY <2>6, <3>11 DEF MoveInv
  <2>9. CASE wish = Nothing BY <1>3, <2>6, <2>9 DEF MoveInv
  <2> QED BY <2>7, <2>8, <2>9
<1> QED BY <1>5, <1>6

LEMMA MoveCommits ==
  ASSUME DbTypeOK, BuilderTypeOK, MoveInv, NEW r \in requests, Commits(r)
  PROVE  MoveInv'
<1> DEFINE none == <<>>
           s == [r EXCEPT !.at = "done", !.diff = none]
           f == r.id
           new == Patched(field[f], r.diff)
<1>1. RequestOk(r) /\ ActiveOnly(r) /\ r.at = "loaded" BY DEF BuilderTypeOK, MoveInv, Commits
<1>2. DOMAIN r = {"no", "kind", "id", "set", "diff", "at", "on", "heard"} BY <1>1 DEF RequestOk
<1>3. desk' = desk /\ wish' = wish /\ Turns(r, s) BY DEF Commits
<1>4. \A q \in requests : ActiveOnly(q) BY DEF MoveInv
<1>5. DOMAIN field' = DOMAIN field /\ \A g \in DOMAIN field : field'[g] = IF g = f THEN new ELSE field[g]
  BY DEF Commits, Write
<1>6. f \in DOMAIN field =>
        new.order = IF "order" \in DOMAIN r.diff THEN r.diff["order"] ELSE field[f].order
  <2> HAVE f \in DOMAIN field
  <2>1. field[f] \in Columns BY DbFacts
  <2>2. DOMAIN field[f] = {"type", "options", "required", "order", "active"} BY <2>1 DEF Columns
  <2> HIDE DEF f
  <2> QED BY <2>2 DEF Patched
<1>7. /\ s.kind = r.kind /\ s.id = r.id /\ s.set = r.set /\ s.diff = none /\ s.heard = r.heard /\ s.at = "done"
  BY <1>2
<1>8. DOMAIN none = {} OBVIOUS
<1> HIDE DEF s, new, none
<1>9. ActiveOnly(s) BY <1>1, <1>7, <1>8 DEF ActiveOnly
<1>10. \A q \in requests' : q \in requests \/ q = s BY <1>3 DEF Turns
<1>11. \A q \in requests' : ActiveOnly(q) BY <1>4, <1>9, <1>10
<1>12. CASE r.kind \in {"create", "deactivate"}
  <2>1. "order" \notin DOMAIN r.diff
    <3>1. CASE r.kind = "create"
      <4>1. r.diff = none BY <1>1, <3>1 DEF RequestOk, none
      <4> QED BY <1>8, <4>1
    <3>2. CASE r.kind = "deactivate" BY <1>1, <3>2 DEF ActiveOnly
    <3> QED BY <1>12, <3>1, <3>2
  <2>2. Kept BY <1>5, <1>6, <2>1 DEF Kept
  <2>3. \A q \in requests : q.kind = "order" => q \in requests' BY <1>3, <1>12 DEF Turns
  <2>4. Plain(s) BY <1>7, <1>9, <1>12 DEF Plain
  <2> QED BY <1>3, <1>10, <1>11, <2>2, <2>3, <2>4, Carried
<1>13. CASE wish = Nothing BY <1>3, <1>11, <1>13 DEF MoveInv
<1>14. CASE wish # Nothing /\ r.kind = "order"
  <2>1. MoveOn BY <1>14 DEF MoveInv
  <2>2. PICK k \in DOMAIN wish.ids : Patch(r, k) BY <1>14, <2>1 DEF MoveOn
  <2>3. f = wish.ids[k] /\ f \in DOMAIN field BY <2>1, <2>2 DEF Patch, MoveOn
  <2>4. field'[f].order = k - 1 BY <1>1, <1>5, <1>6, <2>2, <2>3 DEF Patch
  <2>5. \A g \in DOMAIN field : g # f => field'[g] = field[g] BY <1>5
  <2>6. \A n \in DOMAIN wish.ids : wish.ids[n] = f => n = k BY <2>1, <2>3 DEF MoveOn
  <2> HIDE DEF f
  <2>7. \A n \in DOMAIN wish.ids :
          field'[wish.ids[n]].order = n - 1 \/ \E q \in requests' : Writes(q, wish.ids[n])
    <3> TAKE n \in DOMAIN wish.ids
    <3>1. CASE wish.ids[n] = f BY <2>4, <2>6, <3>1
    <3>2. CASE wish.ids[n] # f
      <4>1. field'[wish.ids[n]] = field[wish.ids[n]] BY <2>1, <2>5, <3>2 DEF MoveOn
      <4>2. \A q \in requests : Writes(q, wish.ids[n]) => q \in requests' BY <1>3, <3>2 DEF Writes, Turns, f
      <4> QED BY <2>1, <4>1, <4>2 DEF MoveOn
    <3> QED BY <3>1, <3>2
  <2>8. ASSUME NEW q \in requests, NEW n \in DOMAIN wish.ids, Patch(q, n)
        PROVE  Patch(q, n)'
    <3>1. CASE q.id = f
      <4>1. n = k BY <2>6, <2>8, <3>1 DEF Patch
      <4> QED BY <1>3, <2>4, <2>8, <3>1, <4>1 DEF Patch
    <3>2. CASE q.id # f
      <4>1. q.id \in DOMAIN field BY <2>1, <2>8 DEF Patch, MoveOn
      <4> QED BY <1>3, <2>5, <2>8, <3>2, <4>1 DEF Patch
    <3> QED BY <3>1, <3>2
  <2>9. Patch(s, k)' BY <1>3, <1>7, <2>2 DEF Patch
  <2>10. \A q \in requests' : q.kind = "order" =>
           /\ q.heard /\ q.at \in {"sent", "loaded", "done"} /\ desk'.moving = "patches"
           /\ \E n \in DOMAIN wish.ids : Patch(q, n)'
    <3>1. r.heard /\ desk.moving = "patches" BY <1>14, <2>1 DEF MoveOn
    <3>2. \A q \in requests : q.kind = "order" =>
            /\ q.heard /\ q.at \in {"sent", "loaded", "done"}
            /\ \E n \in DOMAIN wish.ids : Patch(q, n)'
      BY <2>1, <2>8 DEF MoveOn
    <3> QED BY <1>3, <1>7, <1>10, <2>9, <3>1, <3>2
  <2>11. \A q \in requests' : q.kind # "update" BY <1>7, <1>10, <1>14, <2>1 DEF MoveOn
  <2>12. \A n \in DOMAIN wish.ids : wish.ids[n] \in DOMAIN field' BY <1>5, <2>1 DEF MoveOn
  <2>13. MoveOn' BY <1>3, <2>1, <2>7, <2>10, <2>11, <2>12 DEF MoveOn
  <2> QED BY <1>11, <2>13 DEF MoveInv
<1>15. r.kind \in {"create", "deactivate", "order", "update"} BY <1>1 DEF RequestOk, Kinds
<1>16. wish # Nothing => r.kind # "update" BY DEF MoveInv, MoveOn
<1> QED BY <1>12, <1>13, <1>14, <1>15, <1>16

\* The answers.
LEMMA MoveFails ==
  ASSUME BuilderTypeOK, MoveInv, NEW r \in requests, Fails(r)
  PROVE  MoveInv'
<1> DEFINE s == [r EXCEPT !.at = "failed"]
<1>1. RequestOk(r) /\ ActiveOnly(r) /\ \A q \in requests : ActiveOnly(q) BY DEF BuilderTypeOK, MoveInv
<1>2. DOMAIN r = {"no", "kind", "id", "set", "diff", "at", "on", "heard"} BY <1>1 DEF RequestOk
<1>3. /\ desk' = desk /\ field' = field /\ Turns(r, s)
      /\ wish' = IF r.kind = "order" THEN Nothing ELSE wish
  BY DEF Fails, db
<1>4. s.kind = r.kind /\ s.set = r.set /\ s.diff = r.diff BY <1>2
<1> HIDE DEF s
<1>5. ActiveOnly(s) BY <1>1, <1>4 DEF ActiveOnly
<1>6. \A q \in requests' : q \in requests \/ q = s BY <1>3 DEF Turns
<1>7. \A q \in requests' : ActiveOnly(q) BY <1>1, <1>5, <1>6
<1>8. CASE r.kind = "order" BY <1>3, <1>7, <1>8 DEF MoveInv
<1>9. CASE r.kind # "order"
  <2>1. \A q \in requests : q.kind = "order" => q \in requests' BY <1>3, <1>9 DEF Turns
  <2>2. wish # Nothing => Plain(s) BY <1>4, <1>5, <1>9 DEF Plain, MoveInv, MoveOn
  <2> QED BY <1>3, <1>6, <1>7, <1>9, <2>1, <2>2, Carried, KeptStill
<1> QED BY <1>8, <1>9

\* A refetch leaves the move where it is.
LEMMA SameMove ==
  ASSUME desk \in Desk
  PROVE  Refetched(desk).moving = desk.moving
BY DEF Desk, Refetched

LEMMA MoveSaved ==
  ASSUME BuilderTypeOK, MoveInv, NEW r \in requests, Saved(r)
  PROVE  MoveInv'
<1> DEFINE on == desk.all
           after == [r EXCEPT !.at = "refetch", !.on = on]
<1>1. RequestOk(r) /\ ActiveOnly(r) /\ (\A q \in requests : ActiveOnly(q)) /\ desk \in Desk
  BY DEF BuilderTypeOK, MoveInv
<1>2. DOMAIN r = {"no", "kind", "id", "set", "diff", "at", "on", "heard"} BY <1>1 DEF RequestOk
<1>3. field' = field /\ wish' = wish /\ r.kind \in {"create", "update"} BY DEF Saved, db
<1>4. desk'.moving = desk.moving BY <1>1, SameMove DEF Saved
<1>5. PICK s : s = after OBVIOUS
<1>6. requests' = requests \ {r} \/ Turns(r, s) BY <1>5 DEF Saved
<1>7. s.kind = r.kind BY <1>2, <1>5
<1>8. ActiveOnly(s) BY <1>3, <1>7 DEF ActiveOnly
<1>9. \A q \in requests' : q \in requests \/ q = s BY <1>6 DEF Turns
<1>10. \A q \in requests' : ActiveOnly(q) BY <1>1, <1>8, <1>9
<1>11. \A q \in requests : q.kind = "order" => q \in requests' BY <1>3, <1>6 DEF Turns
<1>12. wish # Nothing => Plain(s) BY <1>3, <1>7, <1>8 DEF Plain, MoveInv, MoveOn
<1> QED BY <1>3, <1>4, <1>9, <1>10, <1>11, <1>12, Carried, KeptStill

\* A request that goes is of no move that matters.
LEMMA MoveGoes ==
  ASSUME BuilderTypeOK, MoveInv, NEW r \in requests, Deactivated(r) \/ Forgotten(r)
  PROVE  MoveInv'
<1>1. desk \in Desk /\ \A q \in requests : ActiveOnly(q) BY DEF BuilderTypeOK, MoveInv
<1>2. field' = field /\ wish' = wish /\ requests' = requests \ {r} BY DEF Deactivated, Forgotten, db
<1>3. desk'.moving = desk.moving BY <1>1, SameMove DEF Deactivated, Forgotten
<1>4. wish # Nothing => r.kind # "order" BY DEF Deactivated, Forgotten, MoveInv, MoveOn
<1> QED BY <1>1, <1>2, <1>3, <1>4, Carried, KeptStill

\* A move is over when its patches are.
LEMMA MoveEnds ==
  ASSUME BuilderTypeOK, MoveInv, Reordered
  PROVE  MoveInv'
<1> DEFINE R == {r \in Moves : r.at \in {"sent", "loaded"}}
           U == {[r EXCEPT !.heard = FALSE] : r \in R}
<1>1. \A r \in requests : ActiveOnly(r) /\ RequestOk(r) BY DEF MoveInv, BuilderTypeOK
<1>2. field' = field /\ wish' = wish /\ requests' = (requests \ Moves) \union U BY DEF Reordered, db
<1>3. \A r \in Moves : r \in requests /\ r.kind = "order" BY DEF Moves
<1>4. \A q \in U : q.kind = "order"
  <2> SUFFICES ASSUME NEW r \in R PROVE [r EXCEPT !.heard = FALSE].kind = "order" OBVIOUS
  <2>1. DOMAIN r = {"no", "kind", "id", "set", "diff", "at", "on", "heard"} BY <1>1, <1>3 DEF RequestOk
  <2> QED BY <1>3, <2>1
<1>5. \A q \in requests' : ActiveOnly(q)
  <2> HIDE DEF U
  <2> QED BY <1>1, <1>2, <1>4 DEF ActiveOnly
<1>6. ASSUME wish # Nothing
      PROVE  MoveOn'
  <2>1. MoveOn BY <1>6 DEF MoveInv
  <2>2. \A r \in requests : r.kind = "order" => r \in Moves /\ r.at # "failed" BY <2>1 DEF MoveOn, Moves
  <2>3. \A r \in Moves : r.at = "done" BY <1>3, <2>2 DEF Reordered
  <2>4. U = {} BY <2>3
  <2> HIDE DEF U
  <2>5. requests' = requests \ Moves BY <1>2, <2>4
  <2>6. \A r \in requests' : r.kind \notin {"update", "order"} BY <2>1, <2>2, <2>5 DEF MoveOn
  <2>7. \A k \in DOMAIN wish.ids : field'[wish.ids[k]].order = k - 1
    <3> TAKE k \in DOMAIN wish.ids
    <3>1. ~ \E r \in requests : Writes(r, wish.ids[k]) BY <2>2, <2>3 DEF Writes
    <3> QED BY <1>2, <2>1, <3>1 DEF MoveOn
  <2> QED BY <1>2, <2>1, <2>6, <2>7 DEF MoveOn
<1> QED BY <1>2, <1>5, <1>6 DEF MoveInv

\* The list and the dialog.
LEMMA MoveListArrives ==
  ASSUME BuilderTypeOK, MoveInv, NEW a \in BOOLEAN, ListArrives(a)
  PROVE  MoveInv'
<1>1. desk \in Desk /\ \A q \in requests : ActiveOnly(q) BY DEF BuilderTypeOK, MoveInv
<1>2. field' = field /\ wish' = wish /\ requests' = requests \ Awaited(a) BY DEF ListArrives, db
<1>3. desk.moving = "patches" => desk'.moving = "patches"
  <2> HAVE desk.moving = "patches"
  <2> DEFINE n == IF \E r \in Awaited(a) : r.heard THEN Nothing ELSE desk.dialog
             f == [desk.fetch EXCEPT ![a] = NoRead]
             v == [desk.data EXCEPT ![a] = desk.fetch[a].list]
             m == IF desk.moving = "refetch" /\ desk.on = a THEN "no" ELSE desk.moving
  <2>1. desk' = [desk EXCEPT !.fetch = f, !.data = v, !.moving = m, !.dialog = n] BY DEF ListArrives
  <2>2. m = "patches" OBVIOUS
  <2> HIDE DEF n, f, v, m
  <2> QED BY <1>1, <2>1, <2>2 DEF Desk
<1>4. wish # Nothing => \A q \in requests : q.kind = "order" => q \in requests'
  BY <1>2 DEF MoveInv, MoveOn, Awaited
<1> QED BY <1>1, <1>2, <1>3, <1>4, Carried, KeptStill

LEMMA MoveCloses ==
  ASSUME BuilderTypeOK, MoveInv, CloseDialog
  PROVE  MoveInv'
<1> DEFINE n(r) == IF r.kind \in {"create", "update"} THEN [r EXCEPT !.heard = FALSE] ELSE r
<1>1. desk \in Desk /\ \A q \in requests : ActiveOnly(q) /\ RequestOk(q) BY DEF BuilderTypeOK, MoveInv
<1>2. /\ field' = field /\ wish' = wish /\ desk' = [desk EXCEPT !.dialog = Nothing]
      /\ requests' = {n(r) : r \in requests}
  BY DEF CloseDialog, db
<1>3. desk'.moving = desk.moving BY <1>1, <1>2 DEF Desk
<1>4. \A r \in requests : n(r).kind = r.kind
  <2> TAKE r \in requests
  <2>1. DOMAIN r = {"no", "kind", "id", "set", "diff", "at", "on", "heard"} BY <1>1 DEF RequestOk
  <2> QED BY <2>1
<1>5. \A r \in requests : r.kind \notin {"create", "update"} => n(r) = r OBVIOUS
<1> HIDE DEF n
<1>6. \A q \in requests' : ActiveOnly(q)
  <2> SUFFICES ASSUME NEW r \in requests PROVE ActiveOnly(n(r)) BY <1>2
  <2> QED BY <1>1, <1>4, <1>5 DEF ActiveOnly
<1>7. \A q \in requests : q.kind = "order" => q \in requests' BY <1>2, <1>5
<1>8. wish # Nothing => \A q \in requests' : q \in requests \/ Plain(q)
  <2> SUFFICES ASSUME wish # Nothing, NEW r \in requests PROVE n(r) \in requests \/ Plain(n(r)) BY <1>2
  <2>1. r.kind # "update" BY DEF MoveInv, MoveOn
  <2>2. CASE r.kind = "create" BY <1>4, <2>2 DEF Plain, ActiveOnly
  <2>3. CASE r.kind # "create" BY <1>5, <2>1, <2>3
  <2> QED BY <2>2, <2>3
<1> QED BY <1>2, <1>3, <1>6, <1>7, <1>8, Carried, KeptStill

LEMMA MoveSaves ==
  ASSUME BuilderTypeOK, MoveInv, Save
  PROVE  MoveInv'
<1> DEFINE d == desk.dialog
           kind == IF d.id = 0 THEN "create" ELSE "update"
<1>1. desk \in Desk /\ \A q \in requests : ActiveOnly(q) BY DEF BuilderTypeOK, MoveInv
<1>2. /\ field' = field /\ wish' = (IF d.id = 0 THEN wish ELSE Nothing)
      /\ desk' = [desk EXCEPT !.edits = @ + 1]
  BY DEF Save, db
<1>3. desk'.moving = desk.moving BY <1>1, <1>2 DEF Desk
<1>4. PICK c : requests' = requests \union {Request(kind, d.id, c)} BY DEF Save
<1>5. PICK s : s = Request(kind, d.id, c) OBVIOUS
<1>6. s.kind = kind /\ kind \in {"create", "update"} BY <1>5 DEF Request
<1>7. ActiveOnly(s) BY <1>6 DEF ActiveOnly
<1>8. \A q \in requests' : ActiveOnly(q) BY <1>1, <1>4, <1>5, <1>7
<1>9. CASE d.id # 0 BY <1>2, <1>8, <1>9 DEF MoveInv
<1>10. CASE d.id = 0
  <2>1. Plain(s) BY <1>6, <1>7, <1>10 DEF Plain
  <2> QED BY <1>2, <1>3, <1>4, <1>5, <1>8, <1>10, <2>1, Carried, KeptStill
<1> QED BY <1>9, <1>10

LEMMA MoveDeactivates ==
  ASSUME BuilderTypeOK, MoveInv, NEW i, HandleDeactivate(i)
  PROVE  MoveInv'
<1> DEFINE set == [active |-> FALSE]
           none == <<>>
<1>1. desk \in Desk /\ \A q \in requests : ActiveOnly(q) BY DEF BuilderTypeOK, MoveInv
<1>2. PICK s : s = Request("deactivate", Listed[i].id, set) OBVIOUS
<1>3. /\ field' = field /\ wish' = wish /\ requests' = requests \union {s}
      /\ desk' = [desk EXCEPT !.edits = @ + 1]
  BY <1>2 DEF HandleDeactivate, db
<1>4. desk'.moving = desk.moving BY <1>1, <1>3 DEF Desk
<1>5. s.kind = "deactivate" /\ s.set = set /\ s.diff = none BY <1>2 DEF Request
<1>6. "order" \notin DOMAIN set /\ "order" \notin DOMAIN none OBVIOUS
<1> HIDE DEF set, none
<1>7. Plain(s) BY <1>5, <1>6 DEF Plain, ActiveOnly
<1>8. \A q \in requests' : ActiveOnly(q) BY <1>1, <1>3, <1>7 DEF Plain
<1> QED BY <1>3, <1>4, <1>7, <1>8, Carried, KeptStill

\* What leaves the requests alone.
LEMMA MoveFrame ==
  ASSUME MoveInv, field' = field, requests' = requests, wish' = wish, desk'.moving = desk.moving
  PROVE  MoveInv'
<1>1. \A q \in requests' : ActiveOnly(q) BY DEF MoveInv
<1> QED BY <1>1, Carried, KeptStill

LEMMA MoveBuilds ==
  ASSUME DbTypeOK, BuilderTypeOK, MoveInv, Builds
  PROVE  MoveInv'
<1>1. desk \in Desk BY DEF BuilderTypeOK
<1>2. CASE \E a \in BOOLEAN : ListServed(a) \/ ListArrives(a)
  <2>1. PICK a \in BOOLEAN : ListServed(a) \/ ListArrives(a) BY <1>2
  <2>2. CASE ListServed(a)
    <3> DEFINE f == [desk.fetch EXCEPT ![a] = [at |-> "served", list |-> List(a)]]
    <3>1. desk' = [desk EXCEPT !.fetch = f] /\ field' = field /\ requests' = requests /\ wish' = wish
      BY <2>2 DEF ListServed, db
    <3> HIDE DEF f
    <3>2. desk'.moving = desk.moving BY <1>1, <3>1 DEF Desk
    <3> QED BY <3>1, <3>2, MoveFrame
  <2> QED BY <2>1, <2>2, MoveListArrives
<1>3. CASE CloseDialog \/ Reordered \/ Save BY <1>3, MoveCloses, MoveEnds, MoveSaves
<1>4. CASE ShowInactive
  <2> DEFINE n == ~desk.all
             f == [desk.fetch EXCEPT ![n].at = IF @ = "idle" THEN "asked" ELSE @]
  <2>1. desk' = [desk EXCEPT !.all = n, !.fetch = f] /\ field' = field /\ requests' = requests /\ wish' = wish
    BY <1>4 DEF ShowInactive, db
  <2> HIDE DEF n, f
  <2>2. desk'.moving = desk.moving BY <1>1, <2>1 DEF Desk
  <2> QED BY <2>1, <2>2, MoveFrame
<1>5. ASSUME NEW id, NEW form, Open(id, form)
      PROVE  MoveInv'
  <2> DEFINE n == [id |-> id, form |-> form]
  <2>1. desk' = [desk EXCEPT !.dialog = n] /\ field' = field /\ requests' = requests /\ wish' = wish
    BY <1>5 DEF Open, db
  <2> HIDE DEF n
  <2>2. desk'.moving = desk.moving BY <1>1, <2>1 DEF Desk
  <2> QED BY <2>1, <2>2, MoveFrame
<1>6. CASE AddField BY <1>5, <1>6 DEF AddField
<1>7. CASE \E i \in DOMAIN Listed : EditField(i) \/ HandleDeactivate(i) \/ \E j \in DOMAIN Listed : HandleMove(i, j)
  <2>1. PICK i \in DOMAIN Listed : EditField(i) \/ HandleDeactivate(i) \/ \E j \in DOMAIN Listed : HandleMove(i, j)
    BY <1>7
  <2>2. CASE EditField(i) BY <1>5, <2>2 DEF EditField
  <2> QED BY <2>1, <2>2, MoveDeactivates, MoveStarts
<1>8. CASE \E r \in requests : Loads(r) \/ Commits(r) \/ Fails(r) \/ Saved(r) \/ Deactivated(r) \/ Forgotten(r)
  BY <1>8, MoveLoads, MoveCommits, MoveFails, MoveSaved, MoveGoes
<1> QED BY <1>2, <1>3, <1>4, <1>6, <1>7, <1>8 DEF Builds

LEMMA MoveNext ==
  ASSUME IInv, MoveInv, [Next]_vars
  PROVE  MoveInv'
<1>1. CASE Builds BY <1>1, MoveBuilds DEF IInv
<1>2. ASSUME field' = field, UNCHANGED <<desk, requests, wish>>
      PROVE  MoveInv'
  BY <1>2, MoveFrame
<1>3. CASE (\E u \in cap.browsers : Fills(u)) /\ UNCHANGED <<desk, requests, wish>>
  <2>1. UNCHANGED db BY <1>3, FillsDb
  <2>2. field' = field BY <2>1 DEF db
  <2> QED BY <1>2, <1>3, <2>2
<1>4. CASE (\E m \in jobs : Serves(m)) /\ UNCHANGED <<desk, requests, wish>>
  <2>1. PICK m \in jobs : Serves(m) BY <1>4
  <2>2. CASE UpsertWrites(m)
    <3>1. field' = field BY <2>2 DEF UpsertWrites, Upsert
    <3> QED BY <1>2, <1>4, <3>1
  <2>3. CASE UpsertReads(m) \/ UpsertFails(m) \/ Reply(m)
    <3>1. UNCHANGED db BY <2>3 DEF UpsertReads, UpsertFails, Reply
    <3>2. field' = field BY <3>1 DEF db
    <3> QED BY <1>2, <1>4, <3>2
  <2> QED BY <2>1, <2>2, <2>3 DEF Serves
<1>5. CASE (\E e \in cap.events : SwitchPhase(e)) /\ UNCHANGED <<desk, requests, wish>>
  <2>1. field' = field BY <1>5 DEF SwitchPhase
  <2> QED BY <1>2, <1>5, <2>1
<1>6. CASE UNCHANGED vars BY <1>2, <1>6 DEF vars
<1> QED BY <1>1, <1>3, <1>4, <1>5, <1>6 DEF Next

\* A move in a list that is the server's ends in the order that was shown for
\* it, however its patches are served and whatever is added or deactivated
\* meanwhile.
THEOREM MovesHold == Spec => []OrderAsMoved
<1>1. Init => MoveInv BY DEF Init, MoveInv
<1>2. IInv /\ MoveInv /\ [Next]_vars => MoveInv' BY MoveNext
<1>3. IInv /\ MoveInv => OrderAsMoved
  <2> DEFINE F == IF wish.all THEN Defined(desk.event) ELSE Active(desk.event)
             now == ListFields(desk.event, wish.all)
  <2> SUFFICES ASSUME IInv, MoveInv, wish # Nothing, desk.moving # "patches",
                      NEW i \in DOMAIN wish.ids, NEW j \in DOMAIN wish.ids, NEW k \in DOMAIN now, NEW l \in DOMAIN now,
                      i < j, now[k] = wish.ids[i], now[l] = wish.ids[j]
               PROVE  k < l
    BY DEF OrderAsMoved
  <2>1. DbTypeOK /\ BuilderTypeOK /\ MoveOn BY DEF IInv, MoveInv
  <2>2. wish.ids \in Seq(Ids) BY <2>1 DEF BuilderTypeOK
  <2>3. i \in Nat /\ j \in Nat /\ i >= 1 BY <2>2
  <2>4. \A n \in DOMAIN wish.ids : field[wish.ids[n]].order = n - 1 BY <2>1 DEF MoveOn, Writes
  <2>5. Before(now[k], now[l]) BY <2>3, <2>4 DEF Before
  <2>6. F \subseteq DOMAIN field BY DEF Defined, Active
  <2>7. now = Sorted(F) BY DEF ListFields
  <2> HIDE DEF F, now
  <2> QED BY <2>1, <2>5, <2>6, <2>7, SortedOk
<1> QED BY <1>1, <1>2, <1>3, OpenSurveyInvariance, PTL DEF Spec
=============================================================================
