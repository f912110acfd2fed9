-------------------------- MODULE WebSessionProof --------------------------
(***************************************************************************)
(* The session of a browser: proofs for any number of tabs, any accounts   *)
(* and any number of sessions.                                             *)
(***************************************************************************)
EXTENDS WebSession, TLAPS

\* The parts of TypeOK.
Who    == Users \union {Nobody}
Toks   == 0..MaxSessions
Kinds  == {"shared", "boot"}
Jars   == [access: Toks, refresh: Toks, csrf: BOOLEAN]
States == [user: Who, loading: BOOLEAN, challenge: Who, view: {"login", "portal"},
           due: BOOLEAN, late: BOOLEAN, cache: Who]
Points == {"idle", "hold", "send", "reply", "stored", "await"}
Asks   == {"none", "me", "page", "login", "verify", "logout"}
Calls  == [at: Points, ask: Asks, ans: {"none", "ok", "challenge", "401", "403", "error"},
           tok: Toks, again: BOOLEAN, kept: BOOLEAN, who: Who]
Stages == {"none", "sent", "checked", "rotated", "granted", "stored", "denied"}
Reqs   == [at: Stages, tok: Toks, new: Toks]
Owners == [Sessions -> Who]

\* What a token is worth in a state where o says who owns which session: none,
\* or that of an account.
Owned(n, o) == n # 0 => o[n] \in Users

\* Tokens in cookies, refresh requests and calls have been minted for an account.
JarOk(j, o) == Owned(j.access, o) /\ Owned(j.refresh, o)
ReqOk(r, o) == /\ Owned(r.tok, o) /\ Owned(r.new, o)
               /\ r.at \in {"checked", "rotated"} => r.tok # 0
CallOk(c, o) == /\ Owned(c.tok, o)
                /\ c.ans = "ok" /\ c.ask \in {"me", "page"} => c.tok # 0
                /\ c.ask \in {"login", "verify"} => c.who # Nobody

\* A refresh that brings no session, whatever becomes of it.
Barren(r) == r.at \in {"none", "denied"} \/ (r.at = "sent" /\ r.tok = 0)

\* Of a tab: without a user there is neither data nor a query whose answer is
\* kept, and the restore of its page is over before a user is there; unless a
\* sign-in overtook it.
DataOk(s, ts, rs) ==
  /\ s.user = Nobody /\ ~s.late =>
       s.cache = Nobody /\ (ts["page"].kept => ts["page"] = Idle)
  /\ ts["boot"] # Idle => rs["boot"] = NoReq
  /\ ts["boot"] # Idle \/ rs["boot"] # NoReq => s.user = Nobody \/ s.late

OwnedInv ==
  /\ JarOk(jar, owner)
  /\ \A t \in Tabs : /\ \A k \in Kinds : ReqOk(req[t][k], owner)
                     /\ \A k \in Tasks : CallOk(task[t][k], owner)
ClosedInv ==
  closed => /\ jar.refresh = 0 /\ jar.access = 0
            /\ \A t \in Tabs, k \in Kinds : Barren(req[t][k])
DataInv == \A t \in Tabs : DataOk(tab[t], task[t], req[t])

IInv == TypeOK /\ OwnedInv /\ ClosedInv /\ DataInv

-----------------------------------------------------------------------------
(* The parts.                                                              *)

\* TypeOK in terms of its parts.
LEMMA TypeParts ==
  TypeOK <=> /\ jar \in Jars /\ hint \in Toks
             /\ tab \in [Tabs -> States]
             /\ task \in [Tabs -> [Tasks -> Calls]]
             /\ req \in [Tabs -> [Kinds -> Reqs]]
             /\ owner \in Owners /\ record \in [Sessions -> {"none", "live", "revoked", "gone"}]
             /\ closed \in BOOLEAN /\ torn \in BOOLEAN /\ aged \in Toks /\ dead \in Toks
BY DEF TypeOK, Who, Toks, Kinds, Jars, States, Points, Asks, Calls, Stages, Reqs, Owners

\* The fields of the records.
LEMMA Fields ==
  /\ \A j \in Jars : j.access \in Toks /\ j.refresh \in Toks
  /\ \A s \in States : s.user \in Who /\ s.challenge \in Who /\ s.cache \in Who
  /\ \A c \in Calls : c.tok \in Toks /\ c.who \in Who
  /\ \A r \in Reqs : r.tok \in Toks /\ r.new \in Toks
BY DEF Jars, States, Calls, Reqs

LEMMA Tokens == 0 \in Toks /\ Nobody \in Who /\ (\A n \in Toks : n # 0 => n \in Sessions)
BY SessionAssumption DEF Toks, Who, Sessions

\* A call that has not been sent carries nothing.
LEMMA NewCall ==
  ASSUME NEW a \in Asks, NEW p \in Points, NEW u \in Who
  PROVE  /\ [Idle EXCEPT !.at = p, !.ask = a, !.who = u] \in Calls
         /\ [Idle EXCEPT !.at = p, !.ask = a] \in Calls
         /\ Idle \in Calls
<1>1. Idle \in Calls
  BY Tokens DEF Idle, Calls, Points, Asks
<1>2. ASSUME NEW c \in Calls
      PROVE  [c EXCEPT !.at = p, !.ask = a, !.who = u] \in Calls
  BY DEF Calls
<1>3. ASSUME NEW c \in Calls
      PROVE  [c EXCEPT !.at = p, !.ask = a] \in Calls
  BY DEF Calls
<1> QED BY <1>1, <1>2, <1>3

LEMMA NewAsk ==
  ASSUME NEW a \in Asks
  PROVE  Call(a) \in Calls
<1> DEFINE p == IF IsAccessTokenExpired(hint) THEN "hold" ELSE "send"
<1>1. p \in Points
  BY DEF Points
<1>2. Call(a) = [Idle EXCEPT !.at = p, !.ask = a]
  BY DEF Call
<1> HIDE DEF p
<1>3. [Idle EXCEPT !.at = p, !.ask = a] \in Calls
  BY <1>1, Tokens, NewCall
<1> QED BY <1>1, <1>2, <1>3

\* A call that goes on from one point to another, and one that is answered.
LEMMA CallMoves ==
  ASSUME NEW c \in Calls, NEW p \in Points, NEW b \in BOOLEAN, NEW n \in Toks,
         NEW a \in {"none", "ok", "challenge", "401", "403", "error"}
  PROVE  /\ [c EXCEPT !.at = p] \in Calls
         /\ [c EXCEPT !.again = b, !.at = p] \in Calls
         /\ [c EXCEPT !.kept = b] \in Calls
         /\ [c EXCEPT !.at = "reply", !.ans = a, !.tok = n] \in Calls
BY DEF Calls, Points

LEMMA ReqMoves ==
  ASSUME NEW r \in Reqs, NEW p \in Stages, NEW n \in Toks
  PROVE  /\ [r EXCEPT !.at = p] \in Reqs
         /\ [r EXCEPT !.at = "granted", !.new = n] \in Reqs
         /\ [at |-> "sent", tok |-> n, new |-> 0] \in Reqs
         /\ NoReq \in Reqs
BY Tokens DEF Reqs, Stages, NoReq

\* The states of a tab.
LEMMA TabMoves ==
  ASSUME NEW s \in States, NEW u \in Who, NEW v \in {"login", "portal"},
         NEW b \in BOOLEAN, NEW d \in BOOLEAN
  PROVE  /\ SetUser(s, u) \in States /\ SignedOut(s) \in States /\ Settled(s) \in States
         /\ Wiped(s) \in States
         /\ [s EXCEPT !.loading = b] \in States
         /\ [s EXCEPT !.cache = u] \in States
         /\ [s EXCEPT !.challenge = u] \in States
         /\ [s EXCEPT !.view = v] \in States
         /\ [s EXCEPT !.view = v, !.due = b] \in States
         /\ [s EXCEPT !.challenge = u, !.view = v, !.late = b] \in States
         /\ [user |-> Nobody, loading |-> b, challenge |-> Nobody, view |-> v,
             due |-> d, late |-> d, cache |-> Nobody] \in States
BY Tokens DEF SetUser, SignedOut, Settled, Wiped, States

LEMMA ProxyView ==
  ASSUME NEW to \in {"login", "portal"}, NEW n
  PROVE  Proxy(to, n) \in {"login", "portal"}
BY DEF Proxy

\* What was minted for an account stays so when accounts are only added.
LEMMA OwnedStays ==
  ASSUME NEW o \in Owners, NEW oo \in Owners,
         \A n \in Sessions : o[n] \in Users => oo[n] \in Users
  PROVE  /\ \A n \in Toks : Owned(n, o) => Owned(n, oo)
         /\ \A j \in Jars : JarOk(j, o) => JarOk(j, oo)
         /\ \A r \in Reqs : ReqOk(r, o) => ReqOk(r, oo)
         /\ \A c \in Calls : CallOk(c, o) => CallOk(c, oo)
<1>1. \A n \in Toks : Owned(n, o) => Owned(n, oo)
  BY Tokens DEF Owned
<1> QED BY <1>1, Fields DEF JarOk, ReqOk, CallOk

-----------------------------------------------------------------------------
(* Steps.                                                                  *)

\* A step that changes one tab keeps the invariant if what it writes is sound.
LEMMA TabStep ==
  ASSUME IInv, NEW t \in Tabs,
         jar' \in Jars, hint' \in Toks,
         tab' \in [Tabs -> States], task' \in [Tabs -> [Tasks -> Calls]],
         req' \in [Tabs -> [Kinds -> Reqs]],
         \A u \in Tabs \ {t} : tab'[u] = tab[u] /\ task'[u] = task[u] /\ req'[u] = req[u],
         owner' \in Owners, record' \in [Sessions -> {"none", "live", "revoked", "gone"}],
         \A n \in Sessions : owner[n] \in Users => owner'[n] \in Users,
         closed' \in BOOLEAN, UNCHANGED <<aged, dead>>,
         JarOk(jar', owner'), torn' \in BOOLEAN,
         \A k \in Kinds : ReqOk(req'[t][k], owner'),
         \A k \in Tasks : CallOk(task'[t][k], owner'),
         DataOk(tab'[t], task'[t], req'[t]),
         closed' => /\ jar'.refresh = 0 /\ jar'.access = 0
                    /\ \A u \in Tabs, k \in Kinds : Barren(req'[u][k])
  PROVE  IInv'
<1>1. TypeOK'
  <2>1. aged' \in Toks /\ dead' \in Toks
    BY TypeParts DEF IInv
  <2>2. TypeOK' <=> /\ jar' \in Jars /\ hint' \in Toks
             /\ tab' \in [Tabs -> States]
             /\ task' \in [Tabs -> [Tasks -> Calls]]
             /\ req' \in [Tabs -> [Kinds -> Reqs]]
             /\ owner' \in Owners /\ record' \in [Sessions -> {"none", "live", "revoked", "gone"}]
             /\ closed' \in BOOLEAN /\ torn' \in BOOLEAN /\ aged' \in Toks /\ dead' \in Toks
    BY DEF TypeOK, Who, Toks, Kinds, Jars, States, Points, Asks, Calls, Stages, Reqs, Owners
  <2> QED BY <2>1, <2>2
<1>2. OwnedInv'
  <2>1. owner \in Owners
    BY TypeParts DEF IInv
  <2> SUFFICES ASSUME NEW u \in Tabs
               PROVE  /\ \A k \in Kinds : ReqOk(req'[u][k], owner')
                      /\ \A k \in Tasks : CallOk(task'[u][k], owner')
    BY DEF OwnedInv
  <2>2. CASE u = t
    BY <2>2
  <2>3. CASE u # t
    <3>1. req'[u] = req[u] /\ task'[u] = task[u]
      BY <2>3
    <3>2. /\ \A k \in Kinds : req[u][k] \in Reqs /\ ReqOk(req[u][k], owner)
          /\ \A k \in Tasks : task[u][k] \in Calls /\ CallOk(task[u][k], owner)
      BY TypeParts DEF IInv, OwnedInv
    <3>3. /\ \A r \in Reqs : ReqOk(r, owner) => ReqOk(r, owner')
          /\ \A c \in Calls : CallOk(c, owner) => CallOk(c, owner')
      BY <2>1, OwnedStays
    <3> QED BY <3>1, <3>2, <3>3
  <2> QED BY <2>2, <2>3
<1>3. ClosedInv'
  BY DEF ClosedInv
<1>4. DataInv'
  <2> SUFFICES ASSUME NEW u \in Tabs PROVE DataOk(tab'[u], task'[u], req'[u])
    BY DEF DataInv
  <2>1. DataOk(tab[u], task[u], req[u])
    BY DEF IInv, DataInv
  <2> QED BY <2>1
<1> QED BY <1>1, <1>2, <1>3, <1>4 DEF IInv

\* What the invariant says of one tab.
LEMMA Parts ==
  ASSUME IInv, NEW t \in Tabs
  PROVE  /\ jar \in Jars /\ hint \in Toks /\ tab \in [Tabs -> States]
         /\ task \in [Tabs -> [Tasks -> Calls]] /\ req \in [Tabs -> [Kinds -> Reqs]]
         /\ owner \in Owners /\ record \in [Sessions -> {"none", "live", "revoked", "gone"}]
         /\ closed \in BOOLEAN /\ torn \in BOOLEAN /\ aged \in Toks
         /\ JarOk(jar, owner)
         /\ tab[t] \in States
         /\ \A k \in Tasks : task[t][k] \in Calls /\ CallOk(task[t][k], owner)
         /\ \A k \in Kinds : req[t][k] \in Reqs /\ ReqOk(req[t][k], owner)
         /\ DataOk(tab[t], task[t], req[t])
BY TypeParts DEF IInv, OwnedInv, DataInv

\* One refresh request goes on.
LEMMA ReqStep ==
  ASSUME IInv, NEW t \in Tabs, NEW k \in Kinds, NEW r \in Reqs,
         req[t][k].at # "none", r.at # "none", req' = [req EXCEPT ![t][k] = r],
         owner' \in Owners, record' \in [Sessions -> {"none", "live", "revoked", "gone"}],
         \A n \in Sessions : owner[n] \in Users => owner'[n] \in Users,
         ReqOk(r, owner'), closed => Barren(r),
         UNCHANGED <<jar, hint, tab, task, closed, aged, dead, torn>>
  PROVE  IInv'
<1> USE Parts
<1>1. req' \in [Tabs -> [Kinds -> Reqs]]
  OBVIOUS
<1>2. \A u \in Tabs \ {t} : req'[u] = req[u]
  OBVIOUS
<1>3. req'[t][k] = r /\ \A l \in Kinds \ {k} : req'[t][l] = req[t][l]
  OBVIOUS
<1>4. /\ JarOk(jar', owner') /\ torn' \in BOOLEAN
      /\ \A l \in Kinds : ReqOk(req'[t][l], owner')
      /\ \A l \in Tasks : CallOk(task'[t][l], owner')
  BY <1>3, OwnedStays
<1>5. DataOk(tab'[t], task'[t], req'[t])
  BY <1>3 DEF DataOk, NoReq, Kinds
<1>6. closed' => /\ jar'.refresh = 0 /\ jar'.access = 0
                 /\ \A u \in Tabs, l \in Kinds : Barren(req'[u][l])
  BY <1>2, <1>3 DEF IInv, ClosedInv
<1> QED BY <1>1, <1>2, <1>4, <1>5, <1>6, TabStep

\* One call goes on.
LEMMA CallStep ==
  ASSUME IInv, NEW t \in Tabs, NEW k \in Tasks, NEW c \in Calls,
         task[t][k].at # "idle", c.at # "idle", c.kept = task[t][k].kept,
         task' = [task EXCEPT ![t][k] = c],
         owner' \in Owners, record' \in [Sessions -> {"none", "live", "revoked", "gone"}],
         \A n \in Sessions : owner[n] \in Users => owner'[n] \in Users,
         CallOk(c, owner'),
         UNCHANGED <<jar, hint, tab, req, closed, aged, dead, torn>>
  PROVE  IInv'
<1> USE Parts
<1>1. task' \in [Tabs -> [Tasks -> Calls]]
  OBVIOUS
<1>2. \A u \in Tabs \ {t} : task'[u] = task[u]
  OBVIOUS
<1>3. task'[t][k] = c /\ \A l \in Tasks \ {k} : task'[t][l] = task[t][l]
  OBVIOUS
<1>4. /\ JarOk(jar', owner') /\ torn' \in BOOLEAN
      /\ \A l \in Kinds : ReqOk(req'[t][l], owner')
      /\ \A l \in Tasks : CallOk(task'[t][l], owner')
  BY <1>3, OwnedStays
<1>5. DataOk(tab'[t], task'[t], req'[t])
  <2>1. task[t][k] # Idle /\ c # Idle
    BY DEF Idle
  <2>2. \A l \in Tasks : /\ task'[t][l] = Idle <=> task[t][l] = Idle
                         /\ task'[t][l].kept = task[t][l].kept
    BY <1>3, <2>1
  <2>3. "page" \in Tasks /\ "boot" \in Tasks
    BY DEF Tasks
  <2>4. DataOk(tab[t], task[t], req[t])
    OBVIOUS
  <2> QED BY <2>2, <2>3, <2>4 DEF DataOk
<1>6. closed' => /\ jar'.refresh = 0 /\ jar'.access = 0
                 /\ \A u \in Tabs, l \in Kinds : Barren(req'[u][l])
  BY DEF IInv, ClosedInv
<1> QED BY <1>1, <1>2, <1>4, <1>5, <1>6, TabStep

\* A session is minted for an account.
LEMMA Minted ==
  ASSUME IInv, NEW u \in Users, Mint(u)
  PROVE  /\ Fresh \in Sessions /\ Fresh \in Toks /\ Fresh # 0
         /\ owner' \in Owners /\ record' \in [Sessions -> {"none", "live", "revoked", "gone"}]
         /\ owner'[Fresh] \in Users
         /\ \A n \in Sessions : owner[n] \in Users => owner'[n] \in Users
<1>1. owner \in Owners /\ record \in [Sessions -> {"none", "live", "revoked", "gone"}]
  BY TypeParts DEF IInv
<1>2. Fresh \in Sessions /\ owner' = [owner EXCEPT ![Fresh] = u]
      /\ record' = [record EXCEPT ![Fresh] = "live"]
  BY DEF Mint
<1> HIDE DEF Fresh
<1>3. Fresh \in Toks /\ Fresh # 0
  BY <1>2, SessionAssumption DEF Sessions, Toks
<1> QED BY <1>1, <1>2, <1>3 DEF Owners, Who

-----------------------------------------------------------------------------
(* The server's steps.                                                     *)

LEMMA RefreshCheckKeeps ==
  ASSUME IInv, NEW t \in Tabs, NEW k \in Kinds, RefreshCheck(t, k)
  PROVE  IInv'
<1> DEFINE r == req[t][k]
<1>1. r \in Reqs /\ ReqOk(r, owner) /\ r.tok \in Toks /\ r.at = "sent"
  BY Parts, Fields DEF RefreshCheck
<1>2. PICK p \in {"denied", "checked"} :
        /\ req' = [req EXCEPT ![t][k].at = p]
        /\ p = "checked" => r.tok # 0
  BY DEF RefreshCheck
<1>3. record' \in [Sessions -> {"none", "live", "revoked", "gone"}]
  BY Parts DEF RefreshCheck
<1>4. closed => Barren(r)
  BY DEF IInv, ClosedInv
<1> DEFINE q == [r EXCEPT !.at = p]
<1>5. q \in Reqs /\ q.at # "none" /\ (closed => Barren(q)) /\ ReqOk(q, owner)
  <2>1. q \in Reqs
    BY <1>1, ReqMoves DEF Stages
  <2>2. q.at = p /\ q.tok = r.tok /\ q.new = r.new
    BY <1>1 DEF Reqs
  <2>3. q.at # "none"
    BY <2>2
  <2> QED BY <1>1, <1>2, <1>4, <2>1, <2>2, <2>3 DEF ReqOk, Barren
<1>6. req' = [req EXCEPT ![t][k] = q]
  BY <1>2
<1>7. UNCHANGED <<jar, hint, tab, task, owner, closed, aged, dead, torn>>
  BY DEF RefreshCheck
<1> HIDE DEF q
<1> QED BY <1>1, <1>3, <1>5, <1>6, <1>7, Parts, ReqStep

LEMMA RefreshRotateKeeps ==
  ASSUME IInv, NEW t \in Tabs, NEW k \in Kinds, RefreshRotate(t, k)
  PROVE  IInv'
<1> DEFINE r == req[t][k]
<1>1. r \in Reqs /\ ReqOk(r, owner) /\ r.at = "checked"
  BY Parts, Fields DEF RefreshRotate
<1>2. PICK p \in {"denied", "rotated"} : req' = [req EXCEPT ![t][k].at = p]
  BY DEF RefreshRotate
<1>3. record' \in [Sessions -> {"none", "live", "revoked", "gone"}]
  BY Parts DEF RefreshRotate
<1>4. ~closed
  <2>1. ~Barren(r)
    BY <1>1 DEF Barren
  <2> QED BY <2>1 DEF IInv, ClosedInv
<1> DEFINE q == [r EXCEPT !.at = p]
<1>5. q \in Reqs /\ q.at # "none" /\ ReqOk(q, owner)
  <2>1. q \in Reqs
    BY <1>1, Tokens, ReqMoves DEF Stages
  <2>2. q.at = p /\ q.tok = r.tok /\ q.new = r.new
    BY <1>1 DEF Reqs
  <2>3. q.at # "none"
    BY <2>2
  <2> QED BY <1>1, <2>1, <2>2, <2>3 DEF ReqOk
<1>6. req' = [req EXCEPT ![t][k] = q]
  BY <1>2
<1>7. UNCHANGED <<jar, hint, tab, task, owner, closed, aged, dead, torn>>
  BY DEF RefreshRotate
<1> HIDE DEF q
<1> QED BY <1>1, <1>3, <1>4, <1>5, <1>6, <1>7, Parts, ReqStep

LEMMA RefreshIssueKeeps ==
  ASSUME IInv, NEW t \in Tabs, NEW k \in Kinds, RefreshIssue(t, k)
  PROVE  IInv'
<1> DEFINE r == req[t][k]
<1>1. r \in Reqs /\ ReqOk(r, owner) /\ r.at = "rotated" /\ r.tok \in Toks
  BY Parts, Fields DEF RefreshIssue
<1>2. owner[r.tok] \in Users
  BY <1>1 DEF ReqOk, Owned
<1>3. Mint(owner[r.tok])
  BY DEF RefreshIssue
<1>4. /\ Fresh \in Toks /\ Fresh # 0
      /\ owner' \in Owners /\ record' \in [Sessions -> {"none", "live", "revoked", "gone"}]
      /\ owner'[Fresh] \in Users
      /\ \A n \in Sessions : owner[n] \in Users => owner'[n] \in Users
  BY <1>2, <1>3, Minted
<1>5. ~closed
  <2>1. ~Barren(r)
    BY <1>1 DEF Barren
  <2> QED BY <2>1 DEF IInv, ClosedInv
<1> HIDE DEF Fresh
<1> DEFINE q == [r EXCEPT !.at = "granted", !.new = Fresh]
<1>6. q \in Reqs /\ q.at = "granted" /\ ReqOk(q, owner')
  <2>1. q \in Reqs
    BY <1>1, <1>4, ReqMoves DEF Stages
  <2>2. q.at = "granted" /\ q.tok = r.tok /\ q.new = Fresh
    BY <1>1 DEF Reqs
  <2>3. Owned(r.tok, owner')
    BY <1>1, <1>4, Parts, OwnedStays DEF ReqOk
  <2> QED BY <1>4, <2>1, <2>2, <2>3 DEF ReqOk, Owned
<1>7. req' = [req EXCEPT ![t][k] = q]
  BY DEF RefreshIssue
<1>8. UNCHANGED <<jar, hint, tab, task, closed, aged, dead, torn>>
  BY DEF RefreshIssue
<1>9. q.at # "none" /\ r.at # "none"
  BY <1>1, <1>6
<1> HIDE DEF q
<1> QED BY <1>4, <1>5, <1>6, <1>7, <1>8, <1>9, ReqStep

LEMMA RefreshFailsKeeps ==
  ASSUME IInv, NEW t \in Tabs, NEW k \in Kinds, RefreshFails(t, k)
  PROVE  IInv'
<1> DEFINE r == req[t][k]
<1>1. r \in Reqs /\ ReqOk(r, owner) /\ r.at # "none"
  BY Parts, Fields DEF RefreshFails
<1> DEFINE q == [r EXCEPT !.at = "denied"]
<1>2. q \in Reqs /\ q.at # "none" /\ Barren(q) /\ ReqOk(q, owner)
  <2>1. q \in Reqs
    BY <1>1, Tokens, ReqMoves DEF Stages
  <2>2. q.at = "denied" /\ q.tok = r.tok /\ q.new = r.new
    BY <1>1 DEF Reqs
  <2> QED BY <1>1, <2>1, <2>2 DEF ReqOk, Barren
<1>3. req' = [req EXCEPT ![t][k] = q]
  BY DEF RefreshFails
<1>4. UNCHANGED <<jar, hint, tab, task, owner, record, closed, aged, dead, torn>>
  BY DEF RefreshFails, server
<1> HIDE DEF q
<1> QED BY <1>1, <1>2, <1>3, <1>4, Parts, ReqStep

\* An answer that is sound for its call.
LEMMA AnswerStep ==
  ASSUME IInv, NEW t \in Tabs, NEW k \in Tasks, NEW n \in Toks,
         NEW a \in {"none", "ok", "challenge", "401", "403", "error"}, Answer(t, k, a, n),
         owner' \in Owners, record' \in [Sessions -> {"none", "live", "revoked", "gone"}],
         \A m \in Sessions : owner[m] \in Users => owner'[m] \in Users,
         Owned(n, owner'), a = "ok" /\ task[t][k].ask \in {"me", "page"} => n # 0
  PROVE  IInv'
<1> DEFINE c == task[t][k]
           q == [c EXCEPT !.at = "reply", !.ans = a, !.tok = n]
<1>1. c \in Calls /\ CallOk(c, owner) /\ c.at = "send"
  BY Parts DEF Answer
<1>2. q \in Calls
  <2>1. \A d \in Calls : [d EXCEPT !.at = "reply", !.ans = a, !.tok = n] \in Calls
    BY DEF Calls, Points
  <2> QED BY <1>1, <2>1
<1>3. /\ q.at = "reply" /\ q.ans = a /\ q.tok = n
      /\ q.ask = c.ask /\ q.who = c.who /\ q.kept = c.kept
  BY <1>1 DEF Calls
<1>4. CallOk(q, owner')
  BY <1>1, <1>3 DEF CallOk
<1>5. task' = [task EXCEPT ![t][k] = q]
  BY DEF Answer
<1>6. UNCHANGED <<jar, hint, tab, req, closed, aged, dead, torn>>
  BY DEF Answer
<1>7. q.at # "idle" /\ c.at # "idle"
  BY <1>1, <1>3
<1> HIDE DEF q
<1> QED BY <1>2, <1>3, <1>4, <1>5, <1>6, <1>7, CallStep

LEMMA ServedKeeps ==
  ASSUME IInv, NEW t \in Tabs, NEW k \in Tasks, Served(t, k), ~(k = "form" /\ StoreAnswer(t))
  PROVE  IInv'
<1>1. /\ owner \in Owners /\ record \in [Sessions -> {"none", "live", "revoked", "gone"}]
      /\ jar \in Jars /\ JarOk(jar, owner) /\ jar.access \in Toks /\ jar.refresh \in Toks
  BY Parts, Fields
<1>2. task[t][k] \in Calls /\ CallOk(task[t][k], owner)
  BY Parts
<1>3. 0 \in Toks /\ \A o : Owned(0, o)
  BY Tokens DEF Owned
<1>4. ASSUME Mint(task[t][k].who), task[t][k].ask \in {"login", "verify"},
             Answer(t, k, "ok", Fresh)
      PROVE  IInv'
  <2>1. task[t][k].who \in Users
    BY <1>2, <1>4, Fields DEF CallOk, Who
  <2>2. /\ Fresh \in Toks /\ Fresh # 0
        /\ owner' \in Owners /\ record' \in [Sessions -> {"none", "live", "revoked", "gone"}]
        /\ owner'[Fresh] \in Users
        /\ \A n \in Sessions : owner[n] \in Users => owner'[n] \in Users
    BY <1>4, <2>1, Minted
  <2> HIDE DEF Fresh
  <2> QED BY <1>4, <2>2, AnswerStep DEF Owned
<1>5. CASE ServeRead(t, k)
  <2>1. UNCHANGED <<owner, record>>
    BY <1>5 DEF ServeRead
  <2>2. Owned(jar.access, owner)
    BY <1>1 DEF JarOk
  <2>3. CASE Admitted
    <3>1. Answer(t, k, "ok", jar.access) /\ jar.access # 0
      BY <1>5, <2>3 DEF ServeRead, Admitted
    <3> QED BY <1>1, <2>1, <2>2, <3>1, AnswerStep
  <2>4. CASE ~Admitted
    <3>1. Answer(t, k, "401", jar.access)
      BY <1>5, <2>4 DEF ServeRead
    <3> QED BY <1>1, <2>1, <2>2, <3>1, AnswerStep
  <2> QED BY <2>3, <2>4
<1>6. CASE ServeError(t, k)
  <2>1. UNCHANGED <<owner, record>> /\ Answer(t, k, "error", 0)
    BY <1>6 DEF ServeError
  <2> QED BY <1>1, <1>3, <2>1, AnswerStep
<1>7. CASE k = "form" /\ ServeLogin(t)
  <2>1. CASE task[t][k].who \in MfaUsers
    <3>1. Answer(t, k, "challenge", 0) /\ UNCHANGED <<owner, record>>
      BY <1>7, <2>1 DEF ServeLogin
    <3> QED BY <1>1, <1>3, <3>1, AnswerStep
  <2>2. CASE task[t][k].who \notin MfaUsers
    BY <1>4, <1>7, <2>2 DEF ServeLogin
  <2> QED BY <2>1, <2>2
<1>8. CASE k = "form" /\ ServeVerify(t)
  <2>1. \/ Answer(t, k, "403", 0) /\ UNCHANGED <<owner, record>>
        \/ Answer(t, k, "401", 0) /\ UNCHANGED <<owner, record>>
        \/ Answer(t, k, "ok", Fresh) /\ Mint(task[t][k].who) /\ task[t][k].ask = "verify"
    BY <1>8 DEF ServeVerify
  <2>2. CASE Answer(t, k, "403", 0) /\ UNCHANGED <<owner, record>>
    BY <1>1, <1>3, <2>2, AnswerStep
  <2>3. CASE Answer(t, k, "401", 0) /\ UNCHANGED <<owner, record>>
    BY <1>1, <1>3, <2>3, AnswerStep
  <2>4. CASE Answer(t, k, "ok", Fresh) /\ Mint(task[t][k].who) /\ task[t][k].ask = "verify"
    BY <1>4, <2>4
  <2> QED BY <2>1, <2>2, <2>3, <2>4
<1>9. CASE k = "form" /\ ServeLogout(t)
  <2>1. Answer(t, k, "ok", 0) /\ UNCHANGED owner /\ task[t][k].ask = "logout"
    BY <1>9 DEF ServeLogout
  <2>2. record' \in [Sessions -> {"none", "live", "revoked", "gone"}]
    BY <1>1, <1>9 DEF ServeLogout
  <2>3. ~(task[t][k].ask \in {"me", "page"})
    BY <2>1
  <2> QED BY <1>1, <1>3, <2>1, <2>2, <2>3, AnswerStep
<1> QED BY <1>5, <1>6, <1>7, <1>8, <1>9 DEF Served

-----------------------------------------------------------------------------
(* The client's steps.                                                     *)

\* A step of one tab that mints nothing.
LEMMA ClientStep ==
  ASSUME IInv, NEW t \in Tabs, NEW s \in States, NEW ts \in [Tasks -> Calls],
         NEW rs \in [Kinds -> Reqs],
         tab' = [tab EXCEPT ![t] = s], task' = [task EXCEPT ![t] = ts],
         req' = [req EXCEPT ![t] = rs],
         jar' \in Jars, hint' \in Toks, closed' \in BOOLEAN,
         UNCHANGED <<owner, record, aged, dead>>,
         JarOk(jar', owner), torn' \in BOOLEAN,
         \A k \in Kinds : ReqOk(rs[k], owner),
         \A k \in Tasks : CallOk(ts[k], owner),
         DataOk(s, ts, rs),
         closed' => /\ jar'.refresh = 0 /\ jar'.access = 0
                    /\ \A k \in Kinds : Barren(rs[k])
                    /\ closed \/ \A u \in Tabs, k \in Kinds : req[u][k] = NoReq
  PROVE  IInv'
<1> USE Parts
<1>1. /\ tab' \in [Tabs -> States] /\ tab'[t] = s
      /\ task' \in [Tabs -> [Tasks -> Calls]] /\ task'[t] = ts
      /\ req' \in [Tabs -> [Kinds -> Reqs]] /\ req'[t] = rs
  OBVIOUS
<1>2. \A u \in Tabs \ {t} : tab'[u] = tab[u] /\ task'[u] = task[u] /\ req'[u] = req[u]
  OBVIOUS
<1>3. closed' => /\ jar'.refresh = 0 /\ jar'.access = 0
                 /\ \A u \in Tabs, k \in Kinds : Barren(req'[u][k])
  <2> SUFFICES ASSUME closed', NEW u \in Tabs, NEW k \in Kinds
               PROVE  Barren(req'[u][k])
    OBVIOUS
  <2>1. CASE u = t
    BY <1>1, <2>1
  <2>2. CASE u # t
    <3>1. req'[u] = req[u]
      BY <1>2, <2>2
    <3>2. Barren(req[u][k])
      BY DEF IInv, ClosedInv, Barren, NoReq
    <3> QED BY <3>1, <3>2
  <2> QED BY <2>1, <2>2
<1>4. owner' \in Owners /\ record' \in [Sessions -> {"none", "live", "revoked", "gone"}]
      /\ \A n \in Sessions : owner[n] \in Users => owner'[n] \in Users
  OBVIOUS
<1>5. /\ JarOk(jar', owner')
      /\ \A k \in Kinds : ReqOk(req'[t][k], owner')
      /\ \A k \in Tasks : CallOk(task'[t][k], owner')
      /\ DataOk(tab'[t], task'[t], req'[t])
  BY <1>1
<1> QED BY <1>1, <1>2, <1>3, <1>4, <1>5, TabStep

\* What a step does not mention, as ClientStep has it.
LEMMA Kept ==
  ASSUME IInv, NEW t \in Tabs
  PROVE  /\ tab = [tab EXCEPT ![t] = tab[t]] /\ tab[t] \in States
         /\ task = [task EXCEPT ![t] = task[t]] /\ task[t] \in [Tasks -> Calls]
         /\ req = [req EXCEPT ![t] = req[t]] /\ req[t] \in [Kinds -> Reqs]
         /\ closed => /\ jar.refresh = 0 /\ jar.access = 0
                      /\ \A k \in Kinds : Barren(req[t][k])
BY Parts DEF IInv, ClosedInv

\* One call of a tab changes, or one refresh request.
LEMMA TaskPut ==
  ASSUME IInv, NEW t \in Tabs, NEW k \in Tasks, NEW c \in Calls, CallOk(c, owner)
  PROVE  LET ts == [task[t] EXCEPT ![k] = c]
         IN  /\ ts \in [Tasks -> Calls] /\ [task EXCEPT ![t][k] = c] = [task EXCEPT ![t] = ts]
             /\ ts[k] = c /\ \A j \in Tasks : j # k => ts[j] = task[t][j]
             /\ \A j \in Tasks : CallOk(ts[j], owner)
<1> DEFINE ts == [task[t] EXCEPT ![k] = c]
<1>1. task[t] \in [Tasks -> Calls] /\ \A j \in Tasks : CallOk(task[t][j], owner)
  BY Parts
<1>2. ts \in [Tasks -> Calls] /\ ts[k] = c /\ \A j \in Tasks : j # k => ts[j] = task[t][j]
  BY <1>1
<1>3. [task EXCEPT ![t][k] = c] = [task EXCEPT ![t] = ts]
  OBVIOUS
<1> HIDE DEF ts
<1>4. \A j \in Tasks : CallOk(ts[j], owner)
  BY <1>1, <1>2
<1> QED BY <1>2, <1>3, <1>4 DEF ts

LEMMA ReqPut ==
  ASSUME IInv, NEW t \in Tabs, NEW k \in Kinds, NEW r \in Reqs, ReqOk(r, owner), Barren(r)
  PROVE  LET rs == [req[t] EXCEPT ![k] = r]
         IN  /\ rs \in [Kinds -> Reqs] /\ [req EXCEPT ![t][k] = r] = [req EXCEPT ![t] = rs]
             /\ rs[k] = r /\ \A j \in Kinds : j # k => rs[j] = req[t][j]
             /\ \A j \in Kinds : ReqOk(rs[j], owner) /\ (closed => Barren(rs[j]))
<1> DEFINE rs == [req[t] EXCEPT ![k] = r]
<1>1. /\ req[t] \in [Kinds -> Reqs] /\ \A j \in Kinds : ReqOk(req[t][j], owner)
      /\ closed => \A j \in Kinds : Barren(req[t][j])
  BY Parts, Kept
<1>2. rs \in [Kinds -> Reqs] /\ rs[k] = r /\ \A j \in Kinds : j # k => rs[j] = req[t][j]
  BY <1>1
<1>3. [req EXCEPT ![t][k] = r] = [req EXCEPT ![t] = rs]
  OBVIOUS
<1> HIDE DEF rs
<1>4. \A j \in Kinds : ReqOk(rs[j], owner) /\ (closed => Barren(rs[j]))
  BY <1>1, <1>2
<1> QED BY <1>2, <1>3, <1>4 DEF rs

\* A tab without work asks for nothing.
LEMMA NothingAsked ==
  ASSUME NEW o
  PROVE  /\ CallOk(Idle, o) /\ ReqOk(NoReq, o) /\ Barren(NoReq)
         /\ \A p \in Points, a \in {"me", "page", "logout"} :
              CallOk([Idle EXCEPT !.at = p, !.ask = a], o)
         /\ \A p \in Points, a \in Asks, u \in Users :
              CallOk([Idle EXCEPT !.at = p, !.ask = a, !.who = u], o)
BY SessionAssumption DEF CallOk, ReqOk, Owned, Barren, Idle, NoReq

\* The shared refresh, when it is asked for.
LEMMA Performed ==
  ASSUME IInv, NEW t \in Tabs
  PROVE  \E rs \in [Kinds -> Reqs] :
           /\ PerformRefresh(t, req) = [req EXCEPT ![t] = rs]
           /\ \A k \in Kinds : ReqOk(rs[k], owner)
           /\ rs["boot"] = req[t]["boot"]
           /\ closed => \A k \in Kinds : Barren(rs[k])
<1> USE Parts
<1> DEFINE r == [at |-> "sent", tok |-> jar.refresh, new |-> 0]
           rs == IF req[t]["shared"].at # "none" THEN req[t] ELSE [req[t] EXCEPT !["shared"] = r]
<1>1. r \in Reqs /\ ReqOk(r, owner)
  <2>1. jar.refresh \in Toks /\ Owned(jar.refresh, owner) /\ Owned(0, owner)
    BY Fields DEF JarOk, Owned
  <2>2. r \in Reqs
    BY <2>1, Tokens DEF Reqs, Stages
  <2> QED BY <2>1, <2>2 DEF ReqOk
<1>2. closed => Barren(r)
  BY DEF IInv, ClosedInv, Barren
<1>3. "shared" \in Kinds /\ "boot" \in Kinds /\ "shared" # "boot"
  BY DEF Kinds
<1> HIDE DEF r
<1>4. rs \in [Kinds -> Reqs] /\ rs["boot"] = req[t]["boot"]
  BY <1>1, <1>3
<1>5. \A k \in Kinds : ReqOk(rs[k], owner) /\ (closed => Barren(rs[k]))
  BY <1>1, <1>2, Kept
<1>6. PerformRefresh(t, req) = [req EXCEPT ![t] = rs]
  BY Kept DEF PerformRefresh, r
<1> QED BY <1>4, <1>5, <1>6

\* Whether or not the request has to wait for a refresh.
LEMMA Intercepted ==
  ASSUME IInv, NEW t \in Tabs
  PROVE  \E rs \in [Kinds -> Reqs] :
           /\ Interceptor(t) = [req EXCEPT ![t] = rs]
           /\ \A k \in Kinds : ReqOk(rs[k], owner)
           /\ rs["boot"] = req[t]["boot"]
           /\ closed => \A k \in Kinds : Barren(rs[k])
<1>1. CASE IsAccessTokenExpired(hint)
  BY <1>1, Performed DEF Interceptor
<1>2. CASE ~IsAccessTokenExpired(hint)
  BY <1>2, Kept, Parts DEF Interceptor
<1> QED BY <1>1, <1>2

\* Only what is on the screen changes.
LEMMA ViewStep ==
  ASSUME IInv, NEW t \in Tabs, NEW s \in States, tab' = [tab EXCEPT ![t] = s],
         s.user = tab[t].user, s.late = tab[t].late, s.cache = tab[t].cache,
         UNCHANGED <<jar, hint, task, req, server>>
  PROVE  IInv'
<1>1. DataOk(s, task[t], req[t])
  BY Parts DEF DataOk
<1>2. /\ jar' \in Jars /\ hint' \in Toks /\ closed' \in BOOLEAN
      /\ JarOk(jar', owner) /\ torn' \in BOOLEAN
      /\ UNCHANGED <<owner, record, aged, dead>>
      /\ closed' => jar'.refresh = 0 /\ jar'.access = 0 /\ closed
  BY Parts, Kept DEF server
<1>3. /\ task' = [task EXCEPT ![t] = task[t]] /\ task[t] \in [Tasks -> Calls]
      /\ req' = [req EXCEPT ![t] = req[t]] /\ req[t] \in [Kinds -> Reqs]
      /\ closed => \A k \in Kinds : Barren(req[t][k])
  BY Kept
<1>4. /\ \A k \in Kinds : ReqOk(req[t][k], owner)
      /\ \A k \in Tasks : CallOk(task[t][k], owner)
  BY Parts
<1> QED BY <1>1, <1>2, <1>3, <1>4, ClientStep

LEMMA CancelMfaKeeps ==
  ASSUME IInv, NEW t \in Tabs, CancelMfa(t)
  PROVE  IInv'
<1> DEFINE s == [tab[t] EXCEPT !.challenge = Nobody]
<1>1. tab[t] \in States /\ tab' = [tab EXCEPT ![t] = s] /\ UNCHANGED <<jar, hint, task, req, server>>
  BY Parts DEF CancelMfa
<1>2. s \in States
  BY <1>1, Tokens, TabMoves
<1>3. s.user = tab[t].user /\ s.late = tab[t].late /\ s.cache = tab[t].cache
  BY <1>1 DEF States
<1> QED BY <1>1, <1>2, <1>3, ViewStep

LEMMA GoToLoginKeeps ==
  ASSUME IInv, NEW t \in Tabs, GoToLogin(t)
  PROVE  IInv'
<1> DEFINE s == [tab[t] EXCEPT !.view = Proxy("login", jar.access)]
<1>1. tab[t] \in States /\ tab' = [tab EXCEPT ![t] = s] /\ UNCHANGED <<jar, hint, task, req, server>>
  BY Parts DEF GoToLogin
<1>2. s \in States
  BY <1>1, Tokens, TabMoves, ProxyView
<1>3. s.user = tab[t].user /\ s.late = tab[t].late /\ s.cache = tab[t].cache
  BY <1>1 DEF States
<1> QED BY <1>1, <1>2, <1>3, ViewStep

LEMMA PushLoginKeeps ==
  ASSUME IInv, NEW t \in Tabs, PushLogin(t)
  PROVE  IInv'
<1> DEFINE s == [tab[t] EXCEPT !.view = Proxy("login", jar.access), !.due = FALSE]
<1>1. tab[t] \in States /\ tab' = [tab EXCEPT ![t] = s] /\ UNCHANGED <<jar, hint, task, req, server>>
  BY Parts DEF PushLogin
<1>2. s \in States
  BY <1>1, Tokens, TabMoves, ProxyView
<1>3. s.user = tab[t].user /\ s.late = tab[t].late /\ s.cache = tab[t].cache
  BY <1>1 DEF States
<1> QED BY <1>1, <1>2, <1>3, ViewStep

\* The user submits the form, or signs out.
LEMMA FormStep ==
  ASSUME IInv, NEW t \in Tabs, NEW s \in States, NEW c \in Calls, NEW rs \in [Kinds -> Reqs],
         tab' = [tab EXCEPT ![t] = s],
         s.user = tab[t].user, s.late = tab[t].late, s.cache = tab[t].cache,
         task' = [task EXCEPT ![t].form = c], CallOk(c, owner),
         req' = [req EXCEPT ![t] = rs], \A k \in Kinds : ReqOk(rs[k], owner),
         rs["boot"] = req[t]["boot"], closed => \A k \in Kinds : Barren(rs[k]),
         UNCHANGED <<jar, hint, server>>
  PROVE  IInv'
<1> USE Parts
<1> DEFINE ts == [task[t] EXCEPT !["form"] = c]
<1>1. ts \in [Tasks -> Calls] /\ task' = [task EXCEPT ![t] = ts]
  BY Kept
<1>2. ts["page"] = task[t]["page"] /\ ts["boot"] = task[t]["boot"]
  BY Kept DEF Tasks
<1>3. DataOk(s, ts, rs)
  BY <1>2 DEF DataOk
<1>4. \A k \in Tasks : CallOk(ts[k], owner)
  BY Kept
<1>5. /\ jar' \in Jars /\ hint' \in Toks /\ closed' \in BOOLEAN
      /\ JarOk(jar', owner) /\ torn' \in BOOLEAN
      /\ UNCHANGED <<owner, record, aged, dead>>
      /\ closed' => jar'.refresh = 0 /\ jar'.access = 0 /\ closed
  BY Kept DEF server
<1> HIDE DEF ts
<1> QED BY <1>1, <1>3, <1>4, <1>5, ClientStep

\* A call of the page or for the user carries no token yet.
LEMMA AskOk ==
  ASSUME NEW o, NEW a \in {"me", "page"}
  PROVE  CallOk(Call(a), o)
<1> DEFINE p == IF IsAccessTokenExpired(hint) THEN "hold" ELSE "send"
<1>1. p \in Points
  BY DEF Points
<1>2. Call(a) = [Idle EXCEPT !.at = p, !.ask = a]
  BY DEF Call
<1>3. LET c == [Idle EXCEPT !.at = p, !.ask = a]
      IN  c.tok = 0 /\ c.ans = "none" /\ c.ask = a
  BY DEF Idle
<1> QED BY <1>2, <1>3 DEF CallOk, Owned

LEMMA SubmitPasswordKeeps ==
  ASSUME IInv, NEW t \in Tabs, NEW u \in Users, SubmitPassword(t, u)
  PROVE  IInv'
<1> DEFINE s == [tab[t] EXCEPT !.loading = TRUE]
           c == [Idle EXCEPT !.at = "send", !.ask = "login", !.who = u]
<1>1. /\ tab' = [tab EXCEPT ![t] = s] /\ task' = [task EXCEPT ![t].form = c]
      /\ UNCHANGED <<jar, hint, req, server>>
  BY DEF SubmitPassword
<1>2. s \in States
  BY Parts, Tokens, TabMoves
<1>3. s.user = tab[t].user /\ s.late = tab[t].late /\ s.cache = tab[t].cache
  BY Parts, ZenonT(60) DEF States
<1>4. c \in Calls /\ CallOk(c, owner)
  BY NewCall, NothingAsked DEF Points, Asks, Who
<1> HIDE DEF s, c
<1> QED BY <1>1, <1>2, <1>3, <1>4, Parts, Kept, FormStep

LEMMA SubmitCodeKeeps ==
  ASSUME IInv, NEW t \in Tabs, SubmitCode(t)
  PROVE  IInv'
<1> DEFINE s == [tab[t] EXCEPT !.loading = TRUE]
           c == [Call("verify") EXCEPT !.who = tab[t].challenge]
<1>1. /\ tab' = [tab EXCEPT ![t] = s] /\ task' = [task EXCEPT ![t].form = c]
      /\ req' = Interceptor(t) /\ UNCHANGED <<jar, hint, server>>
  BY DEF SubmitCode
<1>2. s \in States
  BY Parts, Tokens, TabMoves
<1>3. s.user = tab[t].user /\ s.late = tab[t].late /\ s.cache = tab[t].cache
  BY Parts, ZenonT(60) DEF States
<1>4. c \in Calls /\ CallOk(c, owner)
  <2>1. tab[t].challenge \in Users
    BY Parts, Fields DEF SubmitCode, LoginPanel, Who
  <2>2. PICK p \in Points : Call("verify") = [Idle EXCEPT !.at = p, !.ask = "verify"]
    BY DEF Call, Points
  <2>3. c = [Idle EXCEPT !.at = p, !.ask = "verify", !.who = tab[t].challenge]
    BY <2>2 DEF Idle
  <2> QED BY <2>1, <2>3, NewCall, NothingAsked DEF Asks, Who
<1>5. PICK rs \in [Kinds -> Reqs] :
           /\ Interceptor(t) = [req EXCEPT ![t] = rs]
           /\ \A k \in Kinds : ReqOk(rs[k], owner)
           /\ rs["boot"] = req[t]["boot"]
           /\ closed => \A k \in Kinds : Barren(rs[k])
  BY Intercepted
<1> HIDE DEF s, c
<1> QED BY <1>1, <1>2, <1>3, <1>4, <1>5, FormStep

LEMMA SignOutKeeps ==
  ASSUME IInv, NEW t \in Tabs, SignOut(t)
  PROVE  IInv'
<1> DEFINE c == [Idle EXCEPT !.at = "send", !.ask = "logout"]
<1>1. /\ task' = [task EXCEPT ![t].form = c]
      /\ UNCHANGED <<jar, hint, tab, req, server>>
  BY DEF SignOut
<1>2. c \in Calls /\ CallOk(c, owner)
  <2>1. "send" \in Points /\ "logout" \in Asks
    BY DEF Points, Asks
  <2>2. c \in Calls
    BY <2>1, Tokens, NewCall
  <2>3. CallOk(c, owner)
    BY <2>1, NothingAsked
  <2> QED BY <2>2, <2>3
<1> HIDE DEF c
<1>3. /\ tab' = [tab EXCEPT ![t] = tab[t]] /\ tab[t] \in States
      /\ req' = [req EXCEPT ![t] = req[t]] /\ req[t] \in [Kinds -> Reqs]
      /\ closed => \A k \in Kinds : Barren(req[t][k])
  BY <1>1, Kept
<1>4. \A k \in Kinds : ReqOk(req[t][k], owner)
  BY Parts
<1> QED BY <1>1, <1>2, <1>3, <1>4, FormStep

LEMMA QueryKeeps ==
  ASSUME IInv, NEW t \in Tabs, Query(t)
  PROVE  IInv'
<1> DEFINE c == Call("page")
           ts == [task[t] EXCEPT !["page"] = c]
<1>1. /\ task' = [task EXCEPT ![t].page = c] /\ req' = Interceptor(t)
      /\ tab[t].user # Nobody /\ UNCHANGED <<jar, hint, tab, server>>
  BY DEF Query
<1>2. c \in Calls /\ CallOk(c, owner)
  <2>1. "page" \in Asks
    BY DEF Asks
  <2>2. c \in Calls
    BY <2>1, NewAsk
  <2>3. CallOk(c, owner)
    BY AskOk
  <2> QED BY <2>2, <2>3
<1> HIDE DEF c
<1> USE Parts
<1>3. PICK rs \in [Kinds -> Reqs] :
           /\ Interceptor(t) = [req EXCEPT ![t] = rs]
           /\ \A k \in Kinds : ReqOk(rs[k], owner)
           /\ rs["boot"] = req[t]["boot"]
           /\ closed => \A k \in Kinds : Barren(rs[k])
  BY Intercepted
<1>4. ts \in [Tasks -> Calls] /\ task' = [task EXCEPT ![t] = ts] /\ ts["boot"] = task[t]["boot"]
  BY <1>1, <1>2, Kept DEF Tasks
<1>5. \A k \in Tasks : CallOk(ts[k], owner)
  BY <1>2, Kept
<1>6. DataOk(tab[t], ts, rs)
  BY <1>1, <1>3, <1>4 DEF DataOk
<1>7. /\ jar' \in Jars /\ hint' \in Toks /\ closed' \in BOOLEAN
      /\ JarOk(jar', owner) /\ torn' \in BOOLEAN
      /\ UNCHANGED <<owner, record, aged, dead>>
      /\ closed' => jar'.refresh = 0 /\ jar'.access = 0 /\ closed
  BY <1>1, Kept DEF server
<1>8. tab' = [tab EXCEPT ![t] = tab[t]] /\ tab[t] \in States
  BY <1>1, Kept
<1> HIDE DEF ts
<1> QED BY <1>3, <1>4, <1>5, <1>6, <1>7, <1>8, <1>1, ClientStep

LEMMA LoadKeeps ==
  ASSUME IInv, NEW t \in Tabs, NEW to \in {"login", "portal"}, Load(t, to)
  PROVE  IInv'
<1> DEFINE s == [user |-> Nobody, loading |-> TRUE, challenge |-> Nobody,
                 view |-> Proxy(to, jar.access), due |-> FALSE, late |-> FALSE, cache |-> Nobody]
           r == [at |-> "sent", tok |-> jar.refresh, new |-> 0]
           none == [k \in Tasks |-> Idle]
           asks == [k \in Tasks |-> IF k = "boot" THEN Call("me") ELSE Idle]
<1>1. /\ tab' = [tab EXCEPT ![t] = s]
      /\ UNCHANGED <<jar, hint, owner, record, closed, aged, dead>>
      /\ torn' \in BOOLEAN
  <2>1. torn \in BOOLEAN /\ torn' = (torn \/ HintDue(t))
    BY Parts DEF Load
  <2>2. HintDue(t) \in BOOLEAN
    BY DEF HintDue
  <2> QED BY <2>1, <2>2 DEF Load
<1>2. s \in States /\ s.user = Nobody /\ s.cache = Nobody
  BY Parts, Tokens, TabMoves, ProxyView
<1>3. /\ jar' \in Jars /\ hint' \in Toks /\ closed' \in BOOLEAN
      /\ JarOk(jar', owner) /\ torn' \in BOOLEAN
      /\ UNCHANGED <<owner, record, aged, dead>>
      /\ closed' => jar'.refresh = 0 /\ jar'.access = 0 /\ closed
  BY <1>1, Parts, Kept
<1>4. Idle \in Calls /\ CallOk(Idle, owner) /\ Idle.kept
  BY Tokens, NewCall, NothingAsked DEF Points, Asks, Idle
<1> HIDE DEF s
<1>5. NewReq \in [Kinds -> Reqs] /\ \A k \in Kinds : NewReq[k] = NoReq
  <2>1. NoReq \in Reqs
    BY Tokens DEF NoReq, Reqs, Stages
  <2> QED BY <2>1 DEF NewReq, Kinds
<1>6. ReqOk(NoReq, owner) /\ Barren(NoReq)
  BY NothingAsked
<1>7. "page" \in Tasks /\ "boot" \in Tasks /\ "boot" \in Kinds
  BY DEF Tasks, Kinds
<1>8. CASE req' = [req EXCEPT ![t] = [NewReq EXCEPT !.boot = r]] /\ task' = [task EXCEPT ![t] = none]
  <2> DEFINE rs == [NewReq EXCEPT !["boot"] = r]
  <2>1. r \in Reqs /\ ReqOk(r, owner) /\ (closed => Barren(r))
    <3>1. jar.refresh \in Toks /\ Owned(jar.refresh, owner) /\ Owned(0, owner)
      BY Parts, Fields DEF JarOk, Owned
    <3>2. r \in Reqs
      BY <3>1, Tokens DEF Reqs, Stages
    <3> QED BY <3>1, <3>2 DEF ReqOk, Barren, IInv, ClosedInv
  <2> HIDE DEF r
  <2>2. none \in [Tasks -> Calls] /\ \A k \in Tasks : none[k] = Idle
    BY <1>4
  <2>3. rs \in [Kinds -> Reqs] /\ req' = [req EXCEPT ![t] = rs]
    BY <1>5, <1>8, <2>1
  <2>4. \A k \in Kinds : ReqOk(rs[k], owner) /\ (closed => Barren(rs[k]))
    <3>1. \A k \in Kinds : rs[k] = r \/ rs[k] = NoReq
      BY <1>5
    <3> QED BY <1>6, <2>1, <3>1
  <2>5. \A k \in Tasks : CallOk(none[k], owner)
    BY <1>4
  <2> HIDE DEF none, rs
  <2>6. DataOk(s, none, rs)
    BY <1>2, <1>7, <2>2 DEF DataOk
  <2>7. task' = [task EXCEPT ![t] = none] /\ tab' = [tab EXCEPT ![t] = s] /\ s \in States
    BY <1>8, <1>1, <1>2
  <2> QED BY <1>3, <2>2, <2>3, <2>4, <2>5, <2>6, <2>7, ClientStep
<1>9. CASE req' = [req EXCEPT ![t] = NewReq] /\ task' = [task EXCEPT ![t] = asks]
  <2>1. Call("me") \in Calls /\ CallOk(Call("me"), owner)
    <3>1. "me" \in Asks
      BY DEF Asks
    <3>2. Call("me") \in Calls
      BY <3>1, NewAsk
    <3>3. CallOk(Call("me"), owner)
      BY AskOk
    <3> QED BY <3>2, <3>3
  <2>2. asks \in [Tasks -> Calls] /\ (\A k \in Tasks : CallOk(asks[k], owner)) /\ asks["page"] = Idle
    BY <1>4, <2>1 DEF Tasks
  <2>3. \A k \in Kinds : ReqOk(NewReq[k], owner) /\ Barren(NewReq[k])
    BY <1>5, <1>6
  <2> HIDE DEF asks
  <2>4. DataOk(s, asks, NewReq)
    BY <1>2, <1>5, <1>7, <2>2 DEF DataOk
  <2>5. task' = [task EXCEPT ![t] = asks] /\ tab' = [tab EXCEPT ![t] = s] /\ s \in States
        /\ req' = [req EXCEPT ![t] = NewReq]
    BY <1>9, <1>1, <1>2
  <2> QED BY <1>3, <1>5, <2>2, <2>3, <2>4, <2>5, ClientStep
<1> QED BY <1>8, <1>9 DEF Load

LEMMA RetryKeeps ==
  ASSUME IInv, NEW t \in Tabs, NEW j \in Tasks, Retry(t, j)
  PROVE  IInv'
<1> DEFINE c == task[t][j]
           q == [c EXCEPT !.at = "await"]
           ts == [task[t] EXCEPT ![j] = q]
<1>1. c \in Calls /\ CallOk(c, owner) /\ c.at = "reply"
  BY Parts DEF Retry
<1>2. q \in Calls
  BY <1>1 DEF Calls, Points
<1>3. /\ q.at = "await" /\ q.ans = c.ans /\ q.tok = c.tok /\ q.ask = c.ask
      /\ q.who = c.who /\ q.kept = c.kept
  BY <1>1 DEF Calls
<1>4. CallOk(q, owner)
  BY <1>1, <1>3 DEF CallOk
<1>5. /\ task' = [task EXCEPT ![t][j] = q] /\ req' = PerformRefresh(t, req)
      /\ UNCHANGED <<jar, hint, tab, server>>
  BY DEF Retry
<1>6. q # Idle /\ c # Idle
  BY <1>1, <1>3 DEF Idle
<1> HIDE DEF q
<1> USE Parts
<1>7. PICK rs \in [Kinds -> Reqs] :
           /\ PerformRefresh(t, req) = [req EXCEPT ![t] = rs]
           /\ \A k \in Kinds : ReqOk(rs[k], owner)
           /\ rs["boot"] = req[t]["boot"]
           /\ closed => \A k \in Kinds : Barren(rs[k])
  BY Performed
<1>8. ts \in [Tasks -> Calls] /\ task' = [task EXCEPT ![t] = ts]
  BY <1>2, <1>5, Kept
<1>9. \A k \in Tasks : /\ CallOk(ts[k], owner)
                       /\ ts[k] = Idle <=> task[t][k] = Idle
                       /\ ts[k].kept = task[t][k].kept
  BY <1>3, <1>4, <1>6, Kept
<1>10. DataOk(tab[t], ts, rs)
  <2>1. DataOk(tab[t], task[t], req[t]) /\ "page" \in Tasks /\ "boot" \in Tasks
    BY DEF Tasks
  <2> HIDE DEF ts
  <2> QED BY <2>1, <1>7, <1>9 DEF DataOk
<1>11. /\ jar' \in Jars /\ hint' \in Toks /\ closed' \in BOOLEAN
       /\ JarOk(jar', owner) /\ torn' \in BOOLEAN
       /\ UNCHANGED <<owner, record, aged, dead>>
       /\ closed' => jar'.refresh = 0 /\ jar'.access = 0 /\ closed
  BY <1>5, Kept DEF server
<1>12. tab' = [tab EXCEPT ![t] = tab[t]] /\ tab[t] \in States
  BY <1>5, Kept
<1>13. \A k \in Tasks : CallOk(ts[k], owner)
  BY <1>9
<1> HIDE DEF ts, c
<1> QED BY <1>5, <1>7, <1>8, <1>10, <1>11, <1>12, <1>13, ClientStep

\* A call that goes on without an answer.
LEMMA GoesOn ==
  ASSUME NEW c \in Calls, NEW d, NEW o, c.at # "idle", CallOk(c, o),
         \/ d = [c EXCEPT !.at = "send"]
         \/ d = [c EXCEPT !.again = TRUE, !.at = "send"]
  PROVE  /\ d \in Calls /\ CallOk(d, o) /\ d.kept = c.kept
         /\ c # Idle /\ d # Idle
<1>1. /\ d.at = "send" /\ d.ans = c.ans /\ d.tok = c.tok /\ d.ask = c.ask
      /\ d.who = c.who /\ d.kept = c.kept
  BY DEF Calls
<1>2. d \in Calls
  BY DEF Calls, Points
<1>3. CallOk(d, o)
  BY <1>1 DEF CallOk
<1>4. c # Idle /\ d # Idle
  <2>1. Idle.at = "idle"
    BY DEF Idle
  <2> QED BY <1>1, <2>1
<1> QED BY <1>1, <1>2, <1>3, <1>4

\* New cookies.
LEMMA NewCookies ==
  ASSUME IInv, NEW n \in Toks, Owned(n, owner), SetCookies(n)
  PROVE  jar' \in Jars /\ JarOk(jar', owner)
BY DEF SetCookies, Jars, JarOk

LEMMA RefreshGrantedKeeps ==
  ASSUME IInv, NEW t \in Tabs, RefreshGranted(t)
  PROVE  IInv'
<1> DEFINE n == req[t]["shared"].new
           ts == [k \in Tasks |-> Released(task[t][k])]
           rs == [req[t] EXCEPT !["shared"] = NoReq]
<1>1. /\ hint' = n /\ req' = [req EXCEPT ![t].shared = NoReq] /\ UNCHANGED <<jar, tab, server>>
      /\ req[t]["shared"].at = "stored"
  BY DEF RefreshGranted
<1>2. n \in Toks /\ Owned(n, owner) /\ "shared" \in Kinds /\ "boot" \in Kinds
  BY Parts, Fields DEF ReqOk, Kinds
<1>3. /\ jar' \in Jars /\ hint' \in Toks /\ JarOk(jar', owner) /\ torn' \in BOOLEAN
  BY <1>1, <1>2, Parts DEF server
<1>4. ~closed
  BY <1>1, <1>2, Kept DEF Barren
<1>5. task' = [task EXCEPT ![t] = ts]
  BY DEF RefreshGranted
<1>6. \A k \in Tasks : /\ ts[k] \in Calls /\ CallOk(ts[k], owner)
                       /\ ts[k] = Idle <=> task[t][k] = Idle
                       /\ ts[k].kept = task[t][k].kept
  <2> SUFFICES ASSUME NEW k \in Tasks
               PROVE  /\ ts[k] \in Calls /\ CallOk(ts[k], owner)
                      /\ ts[k] = Idle <=> task[t][k] = Idle
                      /\ ts[k].kept = task[t][k].kept
    OBVIOUS
  <2>1. task[t][k] \in Calls /\ CallOk(task[t][k], owner)
    BY Parts
  <2>2. CASE task[t][k].at \in {"hold", "await"}
    <3>1. \/ ts[k] = [task[t][k] EXCEPT !.at = "send"]
          \/ ts[k] = [task[t][k] EXCEPT !.again = TRUE, !.at = "send"]
      BY <2>2 DEF Released
    <3>2. task[t][k].at # "idle"
      BY <2>2
    <3> HIDE DEF ts
    <3> QED BY <2>1, <3>1, <3>2, GoesOn
  <2>3. CASE task[t][k].at \notin {"hold", "await"}
    <3>1. ts[k] = task[t][k]
      BY <2>3 DEF Released
    <3> QED BY <2>1, <3>1
  <2> QED BY <2>2, <2>3
<1>7. ts \in [Tasks -> Calls]
  BY <1>6
<1>8. /\ rs \in [Kinds -> Reqs] /\ req' = [req EXCEPT ![t] = rs] /\ rs["boot"] = req[t]["boot"]
      /\ \A k \in Kinds : ReqOk(rs[k], owner)
  <2>1. NoReq \in Reqs /\ ReqOk(NoReq, owner)
    BY Tokens, NothingAsked DEF NoReq, Reqs, Stages
  <2> QED BY <2>1, <1>1, <1>2, Parts, Kept
<1>9. DataOk(tab[t], ts, rs)
  <2>1. DataOk(tab[t], task[t], req[t]) /\ "page" \in Tasks /\ "boot" \in Tasks
    BY Parts DEF Tasks
  <2> HIDE DEF ts, rs
  <2> QED BY <2>1, <1>6, <1>8 DEF DataOk
<1>10. /\ tab' = [tab EXCEPT ![t] = tab[t]] /\ tab[t] \in States
       /\ closed' = FALSE /\ UNCHANGED <<owner, record, aged, dead>>
  BY <1>1, <1>4, Kept, Parts DEF server
<1> HIDE DEF ts, rs
<1> QED BY <1>3, <1>5, <1>6, <1>7, <1>8, <1>9, <1>10, ClientStep

\* The browser stores the cookies of an answer.
LEMMA StoreRefreshKeeps ==
  ASSUME IInv, NEW t \in Tabs, NEW k \in Kinds, StoreRefresh(t, k)
  PROVE  IInv'
<1> DEFINE r == req[t][k]
           q == [r EXCEPT !.at = "stored"]
           rs == [req[t] EXCEPT ![k] = q]
<1>1. /\ r.at = "granted" /\ SetCookies(r.new) /\ req' = [req EXCEPT ![t][k].at = "stored"]
      /\ torn' = SomeHintDue /\ UNCHANGED <<hint, tab, task, owner, record, closed, aged, dead>>
  BY DEF StoreRefresh
<1>2. r \in Reqs /\ ReqOk(r, owner) /\ r.new \in Toks /\ Owned(r.new, owner)
  BY Parts, Fields DEF ReqOk
<1>3. jar' \in Jars /\ JarOk(jar', owner)
  BY <1>1, <1>2, NewCookies
<1>4. ~closed
  <2>1. ~Barren(r)
    BY <1>1 DEF Barren
  <2> QED BY <2>1 DEF IInv, ClosedInv
<1>5. q \in Reqs /\ ReqOk(q, owner) /\ q # NoReq /\ r # NoReq
  <2>1. q \in Reqs
    BY <1>2, Tokens, ReqMoves DEF Stages
  <2>2. q.at = "stored" /\ q.tok = r.tok /\ q.new = r.new
    BY <1>2 DEF Reqs
  <2> QED BY <1>1, <1>2, <2>1, <2>2 DEF ReqOk, NoReq
<1> HIDE DEF q
<1>6. /\ rs \in [Kinds -> Reqs] /\ req' = [req EXCEPT ![t] = rs]
      /\ rs[k] = q /\ \A j \in Kinds : j # k => rs[j] = req[t][j]
  BY <1>1, <1>5, Kept DEF q
<1>7. \A j \in Kinds : ReqOk(rs[j], owner)
  BY <1>5, <1>6, Parts
<1>8. DataOk(tab[t], task[t], rs)
  <2>1. DataOk(tab[t], task[t], req[t]) /\ "boot" \in Kinds
    BY Parts DEF Kinds
  <2> HIDE DEF rs
  <2>2. rs["boot"] = NoReq <=> req[t]["boot"] = NoReq
    BY <1>5, <1>6, <2>1
  <2> QED BY <2>1, <2>2 DEF DataOk
<1>9. torn' \in BOOLEAN
  BY <1>1 DEF SomeHintDue
<1>10. /\ tab' = [tab EXCEPT ![t] = tab[t]] /\ tab[t] \in States
       /\ task' = [task EXCEPT ![t] = task[t]] /\ task[t] \in [Tasks -> Calls]
       /\ \A j \in Tasks : CallOk(task[t][j], owner)
       /\ hint' \in Toks /\ closed' \in BOOLEAN /\ ~closed'
       /\ UNCHANGED <<owner, record, aged, dead>>
  BY <1>1, <1>4, Kept, Parts
<1> HIDE DEF rs
<1> QED BY <1>3, <1>6, <1>7, <1>8, <1>9, <1>10, ClientStep

LEMMA StoreAnswerKeeps ==
  ASSUME IInv, NEW t \in Tabs, StoreAnswer(t)
  PROVE  IInv'
<1> DEFINE c == task[t]["form"]
           q == [c EXCEPT !.at = "stored"]
           ts == [task[t] EXCEPT !["form"] = q]
<1>1. /\ c.at = "reply" /\ (IF c.ask = "logout" THEN ClearCookies ELSE SetCookies(c.tok))
      /\ task' = [task EXCEPT ![t].form = q]
      /\ torn' = SomeHintDue /\ UNCHANGED <<hint, tab, req, owner, record, aged, dead>>
  BY DEF StoreAnswer
<1>2. closed' = (c.ask = "logout" /\ Quiet(t))
  BY DEF StoreAnswer
<1>3. /\ "form" \in Tasks /\ "boot" \in Tasks /\ "page" \in Tasks
      /\ "form" # "boot" /\ "form" # "page"
  BY DEF Tasks
<1>4. c \in Calls /\ CallOk(c, owner) /\ c.tok \in Toks /\ Owned(c.tok, owner)
  BY <1>3, Parts, Fields DEF CallOk
<1>5. q \in Calls /\ CallOk(q, owner)
  <2>1. q \in Calls
    BY <1>4, Tokens, CallMoves DEF Points
  <2>2. q.ask = c.ask /\ q.ans = c.ans /\ q.tok = c.tok /\ q.who = c.who
    BY <1>4 DEF Calls
  <2> QED BY <1>4, <2>1, <2>2 DEF CallOk
<1>6. jar' \in Jars /\ JarOk(jar', owner) /\ (c.ask = "logout" => jar'.refresh = 0 /\ jar'.access = 0)
  <2>1. CASE c.ask = "logout"
    <3>1. jar' = [access |-> 0, refresh |-> 0, csrf |-> FALSE]
      BY <1>1, <2>1 DEF ClearCookies
    <3>2. jar' \in Jars
      BY <3>1, Tokens DEF Jars
    <3> QED BY <3>1, <3>2 DEF JarOk, Owned
  <2>2. CASE c.ask # "logout"
    BY <1>1, <1>4, <2>2, NewCookies
  <2> QED BY <2>1, <2>2
<1> HIDE DEF q
<1>7. /\ ts \in [Tasks -> Calls] /\ task' = [task EXCEPT ![t] = ts]
      /\ \A k \in Tasks : CallOk(ts[k], owner)
      /\ ts["page"] = task[t]["page"] /\ ts["boot"] = task[t]["boot"]
  BY <1>1, <1>3, <1>5, TaskPut, ZenonT(60)
<1> HIDE DEF ts
<1>8. DataOk(tab[t], ts, req[t])
  <2>1. DataOk(tab[t], task[t], req[t])
    BY Parts
  <2> QED BY <1>7, <2>1 DEF DataOk
<1>9. torn' \in BOOLEAN
  BY <1>1 DEF SomeHintDue
<1>10. closed' \in BOOLEAN
  <2>1. (c.ask = "logout" /\ Quiet(t)) \in BOOLEAN
    BY Zenon
  <2> QED BY <1>2, <2>1
<1>11. ASSUME closed'
       PROVE  /\ jar'.refresh = 0 /\ jar'.access = 0
              /\ \A k \in Kinds : Barren(req[t][k])
              /\ \A u \in Tabs, k \in Kinds : req[u][k] = NoReq
  <2>1. c.ask = "logout" /\ Quiet(t)
    BY <1>2, <1>11
  <2>2. \A u \in Tabs : DOMAIN req[u] = Kinds
    BY Parts
  <2>3. \A u \in Tabs, k \in Kinds : req[u][k] = NoReq
    BY <2>1, <2>2 DEF Quiet
  <2> QED BY <1>6, <2>1, <2>3, NothingAsked
<1>12. /\ tab' = [tab EXCEPT ![t] = tab[t]] /\ tab[t] \in States
       /\ req' = [req EXCEPT ![t] = req[t]] /\ req[t] \in [Kinds -> Reqs]
       /\ \A k \in Kinds : ReqOk(req[t][k], owner)
       /\ hint' \in Toks /\ UNCHANGED <<owner, record, aged, dead>>
  BY <1>1, Kept, Parts
<1> QED BY <1>6, <1>7, <1>8, <1>9, <1>10, <1>11, <1>12, ClientStep

\* The data and the query of a session that has ended.
LEMMA Dropped ==
  ASSUME NEW ts \in [Tasks -> Calls], NEW o, \A k \in Tasks : CallOk(ts[k], o)
  PROVE  /\ Drop(ts) \in [Tasks -> Calls]
         /\ \A k \in Tasks : CallOk(Drop(ts)[k], o)
         /\ Drop(ts)["page"].kept => Drop(ts)["page"] = Idle
         /\ Drop(ts)["boot"] = ts["boot"]
<1> DEFINE c == ts["page"]
           d == [c EXCEPT !.kept = FALSE]
<1>1. c \in Calls /\ CallOk(c, o) /\ "page" \in Tasks /\ "boot" \in Tasks /\ "page" # "boot"
  BY DEF Tasks
<1>2. d \in Calls /\ ~d.kept /\ d.tok = c.tok /\ d.ans = c.ans /\ d.ask = c.ask /\ d.who = c.who
  BY <1>1 DEF Calls
<1>3. CallOk(d, o)
  BY <1>1, <1>2 DEF CallOk
<1>4. CASE c = Idle
  BY <1>1, <1>4 DEF Drop
<1>5. CASE c # Idle
  <2>1. Drop(ts) = [ts EXCEPT !["page"] = d]
    BY <1>5 DEF Drop
  <2> HIDE DEF d
  <2> QED BY <1>1, <1>2, <1>3, <2>1
<1> QED BY <1>4, <1>5

LEMMA RefreshDeniedKeeps ==
  ASSUME IInv, NEW t \in Tabs, RefreshDenied(t)
  PROVE  IInv'
<1> DEFINE lost == {k \in Tasks : task[t][k].at = "await"}
           on == [k \in Tasks |-> IF k \in lost THEN Idle
                   ELSE IF task[t][k].at = "hold" THEN [task[t][k] EXCEPT !.at = "send"]
                   ELSE task[t][k]]
           rs == [req[t] EXCEPT !["shared"] = NoReq]
           s == Wiped(SignedOut(tab[t]))
<1>1. /\ req' = [req EXCEPT ![t].shared = NoReq] /\ UNCHANGED <<jar, server>>
      /\ \/ lost = {} /\ task' = [task EXCEPT ![t] = on] /\ UNCHANGED <<tab, hint>>
         \/ lost # {} /\ task' = [task EXCEPT ![t] = Drop(on)] /\ SessionExpired(t) /\ hint' = 0
  BY DEF RefreshDenied
<1>2. \A k \in Tasks : on[k] \in Calls /\ CallOk(on[k], owner)
                       /\ (task[t][k] = Idle => on[k] = Idle)
  <2> SUFFICES ASSUME NEW k \in Tasks
               PROVE  on[k] \in Calls /\ CallOk(on[k], owner)
                      /\ (task[t][k] = Idle => on[k] = Idle)
    OBVIOUS
  <2>1. task[t][k] \in Calls /\ CallOk(task[t][k], owner)
    BY Parts
  <2>2. Idle \in Calls /\ CallOk(Idle, owner) /\ Idle.at = "idle"
    BY Tokens, NewCall, NothingAsked DEF Points, Asks, Idle
  <2>3. CASE k \in lost
    <3>1. on[k] = Idle
      BY <2>3
    <3> QED BY <2>2, <3>1
  <2>4. CASE k \notin lost /\ task[t][k].at = "hold"
    <3>1. on[k] = [task[t][k] EXCEPT !.at = "send"] /\ task[t][k].at # "idle"
      BY <2>4
    <3> HIDE DEF on
    <3> QED BY <2>1, <2>2, <3>1, GoesOn
  <2>5. CASE k \notin lost /\ task[t][k].at # "hold"
    <3>1. on[k] = task[t][k]
      BY <2>5
    <3> QED BY <2>1, <3>1
  <2> QED BY <2>3, <2>4, <2>5
<1>3. on \in [Tasks -> Calls]
  BY <1>2
<1>4. /\ rs \in [Kinds -> Reqs] /\ req' = [req EXCEPT ![t] = rs] /\ rs["boot"] = req[t]["boot"]
      /\ \A k \in Kinds : ReqOk(rs[k], owner) /\ (closed => Barren(rs[k]))
  <2>1. NoReq \in Reqs /\ ReqOk(NoReq, owner) /\ Barren(NoReq) /\ "shared" # "boot" /\ "boot" \in Kinds
    BY Tokens, NothingAsked DEF NoReq, Reqs, Stages, Kinds
  <2>2. "shared" \in Kinds
    BY DEF Kinds
  <2> QED BY <2>1, <2>2, <1>1, ReqPut
<1>5. /\ jar' \in Jars /\ closed' \in BOOLEAN /\ JarOk(jar', owner)
      /\ UNCHANGED <<owner, record, aged, dead>>
      /\ closed' => jar'.refresh = 0 /\ jar'.access = 0 /\ closed
      /\ hint' = hint \/ hint' = 0
  BY <1>1, Parts, Kept DEF server
<1>6. hint' \in Toks /\ torn' \in BOOLEAN
  BY <1>1, <1>5, Parts, Tokens DEF server
<1>7. DataOk(tab[t], task[t], req[t]) /\ "page" \in Tasks /\ "boot" \in Tasks
  BY Parts DEF Tasks
<1>8. \A k \in Kinds : ReqOk(rs[k], owner)
  BY <1>4
<1>9. closed' => \A k \in Kinds : Barren(rs[k])
  BY <1>4, <1>5
<1>10. CASE lost = {} /\ task' = [task EXCEPT ![t] = on] /\ UNCHANGED <<tab, hint>>
  <2>1. \A k \in Tasks : on[k].kept = task[t][k].kept /\ (on[k] = Idle <=> task[t][k] = Idle)
    <3> SUFFICES ASSUME NEW k \in Tasks
                 PROVE  on[k].kept = task[t][k].kept /\ (on[k] = Idle <=> task[t][k] = Idle)
      OBVIOUS
    <3>1. task[t][k] \in Calls /\ CallOk(task[t][k], owner)
      BY Parts
    <3>2. CASE task[t][k].at = "hold"
      <4>1. on[k] = [task[t][k] EXCEPT !.at = "send"] /\ task[t][k].at # "idle"
        BY <1>10, <3>2
      <4> HIDE DEF on, lost
      <4> QED BY <3>1, <4>1, GoesOn
    <3>3. CASE task[t][k].at # "hold"
      BY <1>10, <3>3
    <3> QED BY <3>2, <3>3
  <2> HIDE DEF on, lost, rs
  <2>2. DataOk(tab[t], on, rs)
    BY <1>4, <1>7, <2>1 DEF DataOk
  <2>3. tab' = [tab EXCEPT ![t] = tab[t]] /\ tab[t] \in States
    BY <1>10, Kept
  <2>4. \A k \in Tasks : CallOk(on[k], owner)
    BY <1>2
  <2>5. task' = [task EXCEPT ![t] = on]
    BY <1>10
  <2> QED BY <1>3, <1>4, <1>5, <1>6, <1>8, <1>9, <2>2, <2>3, <2>4, <2>5, ClientStep
<1>11. CASE lost # {} /\ task' = [task EXCEPT ![t] = Drop(on)] /\ SessionExpired(t) /\ hint' = 0
  <2> HIDE DEF on, lost, rs
  <2>1. /\ Drop(on) \in [Tasks -> Calls]
        /\ \A k \in Tasks : CallOk(Drop(on)[k], owner)
        /\ Drop(on)["page"].kept => Drop(on)["page"] = Idle
        /\ Drop(on)["boot"] = on["boot"]
    BY <1>2, <1>3, Dropped
  <2>2. s \in States /\ tab' = [tab EXCEPT ![t] = s]
    <3>1. tab[t] \in States
      BY Parts
    <3>2. SignedOut(tab[t]) \in States
      BY <3>1, Tokens, TabMoves
    <3> QED BY <3>2, <1>11, Tokens, TabMoves DEF SessionExpired
  <2>3. s.user = Nobody /\ s.cache = Nobody
    BY Parts DEF SignedOut, Wiped, States
  <2> HIDE DEF s
  <2>4. DataOk(s, Drop(on), rs)
    BY <1>2, <1>4, <1>7, <2>1, <2>3 DEF DataOk
  <2>5. task' = [task EXCEPT ![t] = Drop(on)]
    BY <1>11
  <2> QED BY <1>4, <1>5, <1>6, <1>8, <1>9, <2>1, <2>2, <2>4, <2>5, ClientStep
<1> QED BY <1>1, <1>10, <1>11

\* The restore of the page, with and without a user.
LEMMA RestoreReplyKeeps ==
  ASSUME IInv, NEW t \in Tabs, RestoreReply(t)
  PROVE  IInv'
<1> DEFINE c == task[t]["boot"]
           ts == [task[t] EXCEPT !["boot"] = Idle]
<1>1. /\ c.at = "reply" /\ c.ask = "me" /\ task' = [task EXCEPT ![t].boot = Idle]
      /\ UNCHANGED <<jar, req, server>>
      /\ \/ c.ans = "ok" /\ tab' = [tab EXCEPT ![t] = SetUser(@, owner[c.tok])] /\ UNCHANGED hint
         \/ tab' = [tab EXCEPT ![t] = SignedOut(@)] /\ hint' = 0
  BY DEF RestoreReply, Reply, BringsCookies
<1>2. c \in Calls /\ CallOk(c, owner) /\ c # Idle /\ c.tok \in Toks
      /\ "boot" \in Tasks /\ "page" \in Tasks /\ "boot" \in Kinds /\ "page" # "boot"
  <2>1. "boot" \in Tasks /\ "page" \in Tasks /\ "boot" \in Kinds
    BY DEF Tasks, Kinds
  <2>2. c # Idle
    BY <1>1 DEF Idle
  <2> QED BY <2>1, <2>2, Parts, Fields
<1>3. /\ ts \in [Tasks -> Calls] /\ task' = [task EXCEPT ![t] = ts]
      /\ \A k \in Tasks : CallOk(ts[k], owner)
      /\ ts["boot"] = Idle /\ ts["page"] = task[t]["page"]
  <2>1. Idle \in Calls /\ CallOk(Idle, owner)
    BY Tokens, NewCall, NothingAsked DEF Points, Asks
  <2> QED BY <2>1, <1>1, <1>2, TaskPut, ZenonT(60)
<1>4. /\ req' = [req EXCEPT ![t] = req[t]] /\ req[t] \in [Kinds -> Reqs]
      /\ \A k \in Kinds : ReqOk(req[t][k], owner)
      /\ closed => \A k \in Kinds : Barren(req[t][k])
  BY <1>1, Parts, Kept
<1>5. /\ jar' \in Jars /\ closed' \in BOOLEAN /\ JarOk(jar', owner)
      /\ UNCHANGED <<owner, record, aged, dead>>
      /\ closed' => jar'.refresh = 0 /\ jar'.access = 0 /\ closed
      /\ hint' = hint \/ hint' = 0
  BY <1>1, Parts, Kept DEF server
<1>6. hint' \in Toks /\ torn' \in BOOLEAN
  BY <1>1, <1>5, Parts, Tokens DEF server
<1>7. DataOk(tab[t], task[t], req[t]) /\ tab[t] \in States
  BY Parts
<1>8. req[t]["boot"] = NoReq /\ (tab[t].user = Nobody \/ tab[t].late)
  BY <1>2, <1>7 DEF DataOk
<1> HIDE DEF ts, c
<1>9. CASE c.ans = "ok" /\ tab' = [tab EXCEPT ![t] = SetUser(@, owner[c.tok])]
  <2> DEFINE s == SetUser(tab[t], owner[c.tok])
  <2>1. owner[c.tok] \in Users
    BY <1>1, <1>2, <1>9 DEF CallOk, Owned
  <2>2. s \in States /\ tab' = [tab EXCEPT ![t] = s]
    BY <1>7, <1>9, <2>1, TabMoves DEF Who
  <2>3. s.user # Nobody
    BY <1>7, <2>1, SessionAssumption DEF SetUser, States
  <2> HIDE DEF s
  <2>4. DataOk(s, ts, req[t])
    BY <1>3, <1>8, <2>3 DEF DataOk
  <2> QED BY <1>3, <1>4, <1>5, <1>6, <2>2, <2>4, ClientStep
<1>10. CASE tab' = [tab EXCEPT ![t] = SignedOut(@)]
  <2> DEFINE s == SignedOut(tab[t])
  <2>1. s \in States /\ tab' = [tab EXCEPT ![t] = s]
    BY <1>7, <1>10, Tokens, TabMoves
  <2>2. s.user = Nobody /\ s.late = tab[t].late /\ s.cache = tab[t].cache
    BY <1>7 DEF SignedOut, States
  <2> HIDE DEF s
  <2>3. DataOk(s, ts, req[t])
    BY <1>3, <1>7, <1>8, <2>2 DEF DataOk
  <2> QED BY <1>3, <1>4, <1>5, <1>6, <2>1, <2>3, ClientStep
<1> QED BY <1>1, <1>9, <1>10

LEMMA RestoreRefreshedKeeps ==
  ASSUME IInv, NEW t \in Tabs, RestoreRefreshed(t)
  PROVE  IInv'
<1> DEFINE r == req[t]["boot"]
           rs == [req[t] EXCEPT !["boot"] = NoReq]
           me == [Idle EXCEPT !.at = "send", !.ask = "me"]
<1>1. /\ req' = [req EXCEPT ![t].boot = NoReq] /\ UNCHANGED <<jar, server>>
      /\ \/ /\ r.at = "stored" /\ hint' = r.new /\ UNCHANGED tab
            /\ task' = [task EXCEPT ![t].boot = me]
         \/ /\ r.at = "denied" /\ tab' = [tab EXCEPT ![t] = SignedOut(@)]
            /\ task' = [task EXCEPT ![t].boot = Idle] /\ hint' = 0
  BY DEF RestoreRefreshed
<1>2. /\ "boot" \in Tasks /\ "page" \in Tasks /\ "boot" \in Kinds /\ "page" # "boot"
      /\ r.new \in Toks /\ Owned(r.new, owner)
  <2>1. "boot" \in Tasks /\ "page" \in Tasks /\ "boot" \in Kinds
    BY DEF Tasks, Kinds
  <2> QED BY <2>1, Parts, Fields DEF ReqOk
<1>3. /\ rs \in [Kinds -> Reqs] /\ req' = [req EXCEPT ![t] = rs] /\ rs["boot"] = NoReq
      /\ \A k \in Kinds : ReqOk(rs[k], owner) /\ (closed => Barren(rs[k]))
  <2>1. NoReq \in Reqs /\ ReqOk(NoReq, owner) /\ Barren(NoReq)
    BY Tokens, NothingAsked DEF NoReq, Reqs, Stages
  <2> QED BY <2>1, <1>1, <1>2, ReqPut
<1>4. Idle \in Calls /\ CallOk(Idle, owner) /\ me \in Calls /\ CallOk(me, owner)
  BY Tokens, NewCall, NothingAsked DEF Points, Asks
<1>5. DataOk(tab[t], task[t], req[t]) /\ tab[t] \in States
  BY Parts
<1>6. \A k \in Kinds : ReqOk(rs[k], owner)
  BY <1>3
<1>7. r # NoReq
  BY <1>1 DEF NoReq
<1>8. tab[t].user = Nobody \/ tab[t].late
  BY <1>5, <1>7 DEF DataOk
<1>9. UNCHANGED <<jar, owner, record, aged, dead>> /\ closed' = closed /\ closed \in BOOLEAN
      /\ torn' \in BOOLEAN
  BY <1>1, Parts DEF server
<1> HIDE DEF rs, me
<1>10. CASE /\ r.at = "stored" /\ hint' = r.new /\ UNCHANGED tab
            /\ task' = [task EXCEPT ![t].boot = me]
  <2> DEFINE ts == [task[t] EXCEPT !["boot"] = me]
  <2>1. ~closed
    BY <1>2, <1>10, Kept DEF Barren
  <2>2. /\ jar' \in Jars /\ hint' \in Toks /\ JarOk(jar', owner) /\ torn' \in BOOLEAN
    BY <1>2, <1>9, <1>10, Parts
  <2>3. /\ ts \in [Tasks -> Calls] /\ task' = [task EXCEPT ![t] = ts]
        /\ \A k \in Tasks : CallOk(ts[k], owner)
        /\ ts["page"] = task[t]["page"]
    BY <1>2, <1>4, <1>10, TaskPut, ZenonT(60)
  <2>4. tab' = [tab EXCEPT ![t] = tab[t]]
    BY <1>10, Kept
  <2> HIDE DEF ts
  <2>5. DataOk(tab[t], ts, rs)
    BY <1>3, <1>5, <1>8, <2>3 DEF DataOk
  <2> QED BY <1>3, <1>5, <1>6, <1>9, <2>1, <2>2, <2>3, <2>4, <2>5, ClientStep
<1>11. CASE /\ r.at = "denied" /\ tab' = [tab EXCEPT ![t] = SignedOut(@)]
            /\ task' = [task EXCEPT ![t].boot = Idle] /\ hint' = 0
  <2> DEFINE ts == [task[t] EXCEPT !["boot"] = Idle]
             s == SignedOut(tab[t])
  <2>1. /\ jar' \in Jars /\ JarOk(jar', owner) /\ closed' \in BOOLEAN
        /\ closed' => jar'.refresh = 0 /\ jar'.access = 0 /\ closed
    BY <1>9, <1>11, Parts, Kept
  <2>2. hint' \in Toks /\ torn' \in BOOLEAN
    BY <1>9, <1>11, Parts, Tokens
  <2>3. /\ ts \in [Tasks -> Calls] /\ task' = [task EXCEPT ![t] = ts]
        /\ \A k \in Tasks : CallOk(ts[k], owner)
        /\ ts["page"] = task[t]["page"] /\ ts["boot"] = Idle
    BY <1>2, <1>4, <1>11, TaskPut, ZenonT(60)
  <2>4. s \in States /\ tab' = [tab EXCEPT ![t] = s]
    BY <1>5, <1>11, Tokens, TabMoves
  <2>5. s.user = Nobody /\ s.late = tab[t].late /\ s.cache = tab[t].cache
    BY <1>5 DEF SignedOut, States
  <2> HIDE DEF ts, s
  <2>6. DataOk(s, ts, rs)
    BY <1>3, <1>5, <1>8, <2>3, <2>5 DEF DataOk
  <2>7. closed' => \A k \in Kinds : Barren(rs[k])
    BY <1>3, <1>9
  <2> QED BY <1>3, <1>6, <1>9, <2>1, <2>2, <2>3, <2>4, <2>6, <2>7, ClientStep
<1> QED BY <1>1, <1>10, <1>11

LEMMA PageReplyKeeps ==
  ASSUME IInv, NEW t \in Tabs, PageReply(t)
  PROVE  IInv'
<1> DEFINE c == task[t]["page"]
           ts == [task[t] EXCEPT !["page"] = Idle]
           s == [tab[t] EXCEPT !.cache = owner[c.tok]]
<1>1. /\ c.at = "reply" /\ c.ask = "page" /\ task' = [task EXCEPT ![t].page = Idle]
      /\ UNCHANGED <<jar, hint, req, server>>
      /\ \/ c.ans = "ok" /\ c.kept /\ tab' = [tab EXCEPT ![t].cache = owner[c.tok]]
         \/ UNCHANGED tab
  BY DEF PageReply, Reply, BringsCookies
<1>2. c \in Calls /\ CallOk(c, owner) /\ c # Idle /\ c.tok \in Toks
      /\ "boot" \in Tasks /\ "page" \in Tasks /\ "page" # "boot"
  <2>1. "boot" \in Tasks /\ "page" \in Tasks
    BY DEF Tasks
  <2>2. c # Idle
    BY <1>1 DEF Idle
  <2> QED BY <2>1, <2>2, Parts, Fields
<1>3. /\ ts \in [Tasks -> Calls] /\ task' = [task EXCEPT ![t] = ts]
      /\ \A k \in Tasks : CallOk(ts[k], owner)
      /\ ts["page"] = Idle /\ ts["boot"] = task[t]["boot"]
  <2>1. Idle \in Calls /\ CallOk(Idle, owner)
    BY Tokens, NewCall, NothingAsked DEF Points, Asks
  <2> QED BY <2>1, <1>1, <1>2, TaskPut, ZenonT(60)
<1>4. /\ req' = [req EXCEPT ![t] = req[t]] /\ req[t] \in [Kinds -> Reqs]
      /\ \A k \in Kinds : ReqOk(req[t][k], owner)
      /\ closed => \A k \in Kinds : Barren(req[t][k])
  BY <1>1, Parts, Kept
<1>5. /\ jar' \in Jars /\ hint' \in Toks /\ closed' \in BOOLEAN
      /\ JarOk(jar', owner) /\ torn' \in BOOLEAN
      /\ UNCHANGED <<owner, record, aged, dead>>
      /\ closed' => jar'.refresh = 0 /\ jar'.access = 0 /\ closed
  BY <1>1, Parts, Kept DEF server
<1>6. DataOk(tab[t], task[t], req[t]) /\ tab[t] \in States
  BY Parts
<1> HIDE DEF ts, c
<1>7. CASE c.ans = "ok" /\ c.kept /\ tab' = [tab EXCEPT ![t].cache = owner[c.tok]]
  <2>1. owner[c.tok] \in Who
    BY <1>1, <1>2, <1>7 DEF CallOk, Owned, Who
  <2>2. s \in States /\ tab' = [tab EXCEPT ![t] = s]
    BY <1>6, <1>7, <2>1, TabMoves
  <2>3. s.user = tab[t].user /\ s.late = tab[t].late
    BY <1>6 DEF States
  <2>4. ~(s.user = Nobody /\ ~s.late)
    BY <1>2, <1>6, <1>7, <2>3 DEF DataOk, c
  <2> HIDE DEF s
  <2>5. DataOk(s, ts, req[t])
    BY <1>3, <1>6, <2>3, <2>4 DEF DataOk
  <2> QED BY <1>3, <1>4, <1>5, <2>2, <2>5, ClientStep
<1>8. CASE UNCHANGED tab
  <2>1. tab' = [tab EXCEPT ![t] = tab[t]]
    BY <1>8, Kept
  <2>2. DataOk(tab[t], ts, req[t])
    BY <1>3, <1>6 DEF DataOk
  <2> QED BY <1>3, <1>4, <1>5, <1>6, <2>1, <2>2, ClientStep
<1> QED BY <1>1, <1>7, <1>8

LEMMA SignInReplyKeeps ==
  ASSUME IInv, NEW t \in Tabs, SignInReply(t)
  PROVE  IInv'
<1> DEFINE c == task[t]["form"]
           me == [Idle EXCEPT !.at = "send", !.ask = "me"]
<1>1. UNCHANGED <<jar, req, owner, record, closed, aged, dead, torn>>
  BY DEF SignInReply, server
<1>2. \/ /\ hint' = c.tok /\ task' = [task EXCEPT ![t].form = me]
         /\ UNCHANGED tab
      \/ /\ tab' = [tab EXCEPT ![t] = [Settled(@) EXCEPT !.challenge = c.who]]
         /\ task' = [task EXCEPT ![t].form = Idle]
         /\ UNCHANGED hint
      \/ /\ tab' = [tab EXCEPT ![t] = Settled(@)]
         /\ task' = [task EXCEPT ![t].form = Idle]
         /\ UNCHANGED hint
  BY DEF SignInReply
<1>3. /\ c \in Calls /\ CallOk(c, owner) /\ c.tok \in Toks /\ c.who \in Who
      /\ "form" \in Tasks /\ "boot" \in Tasks /\ "page" \in Tasks
      /\ "form" # "boot" /\ "form" # "page"
  <2>1. "form" \in Tasks /\ "boot" \in Tasks /\ "page" \in Tasks
    BY DEF Tasks
  <2> QED BY <2>1, Parts, Fields
<1>4. Idle \in Calls /\ CallOk(Idle, owner) /\ me \in Calls /\ CallOk(me, owner)
  BY Tokens, NewCall, NothingAsked DEF Points, Asks
<1>5. DataOk(tab[t], task[t], req[t]) /\ tab[t] \in States
  BY Parts
<1>6. /\ req' = [req EXCEPT ![t] = req[t]] /\ req[t] \in [Kinds -> Reqs]
      /\ \A k \in Kinds : ReqOk(req[t][k], owner)
      /\ closed => \A k \in Kinds : Barren(req[t][k])
  BY <1>1, Parts, Kept
<1> HIDE DEF me
<1>7. ASSUME NEW d \in {me, Idle}, task' = [task EXCEPT ![t].form = d], NEW s \in States,
             s.user = tab[t].user, s.late = tab[t].late, s.cache = tab[t].cache,
             tab' = [tab EXCEPT ![t] = s],
             hint' \in Toks
      PROVE  IInv'
  <2> DEFINE ts == [task[t] EXCEPT !["form"] = d]
  <2>1. /\ ts \in [Tasks -> Calls] /\ task' = [task EXCEPT ![t] = ts]
        /\ \A k \in Tasks : CallOk(ts[k], owner)
        /\ ts["page"] = task[t]["page"] /\ ts["boot"] = task[t]["boot"]
    <3>1. d \in Calls /\ CallOk(d, owner)
      BY <1>4
    <3> QED BY <1>3, <1>7, <3>1, TaskPut, ZenonT(60)
  <2> HIDE DEF ts
  <2>2. DataOk(s, ts, req[t])
    BY <1>5, <1>7, <2>1 DEF DataOk
  <2>3. /\ jar' \in Jars /\ closed' \in BOOLEAN /\ JarOk(jar', owner) /\ torn' \in BOOLEAN
        /\ closed' => jar'.refresh = 0 /\ jar'.access = 0 /\ closed
    BY <1>1, Parts, Kept
  <2> QED BY <1>1, <1>6, <1>7, <2>1, <2>2, <2>3, ClientStep
<1>8. CASE /\ hint' = c.tok /\ task' = [task EXCEPT ![t].form = me]
           /\ UNCHANGED tab
  <2>1. tab' = [tab EXCEPT ![t] = tab[t]]
    BY <1>8, Kept
  <2> QED BY <1>3, <1>5, <1>7, <1>8, <2>1
<1>9. ASSUME UNCHANGED hint
      PROVE  hint' \in Toks
  BY <1>9, Parts
<1>10. CASE /\ tab' = [tab EXCEPT ![t] = [Settled(@) EXCEPT !.challenge = c.who]]
            /\ task' = [task EXCEPT ![t].form = Idle]
            /\ UNCHANGED hint
  <2> DEFINE s == [Settled(tab[t]) EXCEPT !.challenge = c.who]
  <2>1. Settled(tab[t]) \in States
    BY <1>5, Tokens, TabMoves
  <2>2. s \in States
    BY <1>3, <2>1, TabMoves
  <2>3. s.user = tab[t].user /\ s.late = tab[t].late /\ s.cache = tab[t].cache
    BY <1>5 DEF Settled, States
  <2>4. tab' = [tab EXCEPT ![t] = s] /\ Idle \in {me, Idle}
    BY <1>10
  <2> HIDE DEF s
  <2> QED BY <1>7, <1>9, <1>10, <2>2, <2>3, <2>4
<1>11. CASE /\ tab' = [tab EXCEPT ![t] = Settled(@)]
            /\ task' = [task EXCEPT ![t].form = Idle]
            /\ UNCHANGED hint
  <2> DEFINE s == Settled(tab[t])
  <2>1. s \in States
    BY <1>5, Tokens, TabMoves
  <2>2. s.user = tab[t].user /\ s.late = tab[t].late /\ s.cache = tab[t].cache
    BY <1>5 DEF Settled, States
  <2>3. tab' = [tab EXCEPT ![t] = s] /\ Idle \in {me, Idle}
    BY <1>11
  <2> HIDE DEF s
  <2> QED BY <1>7, <1>9, <1>11, <2>1, <2>2, <2>3
<1> QED BY <1>2, <1>8, <1>10, <1>11

LEMMA WhoAmIReplyKeeps ==
  ASSUME IInv, NEW t \in Tabs, WhoAmIReply(t)
  PROVE  IInv'
<1> DEFINE c == task[t]["form"]
           ts == [task[t] EXCEPT !["form"] = Idle]
           v == Proxy("portal", jar.access)
           b == task[t]["boot"] # Idle \/ req[t]["boot"] # NoReq
           s == [SetUser(tab[t], owner[c.tok]) EXCEPT !.challenge = Nobody, !.view = v, !.late = b]
<1>1. /\ c.ask = "me" /\ task' = [task EXCEPT ![t].form = Idle]
      /\ UNCHANGED <<jar, hint, req, server>>
      /\ \/ c.ans = "ok" /\ tab' = [tab EXCEPT ![t] = s]
         \/ tab' = [tab EXCEPT ![t] = Settled(@)]
  BY DEF WhoAmIReply, Reply
<1>2. /\ c \in Calls /\ CallOk(c, owner) /\ c.tok \in Toks
      /\ "form" \in Tasks /\ "boot" \in Tasks /\ "page" \in Tasks
      /\ "form" # "boot" /\ "form" # "page"
  <2>1. "form" \in Tasks /\ "boot" \in Tasks /\ "page" \in Tasks
    BY DEF Tasks
  <2> QED BY <2>1, Parts, Fields
<1>3. Idle \in Calls /\ CallOk(Idle, owner)
  BY Tokens, NewCall, NothingAsked DEF Points, Asks
<1>4. DataOk(tab[t], task[t], req[t]) /\ tab[t] \in States
  BY Parts
<1>5. /\ req' = [req EXCEPT ![t] = req[t]] /\ req[t] \in [Kinds -> Reqs]
      /\ \A k \in Kinds : ReqOk(req[t][k], owner)
      /\ closed => \A k \in Kinds : Barren(req[t][k])
  BY <1>1, Parts, Kept
<1>6. /\ jar' \in Jars /\ hint' \in Toks /\ closed' \in BOOLEAN
      /\ JarOk(jar', owner) /\ torn' \in BOOLEAN
      /\ UNCHANGED <<owner, record, aged, dead>>
      /\ closed' => jar'.refresh = 0 /\ jar'.access = 0 /\ closed
  BY <1>1, Parts, Kept DEF server
<1>7. /\ ts \in [Tasks -> Calls] /\ task' = [task EXCEPT ![t] = ts]
      /\ \A k \in Tasks : CallOk(ts[k], owner)
      /\ ts["page"] = task[t]["page"] /\ ts["boot"] = task[t]["boot"]
  BY <1>1, <1>2, <1>3, TaskPut, ZenonT(60)
<1> HIDE DEF ts, c
<1>8. CASE c.ans = "ok" /\ tab' = [tab EXCEPT ![t] = s]
  <2>1. owner[c.tok] \in Users /\ owner[c.tok] # Nobody
    BY <1>1, <1>2, <1>8, SessionAssumption DEF CallOk, Owned
  <2>2. SetUser(tab[t], owner[c.tok]) \in States
    BY <1>4, <2>1, TabMoves DEF Who
  <2>3. b \in BOOLEAN /\ v \in {"login", "portal"}
    BY ProxyView
  <2>4. (b <=> task[t]["boot"] # Idle \/ req[t]["boot"] # NoReq)
    OBVIOUS
  <2> HIDE DEF b, v
  <2>5. s \in States
    BY <2>2, <2>3, Tokens, TabMoves
  <2>6. s.user # Nobody /\ s.late = b
    BY <1>4, <2>1 DEF SetUser, States
  <2> HIDE DEF s
  <2>7. DataOk(s, ts, req[t])
    BY <1>4, <1>7, <2>4, <2>6 DEF DataOk
  <2> QED BY <1>5, <1>6, <1>7, <1>8, <2>5, <2>7, ClientStep
<1> HIDE DEF s
<1>9. CASE tab' = [tab EXCEPT ![t] = Settled(@)]
  <2> DEFINE w == Settled(tab[t])
  <2>1. w \in States /\ tab' = [tab EXCEPT ![t] = w]
    BY <1>4, <1>9, Tokens, TabMoves
  <2>2. w.user = tab[t].user /\ w.late = tab[t].late /\ w.cache = tab[t].cache
    BY <1>4 DEF Settled, States
  <2> HIDE DEF w
  <2>3. DataOk(w, ts, req[t])
    BY <1>4, <1>7, <2>2 DEF DataOk
  <2> QED BY <1>5, <1>6, <1>7, <2>1, <2>3, ClientStep
<1> QED BY <1>1, <1>8, <1>9

LEMMA LogoutReplyKeeps ==
  ASSUME IInv, NEW t \in Tabs, LogoutReply(t)
  PROVE  IInv'
<1> DEFINE c == task[t]["form"]
           idle == [task[t] EXCEPT !["form"] = Idle]
           ts == Drop(idle)
           w == Wiped(SignedOut(tab[t]))
           s == ToLogin(w, jar.access)
<1>1. /\ hint' = 0 /\ tab' = [tab EXCEPT ![t] = s]
      /\ task' = [task EXCEPT ![t] = Drop([@ EXCEPT !.form = Idle])]
      /\ UNCHANGED <<jar, req, owner, record, closed, aged, dead, torn>>
  BY Parts DEF LogoutReply, server
<1>2. /\ "form" \in Tasks /\ "boot" \in Tasks /\ "page" \in Tasks
      /\ "form" # "boot" /\ "form" # "page"
  BY DEF Tasks
<1>3. Idle \in Calls /\ CallOk(Idle, owner)
  BY Tokens, NewCall, NothingAsked DEF Points, Asks
<1>4. DataOk(tab[t], task[t], req[t]) /\ tab[t] \in States
  BY Parts
<1>5. /\ idle \in [Tasks -> Calls] /\ \A k \in Tasks : CallOk(idle[k], owner)
      /\ idle["boot"] = task[t]["boot"] /\ task' = [task EXCEPT ![t] = ts]
  BY <1>1, <1>2, <1>3, TaskPut, ZenonT(60)
<1> HIDE DEF idle
<1>6. /\ ts \in [Tasks -> Calls]
      /\ \A k \in Tasks : CallOk(ts[k], owner)
      /\ ts["page"].kept => ts["page"] = Idle
      /\ ts["boot"] = task[t]["boot"]
  BY <1>5, Dropped
<1>7. w \in States
  <2>1. SignedOut(tab[t]) \in States
    BY <1>4, Tokens, TabMoves
  <2> QED BY <2>1, Tokens, TabMoves
<1>8. w.user = Nobody /\ w.cache = Nobody
  BY <1>4 DEF SignedOut, Wiped, States
<1> HIDE DEF w, ts
<1>9. s \in States /\ s.user = Nobody /\ s.cache = Nobody
  <2> DEFINE v == Proxy("login", jar.access)
             d == IF jar.access = 0 THEN FALSE ELSE w.due
  <2>1. v \in {"login", "portal"} /\ d \in BOOLEAN
    BY <1>7, ProxyView DEF States
  <2>2. s = [w EXCEPT !.view = v, !.due = d]
    BY DEF ToLogin
  <2> HIDE DEF v, d, s
  <2>3. s \in States
    BY <1>7, <2>1, <2>2, Tokens, TabMoves
  <2> QED BY <1>7, <1>8, <2>2, <2>3 DEF States
<1>10. /\ req' = [req EXCEPT ![t] = req[t]] /\ req[t] \in [Kinds -> Reqs]
       /\ \A k \in Kinds : ReqOk(req[t][k], owner)
  <2>1. req' = req
    BY <1>1
  <2> QED BY <2>1, Parts, Kept
<1>11. /\ jar' \in Jars /\ JarOk(jar', owner) /\ hint' \in Toks /\ torn' \in BOOLEAN
       /\ closed' \in BOOLEAN
       /\ closed' => /\ jar'.refresh = 0 /\ jar'.access = 0 /\ closed
                     /\ \A k \in Kinds : Barren(req[t][k])
  BY <1>1, Parts, Tokens, Kept
<1> HIDE DEF s
<1>12. DataOk(s, ts, req[t])
  BY <1>4, <1>6, <1>9 DEF DataOk
<1>13. /\ tab' = [tab EXCEPT ![t] = s]
       /\ UNCHANGED <<owner, record, aged, dead>>
  BY <1>1
<1> QED BY <1>5, <1>6, <1>9, <1>10, <1>11, <1>12, <1>13, ClientStep

\* Time passes.
LEMMA TimeKeeps ==
  ASSUME IInv, Age \/ Expire
  PROVE  IInv'
<1>1. /\ jar \in Jars /\ hint \in Toks /\ tab \in [Tabs -> States]
      /\ task \in [Tabs -> [Tasks -> Calls]] /\ req \in [Tabs -> [Kinds -> Reqs]]
      /\ owner \in Owners /\ record \in [Sessions -> {"none", "live", "revoked", "gone"}]
      /\ closed \in BOOLEAN /\ torn \in BOOLEAN /\ aged \in Toks /\ dead \in Toks
      /\ jar.access \in Toks /\ jar.refresh \in Toks /\ MaxSessions \in Nat
  BY TypeParts, Fields, SessionAssumption DEF IInv
<1>2. UNCHANGED <<hint, tab, task, req, owner, record, closed, torn>>
  BY DEF Age, Expire
<1>3. \/ jar' = jar /\ aged' = aged + 1 /\ aged < jar.refresh /\ dead' = dead
      \/ /\ dead' = dead + 1 /\ dead < aged /\ aged' = aged
         /\ jar' = [jar EXCEPT !.access = 0] \/ jar' = [jar EXCEPT !.access = @]
  BY DEF Age, Expire
<1>4. aged' \in Toks /\ dead' \in Toks
  BY <1>1, <1>3 DEF Toks
<1>5. jar' \in Jars /\ jar'.refresh = jar.refresh /\ jar'.access \in {0, jar.access}
  BY <1>1, <1>3, Tokens DEF Jars
<1>6. TypeOK'
  <2>1. TypeOK' <=> /\ jar' \in Jars /\ hint' \in Toks
             /\ tab' \in [Tabs -> States]
             /\ task' \in [Tabs -> [Tasks -> Calls]]
             /\ req' \in [Tabs -> [Kinds -> Reqs]]
             /\ owner' \in Owners /\ record' \in [Sessions -> {"none", "live", "revoked", "gone"}]
             /\ closed' \in BOOLEAN /\ torn' \in BOOLEAN /\ aged' \in Toks /\ dead' \in Toks
    BY DEF TypeOK, Who, Toks, Kinds, Jars, States, Points, Asks, Calls, Stages, Reqs, Owners
  <2> QED BY <1>1, <1>2, <1>4, <1>5, <2>1
<1>7. OwnedInv'
  BY <1>2, <1>5 DEF IInv, OwnedInv, JarOk, Owned
<1>8. ClosedInv'
  BY <1>2, <1>5 DEF IInv, ClosedInv
<1>9. DataInv'
  BY <1>2 DEF IInv, DataInv
<1> QED BY <1>6, <1>7, <1>8, <1>9 DEF IInv

LEMMA StutterKeeps ==
  ASSUME IInv, UNCHANGED vars
  PROVE  IInv'
<1>1. TypeOK'
  <2>1. TypeOK' <=> /\ jar' \in Jars /\ hint' \in Toks
             /\ tab' \in [Tabs -> States]
             /\ task' \in [Tabs -> [Tasks -> Calls]]
             /\ req' \in [Tabs -> [Kinds -> Reqs]]
             /\ owner' \in Owners /\ record' \in [Sessions -> {"none", "live", "revoked", "gone"}]
             /\ closed' \in BOOLEAN /\ torn' \in BOOLEAN /\ aged' \in Toks /\ dead' \in Toks
    BY DEF TypeOK, Who, Toks, Kinds, Jars, States, Points, Asks, Calls, Stages, Reqs, Owners
  <2> QED BY <2>1, TypeParts DEF IInv, vars
<1>2. OwnedInv'
  BY DEF IInv, vars, OwnedInv
<1>3. ClosedInv' /\ DataInv'
  BY DEF IInv, vars, ClosedInv, DataInv
<1> QED BY <1>1, <1>2, <1>3 DEF IInv

LEMMA InitKeeps == Init => IInv
<1> SUFFICES ASSUME Init PROVE IInv
  OBVIOUS
<1>1. /\ jar = [access |-> 0, refresh |-> 0, csrf |-> FALSE] /\ hint = 0
      /\ \A t \in Tabs : tab[t] = [user |-> Nobody, loading |-> FALSE, challenge |-> Nobody,
            view |-> "login", due |-> FALSE, late |-> FALSE, cache |-> Nobody]
      /\ \A t \in Tabs : \A k \in Tasks : task[t][k] = Idle
      /\ \A t \in Tabs : \A k \in Kinds : req[t][k] = NoReq
  BY DEF Init, Kinds
<1>2. Idle \in Calls /\ NoReq \in Reqs
  BY Tokens, NewCall DEF Points, Asks, NoReq, Reqs, Stages
<1>3. TypeOK
  <2>1. jar \in Jars
    BY <1>1, Tokens DEF Jars
  <2>2. tab \in [Tabs -> States]
    BY Tokens DEF Init, States
  <2> HIDE DEF Idle, NoReq
  <2>3. task \in [Tabs -> [Tasks -> Calls]]
    BY <1>2 DEF Init
  <2>4. req \in [Tabs -> [Kinds -> Reqs]]
    BY <1>2 DEF Init, Kinds
  <2>5. /\ hint \in Toks /\ owner \in Owners /\ closed \in BOOLEAN /\ torn \in BOOLEAN
        /\ record \in [Sessions -> {"none", "live", "revoked", "gone"}]
        /\ aged \in Toks /\ dead \in Toks
    BY Tokens DEF Init, Owners
  <2> QED BY <2>1, <2>2, <2>3, <2>4, <2>5, TypeParts
<1>4. OwnedInv
  BY <1>1, NothingAsked DEF OwnedInv, JarOk, Owned
<1>5. ClosedInv
  BY <1>1, NothingAsked DEF ClosedInv
<1>6. DataInv
  BY <1>1 DEF DataInv, DataOk, Tasks, Kinds
<1> QED BY <1>3, <1>4, <1>5, <1>6 DEF IInv

\* Every step keeps the invariant.
LEMMA NextKeeps == IInv /\ [Next]_vars => IInv'
<1> SUFFICES ASSUME IInv, [Next]_vars PROVE IInv'
  OBVIOUS
<1>1. ASSUME NEW t \in Tabs, NEW k \in Kinds, RefreshStep(t, k)
      PROVE  IInv'
  BY <1>1, RefreshCheckKeeps, RefreshRotateKeeps, RefreshIssueKeeps, RefreshFailsKeeps,
     StoreRefreshKeeps
     DEF RefreshStep
<1>2. ASSUME NEW t \in Tabs, NEW k \in Tasks, Served(t, k)
      PROVE  IInv'
  BY <1>2, ServedKeeps, StoreAnswerKeeps
<1>3. ASSUME NEW t \in Tabs, Arrives(t)
      PROVE  IInv'
  BY <1>3, RefreshGrantedKeeps, RefreshDeniedKeeps, RestoreRefreshedKeeps, RestoreReplyKeeps,
     PageReplyKeeps, SignInReplyKeeps, WhoAmIReplyKeeps, LogoutReplyKeeps, RetryKeeps
     DEF Arrives
<1>4. ASSUME NEW t \in Tabs, UserActs(t)
      PROVE  IInv'
  BY <1>4, LoadKeeps, SubmitPasswordKeeps, SubmitCodeKeeps, CancelMfaKeeps, SignOutKeeps,
     QueryKeeps, GoToLoginKeeps
     DEF UserActs
<1>5. ASSUME NEW t \in Tabs, PushLogin(t)
      PROVE  IInv'
  BY <1>5, PushLoginKeeps
<1>6. CASE Age \/ Expire
  BY <1>6, TimeKeeps
<1>7. CASE UNCHANGED vars
  BY <1>7, StutterKeeps
<1> QED BY <1>1, <1>2, <1>3, <1>4, <1>5, <1>6, <1>7 DEF Next, Kinds

-----------------------------------------------------------------------------
(* The theorems.                                                           *)

\* The invariant holds in every reachable state: cookies, requests and answers
\* in flight never name a session that was not issued to an account.
THEOREM Invariance == Spec => []IInv
<1>1. Init => IInv
  BY InitKeeps
<1>2. IInv /\ [Next]_vars => IInv'
  BY NextKeeps
<1> QED BY <1>1, <1>2, PTL DEF Spec

\* Every variable has its type (the contexts of core/auth, the cookies and the
\* table refresh_tokens).
THEOREM SessionTypeCorrect == Spec => []TypeOK
<1>1. IInv => TypeOK
  BY DEF IInv
<1> QED BY <1>1, Invariance, PTL

\* Once a user has signed out and nobody signs in again, no request, page load
\* or refresh of any tab brings a session back (services/index.ts, logout).
THEOREM SignedOutForGood == Spec => []LogoutSticks
<1>1. IInv => LogoutSticks
  BY DEF IInv, ClosedInv, LogoutSticks
<1> QED BY <1>1, Invariance, PTL

\* A tab that is signed out holds no data of the session that ended, not even
\* from a request still under way when it ended (queryClient.clear in
\* AuthContext), unless a sign-in overtook the restore of its page.
THEOREM NothingLeftBehind == Spec => []SignedOutHoldsNoData
<1>1. IInv => SignedOutHoldsNoData
  BY DEF IInv, DataInv, DataOk, SignedOutHoldsNoData
<1> QED BY <1>1, Invariance, PTL

\* A refresh request of a tab appears only where it is asked for: by a request
\* or a page load that found an expired hint, or by a call that waits for it.
LEMMA AskedFor ==
  ASSUME IInv, Next, NEW t \in Tabs, NEW k \in Kinds, Started(t, k)
  PROVE  \/ IsAccessTokenExpired(hint)
         \/ k = "shared" /\ \E j \in Tasks : task'[t][j].at = "await"
<1> SUFFICES ASSUME ~IsAccessTokenExpired(hint)
             PROVE  k = "shared" /\ \E j \in Tasks : task'[t][j].at = "await"
  OBVIOUS
<1>1. /\ req \in [Tabs -> [Kinds -> Reqs]] /\ task \in [Tabs -> [Tasks -> Calls]]
      /\ req[t][k].at # "sent" /\ req'[t][k].at = "sent"
  BY Parts DEF Started
<1>2. req'[t][k] # req[t][k]
  BY <1>1
<1>3. CASE UNCHANGED req
  BY <1>2, <1>3
<1>4. ASSUME NEW u \in Tabs, NEW l \in Kinds, NEW p \in Stages, p # "sent",
             \/ req' = [req EXCEPT ![u][l].at = p]
             \/ \E n \in Toks : req' = [req EXCEPT ![u][l] = [@ EXCEPT !.at = p, !.new = n]]
             \/ req' = [req EXCEPT ![u][l] = NoReq]
      PROVE  FALSE
  <2>1. \/ req'[t][k] = req[t][k]
        \/ req'[t][k].at = p
        \/ req'[t][k] = NoReq
    <3>1. CASE t = u /\ k = l
      <4>1. CASE req' = [req EXCEPT ![u][l].at = p]
        <5>1. req'[t] = [req[t] EXCEPT ![k].at = p]
          BY <1>1, <3>1, <4>1
        <5>2. req'[t][k] = [req[t][k] EXCEPT !.at = p]
          BY <1>1, <5>1
        <5> QED BY <1>1, <5>2 DEF Reqs
      <4>2. ASSUME NEW n \in Toks, req' = [req EXCEPT ![u][l] = [@ EXCEPT !.at = p, !.new = n]]
            PROVE  req'[t][k].at = p
        <5>1. req'[t][k] = [req[t][k] EXCEPT !.at = p, !.new = n]
          BY <1>1, <3>1, <4>2
        <5> QED BY <1>1, <5>1 DEF Reqs
      <4>3. CASE req' = [req EXCEPT ![u][l] = NoReq]
        BY <1>1, <3>1, <4>3
      <4> QED BY <1>4, <4>1, <4>2, <4>3
    <3>2. CASE t # u \/ k # l
      <4>1. PICK r : req' = [req EXCEPT ![u][l] = r]
        BY <1>4
      <4> QED BY <1>1, <3>2, <4>1, SMTT(60)
    <3> QED BY <3>1, <3>2
  <2>2. p # "sent" /\ NoReq.at # "sent"
    BY <1>4 DEF NoReq
  <2> QED BY <1>1, <1>2, <2>1, <2>2
<1>5. ASSUME NEW u \in Tabs, NEW l \in Kinds, RefreshStep(u, l)
      PROVE  FALSE
  <2>1. CASE RefreshCheck(u, l)
    <3>1. PICK p \in {"checked", "denied"} : req' = [req EXCEPT ![u][l].at = p]
      BY <2>1, SMTT(60) DEF RefreshCheck
    <3> QED BY <1>4, <1>5, <3>1 DEF Stages
  <2>2. CASE RefreshRotate(u, l)
    BY <1>4, <1>5, <2>2 DEF RefreshRotate, Stages
  <2>3. CASE RefreshIssue(u, l)
    <3>1. Fresh \in Toks
      BY <2>3 DEF RefreshIssue, Mint, Sessions, Toks
    <3>2. req' = [req EXCEPT ![u][l] = [@ EXCEPT !.at = "granted", !.new = Fresh]]
      BY <2>3 DEF RefreshIssue
    <3> HIDE DEF Fresh
    <3> QED BY <1>4, <1>5, <3>1, <3>2 DEF Stages
  <2>4. CASE RefreshFails(u, l)
    BY <1>4, <1>5, <2>4 DEF RefreshFails, Stages
  <2>5. CASE StoreRefresh(u, l)
    BY <1>4, <1>5, <2>5 DEF StoreRefresh, Stages
  <2> QED BY <1>5, <2>1, <2>2, <2>3, <2>4, <2>5 DEF RefreshStep
<1>6. ASSUME NEW u \in Tabs, NEW l \in Tasks, Served(u, l)
      PROVE  FALSE
  BY <1>3, <1>2, <1>6 DEF Served, ServeRead, ServeError, ServeLogin, ServeVerify, ServeLogout,
     StoreAnswer, Answer
<1>7. ASSUME NEW u \in Tabs, NEW j \in Tasks, Retry(u, j)
      PROVE  k = "shared" /\ \E i \in Tasks : task'[t][i].at = "await"
  <2>1. /\ task' = [task EXCEPT ![u][j].at = "await"] /\ req' = PerformRefresh(u, req)
    BY <1>7 DEF Retry
  <2>2. t = u /\ k = "shared"
    BY <1>1, <1>2, <2>1 DEF PerformRefresh
  <2>3. task'[t][j] = [task[t][j] EXCEPT !.at = "await"]
    BY <1>1, <2>1, <2>2
  <2>4. task'[t][j].at = "await"
    BY <1>1, <2>3 DEF Calls
  <2> QED BY <1>7, <2>2, <2>4
<1>8. ASSUME NEW u \in Tabs, Arrives(u)
      PROVE  k = "shared" /\ \E i \in Tasks : task'[t][i].at = "await"
  <2>1. CASE RefreshGranted(u) \/ RefreshDenied(u) \/ RestoreRefreshed(u)
    <3>1. PICK l \in Kinds : req' = [req EXCEPT ![u][l] = NoReq]
      BY <2>1 DEF RefreshGranted, RefreshDenied, RestoreRefreshed, Kinds
    <3> QED BY <1>4, <1>8, <3>1 DEF Stages
  <2>2. CASE \/ RestoreReply(u) \/ PageReply(u) \/ SignInReply(u) \/ WhoAmIReply(u)
             \/ LogoutReply(u)
    BY <1>2, <2>2 DEF RestoreReply, PageReply, SignInReply, WhoAmIReply, LogoutReply
  <2> QED BY <1>7, <1>8, <2>1, <2>2 DEF Arrives
<1>9. ASSUME NEW u \in Tabs, UserActs(u)
      PROVE  FALSE
  <2>1. CASE \E to \in {"login", "portal"} : Load(u, to)
    <3>1. req' = [req EXCEPT ![u] = NewReq]
      BY <2>1 DEF Load
    <3>2. req'[t] = req[t] \/ req'[t] = NewReq
      BY <1>1, <3>1
    <3>3. NewReq[k].at = "none"
      BY DEF NewReq, NoReq, Kinds
    <3> QED BY <1>1, <1>2, <3>2, <3>3
  <2>2. CASE ~ \E to \in {"login", "portal"} : Load(u, to)
    <3>1. req' = req
      BY <1>9, <2>2 DEF UserActs, SubmitPassword, SubmitCode, CancelMfa, SignOut, Query, GoToLogin,
         Interceptor
    <3> QED BY <1>2, <3>1
  <2> QED BY <2>1, <2>2
<1>10. ASSUME NEW u \in Tabs, PushLogin(u)
       PROVE  FALSE
  BY <1>2, <1>10 DEF PushLogin
<1>11. CASE Age \/ Expire
  BY <1>2, <1>11 DEF Age, Expire
<1> QED BY <1>5, <1>6, <1>8, <1>9, <1>10, <1>11 DEF Next, Kinds

-----------------------------------------------------------------------------
(* The hint and the cookies: a second inductive invariant, on top of IInv. *)

\* The access cookie is of the session of the refresh cookie, or none.  While no
\* two answers with cookies have crossed and no page was left in between, a hint
\* that is still to be written is of that session, and so is the hint when none is.
HintInv ==
  /\ jar.access \in {0, jar.refresh}
  /\ \/ torn
     \/ /\ \A t \in Tabs, k \in Kinds : req[t][k].at = "stored" => req[t][k].new = jar.refresh
        /\ \A t \in Tabs : task[t]["form"].at = "stored" /\ task[t]["form"].ask # "logout"
                             => task[t]["form"].tok = jar.refresh
        /\ SomeHintDue \/ hint \in {0, jar.refresh}

\* A record in its next state is the one it was, or none that waits for its hint;
\* and the other way round.
Kept1(y, x) == y = x \/ y.at # "stored"

NoneNew ==
  \A t \in Tabs : /\ Kept1(task'[t]["form"], task[t]["form"])
                  /\ \A k \in Kinds : Kept1(req'[t][k], req[t][k])
NoneGone ==
  \A t \in Tabs : /\ Kept1(task[t]["form"], task'[t]["form"])
                  /\ \A k \in Kinds : Kept1(req[t][k], req'[t][k])

LEMMA Due ==
  ASSUME IInv
  PROVE  SomeHintDue <=> \E t \in Tabs : \/ task[t]["form"].at = "stored"
                                         \/ \E k \in Kinds : req[t][k].at = "stored"
<1>1. \A t \in Tabs : DOMAIN req[t] = Kinds
  BY Parts
<1> QED BY <1>1 DEF SomeHintDue, HintDue

\* A step keeps it that stores no cookies, if the hint it leaves is sound.
LEMMA HintStep ==
  ASSUME IInv, IInv', HintInv, NoneNew,
         jar'.refresh = jar.refresh, jar'.access \in {0, jar.access}, torn' = torn,
         torn \/ hint' \in {0, jar.refresh} \/ (hint' = hint /\ NoneGone)
  PROVE  HintInv'
<1>1. jar'.access \in {0, jar'.refresh}
  BY DEF HintInv
<1>2. CASE torn
  BY <1>1, <1>2 DEF HintInv
<1>3. CASE ~torn
  <2>1. \A t \in Tabs, k \in Kinds : req'[t][k].at = "stored" => req'[t][k].new = jar'.refresh
    BY <1>3 DEF HintInv, NoneNew, Kept1
  <2>2. \A t \in Tabs : task'[t]["form"].at = "stored" /\ task'[t]["form"].ask # "logout"
                          => task'[t]["form"].tok = jar'.refresh
    BY <1>3 DEF HintInv, NoneNew, Kept1
  <2>3. SomeHintDue' \/ hint' \in {0, jar'.refresh}
    <3>1. CASE hint' = hint /\ NoneGone /\ SomeHintDue
      <4>1. SomeHintDue' <=> \E t \in Tabs : \/ task'[t]["form"].at = "stored"
                                             \/ \E k \in Kinds : req'[t][k].at = "stored"
        <5>1. \A t \in Tabs : DOMAIN req'[t] = Kinds
          <6>1. req' \in [Tabs -> [Kinds -> Reqs]]
            BY DEF IInv, TypeOK, Toks, Kinds, Stages, Reqs
          <6> QED BY <6>1
        <5> QED BY <5>1 DEF SomeHintDue, HintDue
      <4> QED BY <3>1, <4>1, Due DEF NoneGone, Kept1
    <3>2. CASE hint' = hint /\ ~SomeHintDue
      BY <1>3, <3>2 DEF HintInv
    <3> QED BY <1>3, <3>1, <3>2
  <2> QED BY <1>1, <2>1, <2>2, <2>3 DEF HintInv
<1> QED BY <1>2, <1>3

\* One call, or one request, changes that neither waits nor will wait for its hint.
LEMMA CallMoved ==
  ASSUME IInv, NEW t \in Tabs, NEW k \in Tasks, NEW c, task' = [task EXCEPT ![t][k] = c],
         k = "form" => task[t][k].at # "stored" /\ c.at # "stored"
  PROVE  \A u \in Tabs : /\ Kept1(task'[u]["form"], task[u]["form"])
                         /\ Kept1(task[u]["form"], task'[u]["form"])
<1> SUFFICES ASSUME NEW u \in Tabs
             PROVE  /\ Kept1(task'[u]["form"], task[u]["form"])
                    /\ Kept1(task[u]["form"], task'[u]["form"])
  OBVIOUS
<1>1. task \in [Tabs -> [Tasks -> Calls]] /\ "form" \in Tasks
  BY Parts DEF Tasks
<1>2. CASE u = t /\ k = "form"
  <2>1. task'[u]["form"] = c
    BY <1>1, <1>2
  <2> QED BY <1>2, <2>1 DEF Kept1
<1>3. CASE ~(u = t /\ k = "form")
  <2>1. task'[u]["form"] = task[u]["form"]
    BY <1>1, <1>3
  <2> QED BY <2>1 DEF Kept1
<1> QED BY <1>2, <1>3

LEMMA ReqMoved ==
  ASSUME IInv, NEW t \in Tabs, NEW k \in Kinds, NEW r, req' = [req EXCEPT ![t][k] = r],
         req[t][k].at # "stored", r.at # "stored"
  PROVE  \A u \in Tabs, l \in Kinds : Kept1(req'[u][l], req[u][l]) /\ Kept1(req[u][l], req'[u][l])
<1> SUFFICES ASSUME NEW u \in Tabs, NEW l \in Kinds
             PROVE  Kept1(req'[u][l], req[u][l]) /\ Kept1(req[u][l], req'[u][l])
  OBVIOUS
<1>1. req \in [Tabs -> [Kinds -> Reqs]]
  BY Parts
<1>2. CASE u = t /\ l = k
  <2>1. req'[u][l] = r
    BY <1>1, <1>2
  <2> QED BY <1>2, <2>1 DEF Kept1
<1>3. CASE ~(u = t /\ l = k)
  <2>1. req'[u][l] = req[u][l]
    BY <1>1, <1>3
  <2> QED BY <2>1 DEF Kept1
<1> QED BY <1>2, <1>3

LEMMA TaskSame ==
  ASSUME task' = task
  PROVE  \A u \in Tabs : /\ Kept1(task'[u]["form"], task[u]["form"])
                         /\ Kept1(task[u]["form"], task'[u]["form"])
BY DEF Kept1

LEMMA ReqSame ==
  ASSUME req' = req
  PROVE  \A u \in Tabs, l \in Kinds : Kept1(req'[u][l], req[u][l]) /\ Kept1(req[u][l], req'[u][l])
BY DEF Kept1

\* A refresh is asked for, or not.
LEMMA ReqAsked ==
  ASSUME IInv, NEW t \in Tabs, req' = PerformRefresh(t, req) \/ req' = Interceptor(t)
  PROVE  \A u \in Tabs, l \in Kinds : Kept1(req'[u][l], req[u][l]) /\ Kept1(req[u][l], req'[u][l])
<1>1. CASE req' = req
  BY <1>1, ReqSame
<1>2. CASE req' # req
  <2> DEFINE r == [at |-> "sent", tok |-> jar.refresh, new |-> 0]
  <2>1. /\ req[t]["shared"].at = "none" /\ "shared" \in Kinds
        /\ req' = [req EXCEPT ![t]["shared"] = r]
    BY <1>2 DEF Interceptor, PerformRefresh, Kinds
  <2>2. r.at # "stored" /\ req[t]["shared"].at # "stored"
    BY <2>1
  <2> HIDE DEF r
  <2> QED BY <2>1, <2>2, ReqMoved
<1> QED BY <1>1, <1>2

\* Steps that store no cookies and write no hint but that of no session.
LEMMA StillStep ==
  ASSUME IInv, IInv', HintInv, jar'.refresh = jar.refresh, jar'.access \in {0, jar.access},
         torn' = torn, hint' \in {0, hint},
         \A u \in Tabs : /\ Kept1(task'[u]["form"], task[u]["form"])
                         /\ Kept1(task[u]["form"], task'[u]["form"]),
         \A u \in Tabs, l \in Kinds : Kept1(req'[u][l], req[u][l]) /\ Kept1(req[u][l], req'[u][l])
  PROVE  HintInv'
BY HintStep DEF NoneNew, NoneGone

LEMMA RefreshStepHint ==
  ASSUME IInv, IInv', HintInv, NEW t \in Tabs, NEW k \in Kinds, RefreshStep(t, k),
         ~StoreRefresh(t, k)
  PROVE  HintInv'
<1>1. UNCHANGED <<jar, hint, task, torn>>
  BY DEF RefreshStep, RefreshCheck, RefreshRotate, RefreshIssue, RefreshFails, server
<1>2. req[t][k] \in Reqs /\ req[t][k].at # "stored"
  BY Parts DEF RefreshStep, RefreshCheck, RefreshRotate, RefreshIssue, RefreshFails
<1>3. PICK r : req' = [req EXCEPT ![t][k] = r] /\ r.at # "stored"
  <2>1. ASSUME NEW p \in {"denied", "checked", "rotated"}, req' = [req EXCEPT ![t][k].at = p]
        PROVE  \E r : req' = [req EXCEPT ![t][k] = r] /\ r.at # "stored"
    <3>1. [req[t][k] EXCEPT !.at = p].at = p
      BY <1>2 DEF Reqs
    <3>2. req' = [req EXCEPT ![t][k] = [req[t][k] EXCEPT !.at = p]]
      BY <2>1
    <3> QED BY <3>1, <3>2
  <2>2. CASE RefreshIssue(t, k)
    <3> DEFINE q == [req[t][k] EXCEPT !.at = "granted", !.new = Fresh]
    <3>1. q.at = "granted"
      BY <1>2 DEF Reqs
    <3>2. req' = [req EXCEPT ![t][k] = q]
      BY <2>2 DEF RefreshIssue
    <3> QED BY <3>1, <3>2
  <2>3. CASE RefreshCheck(t, k) \/ RefreshRotate(t, k) \/ RefreshFails(t, k)
    <3>1. \E p \in {"denied", "checked", "rotated"} : req' = [req EXCEPT ![t][k].at = p]
      BY <2>3, SMTT(60) DEF RefreshCheck, RefreshRotate, RefreshFails
    <3> QED BY <2>1, <3>1
  <2> QED BY <2>2, <2>3 DEF RefreshStep
<1>4. \A u \in Tabs, l \in Kinds : Kept1(req'[u][l], req[u][l]) /\ Kept1(req[u][l], req'[u][l])
  BY <1>2, <1>3, ReqMoved
<1> QED BY <1>1, <1>4, TaskSame, StillStep

LEMMA ServedHint ==
  ASSUME IInv, IInv', HintInv, NEW t \in Tabs, NEW k \in Tasks, Served(t, k),
         ~(k = "form" /\ StoreAnswer(t))
  PROVE  HintInv'
<1>1. \E a, n : Answer(t, k, a, n)
  <2>1. CASE ServeRead(t, k)
    BY <2>1 DEF ServeRead
  <2>2. CASE ServeError(t, k)
    BY <2>2 DEF ServeError
  <2>3. CASE k = "form" /\ ServeLogin(t)
    BY <2>3 DEF ServeLogin
  <2>4. CASE k = "form" /\ ServeVerify(t)
    BY <2>4 DEF ServeVerify
  <2>5. CASE k = "form" /\ ServeLogout(t)
    BY <2>5 DEF ServeLogout
  <2> QED BY <2>1, <2>2, <2>3, <2>4, <2>5 DEF Served
<1>2. PICK a, n : Answer(t, k, a, n)
  BY <1>1
<1> DEFINE c == [task[t][k] EXCEPT !.at = "reply", !.ans = a, !.tok = n]
<1>3. UNCHANGED <<jar, hint, req, torn>> /\ task[t][k].at = "send" /\ task' = [task EXCEPT ![t][k] = c]
  BY <1>2 DEF Answer
<1>4. c.at = "reply"
  BY Parts DEF Calls
<1> HIDE DEF c
<1>5. \A u \in Tabs : /\ Kept1(task'[u]["form"], task[u]["form"])
                      /\ Kept1(task[u]["form"], task'[u]["form"])
  BY <1>3, <1>4, CallMoved
<1> QED BY <1>3, <1>5, ReqSame, StillStep

\* Cookies are stored: if no hint was due, the one now due is of their session.
LEMMA StoreRefreshHint ==
  ASSUME IInv, IInv', HintInv, NEW t \in Tabs, NEW k \in Kinds, StoreRefresh(t, k)
  PROVE  HintInv'
<1> DEFINE r == req[t][k]
           q == [r EXCEPT !.at = "stored"]
<1>1. /\ jar' = [access |-> r.new, refresh |-> r.new, csrf |-> TRUE]
      /\ req' = [req EXCEPT ![t][k] = q] /\ task' = task /\ torn' = SomeHintDue
  BY DEF StoreRefresh, SetCookies
<1>2. r \in Reqs /\ req \in [Tabs -> [Kinds -> Reqs]]
  BY Parts
<1>3. q.at = "stored" /\ q.new = r.new
  BY <1>2 DEF Reqs
<1> HIDE DEF q
<1>4. jar'.access \in {0, jar'.refresh}
  BY <1>1
<1>5. CASE SomeHintDue
  BY <1>1, <1>4, <1>5 DEF HintInv
<1>6. CASE ~SomeHintDue
  <2>1. \A u \in Tabs, l \in Kinds : req'[u][l] = q \/ req'[u][l] = req[u][l]
    BY <1>1, <1>2
  <2>2. \A u \in Tabs, l \in Kinds : req'[u][l].at = "stored" => req'[u][l].new = jar'.refresh
    BY <1>1, <1>3, <1>6, <2>1, Due
  <2>3. \A u \in Tabs : task'[u]["form"].at # "stored"
    BY <1>1, <1>6, Due
  <2>4. req'[t][k].at = "stored"
    BY <1>1, <1>2, <1>3
  <2>5. SomeHintDue'
    <3>1. k \in DOMAIN req'[t]
      BY <1>1, <1>2
    <3> QED BY <2>4, <3>1 DEF SomeHintDue, HintDue
  <2> QED BY <1>4, <2>2, <2>3, <2>5 DEF HintInv
<1> QED BY <1>5, <1>6

LEMMA StoreAnswerHint ==
  ASSUME IInv, IInv', HintInv, NEW t \in Tabs, StoreAnswer(t)
  PROVE  HintInv'
<1> DEFINE c == task[t]["form"]
           q == [c EXCEPT !.at = "stored"]
<1>1. /\ task' = [task EXCEPT ![t]["form"] = q] /\ req' = req /\ torn' = SomeHintDue
      /\ \/ c.ask = "logout" /\ jar' = [access |-> 0, refresh |-> 0, csrf |-> FALSE]
         \/ c.ask # "logout" /\ jar' = [access |-> c.tok, refresh |-> c.tok, csrf |-> TRUE]
  BY DEF StoreAnswer, SetCookies, ClearCookies
<1>2. c \in Calls /\ task \in [Tabs -> [Tasks -> Calls]] /\ "form" \in Tasks
  BY Parts DEF Tasks
<1>3. q.at = "stored" /\ q.tok = c.tok /\ q.ask = c.ask
  BY <1>2 DEF Calls
<1> HIDE DEF q
<1>4. jar'.access \in {0, jar'.refresh}
  BY <1>1
<1>5. CASE SomeHintDue
  BY <1>1, <1>4, <1>5 DEF HintInv
<1>6. CASE ~SomeHintDue
  <2>1. \A u \in Tabs : task'[u]["form"] = q \/ task'[u]["form"] = task[u]["form"]
    BY <1>1, <1>2
  <2>2. \A u \in Tabs : task'[u]["form"].at = "stored" /\ task'[u]["form"].ask # "logout"
                          => task'[u]["form"].tok = jar'.refresh
    BY <1>1, <1>3, <1>6, <2>1, Due
  <2>3. \A u \in Tabs, l \in Kinds : req'[u][l].at # "stored"
    BY <1>1, <1>6, Due
  <2>4. task'[t]["form"].at = "stored"
    BY <1>1, <1>2, <1>3
  <2>5. SomeHintDue'
    BY <2>4 DEF SomeHintDue, HintDue
  <2> QED BY <1>4, <2>2, <2>3, <2>5 DEF HintInv
<1> QED BY <1>5, <1>6

\* The hint is written, from the answer whose cookies were stored last.
LEMMA RefreshGrantedHint ==
  ASSUME IInv, IInv', HintInv, NEW t \in Tabs, RefreshGranted(t)
  PROVE  HintInv'
<1>1. /\ req[t]["shared"].at = "stored" /\ hint' = req[t]["shared"].new
      /\ req' = [req EXCEPT ![t]["shared"] = NoReq] /\ UNCHANGED <<jar, torn>>
      /\ task' = [task EXCEPT ![t] = [k \in Tasks |-> Released(task[t][k])]]
  BY DEF RefreshGranted, server
<1>2. /\ req \in [Tabs -> [Kinds -> Reqs]] /\ task \in [Tabs -> [Tasks -> Calls]]
      /\ "shared" \in Kinds /\ "form" \in Tasks
  BY Parts DEF Kinds, Tasks
<1>3. \A u \in Tabs, l \in Kinds : req'[u][l] = req[u][l] \/ req'[u][l] = NoReq
  BY <1>1, <1>2
<1>4. \A u \in Tabs : \/ task'[u]["form"] = task[u]["form"]
                      \/ task'[u]["form"] = Released(task[u]["form"])
  BY <1>1, <1>2
<1>5. \A c \in Calls : Released(c) = c \/ Released(c).at = "send"
  BY DEF Released, Calls
<1>6. NoneNew
  BY <1>2, <1>3, <1>4, <1>5 DEF NoneNew, Kept1, NoReq
<1>7. torn \/ hint' = jar.refresh
  BY <1>1, <1>2 DEF HintInv
<1> QED BY <1>1, <1>6, <1>7, HintStep

LEMMA RestoreRefreshedHint ==
  ASSUME IInv, IInv', HintInv, NEW t \in Tabs, RestoreRefreshed(t)
  PROVE  HintInv'
<1>1. /\ \/ req[t]["boot"].at = "stored" /\ hint' = req[t]["boot"].new
         \/ hint' = 0
      /\ req' = [req EXCEPT ![t]["boot"] = NoReq] /\ UNCHANGED <<jar, torn>>
      /\ \E c : task' = [task EXCEPT ![t]["boot"] = c]
  BY DEF RestoreRefreshed, server
<1>2. /\ req \in [Tabs -> [Kinds -> Reqs]] /\ task \in [Tabs -> [Tasks -> Calls]]
      /\ "boot" \in Kinds /\ "form" \in Tasks /\ "boot" # "form"
  BY Parts DEF Kinds, Tasks
<1>3. \A u \in Tabs, l \in Kinds : req'[u][l] = req[u][l] \/ req'[u][l] = NoReq
  BY <1>1, <1>2
<1>4. \A u \in Tabs : task'[u]["form"] = task[u]["form"]
  BY <1>1, <1>2
<1>5. NoneNew
  BY <1>3, <1>4 DEF NoneNew, Kept1, NoReq
<1>6. torn \/ hint' \in {0, jar.refresh}
  BY <1>1, <1>2 DEF HintInv
<1> QED BY <1>1, <1>5, <1>6, HintStep

LEMMA SignInReplyHint ==
  ASSUME IInv, IInv', HintInv, NEW t \in Tabs, SignInReply(t)
  PROVE  HintInv'
<1> DEFINE c == task[t]["form"]
           me == [Idle EXCEPT !.at = "send", !.ask = "me"]
<1>1. /\ UNCHANGED <<jar, req, torn>> /\ c.ask \in {"login", "verify"}
      /\ c.at = IF BringsCookies(c) THEN "stored" ELSE "reply"
      /\ \/ c.ans = "ok" /\ hint' = c.tok /\ task' = [task EXCEPT ![t]["form"] = me]
         \/ /\ c.ans = "challenge" \/ Failed(c)
            /\ hint' = hint /\ task' = [task EXCEPT ![t]["form"] = Idle]
  BY DEF SignInReply, Reply, server
<1>2. c \in Calls /\ task \in [Tabs -> [Tasks -> Calls]] /\ "form" \in Tasks
  BY Parts DEF Tasks
<1>3. me.at = "send" /\ Idle.at = "idle"
  BY DEF Idle
<1> HIDE DEF me
<1>4. CASE c.ans = "ok" /\ hint' = c.tok /\ task' = [task EXCEPT ![t]["form"] = me]
  <2>1. c.at = "stored" /\ c.ask # "logout"
    BY <1>1, <1>4 DEF BringsCookies
  <2>2. \A u \in Tabs : task'[u]["form"] = task[u]["form"] \/ task'[u]["form"] = me
    BY <1>2, <1>4
  <2>3. NoneNew
    BY <1>1, <1>3, <2>2 DEF NoneNew, Kept1
  <2>4. torn \/ hint' = jar.refresh
    BY <1>4, <2>1 DEF HintInv
  <2> QED BY <1>1, <2>3, <2>4, HintStep
<1>5. CASE /\ c.ans = "challenge" \/ Failed(c)
           /\ hint' = hint /\ task' = [task EXCEPT ![t]["form"] = Idle]
  <2>1. c.at # "stored"
    BY <1>1, <1>5 DEF BringsCookies, Failed
  <2>2. \A u \in Tabs : /\ Kept1(task'[u]["form"], task[u]["form"])
                        /\ Kept1(task[u]["form"], task'[u]["form"])
    BY <1>2, <1>3, <1>5, <2>1, CallMoved
  <2> QED BY <1>1, <1>5, <2>2, ReqSame, StillStep
<1> QED BY <1>1, <1>4, <1>5

LEMMA LogoutReplyHint ==
  ASSUME IInv, IInv', HintInv, NEW t \in Tabs, LogoutReply(t)
  PROVE  HintInv'
<1>1. /\ UNCHANGED <<jar, req, torn>> /\ hint' = 0
      /\ task' = [task EXCEPT ![t] = Drop([task[t] EXCEPT !["form"] = Idle])]
  BY DEF LogoutReply, server
<1>2. task \in [Tabs -> [Tasks -> Calls]] /\ "form" \in Tasks /\ "page" # "form"
  BY Parts DEF Tasks
<1>3. Drop([task[t] EXCEPT !["form"] = Idle])["form"] = Idle
  BY <1>2 DEF Drop
<1>4. \A u \in Tabs : task'[u]["form"] = task[u]["form"] \/ task'[u]["form"] = Idle
  BY <1>1, <1>2, <1>3
<1>5. Idle.at # "stored" /\ req' = req
  BY <1>1 DEF Idle
<1>6. NoneNew
  BY <1>4, <1>5 DEF NoneNew, Kept1
<1> QED BY <1>1, <1>6, HintStep

\* A refresh that is denied writes no hint, or that of no session.
LEMMA RefreshDeniedHint ==
  ASSUME IInv, IInv', HintInv, NEW t \in Tabs, RefreshDenied(t)
  PROVE  HintInv'
<1> DEFINE lost == {k \in Tasks : task[t][k].at = "await"}
           on == [k \in Tasks |-> IF k \in lost THEN Idle
                   ELSE IF task[t][k].at = "hold" THEN [task[t][k] EXCEPT !.at = "send"]
                   ELSE task[t][k]]
<1>1. /\ req' = [req EXCEPT ![t]["shared"] = NoReq] /\ req[t]["shared"].at = "denied"
      /\ UNCHANGED <<jar, torn>> /\ hint' \in {0, hint}
      /\ task' = [task EXCEPT ![t] = on] \/ task' = [task EXCEPT ![t] = Drop(on)]
  BY DEF RefreshDenied, server
<1>2. task \in [Tabs -> [Tasks -> Calls]] /\ "form" \in Tasks /\ "page" # "form" /\ "shared" \in Kinds
  BY Parts DEF Tasks, Kinds
<1>3. Kept1(on["form"], task[t]["form"]) /\ Kept1(task[t]["form"], on["form"])
  <2>1. CASE task[t]["form"].at = "await"
    <3>1. on["form"] = Idle
      BY <1>2, <2>1
    <3> QED BY <2>1, <3>1 DEF Kept1, Idle
  <2>2. CASE task[t]["form"].at = "hold"
    <3>1. on["form"] = [task[t]["form"] EXCEPT !.at = "send"]
      BY <1>2, <2>2
    <3>2. on["form"].at = "send"
      BY <1>2, <3>1 DEF Calls
    <3> QED BY <2>2, <3>2 DEF Kept1
  <2>3. CASE task[t]["form"].at \notin {"await", "hold"}
    <3>1. on["form"] = task[t]["form"]
      BY <1>2, <2>3
    <3> QED BY <3>1 DEF Kept1
  <2> QED BY <2>1, <2>2, <2>3
<1>4. Drop(on)["form"] = on["form"]
  BY <1>2 DEF Drop
<1> HIDE DEF on
<1>5. \A u \in Tabs : task'[u]["form"] = task[u]["form"] \/ (u = t /\ task'[u]["form"] = on["form"])
  BY <1>1, <1>2, <1>4
<1>6. \A u \in Tabs : /\ Kept1(task'[u]["form"], task[u]["form"])
                      /\ Kept1(task[u]["form"], task'[u]["form"])
  BY <1>3, <1>5 DEF Kept1
<1>7. \A u \in Tabs, l \in Kinds : Kept1(req'[u][l], req[u][l]) /\ Kept1(req[u][l], req'[u][l])
  <2>1. NoReq.at # "stored"
    BY DEF NoReq
  <2> QED BY <1>1, <1>2, <2>1, ReqMoved
<1> QED BY <1>1, <1>6, <1>7, StillStep

LEMMA OtherReplyHint ==
  ASSUME IInv, IInv', HintInv, NEW t \in Tabs,
         RestoreReply(t) \/ PageReply(t) \/ WhoAmIReply(t)
  PROVE  HintInv'
<1>1. UNCHANGED <<jar, req, torn>> /\ hint' \in {0, hint}
  BY DEF RestoreReply, PageReply, WhoAmIReply, server
<1>2. PICK k \in Tasks : /\ task' = [task EXCEPT ![t][k] = Idle]
                         /\ k = "form" => task[t][k].at # "stored"
  <2>1. CASE RestoreReply(t)
    BY <2>1 DEF RestoreReply, Tasks
  <2>2. CASE PageReply(t)
    BY <2>2 DEF PageReply, Tasks
  <2>3. CASE WhoAmIReply(t)
    BY <2>3 DEF WhoAmIReply, Reply, BringsCookies, Tasks
  <2> QED BY <2>1, <2>2, <2>3
<1>3. Idle.at # "stored"
  BY DEF Idle
<1>4. \A u \in Tabs : /\ Kept1(task'[u]["form"], task[u]["form"])
                      /\ Kept1(task[u]["form"], task'[u]["form"])
  BY <1>2, <1>3, CallMoved
<1> QED BY <1>1, <1>4, ReqSame, StillStep

LEMMA RetryHint ==
  ASSUME IInv, IInv', HintInv, NEW t \in Tabs, NEW k \in Tasks, Retry(t, k)
  PROVE  HintInv'
<1> DEFINE c == [task[t][k] EXCEPT !.at = "await"]
<1>1. /\ task' = [task EXCEPT ![t][k] = c] /\ task[t][k].at = "reply"
      /\ req' = PerformRefresh(t, req) /\ UNCHANGED <<jar, hint, torn>>
  BY DEF Retry, server
<1>2. c.at = "await"
  BY Parts DEF Calls
<1> HIDE DEF c
<1>3. \A u \in Tabs : /\ Kept1(task'[u]["form"], task[u]["form"])
                      /\ Kept1(task[u]["form"], task'[u]["form"])
  BY <1>1, <1>2, CallMoved
<1>4. \A u \in Tabs, l \in Kinds : Kept1(req'[u][l], req[u][l]) /\ Kept1(req[u][l], req'[u][l])
  BY <1>1, ReqAsked
<1> QED BY <1>1, <1>3, <1>4, StillStep

LEMMA ArrivesHint ==
  ASSUME IInv, IInv', HintInv, NEW t \in Tabs, Arrives(t)
  PROVE  HintInv'
BY RefreshGrantedHint, RefreshDeniedHint, RestoreRefreshedHint, OtherReplyHint, SignInReplyHint,
   LogoutReplyHint, RetryHint
   DEF Arrives

\* A page that is left takes the hint it was to write with it.
LEMMA LoadHint ==
  ASSUME IInv, IInv', HintInv, NEW t \in Tabs, NEW to \in {"login", "portal"}, Load(t, to)
  PROVE  HintInv'
<1>1. UNCHANGED <<jar, hint>> /\ torn' = (torn \/ HintDue(t))
  BY DEF Load
<1>2. CASE torn \/ HintDue(t)
  BY <1>1, <1>2 DEF HintInv
<1>3. CASE ~torn /\ ~HintDue(t)
  <2>1. /\ req \in [Tabs -> [Kinds -> Reqs]] /\ task \in [Tabs -> [Tasks -> Calls]]
        /\ "form" \in Tasks /\ "form" # "boot"
    BY Parts DEF Tasks
  <2>2. /\ task[t]["form"].at # "stored"
        /\ \A l \in Kinds : req[t][l].at # "stored"
    BY <1>3, <2>1 DEF HintDue
  <2>3. \A u \in Tabs : \/ task'[u]["form"] = task[u]["form"]
                        \/ u = t /\ task'[u]["form"] = Idle
    BY <2>1 DEF Load
  <2>4. \A u \in Tabs : /\ Kept1(task'[u]["form"], task[u]["form"])
                        /\ Kept1(task[u]["form"], task'[u]["form"])
    BY <2>2, <2>3 DEF Kept1, Idle
  <2>5. \A u \in Tabs, l \in Kinds : Kept1(req'[u][l], req[u][l]) /\ Kept1(req[u][l], req'[u][l])
    <3> DEFINE r == [at |-> "sent", tok |-> jar.refresh, new |-> 0]
    <3>1. req' = [req EXCEPT ![t] = [NewReq EXCEPT !["boot"] = r]] \/ req' = [req EXCEPT ![t] = NewReq]
      BY DEF Load
    <3>2. \A l \in Kinds : NewReq[l] = NoReq /\ [NewReq EXCEPT !["boot"] = r][l] \in {r, NoReq}
      BY DEF NewReq, Kinds
    <3>3. r.at # "stored" /\ NoReq.at # "stored"
      BY DEF NoReq
    <3> HIDE DEF r
    <3>4. \A u \in Tabs, l \in Kinds : req'[u][l] = req[u][l] \/ (u = t /\ req'[u][l] \in {r, NoReq})
      BY <2>1, <3>1, <3>2
    <3> SUFFICES ASSUME NEW u \in Tabs, NEW l \in Kinds
                 PROVE  Kept1(req'[u][l], req[u][l]) /\ Kept1(req[u][l], req'[u][l])
      OBVIOUS
    <3>5. CASE req'[u][l] = req[u][l]
      BY <3>5 DEF Kept1
    <3>6. CASE u = t /\ req'[u][l] \in {r, NoReq}
      BY <2>2, <3>3, <3>6 DEF Kept1
    <3> QED BY <3>4, <3>5, <3>6
  <2>6. torn' = torn
    <3>1. torn \in BOOLEAN
      BY DEF IInv, TypeOK
    <3> QED BY <1>1, <1>3, <3>1
  <2> QED BY <1>1, <2>4, <2>5, <2>6, StillStep
<1> QED BY <1>2, <1>3

\* The user asks for something.
LEMMA AskHint ==
  ASSUME IInv, IInv', HintInv, NEW t \in Tabs, NEW k \in Tasks, NEW c,
         task' = [task EXCEPT ![t][k] = c], task[t][k] = Idle, c.at # "stored",
         UNCHANGED <<jar, hint, server>>, req' = req \/ req' = Interceptor(t)
  PROVE  HintInv'
<1>1. \A u \in Tabs : /\ Kept1(task'[u]["form"], task[u]["form"])
                      /\ Kept1(task[u]["form"], task'[u]["form"])
  <2>1. task[t][k].at # "stored"
    BY DEF Idle
  <2> QED BY <2>1, CallMoved
<1>2. \A u \in Tabs, l \in Kinds : Kept1(req'[u][l], req[u][l]) /\ Kept1(req[u][l], req'[u][l])
  BY ReqSame, ReqAsked
<1>3. torn' = torn
  BY DEF server
<1> QED BY <1>1, <1>2, <1>3, StillStep

LEMMA UserActsHint ==
  ASSUME IInv, IInv', HintInv, NEW t \in Tabs, UserActs(t)
  PROVE  HintInv'
<1>1. "form" \in Tasks /\ "page" \in Tasks
  BY DEF Tasks
<1>2. ASSUME NEW u \in Users, SubmitPassword(t, u)
      PROVE  HintInv'
  <2> DEFINE c == [Idle EXCEPT !.at = "send", !.ask = "login", !.who = u]
  <2>1. /\ task' = [task EXCEPT ![t]["form"] = c] /\ task[t]["form"] = Idle /\ req' = req
        /\ UNCHANGED <<jar, hint, server>>
    BY <1>2 DEF SubmitPassword, LoginPanel
  <2>2. c.at # "stored"
    BY DEF Idle
  <2> HIDE DEF c
  <2> QED BY <1>1, <2>1, <2>2, AskHint
<1>3. CASE SubmitCode(t)
  <2> DEFINE c == [Call("verify") EXCEPT !.who = tab[t].challenge]
  <2>1. /\ task' = [task EXCEPT ![t]["form"] = c] /\ task[t]["form"] = Idle /\ req' = Interceptor(t)
        /\ UNCHANGED <<jar, hint, server>>
    BY <1>3 DEF SubmitCode, LoginPanel
  <2>2. c.at # "stored"
    BY DEF Call, Idle
  <2> HIDE DEF c
  <2> QED BY <1>1, <2>1, <2>2, AskHint
<1>4. CASE SignOut(t)
  <2> DEFINE c == [Idle EXCEPT !.at = "send", !.ask = "logout"]
  <2>1. /\ task' = [task EXCEPT ![t]["form"] = c] /\ task[t]["form"] = Idle /\ req' = req
        /\ UNCHANGED <<jar, hint, server>>
    BY <1>4 DEF SignOut
  <2>2. c.at # "stored"
    BY DEF Idle
  <2> HIDE DEF c
  <2> QED BY <1>1, <2>1, <2>2, AskHint
<1>5. CASE Query(t)
  <2>1. /\ task' = [task EXCEPT ![t]["page"] = Call("page")] /\ task[t]["page"] = Idle
        /\ req' = Interceptor(t) /\ UNCHANGED <<jar, hint, server>>
    BY <1>5 DEF Query
  <2>2. Call("page").at # "stored"
    BY DEF Call, Idle
  <2> QED BY <1>1, <2>1, <2>2, AskHint
<1>6. CASE CancelMfa(t) \/ GoToLogin(t)
  <2>1. UNCHANGED <<jar, hint, task, req, torn>>
    BY <1>6 DEF CancelMfa, GoToLogin, server
  <2> QED BY <2>1, TaskSame, ReqSame, StillStep
<1> QED BY <1>2, <1>3, <1>4, <1>5, <1>6, LoadHint DEF UserActs

LEMMA NextHint == IInv /\ IInv' /\ HintInv /\ [Next]_vars => HintInv'
<1> SUFFICES ASSUME IInv, IInv', HintInv, [Next]_vars PROVE HintInv'
  OBVIOUS
<1>1. ASSUME NEW t \in Tabs, NEW k \in Kinds, RefreshStep(t, k)
      PROVE  HintInv'
  BY <1>1, RefreshStepHint, StoreRefreshHint
<1>2. ASSUME NEW t \in Tabs, NEW k \in Tasks, Served(t, k)
      PROVE  HintInv'
  BY <1>2, ServedHint, StoreAnswerHint
<1>3. ASSUME NEW t \in Tabs, Arrives(t) \/ UserActs(t)
      PROVE  HintInv'
  BY <1>3, ArrivesHint, UserActsHint
<1>4. ASSUME NEW t \in Tabs, PushLogin(t)
      PROVE  HintInv'
  <2>1. UNCHANGED <<jar, hint, task, req, torn>>
    BY <1>4 DEF PushLogin, server
  <2> QED BY <2>1, TaskSame, ReqSame, StillStep
<1>5. CASE Age \/ Expire
  <2>1. UNCHANGED <<hint, task, req, torn>>
    BY <1>5 DEF Age, Expire
  <2>2. jar'.refresh = jar.refresh /\ jar'.access \in {0, jar.access}
    <3>1. jar \in Jars /\ jar' \in Jars
      BY DEF IInv, TypeOK, Jars, Toks
    <3> QED BY <1>5, <3>1 DEF Age, Expire, Jars
  <2> QED BY <2>1, <2>2, TaskSame, ReqSame, StillStep
<1>6. CASE UNCHANGED vars
  <2>1. UNCHANGED <<jar, hint, task, req, torn>>
    BY <1>6 DEF vars
  <2> QED BY <2>1, TaskSame, ReqSame, StillStep
<1> QED BY <1>1, <1>2, <1>3, <1>4, <1>5, <1>6 DEF Next, Kinds

LEMMA HintInvariance == Spec => []HintInv
<1>1. Init => HintInv
  <2>1. SUFFICES ASSUME Init PROVE HintInv
    OBVIOUS
  <2>2. jar.access = 0 /\ jar.refresh = 0 /\ hint = 0
    BY <2>1 DEF Init
  <2>3. \A t \in Tabs : /\ task[t]["form"].at # "stored"
                        /\ \A k \in Kinds : req[t][k].at # "stored"
    BY <2>1 DEF Init, Tasks, Kinds, Idle, NoReq
  <2> QED BY <2>2, <2>3 DEF HintInv
<1> QED BY <1>1, NextHint, Invariance, PTL DEF Spec

\* A refresh is started ahead of a request, on a session that is still valid, only
\* between an answer with cookies and the hint that is written for them, or when it
\* never was: whatever the tabs do otherwise, the hint forces none (tokenExpiry.ts,
\* client.ts).
THEOREM NoRefreshForced == Spec => NoForcedRefresh
<1>1. IInv /\ HintInv /\ [Next]_vars => [Forced => torn \/ SomeHintDue]_vars
  <2> SUFFICES ASSUME IInv, HintInv, Next, Forced, ~torn, ~SomeHintDue
               PROVE  FALSE
    OBVIOUS
  <2>1. IsAccessTokenExpired(hint)
    BY AskedFor DEF Kinds, Forced
  <2>2. hint \in Toks /\ aged \in Toks /\ jar \in Jars /\ jar.access > aged
    BY TypeParts DEF IInv, Forced
  <2>3. hint \in {0, jar.refresh} /\ jar.access \in {0, jar.refresh}
    BY DEF HintInv
  <2> QED BY <2>1, <2>2, <2>3, SessionAssumption DEF IsAccessTokenExpired, Toks, Jars
<1> QED BY <1>1, Invariance, HintInvariance, PTL DEF Spec, NoForcedRefresh
=============================================================================
