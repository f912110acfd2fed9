----------------------------- MODULE AuditChain -----------------------------
(***************************************************************************)
(* The hash-chained audit log (app/application/audit).  A worker - the     *)
(* retention purge or a subject erasure - appends one or more rows inside  *)
(* one database transaction.  Each append takes the transaction-scoped     *)
(* advisory lock, reads the newest row hash, inserts a row that commits to *)
(* it, and posts a copy to the SIEM; commit or rollback releases the lock. *)
(*                                                                         *)
(* PostgreSQL at READ COMMITTED is modelled by what a statement sees: the  *)
(* committed rows plus the transaction's own.  Row ids come from a         *)
(* sequence, which a rollback does not give back.                          *)
(***************************************************************************)
EXTENDS Integers, Sequences, FiniteSets

CONSTANTS
  Writers,      \* workers that run an auditing transaction
  Users,        \* accounts an audit row may name as its actor
  Actions,      \* what a row says happened (action, entity and summary)
  NoActor,      \* actor_user_id is NULL: a system job
  NoWriter,     \* nobody holds the advisory lock
  MaxBatch,     \* most appends in one transaction (one per retention policy)
  MaxTxns       \* bound: transactions started in a behaviour

ASSUME ChainAssumption ==
  /\ NoActor \notin Users
  /\ NoWriter \notin Writers
  /\ MaxBatch \in Nat \ {0}
  /\ MaxTxns \in Nat

VARIABLES
  log,          \* committed rows of audit_log, in the order they were committed
  nextId,       \* next value of the id sequence
  users,        \* rows of the users table
  holder,       \* the transaction that holds the advisory lock
  waiters,      \* those blocked on it, served first come first served
  tx,           \* tx[w]: what w's open transaction has done
  siem,         \* copies the SIEM has accepted
  refused,      \* accounts whose deletion the append-only trigger turned down
  started       \* transactions begun so far (bounds the model)

vars == <<log, nextId, users, holder, waiters, tx, siem, refused, started>>

-----------------------------------------------------------------------------
(* Rows and hashes.                                                        *)

Actors == Users \cup {NoActor}

\* canonical_payload: the content a row's hash covers.
Content == [actor : Actors, action : Actions]

\* A digest stands for what it commits to: the contents hashed so far, in
\* order.  Two digests are equal only when their inputs are (SHA-256 without
\* collisions), and the seed commits to nothing.
GENESIS_HASH == <<>>

\* Fault: the actor is left out of the canonical payload.
HashWithoutActor(prev, payload) == Append(prev, [payload EXCEPT !.actor = NoActor])

compute_row_hash(prev, payload) == Append(prev, payload)

Hash == Seq(Content)
Row  == [id : Nat, content : Content, prev_hash : Hash, row_hash : Hash]

\* ORDER BY id DESC LIMIT 1 over the rows a statement sees.
Newest(rows) ==
  CHOOSE i \in DOMAIN rows : \A j \in DOMAIN rows : rows[j].id <= rows[i].id

\* Fault: no "or GENESIS_HASH", so the first row points at NULL.
LastHashOrNull(rows) == IF rows = <<>> THEN NoActor ELSE rows[Newest(rows)].row_hash

LastHash(rows) ==
  IF rows = <<>> THEN GENESIS_HASH ELSE rows[Newest(rows)].row_hash

\* verify_rows: each row, taken in id order, must point at its predecessor's
\* stored hash and hash to what it stores.
PrevOf(rows, i) ==
  LET older == { j \in DOMAIN rows : rows[j].id < rows[i].id }
  IN  IF older = {} THEN GENESIS_HASH
      ELSE rows[CHOOSE j \in older :
                  \A k \in older : rows[k].id <= rows[j].id].row_hash

verify_rows(rows) ==
  \A i \in DOMAIN rows :
    /\ rows[i].prev_hash = PrevOf(rows, i)
    /\ rows[i].row_hash = compute_row_hash(PrevOf(rows, i), rows[i].content)

-----------------------------------------------------------------------------
(* Transactions.                                                           *)

\* at: the statement of append() the transaction executes next.
\*   idle      no transaction
\*   lock      blocked on the advisory lock
\*   read      holds the lock, about to select the newest hash
\*   insert    has read prev_hash, about to flush the row
\*   ship      row flushed, about to post it to the SIEM
\*   done      append() has returned: append again, commit or roll back
Points == {"idle", "lock", "read", "insert", "ship", "done"}

TxState == [at : Points, prev : Hash, rows : Seq(Row)]
IdleTx  == [at |-> "idle", prev |-> GENESIS_HASH, rows |-> <<>>]

\* What a SELECT of w's transaction sees.
Visible(w) == log \o tx[w].rows

\* w's transaction is over: its lock, or its place in the queue, is given up.
LeaveQueue(q, w) ==
  IF \E i \in DOMAIN q : q[i] = w
  THEN LET i == CHOOSE i \in DOMAIN q : q[i] = w
       IN  SubSeq(q, 1, i - 1) \o SubSeq(q, i + 1, Len(q))
  ELSE q

\* Fault: a session lock, which the end of the transaction does not release.
EndTxKeepingLock(w) ==
  /\ waiters' = LeaveQueue(waiters, w)
  /\ tx' = [tx EXCEPT ![w] = IdleTx]
  /\ UNCHANGED holder

EndTx(w) ==
  /\ holder' = IF holder = w THEN NoWriter ELSE holder
  /\ waiters' = LeaveQueue(waiters, w)
  /\ tx' = [tx EXCEPT ![w] = IdleTx]

Init ==
  /\ log = <<>>
  /\ nextId = 1
  /\ users = Users
  /\ holder = NoWriter
  /\ waiters = <<>>
  /\ tx = [w \in Writers |-> IdleTx]
  /\ siem = {}
  /\ refused = {}
  /\ started = 0

\* A job or an erasure opens its transaction and reaches its first append():
\* SELECT pg_advisory_xact_lock blocks until the lock is free.
AskLock(w) ==
  /\ tx[w].at = "idle"
  /\ started < MaxTxns
  /\ started' = started + 1
  /\ tx' = [tx EXCEPT ![w].at = "lock"]
  /\ waiters' = Append(waiters, w)
  /\ UNCHANGED <<log, nextId, users, holder, siem, refused>>

\* The lock call returns to the transaction that has waited longest.
TakeLock(w) ==
  /\ tx[w].at = "lock"
  /\ holder = NoWriter
  /\ waiters # <<>> /\ Head(waiters) = w
  /\ holder' = w
  /\ waiters' = Tail(waiters)
  /\ tx' = [tx EXCEPT ![w].at = "read"]
  /\ UNCHANGED <<log, nextId, users, siem, refused, started>>

\* SELECT row_hash ... ORDER BY id DESC LIMIT 1, a snapshot of its own.
ReadLastHash(w) ==
  /\ tx[w].at = "read"
  /\ tx' = [tx EXCEPT ![w].at = "insert", ![w].prev = LastHash(Visible(w))]
  /\ UNCHANGED <<log, nextId, users, holder, waiters, siem, refused, started>>

\* db.add and flush.  The foreign key wants the actor to exist still.
InsertRow(w, c) ==
  LET row == [id |-> nextId, content |-> c, prev_hash |-> tx[w].prev,
              row_hash |-> compute_row_hash(tx[w].prev, c)]
  IN  /\ tx[w].at = "insert"
      /\ c.actor \in users \cup {NoActor}
      /\ nextId' = nextId + 1
      /\ tx' = [tx EXCEPT ![w].at = "ship", ![w].rows = Append(@, row)]
      /\ UNCHANGED <<log, users, holder, waiters, siem, refused, started>>

\* Fault: the lock is given up when append() returns, before the commit.
ShipEventAndUnlock(w) ==
  /\ tx[w].at = "ship"
  /\ tx' = [tx EXCEPT ![w].at = "done"]
  /\ holder' = NoWriter
  /\ UNCHANGED <<log, nextId, users, waiters, siem, refused, started>>

\* ship_event is best effort: the collector has the copy, or it does not and
\* the append goes on.
ShipEvent(w) ==
  /\ tx[w].at = "ship"
  /\ LET row == tx[w].rows[Len(tx[w].rows)]
     IN  siem' = siem \cup {row} \/ siem' = siem
  /\ tx' = [tx EXCEPT ![w].at = "done"]
  /\ UNCHANGED <<log, nextId, users, holder, waiters, refused, started>>

\* The purge's next policy calls append() again: the lock is held already.
AppendAgain(w) ==
  /\ tx[w].at = "done"
  /\ Len(tx[w].rows) < MaxBatch
  /\ tx' = [tx EXCEPT ![w].at = "read"]
  /\ UNCHANGED <<log, nextId, users, holder, waiters, siem, refused, started>>

\* The caller commits: the rows become visible, then the lock is released.
Commit(w) ==
  /\ tx[w].at = "done"
  /\ log' = log \o tx[w].rows
  /\ EndTx(w)
  /\ UNCHANGED <<nextId, users, siem, refused, started>>

\* Fault: ids counted from the rows instead of drawn from a sequence.
RollbackReturningIds(w) ==
  /\ tx[w].at # "idle"
  /\ EndTx(w)
  /\ nextId' = nextId - Len(tx[w].rows)
  /\ UNCHANGED <<log, users, siem, refused, started>>

\* An exception, a statement timeout, a lost connection or a killed worker.
Rollback(w) ==
  /\ tx[w].at # "idle"
  /\ EndTx(w)
  /\ UNCHANGED <<log, nextId, users, siem, refused, started>>

\* Fault: no append-only trigger, so SET NULL rewrites committed rows.
DeleteUserSetNull(u) ==
  /\ u \in users
  /\ \A w \in Writers : \A i \in DOMAIN tx[w].rows : tx[w].rows[i].content.actor # u
  /\ log' = [i \in DOMAIN log |->
               IF log[i].content.actor = u
               THEN [log[i] EXCEPT !.content.actor = NoActor] ELSE log[i]]
  /\ users' = users \ {u}
  /\ UNCHANGED <<nextId, holder, waiters, tx, siem, refused, started>>

\* DELETE FROM users.  The actor foreign key is ON DELETE SET NULL, so the
\* database tries to update the rows that name the user, and the append-only
\* trigger raises; an uncommitted row that names the user makes it wait.
DeleteUser(u) ==
  /\ u \in users
  /\ \A w \in Writers : \A i \in DOMAIN tx[w].rows : tx[w].rows[i].content.actor # u
  /\ IF \E i \in DOMAIN log : log[i].content.actor = u
     THEN refused' = refused \cup {u} /\ UNCHANGED users
     ELSE users' = users \ {u} /\ UNCHANGED refused
  /\ UNCHANGED <<log, nextId, holder, waiters, tx, siem, started>>

\* The steps of append() and the commit after it.
Proceed(w) ==
  \/ TakeLock(w)
  \/ ReadLastHash(w)
  \/ \E c \in Content : InsertRow(w, c)
  \/ ShipEvent(w)
  \/ AppendAgain(w)
  \/ Commit(w)

Next ==
  \/ \E w \in Writers : AskLock(w) \/ Proceed(w) \/ Rollback(w)
  \/ \E u \in Users : DeleteUser(u)

Spec == Init /\ [][Next]_vars

\* Nothing in append() waits for ever once it holds the lock: statements and
\* the SIEM call have time limits and the purge has finitely many policies.
\* When a transaction starts, and whether it fails, is left open.
FairSpec == Spec /\ \A w \in Writers : WF_vars(Proceed(w))

-----------------------------------------------------------------------------
(* Properties.                                                             *)

TypeOK ==
  /\ log \in Seq(Row)
  /\ nextId \in Nat \ {0}
  /\ users \subseteq Users
  /\ holder \in Writers \cup {NoWriter}
  /\ waiters \in Seq(Writers)
  /\ tx \in [Writers -> TxState]
  /\ siem \subseteq Row
  /\ refused \subseteq Users
  /\ started \in Nat

\* verify_chain answers (True, None) whenever it is called, whatever
\* transactions are open, rolled back or crashed: appends never fork the chain
\* and ids follow the order of the links (writer.py, module docstring).
ChainVerifies == verify_rows(log)

\* Any change made to the committed rows behind the writer's back - a field
\* edited, a row removed from before the end, two rows exchanged - makes
\* verify_chain fail (chain.py, module docstring).
TamperEvident ==
  \A i \in DOMAIN log :
    /\ \A c \in Content \ {log[i].content} :
         ~ verify_rows([log EXCEPT ![i].content = c])
    /\ i < Len(log) =>
         ~ verify_rows(SubSeq(log, 1, i - 1) \o SubSeq(log, i + 1, Len(log)))
    /\ \A j \in DOMAIN log \ {i} :
         ~ verify_rows([log EXCEPT ![i].id = log[j].id, ![j].id = log[i].id])

\* The SIEM's copy of an id never contradicts the database: a copy of a row
\* that was rolled back keeps an id no committed row takes (siem.py ships
\* before the caller commits).
SiemAgrees ==
  \A e \in siem : \A i \in DOMAIN log : log[i].id = e.id => log[i] = e

\* Content in the order verify_chain and every reader see it, by id.
Rank(i) == Cardinality({ j \in DOMAIN log : log[j].id <= log[i].id })
History ==
  [k \in 1 .. Len(log) |-> log[CHOOSE i \in DOMAIN log : Rank(i) = k].content]

Trail == INSTANCE AuditLog WITH Entry <- Content, history <- History

\* Read in id order, the table is an append-only log of whole transactions.
RefinesAuditLog == Trail!Spec

\* A transaction blocked on the advisory lock is served, or gives up; one that
\* fails while holding the lock does not block the others for ever.
AppendersServed ==
  \A w \in Writers : tx[w].at = "lock" ~> tx[w].at # "lock"
=============================================================================
