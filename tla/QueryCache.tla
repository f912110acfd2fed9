----------------------------- MODULE QueryCache -----------------------------
(***************************************************************************)
(* A query of TanStack Query, as the hooks of the web client use it        *)
(* (staleTime 0, gcTime 0).  A query without observers keeps its data only *)
(* while it is being fetched; a query that is observed anew is fetched,    *)
(* unless it is being fetched already; an invalidation fetches it again if *)
(* it is observed.  A fetch that fails is retried, three times by default: *)
(* until then it is still being asked.  After that the query rests, with   *)
(* the data it had before and an error.                                    *)
(***************************************************************************)
CONSTANT Nothing

Maybe(S) == S \union {Nothing}

Fetch == {"idle", "asked", "answered"}

\* old: the answer on its way is from before a change the client was told of;
\* failed: the last fetch that ended failed.
Query(S) == [data: Maybe(S), fetch: Fetch, answer: Maybe(S), old: BOOLEAN, failed: BOOLEAN]
Unread   == [data |-> Nothing, fetch |-> "idle", answer |-> Nothing, old |-> FALSE,
             failed |-> FALSE]

\* A query that has data keeps its error until it is read again.
Refetched(q) == [q EXCEPT !.fetch = "asked", !.answer = Nothing, !.old = FALSE,
                          !.failed = @ /\ q.data # Nothing]

Asked(q) == IF q.fetch = "idle" THEN Refetched(q) ELSE q

Unobserved(q) == IF q.fetch = "idle" THEN Unread ELSE q

Received(q, observed) ==
  IF observed THEN [q EXCEPT !.data = q.answer, !.fetch = "idle", !.answer = Nothing,
                             !.failed = FALSE]
  ELSE Unread

\* The last retry has failed.
Failed(q, observed) ==
  IF observed THEN [q EXCEPT !.fetch = "idle", !.answer = Nothing, !.failed = TRUE]
  ELSE Unread

\* setQueryData
Put(q, data) == [q EXCEPT !.data = data, !.failed = FALSE]

\* cancelQueries: what was read stays.
Cancelled(q) == [q EXCEPT !.fetch = "idle", !.answer = Nothing]

\* Fault: the mutation leaves the queries alone.
NotInvalidated(q, observed) == q

\* invalidateQueries: a query that is observed is fetched again, its fetch under
\* way cancelled if it has data already.
Invalidated(q, observed) ==
  IF observed /\ (q.fetch = "idle" \/ q.data # Nothing) THEN Refetched(q)
  ELSE [q EXCEPT !.old = @ \/ q.fetch = "answered"]
=============================================================================
