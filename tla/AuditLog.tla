------------------------------ MODULE AuditLog ------------------------------
(***************************************************************************)
(* What the audit trail promises, without the database it is kept in: one  *)
(* history of audit entries that only ever grows at its end.  A unit of    *)
(* work (one purge, one erasure) contributes its entries together or not   *)
(* at all, and no entry is changed, reordered or slipped in before an      *)
(* older one.  AuditChain implements this.                                 *)
(***************************************************************************)
EXTENDS Naturals, Sequences

CONSTANTS Entry,      \* the auditable content of a row
          MaxBatch    \* most entries one unit of work appends

VARIABLE history

Init == history = <<>>

\* One unit of work: the history grows by b at its end.
AppendBatch(b) == history' = history \o b

\* The batch is read off the new history, so that TLC can evaluate the step.
Next == LET old == Len(history)
            b   == SubSeq(history', old + 1, Len(history'))
        IN  /\ Len(history') \in (old + 1) .. (old + MaxBatch)
            /\ b \in Seq(Entry)
            /\ AppendBatch(b)

Spec == Init /\ [][Next]_history
=============================================================================
