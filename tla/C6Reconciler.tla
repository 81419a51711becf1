----------------------------- MODULE C6Reconciler -----------------------------
(***************************************************************************)
(* OutcomeReconciler (c6/safety.py): what is known of the outcome of each  *)
(* command that ended ambiguously.  It has no lock; each operation is one  *)
(* replacement of a record.                                                *)
(***************************************************************************)
EXTENDS Naturals

CONSTANT Commands

VARIABLES
    records,        \* command -> its record, if there is one
    adjudicating    \* history: the commands that became indeterminate

reconciler == <<records, adjudicating>>

Ambiguous == {"UNKNOWN", "COMPENSATION_UNKNOWN", "INDETERMINATE", "COMPENSATION_INDETERMINATE"}
Resolvable == {"UNKNOWN", "COMPENSATION_UNKNOWN"}

ReconcilerInit == records = [c \in Commands |-> {}] /\ adjudicating = {}

Record(c, status, proven) ==
    /\ records' = [records EXCEPT ![c] = {[status |-> status, proven |-> proven]}]
    /\ adjudicating' =
         IF status \in {"INDETERMINATE", "COMPENSATION_INDETERMINATE"}
         THEN adjudicating \cup {c} ELSE adjudicating

\* Whatever was recorded before is replaced.
mark_ambiguous(c, proven) == Record(c, "UNKNOWN", proven)

mark_compensation_ambiguous(c, proven) == Record(c, "COMPENSATION_UNKNOWN", proven)

resolve_with_evidence(c, effect_confirmed) ==
    \E r \in records[c] :
       /\ r.status \in Resolvable
       /\ Record(c,
            IF r.status = "UNKNOWN"
            THEN IF effect_confirmed THEN "CONFIRMED" ELSE "FAILED"
            ELSE IF effect_confirmed THEN "COMPENSATED" ELSE "COMPENSATION_FAILED",
            r.proven)

\* Before the deadline the record is returned as it is.
escalate_if_deadline_passed(c) ==
    \E r \in records[c] :
       /\ r.status \in Resolvable
       /\ Record(c, IF r.status = "UNKNOWN" THEN "INDETERMINATE" ELSE "COMPENSATION_INDETERMINATE", r.proven)

Reconciles(c) ==
    \/ \E confirmed \in BOOLEAN : resolve_with_evidence(c, confirmed)
    \/ escalate_if_deadline_passed(c)

ReconcilerNext ==
    \E c \in Commands :
       \/ Reconciles(c)
       \/ \E proven \in BOOLEAN : mark_ambiguous(c, proven) \/ mark_compensation_ambiguous(c, proven)

ReconcilerSpec == ReconcilerInit /\ [][ReconcilerNext]_reconciler

-------------------------------------------------------------------------------

\* An outcome that was escalated to INDETERMINATE stays so: adjudication is
\* open, and no operation of the reconciler decides it.
IndeterminateBlocks ==
    \A c \in adjudicating : \A r \in records[c] : r.status \in {"INDETERMINATE", "COMPENSATION_INDETERMINATE"}
===============================================================================
