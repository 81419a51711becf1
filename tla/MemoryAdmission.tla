---------------------------- MODULE MemoryAdmission ----------------------------
(***************************************************************************)
(* MemoryAdmissionService over the durable version ledger                  *)
(* (memory/model.py): several processes admit versions to one hash-chained *)
(* journal.  A process answers reads from the entries it has applied and   *)
(* catches up with the file, under its lock, when it appends.              *)
(*                                                                         *)
(* A candidate is [item, version, op, body, kind, source, refs, taints,    *)
(* marking, instruction]: op and body stand for its idempotency key and    *)
(* its content, refs for what it derives from or consolidates, marking for *)
(* its place in the lattice.  Envelope, schema, digests, times, retention, *)
(* evidence, provenance, federation and policy are the environment's: any  *)
(* of them may refuse a candidate or be unreachable.                       *)
(***************************************************************************)
EXTENDS Naturals, Sequences, FiniteSets

CONSTANTS
    AdmissionCandidates,
    Markings,           \* the markings of the authenticated contexts
    Admitters,          \* the processes
    AdmissionFaults     \* bound on crashes, torn writes and unreachable ports

VARIABLES
    versions,           \* the journal
    torn,               \* it ends with a torn write
    applied,            \* process -> the entries it has applied
    admission,          \* process -> the admission in progress, if any
    receipts,           \* the candidates that were answered with a receipt
    denials,            \* the candidates whose refusal is in the audit
    admissionFaults

admissionVars == <<versions, torn, applied, admission, receipts, denials, admissionFaults>>

SOURCE_TAINT ==
    [OBSERVATION |-> "EXTERNAL_DATA", EVIDENCE |-> "EXTERNAL_DATA", TOOL_RESULT |-> "TOOL_OUTPUT",
     HUMAN_INPUT |-> "HUMAN_SUPPLIED", MODEL_OUTPUT |-> "MODEL_GENERATED", DERIVED_SUMMARY |-> "DERIVED",
     PROCEDURE |-> "EXTERNAL_DATA", PREFERENCE |-> "HUMAN_SUPPLIED", MEMORY_CONSOLIDATION |-> "DERIVED"]

KIND_TAINT(kind) == IF kind = "REFLECTION" THEN {"MODEL_GENERATED"} ELSE {}

idempotency_key(c) == <<c.body, c.op>>
Slot(c) == <<c.item, c.version>>

\* What the process answers reads from.
View(p) == {versions[n] : n \in 1 .. applied[p]}
Journalled == {versions[n] : n \in 1 .. Len(versions)}
latest_version(item, view) == Cardinality({c \in view : c.item = item})

lineage_refs(c) == c.refs \cup (IF c.version > 1 THEN {<<c.item, c.version - 1>>} ELSE {})
Sources(c, view) == {s \in view : Slot(s) \in lineage_refs(c)}

AdmissionInit ==
    /\ versions = <<>> /\ torn = FALSE
    /\ applied = [p \in Admitters |-> 0]
    /\ admission = [p \in Admitters |-> {}]
    /\ receipts = {} /\ denials = {} /\ admissionFaults = 0

-------------------------------------------------------------------------------
(* The checks that depend on what was admitted before *)

_validate_kind_rules(c) ==
    /\ c.kind = "SEMANTIC" => c.refs # {}
    /\ c.source = "MEMORY_CONSOLIDATION" => c.refs # {}

\* The version follows the latest one, its predecessor is of the same kind, and
\* every version it refers to is admitted.
_validate_lineage(c, view) ==
    /\ c.version = latest_version(c.item, view) + 1
    /\ lineage_refs(c) \subseteq {Slot(s) : s \in view}
    /\ \A s \in view : s.item = c.item => s.kind = c.kind

\* The inputs are below the context, and the item is not below it.
_validate_marking(c, context, view) ==
    /\ \A s \in Sources(c, view) : s.marking <= context
    /\ c.marking >= context

\* Mutant: labels are not inherited.
TaintOfSource(c, view) == {SOURCE_TAINT[c.source]} \cup KIND_TAINT(c.kind) \subseteq c.taints

_validate_taint(c, view) ==
    {SOURCE_TAINT[c.source]} \cup KIND_TAINT(c.kind) \cup UNION {s.taints : s \in Sources(c, view)}
       \subseteq c.taints

\* Model-generated content is never an instruction; only procedures are.
_validate_instruction_eligibility(c) ==
    c.instruction => "MODEL_GENERATED" \notin c.taints /\ c.kind = "PROCEDURAL"

Admissible(c, context, view) ==
    /\ _validate_kind_rules(c) /\ _validate_lineage(c, view)
    /\ _validate_marking(c, context, view) /\ _validate_taint(c, view)
    /\ _validate_instruction_eligibility(c)

-------------------------------------------------------------------------------
(* admit *)

Fault == admissionFaults < AdmissionFaults /\ admissionFaults' = admissionFaults + 1

\* _record_denial: the refusal is answered only when it is in the audit;
\* otherwise the caller learns that it could not be audited.
Refuse(c) ==
    \/ denials' = denials \cup {c} /\ UNCHANGED admissionFaults
    \/ Fault /\ UNCHANGED denials

\* The key is known to the process: the same candidate gets its receipt again,
\* another one is a conflict.
AdmitKnown(p, c) ==
    /\ admission[p] = {}
    /\ \E s \in View(p) :
         /\ idempotency_key(s) = idempotency_key(c)
         /\ \/ s = c /\ receipts' = receipts \cup {c} /\ UNCHANGED <<denials, admissionFaults>>
            \/ s # c /\ Refuse(c) /\ UNCHANGED receipts
    /\ UNCHANGED <<versions, torn, applied, admission>>

\* The candidate passes, and waits to be appended.
AdmitChecked(p, c) ==
    /\ admission[p] = {}
    /\ idempotency_key(c) \notin {idempotency_key(s) : s \in View(p)}
    /\ \E m \in Markings : Admissible(c, m, View(p))
    /\ admission' = [admission EXCEPT ![p] = {c}]
    /\ UNCHANGED <<versions, torn, applied, receipts, denials, admissionFaults>>

\* A check refuses it, or a port is unreachable.
AdmitRefused(p, c) ==
    /\ admission[p] = {}
    /\ Refuse(c)
    /\ UNCHANGED <<versions, torn, applied, admission, receipts>>

_occupancy_conflict(c, view) ==
    \/ c.version # latest_version(c.item, view) + 1
    \/ idempotency_key(c) \in {idempotency_key(s) : s \in view}

\* Mutant: the slot is checked against what the process had applied.
AppendStale(p) ==
    /\ \E c \in admission[p] :
         \/ /\ ~torn /\ ~_occupancy_conflict(c, View(p))
            /\ versions' = Append(versions, c) /\ applied' = [applied EXCEPT ![p] = Len(versions) + 1]
            /\ receipts' = receipts \cup {c} /\ UNCHANGED <<denials, admissionFaults>>
         \/ /\ torn \/ _occupancy_conflict(c, View(p))
            /\ applied' = [applied EXCEPT ![p] = Len(versions)]
            /\ Refuse(c) /\ UNCHANGED <<versions, receipts>>
    /\ admission' = [admission EXCEPT ![p] = {}]
    /\ UNCHANGED torn

\* JournalMemoryVersionLedger.append, under the lock of the file: the process
\* catches up, checks the slot and the key again, writes and syncs.  A journal
\* with a torn end refuses every append before anything of it is read.
AppendRecord(p) ==
    /\ \E c \in admission[p] :
         \/ /\ ~torn /\ ~_occupancy_conflict(c, Journalled)
            /\ versions' = Append(versions, c) /\ applied' = [applied EXCEPT ![p] = Len(versions) + 1]
            /\ receipts' = receipts \cup {c} /\ UNCHANGED <<denials, admissionFaults>>
         \/ /\ torn \/ _occupancy_conflict(c, Journalled)
            /\ applied' = [applied EXCEPT ![p] = IF torn THEN @ ELSE Len(versions)]
            /\ Refuse(c) /\ UNCHANGED <<versions, receipts>>
    /\ admission' = [admission EXCEPT ![p] = {}]
    /\ UNCHANGED torn

\* The process dies, or the write fails: the entry is not there, is there
\* without an answer, or is torn.  A process starts by reading the journal; on
\* a torn one it does not start, and takes no more steps.
AdmitterDies(p) ==
    /\ Fault
    /\ \/ UNCHANGED <<versions, torn>>
       \/ \E c \in admission[p] :
            /\ ~torn /\ ~_occupancy_conflict(c, Journalled)
            /\ \/ torn' = TRUE /\ UNCHANGED versions
               \/ versions' = Append(versions, c) /\ UNCHANGED torn
    /\ applied' = [applied EXCEPT ![p] = IF torn' THEN @ ELSE Len(versions')]
    /\ admission' = [admission EXCEPT ![p] = {}]
    /\ UNCHANGED <<receipts, denials>>

AdmissionNext ==
    \E p \in Admitters :
       \/ AppendRecord(p) \/ AdmitterDies(p)
       \/ \E c \in AdmissionCandidates : AdmitKnown(p, c) \/ AdmitChecked(p, c) \/ AdmitRefused(p, c)

-------------------------------------------------------------------------------
(* Properties *)

\* A version is admitted once and for all: the versions of an item follow each
\* other, an idempotency key stands for one candidate, and what was answered
\* with a receipt is in the journal, whatever the processes had not read yet
\* (_occupancy_conflict, JournalMemoryVersionLedger.append).
AdmittedOnce ==
    /\ \A m, n \in 1 .. Len(versions) : m < n =>
          /\ idempotency_key(versions[m]) # idempotency_key(versions[n])
          /\ versions[m].item = versions[n].item => versions[m].version < versions[n].version
    /\ \A n \in 1 .. Len(versions) :
          versions[n].version = Cardinality({m \in 1 .. n : versions[m].item = versions[n].item})
    /\ receipts \subseteq Journalled

RECURSIVE Ancestors(_)
Ancestors(refs) ==
    LET found == {s \in Journalled : Slot(s) \in refs}
        further == refs \cup UNION {lineage_refs(s) : s \in found}
    IN IF further = refs THEN found ELSE Ancestors(further)

\* Nothing is laundered through versions: an admitted version carries every
\* label and at least the marking of everything it goes back to, and nothing
\* model-generated is behind an instruction (_validate_lineage,
\* _validate_marking, _validate_taint, _validate_instruction_eligibility).
NoLaundering ==
    \A c \in Journalled : \A s \in Ancestors(lineage_refs(c)) :
       /\ s.taints \subseteq c.taints /\ s.marking <= c.marking
       /\ c.instruction => "MODEL_GENERATED" \notin s.taints
===============================================================================
