-------------------------- MODULE MemoryConsolidation --------------------------
(***************************************************************************)
(* MemoryConsolidationService (memory/consolidation.py): jobs that merge   *)
(* the claims of several memory versions into a summary, keep what the     *)
(* sources disagree on as dissent items, and correct summaries, with a job *)
(* ledger that makes them idempotent.                                      *)
(*                                                                         *)
(* A claim is <<key, value>>; a derived version is [id, version,           *)
(* statements, conflicts, sources], where statements and conflicts are     *)
(* keys.  A request is [op, kind, refs, target, keys]: a consolidation of  *)
(* refs, or a correction of keys in the version target.  Services share    *)
(* the ledgers and run in different processes; what the envelope, the      *)
(* visibility of the inputs, a profile or policy refuses changes nothing.  *)
(***************************************************************************)
EXTENDS Naturals, FiniteSets, SequencesExt

CONSTANTS
    Inputs,             \* the items consolidated
    ClaimsOf,           \* <<item, version>> -> the claims of its payload
    Jobs,               \* the requests
    Services,
    MaxInputVersion,    \* bound on the versions of an input
    ConsolidationFaults \* bound on failures

VARIABLES
    inputHead,          \* input -> its latest version
    inactive,           \* the inputs that are not ACTIVE any more
    derived,            \* the derived versions in the version ledger
    known,              \* service -> those its process has read of it
    visible,            \* those committed to the stores
    job,                \* service -> the job in progress, if any
    completions,        \* audit events of completed operations
    outcomes,           \* the job ledger: [op, derived]
    consolidationFaults

consolidationVars == <<inputHead, inactive, derived, known, visible, job, completions, outcomes, consolidationFaults>>

ConsolidationInit ==
    /\ inputHead = [i \in Inputs |-> 1] /\ inactive = {}
    /\ derived = {} /\ known = [s \in Services |-> {}] /\ visible = {} /\ completions = {} /\ outcomes = {}
    /\ job = [s \in Services |-> {}] /\ consolidationFaults = 0

\* Inputs get new versions and are withdrawn, outside the service.
InputChanges(i) ==
    /\ \/ inputHead[i] < MaxInputVersion /\ inputHead' = [inputHead EXCEPT ![i] = @ + 1] /\ UNCHANGED inactive
       \/ i \notin inactive /\ inactive' = inactive \cup {i} /\ UNCHANGED inputHead
    /\ UNCHANGED <<derived, known, visible, job, completions, outcomes, consolidationFaults>>

-------------------------------------------------------------------------------
(* merge_claims *)

ValuesOf(key, refs) == {c[2] : c \in {d \in UNION {ClaimsOf[r] : r \in refs} : d[1] = key}}
KeysOf(refs) == {c[1] : c \in UNION {ClaimsOf[r] : r \in refs}}

\* Mutant: the sources vote, and only an undecided vote is a conflict.
MergeVoted(refs) ==
    LET votes(k, x) == Cardinality({r \in refs : <<k, x>> \in ClaimsOf[r]})
    IN [conflicts |-> {k \in KeysOf(refs) : \E x, y \in ValuesOf(k, refs) :
                          x # y /\ \A z \in ValuesOf(k, refs) : votes(k, z) <= votes(k, x) /\ votes(k, x) = votes(k, y)},
        statements |-> {k \in KeysOf(refs) : \E x \in ValuesOf(k, refs) :
                          \A z \in ValuesOf(k, refs) \ {x} : votes(k, z) < votes(k, x)}]

\* A key on which all agree is a statement, the others are conflicts.
merge_claims(refs) ==
    [conflicts |-> {k \in KeysOf(refs) : Cardinality(ValuesOf(k, refs)) > 1},
     statements |-> {k \in KeysOf(refs) : Cardinality(ValuesOf(k, refs)) = 1}]

-------------------------------------------------------------------------------
(* consolidate and correct *)

Derived(id, version, statements, conflicts, sources) ==
    [id |-> id, version |-> version, statements |-> statements, conflicts |-> conflicts, sources |-> sources]

\* The dissent items of a job, one per conflict, then its summary.
PlanOf(r) ==
    LET merged == merge_claims(r.refs)
        citing(k) == {x \in r.refs : k \in {c[1] : c \in ClaimsOf[x]}}
        dissent(k) == Derived(<<"dissent", r.op, k>>, 1, {}, {k}, citing(k))
    IN SetToSeq({dissent(k) : k \in merged.conflicts})
          \o <<Derived(<<"consolidated", r.op>>, 1, merged.statements, merged.conflicts, r.refs)>>

JobAt(s, j) == job' = [job EXCEPT ![s] = {j}]
JobEnds(s) == job' = [job EXCEPT ![s] = {}]
Completed(op) == \E o \in outcomes : o.op = op

\* _consolidate, up to the admissions.  An operation on record is only
\* replayed; otherwise the inputs are the active heads of their items.
Consolidate(s, r) ==
    /\ r.kind = "consolidate" /\ job[s] = {} /\ ~Completed(r.op)
    /\ \A x \in r.refs : inputHead[x[1]] = x[2] /\ x[1] \notin inactive
    /\ LET plan == PlanOf(r) IN JobAt(s, [op |-> r.op, stage |-> "admit", plan |-> plan, left |-> plan])
    /\ UNCHANGED <<inputHead, inactive, derived, known, visible, completions, outcomes, consolidationFaults>>

\* _correct, up to the admission: the target is the latest version of a summary
\* that can be read, and what it could not agree on stays as it is.
Correct(s, r) ==
    /\ r.kind = "correct" /\ job[s] = {} /\ ~Completed(r.op)
    /\ \E t \in visible :
         /\ <<t.id, t.version>> = r.target /\ t.id[1] # "dissent"
         /\ ~\E u \in known[s] : u.id = t.id /\ u.version > t.version
         /\ r.keys \cap t.conflicts = {}
         /\ LET plan == <<Derived(t.id, t.version + 1, t.statements \cup r.keys, t.conflicts, t.sources)>>
            IN JobAt(s, [op |-> r.op, stage |-> "admit", plan |-> plan, left |-> plan])
    /\ UNCHANGED <<inputHead, inactive, derived, known, visible, completions, outcomes, consolidationFaults>>

\* Mutant: a slot that is taken refuses the job, whatever it holds.
AdmitFresh(s) ==
    /\ \E j \in job[s] :
         /\ j.stage = "admit" /\ j.left # <<>>
         /\ LET d == Head(j.left)
                held == {e \in derived : e.id = d.id /\ e.version = d.version}
            IN IF held = {} THEN derived' = derived \cup {d} /\ JobAt(s, [j EXCEPT !.stage = "commit"])
               ELSE JobEnds(s) /\ UNCHANGED derived
    /\ known' = [known EXCEPT ![s] = derived']
    /\ UNCHANGED <<inputHead, inactive, visible, completions, outcomes, consolidationFaults>>

\* _admit_and_commit: a slot that is known to be taken holds this derivation, or
\* the job is refused; admission reads the rest of the ledger and appends to
\* it, unless the slot is taken after all ...
AdmitDerived(s) ==
    /\ \E j \in job[s] :
         /\ j.stage = "admit" /\ j.left # <<>>
         /\ LET d == Head(j.left)
                held == {e \in derived : e.id = d.id /\ e.version = d.version}
            IN IF held \subseteq {d} \cap known[s]
               THEN /\ derived' = derived \cup {d} /\ JobAt(s, [j EXCEPT !.stage = "commit"])
                    /\ known' = IF held = {} THEN [known EXCEPT ![s] = derived'] ELSE known
               ELSE /\ JobEnds(s) /\ UNCHANGED derived
                    /\ known' = IF held \subseteq known[s] THEN known ELSE [known EXCEPT ![s] = derived]
    /\ UNCHANGED <<inputHead, inactive, visible, completions, outcomes, consolidationFaults>>

\* ... and the coordinator commits to the stores.
CommitDerived(s) ==
    /\ \E j \in job[s] :
         /\ j.stage = "commit"
         /\ visible' = visible \cup {Head(j.left)}
         /\ JobAt(s, [j EXCEPT !.stage = IF Len(j.left) = 1 THEN "audit" ELSE "admit", !.left = Tail(j.left)])
    /\ UNCHANGED <<inputHead, inactive, derived, known, completions, outcomes, consolidationFaults>>

\* _complete: the audit event, then the job ledger, which refuses an operation
\* that another service has completed.
AuditCompletion(s) ==
    /\ \E j \in job[s] :
         /\ j.stage = "audit"
         /\ completions' = completions \cup {j.op}
         /\ JobAt(s, [j EXCEPT !.stage = "record"])
    /\ UNCHANGED <<inputHead, inactive, derived, known, visible, outcomes, consolidationFaults>>

RecordOutcome(s) ==
    /\ \E j \in job[s] :
         /\ j.stage = "record"
         /\ outcomes' = IF Completed(j.op) THEN outcomes ELSE outcomes \cup {[op |-> j.op, derived |-> ToSet(j.plan)]}
    /\ JobEnds(s)
    /\ UNCHANGED <<inputHead, inactive, derived, known, visible, completions, consolidationFaults>>

\* A store, the audit or the job ledger fails, or the process dies.
JobFails(s) ==
    /\ job[s] # {} /\ consolidationFaults < ConsolidationFaults
    /\ consolidationFaults' = consolidationFaults + 1 /\ JobEnds(s)
    /\ known' \in {known, [known EXCEPT ![s] = derived]}
    /\ UNCHANGED <<inputHead, inactive, derived, visible, completions, outcomes>>

JobSteps(s) == AdmitDerived(s) \/ CommitDerived(s) \/ AuditCompletion(s) \/ RecordOutcome(s)

ConsolidationNext ==
    \/ \E i \in Inputs : InputChanges(i)
    \/ \E s \in Services : JobSteps(s) \/ JobFails(s) \/ \E r \in Jobs : Consolidate(s, r) \/ Correct(s, r)

\* A job in progress goes on, and callers retry what was not completed.
Retry(r) == r.kind = "consolidate" /\ \E s \in Services : Consolidate(s, r)
ConsolidationFairness ==
    /\ \A s \in Services : WF_consolidationVars(JobSteps(s))
    /\ \A r \in Jobs : WF_consolidationVars(Retry(r))

-------------------------------------------------------------------------------
(* Properties *)

\* No disagreement of the sources gets lost: a summary, corrected or not, keeps
\* every key on which the versions it cites differ as a conflict, states none of
\* them, and each is on record as a dissent item, whatever was interrupted
\* (merge_claims, _admit_and_commit, _correct).
DissentPreserved ==
    \A d \in derived : d.id[1] = "consolidated" =>
       \A k \in KeysOf(d.sources) : Cardinality(ValuesOf(k, d.sources)) > 1 =>
          /\ k \in d.conflicts \ d.statements
          /\ \E e \in derived : e.id = <<"dissent", d.id[2], k>>

\* An interrupted consolidation is completed by retrying it, unless an input was
\* superseded or withdrawn (_admit_and_commit, _complete).
RetryCompletes ==
    []<>(\A r \in Jobs :
           r.kind = "consolidate" /\ (\E d \in derived : d.id = <<"consolidated", r.op>>) =>
              Completed(r.op) \/ \E x \in r.refs : inputHead[x[1]] # x[2] \/ x[1] \in inactive)
===============================================================================
