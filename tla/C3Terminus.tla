------------------------------ MODULE C3Terminus ------------------------------
(***************************************************************************)
(* The canonical commit slice of C3 on TerminusDB                          *)
(* (c3/adapters/terminusdb.py behind c3/terminusdb_service.py).            *)
(*                                                                         *)
(* Where the PostgreSQL adapter holds a lock, this one reads a snapshot of *)
(* the branch pinned to one data version and sends one conditional WOQL    *)
(* transaction: the server applies every write or none, and none unless    *)
(* the conditions still hold.  A failed condition repeats the operation    *)
(* from a new snapshot, within an attempt budget.  The newest writer epoch *)
(* fences the earlier writers.  A request may be lost before or after the  *)
(* server applied it, and a process may die.                               *)
(*                                                                         *)
(* The branch keeps each aggregate's commit records in revision order, with *)
(* their place among all (nth).                                            *)
(* Bindings, outbox entries and delivery attempts hold only fields of a    *)
(* commit record, so each is the set of commit records it has a document   *)
(* for.                                                                    *)
(***************************************************************************)
EXTENDS Naturals, Sequences, FiniteSets, SequencesExt

CONSTANTS
    Refs,           \* aggregates
    Adapters,       \* TerminusDBC3Adapter instances
    Writers,        \* threads calling one of them
    Layouts,        \* which thread may call which adapter
    Offered,        \* the operations each thread calls
    Sent,           \* the commands each thread may send: [ref, key, expected]
    RelayLimit,     \* the limit argument of claim_batch
    RepairLimit,    \* the limit argument of reconcile
    Attempts,       \* bound: MAX_CONDITIONAL_ATTEMPTS
    MaxWriterEpoch, \* bound: epochs acquired
    BranchFaults    \* bound: lost requests, dead processes, lost documents

ASSUME LayoutsAssumption == Layouts \subseteq [Writers -> Adapters]

VARIABLES
    branch,         \* the documents of branch main
    writer,         \* what each thread is doing
    adapter,        \* the adapter instance each thread calls
    adapterEpoch,   \* _epoch of each instance, 0 for None
    receiptedAt,    \* <<ref, revision>> of every outcome returned
    relayed,        \* commit records some claim_outbox_batch returned
    branchFaults

terminusVars == <<branch, writer, adapter, adapterEpoch, receiptedAt, relayed, branchFaults>>

Idle == [at |-> "idle", arg |-> <<>>, tries |-> 0, seen |-> <<>>]

TerminusInit ==
    /\ branch = [fence |-> 0, commits |-> [a \in Refs |-> <<>>], bindings |-> {}, entries |-> {}, attempts |-> {}]
    /\ writer = [w \in Writers |-> Idle]
    /\ adapter \in Layouts
    /\ adapterEpoch = [x \in Adapters |-> 0]
    /\ receiptedAt = {} /\ relayed = {} /\ branchFaults = 0

Records == UNION {Range(branch.commits[a]) : a \in Refs}
Revision(ref) == Len(branch.commits[ref])
BoundTo(cmd) == {c \in branch.bindings : c.cmd.ref = cmd.ref /\ c.cmd.key = cmd.key}

Ends(w) == writer' = [writer EXCEPT ![w] = Idle]

FirstOf(S, limit) ==
    {T \in SUBSET S : Cardinality(T) = IF Cardinality(S) < limit THEN Cardinality(S) ELSE limit}

\* Missing bindings and entries, at most RepairLimit of them.  The code takes
\* them in the order of the commit ids, which are digests.
Repairs ==
    FirstOf({<<"binding", c>> : c \in Records \ branch.bindings}
            \cup {<<"entry", c>> : c \in Records \ branch.entries}, RepairLimit)

RepairsOf(repairs, kind) == {r[2] : r \in {x \in repairs : x[1] = kind}}

\* What an operation keeps of its snapshot, or nothing when the snapshot decides
\* it: the fence acquire_writer advances, the repairs, the epoch checked.
Kept(at, arg, epoch) ==
    CASE at = "acquire" -> {branch.fence}
      [] at = "commit" -> IF BoundTo(arg) # {} \/ arg.expected # Revision(arg.ref) THEN {} ELSE {epoch}
      [] at = "acknowledge" -> IF arg \in branch.entries \ branch.attempts THEN {epoch} ELSE {}
      [] at = "reconcile" -> {<<epoch, repairs>> : repairs \in Repairs \ {{}}}

\* _snapshot of all the documents an operation reads, pinned to one data version,
\* and the returns that follow from it: SINGLE_WRITER_VIOLATION, a replay's
\* receipt, a refusal, nothing left to do.
_snapshot(w, at, arg, tries) ==
    LET epoch == adapterEpoch[adapter[w]]
        fenced == at # "acquire" /\ branch.fence # epoch
        kept == Kept(at, arg, epoch)
    IN
    /\ IF fenced \/ kept = {}
       THEN Ends(w)
       ELSE \E seen \in kept :
              writer' = [writer EXCEPT ![w] =
                           [at |-> at, arg |-> arg, tries |-> tries, seen |-> <<seen>>]]
    /\ IF at = "commit" /\ ~fenced
       THEN receiptedAt' = receiptedAt \cup
              {<<c.cmd.ref, c.to>> : c \in {b \in BoundTo(arg) : b.cmd = arg}}
       ELSE UNCHANGED receiptedAt
    /\ UNCHANGED <<branch, adapterEpoch, relayed, branchFaults>>

\* initialize acquires the writer epoch; the other operations need one.
Starts(w, at, arg) ==
    /\ writer[w].at = "idle" /\ at \in Offered[w]
    /\ IF at = "acquire" THEN branch.fence < MaxWriterEpoch ELSE adapterEpoch[adapter[w]] # 0
    /\ _snapshot(w, at, arg, 0)

SnapshotAgain(w) ==
    /\ writer[w].at \in {"acquire", "commit", "acknowledge", "reconcile"}
    /\ writer[w].seen = <<>>
    /\ _snapshot(w, writer[w].at, writer[w].arg, writer[w].tries)

\* The value kept of the snapshot.
Seen(w) == writer[w].seen[1]

AtPhase(w, op) == writer[w].at = op /\ writer[w].seen # <<>>

\* A failed precondition: a new snapshot, or WRITE_CONTENTION.
RepeatsFor(w) ==
    /\ IF writer[w].tries + 1 < Attempts
       THEN writer' = [writer EXCEPT ![w].seen = <<>>, ![w].tries = @ + 1]
       ELSE Ends(w)
    /\ UNCHANGED <<branch, adapterEpoch>>

\* _transact: docs replaces the branch if the conditions still hold.  The
\* answer is a step of its own: it may be lost.
_transact(w, conditions, docs) ==
    /\ IF conditions
       THEN /\ branch' = docs
            /\ writer' = [writer EXCEPT ![w].at = "answer", ![w].seen = <<>>]
            /\ UNCHANGED adapterEpoch
       ELSE RepeatsFor(w)
    /\ UNCHANGED <<receiptedAt, relayed, branchFaults>>

acquire_writer(w) ==
    LET fence == Seen(w) IN
    /\ AtPhase(w, "acquire")
    /\ IF branch.fence = fence
       THEN /\ branch' = [branch EXCEPT !.fence = fence + 1]
            /\ writer' = [writer EXCEPT ![w] = [Idle EXCEPT !.at = "acquired", !.arg = fence + 1]]
            /\ UNCHANGED adapterEpoch
       ELSE RepeatsFor(w)
    /\ UNCHANGED <<receiptedAt, relayed, branchFaults>>

Acquired(w) ==
    /\ writer[w].at = "acquired"
    /\ adapterEpoch' = [adapterEpoch EXCEPT ![adapter[w]] = writer[w].arg]
    /\ Ends(w)
    /\ UNCHANGED <<branch, receiptedAt, relayed, branchFaults>>

\* Mutant: the transaction is not conditional on the aggregate's revision.
CommitUnrevised(w, cmd) ==
    /\ branch.fence = Seen(w)
    /\ BoundTo(cmd) = {}

CommitConditions(w, cmd) ==
    /\ branch.fence = Seen(w)
    /\ BoundTo(cmd) = {}
    /\ Revision(cmd.ref) = cmd.expected

\* commit_transaction: one conditional transaction writes aggregate, commit,
\* binding and entry.
commit_transaction(w) ==
    LET cmd == writer[w].arg
        record == [cmd |-> cmd, to |-> cmd.expected + 1, epoch |-> Seen(w),
                   nth |-> Cardinality(Records) + 1]
    IN
    /\ AtPhase(w, "commit")
    /\ _transact(w, CommitConditions(w, cmd),
                 [branch EXCEPT !.commits[cmd.ref] = Append(@, record),
                                !.bindings = @ \cup {record},
                                !.entries = @ \cup {record}])

\* The answer to an applied transaction reaches the caller.
Answered(w) ==
    LET mine == {c \in Records : c.cmd = writer[w].arg} IN
    /\ writer[w].at = "answer"
    /\ receiptedAt' = receiptedAt \cup {<<c.cmd.ref, c.to>> : c \in mine}
    /\ Ends(w)
    /\ UNCHANGED <<branch, adapterEpoch, relayed, branchFaults>>

\* claim_outbox_batch orders by occurred_at, read from the clock of whichever
\* process committed, so any RelayLimit pending entries may come first.
claim_outbox_batch ==
    /\ \E batch \in FirstOf(branch.entries \ branch.attempts, RelayLimit) :
         relayed' = relayed \cup batch
    /\ UNCHANGED <<branch, writer, adapterEpoch, receiptedAt, branchFaults>>

acknowledge_outbox(w) ==
    LET record == writer[w].arg IN
    /\ AtPhase(w, "acknowledge")
    /\ _transact(w,
                 /\ branch.fence = Seen(w)
                 /\ record \in branch.entries /\ record \notin branch.attempts,
                 [branch EXCEPT !.attempts = @ \cup {record}])

reconcile(w) ==
    LET bindings == RepairsOf(Seen(w)[2], "binding")
        entries == RepairsOf(Seen(w)[2], "entry")
    IN
    /\ AtPhase(w, "reconcile")
    /\ _transact(w,
                 /\ branch.fence = Seen(w)[1]
                 /\ \A c \in bindings : BoundTo(c.cmd) = {}
                 /\ entries \cap branch.entries = {},
                 [branch EXCEPT !.bindings = @ \cup bindings, !.entries = @ \cup entries])

\* TerminusDBUnavailable before or after the server applied the request.
TerminusDBUnavailable(w) ==
    /\ writer[w].at # "idle"
    /\ branchFaults < BranchFaults
    /\ branchFaults' = branchFaults + 1
    /\ Ends(w)
    /\ UNCHANGED <<branch, adapterEpoch, receiptedAt, relayed>>

\* TerminusDBCrashStage: os._exit at a stage; the epoch and every thread of the
\* adapter die with the process.
_crash(w) ==
    /\ writer[w].at # "idle"
    /\ branchFaults < BranchFaults
    /\ branchFaults' = branchFaults + 1
    /\ writer' = [v \in Writers |-> IF adapter[v] = adapter[w] THEN Idle ELSE writer[v]]
    /\ adapterEpoch' = [adapterEpoch EXCEPT ![adapter[w]] = 0]
    /\ UNCHANGED <<branch, receiptedAt, relayed>>

\* The simulated corruption reconcile repairs.
DocumentLost ==
    /\ branchFaults < BranchFaults
    /\ branchFaults' = branchFaults + 1
    /\ \/ \E c \in branch.bindings : branch' = [branch EXCEPT !.bindings = @ \ {c}]
       \/ \E c \in branch.entries : branch' = [branch EXCEPT !.entries = @ \ {c}]
    /\ UNCHANGED <<writer, adapterEpoch, receiptedAt, relayed>>

TerminusNext ==
  /\ UNCHANGED adapter
  /\ \/ \E w \in Writers :
          \/ Starts(w, "acquire", <<>>)
          \/ \E cmd \in Sent[w] : Starts(w, "commit", cmd)
          \/ \E c \in relayed : Starts(w, "acknowledge", c)
          \/ Starts(w, "reconcile", <<>>)
          \/ SnapshotAgain(w)
          \/ acquire_writer(w) \/ Acquired(w)
          \/ commit_transaction(w) \/ acknowledge_outbox(w) \/ reconcile(w)
          \/ Answered(w)
          \/ TerminusDBUnavailable(w) \/ _crash(w)
     \/ claim_outbox_batch
     \/ DocumentLost

-------------------------------------------------------------------------------
(* What the adapter promises *)

\* Once a writer has acquired an epoch, no earlier writer commits any more, on
\* any aggregate, whatever it had read before (acquire_writer: "becomes its only
\* writer"; the conditions of commit_transaction).
EpochsInOrder == \A c, d \in Records : c.nth < d.nth => c.epoch <= d.epoch

CanonicalLog == [a \in Refs |-> [i \in DOMAIN branch.commits[a] |-> branch.commits[a][i].cmd]]

TerminusCanonical == INSTANCE C3Canonical
    WITH Aggregates <- Refs, Commands <- UNION {Sent[w] : w \in Writers}, log <- CanonicalLog,
         receipted <- receiptedAt, published <- {<<c.cmd.ref, c.to>> : c \in relayed}

\* The TerminusDB adapter is an implementation of the C3 ports: whatever the
\* writers race, lose or repeat, each aggregate is the append-only log of
\* C3Canonical, every receipt and every relayed entry names a record of it, and
\* the records carry the writers' epochs in order.
TerminusImplements == TerminusCanonical!Spec /\ []EpochsInOrder
===============================================================================
