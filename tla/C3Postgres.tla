------------------------------ MODULE C3Postgres ------------------------------
(***************************************************************************)
(* The canonical commit slice of C3 on PostgreSQL (c3/adapters/postgres.py *)
(* behind c3/service.py) and the single-writer recovery coordinator        *)
(* (c3/recovery.py, c3/adapters/recovery_lock.py).                         *)
(*                                                                         *)
(* Clients run commit_transaction: one database transaction that takes the *)
(* aggregate's advisory lock, looks up the idempotency binding, fences the *)
(* expected revision and stages four rows.  A client process may die after *)
(* any of the four inserts, or after the COMMIT and before its answer.     *)
(* Workers run recovery passes and outbox relay batches under one session  *)
(* advisory lock.  A derived row (idempotency or outbox) may be lost after *)
(* the fact; reconcile re-derives it from the commit row.                  *)
(*                                                                         *)
(* A digest is an injective function of what it covers, so a command       *)
(* stands for its own command_digest and a state for its state_digest.     *)
(* c3_idempotency and c3_outbox hold only columns copied from the commit   *)
(* row (and acknowledged_at), so each table is the set of commit rows it   *)
(* has a row for.                                                          *)
(***************************************************************************)
EXTENDS Naturals, FiniteSets, Sequences

CONSTANTS
    Aggregates,     \* (tenant_id, aggregate_type, aggregate_ref) triples
    Keys,           \* idempotency keys
    Fields,         \* top-level fields of a canonical document
    Values,         \* values of a field
    Absent,         \* marks a field the document or delta does not hold
    Deltas,         \* canonical_delta values commands may carry
    Clients,        \* processes calling PostgresC3Service.commit
    Workers,        \* processes running SingleWriterRecoveryCoordinator
    NoWorker,       \* the recovery lock is free
    Limit,          \* the limit argument of reconcile and claim_batch
    MaxSkew,        \* how far a client clock may be from the true time
    MaxRevision,    \* bound: revisions per aggregate
    MaxFaults,      \* bound: crashes, failed deliveries, lost rows, dropped sessions
    SessionMayDrop  \* may the recovery lock's session drop under its holder

Documents == [Fields -> Values \cup {Absent}]

\* Deltas that set exactly one field, for small instances.
OneFieldDeltas ==
    {d \in Documents : \E f \in Fields : d[f] # Absent /\ \A g \in Fields \ {f} : d[g] = Absent}

ASSUME DeltasAssumption == Deltas \subseteq Documents
ASSUME BoundsAssumption ==
    /\ Limit \in Nat \ {0}
    /\ MaxSkew \in Nat
    /\ MaxRevision \in Nat
    /\ MaxFaults \in Nat
    /\ SessionMayDrop \in BOOLEAN
ASSUME NoWorkerAssumption == NoWorker \notin Workers

Command == [ref : Aggregates, key : Keys, expected : Nat, delta : Deltas]
Commands == {c \in [ref : Aggregates, key : Keys,
                    expected : 0..MaxRevision, delta : Deltas] :
               c.expected < MaxRevision}

CommitRow == [cmd : Command, to : Nat, state : Documents, at : Nat]

\* The stages of an open transaction, by the CrashStage last passed.
OpenStages == {"begun", "AFTER_AGGREGATE_UPSERT", "AFTER_COMMIT_INSERT",
               "AFTER_IDEMPOTENCY_INSERT", "AFTER_OUTBOX_INSERT"}
Stages == OpenStages \cup {"idle", "AFTER_COMMIT_BEFORE_ACK"}

Refusals == {"IDEMPOTENCY_CONFLICT", "REVISION_CONFLICT", "UNIQUE_VIOLATION"}
Answers == {"none", "committed", "replayed"} \cup Refusals

VARIABLES
    aggregate,      \* c3_aggregate: the revision and state of each aggregate
    commits,        \* c3_commit
    idempotency,    \* c3_idempotency, as the commit rows it binds
    outbox,         \* c3_outbox, as the commit rows it announces
    acknowledged,   \* outbox rows whose acknowledged_at is set
    stage,          \* how far each client's transaction is
    staged,         \* the commit row each client's transaction computed
    request,        \* the command each client last sent
    answer,         \* the last answer each client received
    receipts,       \* commit rows named in a receipt some client received
    holder,         \* the worker whose session holds the recovery lock
    phase,          \* what each worker is doing
    batch,          \* rows a worker selected: orphans, or a claimed batch
    unacked,        \* the row a worker has delivered and not yet acknowledged
    sink,           \* rows the delivery callback has accepted
    lostBindings,   \* history: rows whose idempotency row was ever lost
    lostEvents,     \* history: rows whose outbox row was ever lost
    faults          \* faults so far

tables == <<aggregate, commits, idempotency, outbox, acknowledged>>
clientVars == <<stage, staged, request, answer, receipts>>
workerVars == <<holder, phase, batch, unacked, sink>>
history == <<lostBindings, lostEvents, faults>>
vars == <<tables, clientVars, workerVars, history>>

Blank == [f \in Fields |-> Absent]

Init ==
    /\ aggregate = [a \in Aggregates |-> [revision |-> 0, state |-> Blank]]
    /\ commits = {} /\ idempotency = {} /\ outbox = {} /\ acknowledged = {}
    /\ stage = [c \in Clients |-> "idle"]
    /\ staged = [c \in Clients |-> {}]
    /\ request = [c \in Clients |-> {}]
    /\ answer = [c \in Clients |-> "none"]
    /\ receipts = {}
    /\ holder = NoWorker
    /\ phase = [w \in Workers |-> "idle"]
    /\ batch = [w \in Workers |-> {}]
    /\ unacked = [w \in Workers |-> {}]
    /\ sink = {}
    /\ lostBindings = {} /\ lostEvents = {} /\ faults = 0

-------------------------------------------------------------------------------
(* commit_transaction *)

merge_delta(state, delta) ==
    [f \in Fields |-> IF delta[f] # Absent THEN delta[f] ELSE state[f]]

InTransaction(c) == stage[c] \in OpenStages

\* pg_advisory_xact_lock on the aggregate: free once no open transaction
\* works on it.  A client waiting for it is a client that takes no step.
Unlocked(ref) ==
    \A c \in Clients : InTransaction(c) => \A cmd \in request[c] : cmd.ref # ref

\* The row the idempotency lookup joins, for the command's scope.
Bound(cmd) == {r \in idempotency : r.cmd.ref = cmd.ref /\ r.cmd.key = cmd.key}

\* Wall-clock readings a client may take now: the true time, which advances
\* with every commit, give or take MaxSkew.
Now == Cardinality(commits) + 1
Readings == {t \in 0..(Now + MaxSkew) : Now <= t + MaxSkew}

\* The answer a client that is not in a transaction gives its caller.
AnswerWith(c, cmd, result) ==
    /\ request' = [request EXCEPT ![c] = {cmd}]
    /\ answer' = [answer EXCEPT ![c] = result]

Begins(c, cmd) ==
    /\ stage[c] = "idle"
    /\ Unlocked(cmd.ref)

\* The key is bound to the same content: the stored receipt is returned.
CommitReplayed(c, cmd) ==
    /\ Begins(c, cmd)
    /\ \E r \in Bound(cmd) : r.cmd = cmd /\ receipts' = receipts \cup {r}
    /\ AnswerWith(c, cmd, "replayed")
    /\ UNCHANGED <<tables, stage, staged, workerVars, history>>

\* The key is bound to other content.
CommitConflicting(c, cmd) ==
    /\ Begins(c, cmd)
    /\ \E r \in Bound(cmd) : r.cmd # cmd
    /\ AnswerWith(c, cmd, "IDEMPOTENCY_CONFLICT")
    /\ UNCHANGED <<tables, stage, staged, receipts, workerVars, history>>

\* Mutant: the revision is compared before the idempotency lookup.
CommitFencedFirst(c, cmd) ==
    /\ Begins(c, cmd)
    /\ cmd.expected # aggregate[cmd.ref].revision
    /\ AnswerWith(c, cmd, "REVISION_CONFLICT")
    /\ UNCHANGED <<tables, stage, staged, receipts, workerVars, history>>

\* The key is free but the aggregate is not at the expected revision.
CommitFenced(c, cmd) ==
    /\ Begins(c, cmd)
    /\ Bound(cmd) = {}
    /\ cmd.expected # aggregate[cmd.ref].revision
    /\ AnswerWith(c, cmd, "REVISION_CONFLICT")
    /\ UNCHANGED <<tables, stage, staged, receipts, workerVars, history>>

\* Mutant: the expected revision is not compared.
CommitBegunUnfenced(c, cmd) ==
    /\ Begins(c, cmd)
    /\ Bound(cmd) = {}
    /\ aggregate[cmd.ref].revision < MaxRevision
    /\ \E t \in Readings :
         staged' = [staged EXCEPT ![c] =
           {[cmd |-> cmd,
             to |-> aggregate[cmd.ref].revision + 1,
             state |-> merge_delta(aggregate[cmd.ref].state, cmd.delta),
             at |-> t]}]
    /\ stage' = [stage EXCEPT ![c] = "begun"]
    /\ AnswerWith(c, cmd, "none")
    /\ UNCHANGED <<tables, receipts, workerVars, history>>

\* Key and revision admit the command: compute the row the inserts will write.
CommitBegun(c, cmd) ==
    /\ Begins(c, cmd)
    /\ Bound(cmd) = {}
    /\ cmd.expected = aggregate[cmd.ref].revision
    /\ \E t \in Readings :
         staged' = [staged EXCEPT ![c] =
           {[cmd |-> cmd,
             to |-> aggregate[cmd.ref].revision + 1,
             state |-> merge_delta(aggregate[cmd.ref].state, cmd.delta),
             at |-> t]}]
    /\ stage' = [stage EXCEPT ![c] = "begun"]
    /\ AnswerWith(c, cmd, "none")
    /\ UNCHANGED <<tables, receipts, workerVars, history>>

\* One INSERT of the transaction, invisible to others until the COMMIT.
InsertStep(c, from, to) ==
    /\ stage[c] = from
    /\ stage' = [stage EXCEPT ![c] = to]
    /\ UNCHANGED <<tables, staged, request, answer, receipts, workerVars, history>>

UpsertAggregate(c) == InsertStep(c, "begun", "AFTER_AGGREGATE_UPSERT")
InsertCommit(c) == InsertStep(c, "AFTER_AGGREGATE_UPSERT", "AFTER_COMMIT_INSERT")

InsertIdempotency(c) ==
    /\ \A cmd \in request[c] : Bound(cmd) = {}
    /\ InsertStep(c, "AFTER_COMMIT_INSERT", "AFTER_IDEMPOTENCY_INSERT")

\* A recovery pass restored the key's binding after the lookup found none:
\* the primary key refuses the INSERT and the transaction rolls back.
InsertIdempotencyRefused(c) ==
    /\ stage[c] = "AFTER_COMMIT_INSERT"
    /\ \E cmd \in request[c] : Bound(cmd) # {}
    /\ stage' = [stage EXCEPT ![c] = "idle"]
    /\ staged' = [staged EXCEPT ![c] = {}]
    /\ answer' = [answer EXCEPT ![c] = "UNIQUE_VIOLATION"]
    /\ UNCHANGED <<tables, request, receipts, workerVars, history>>

InsertOutbox(c) == InsertStep(c, "AFTER_IDEMPOTENCY_INSERT", "AFTER_OUTBOX_INSERT")

\* Mutant: the outbox row is not part of the transaction.
CommitTablesWithoutOutbox(c) ==
    \E r \in staged[c] :
       /\ aggregate' = [aggregate EXCEPT ![r.cmd.ref] =
                          [revision |-> r.to, state |-> r.state]]
       /\ commits' = commits \cup {r}
       /\ idempotency' = idempotency \cup {r}
       /\ UNCHANGED <<outbox, acknowledged>>

\* COMMIT: the four rows become durable and visible together.
CommitTables(c) ==
    \E r \in staged[c] :
       /\ aggregate' = [aggregate EXCEPT ![r.cmd.ref] =
                          [revision |-> r.to, state |-> r.state]]
       /\ commits' = commits \cup {r}
       /\ idempotency' = idempotency \cup {r}
       /\ outbox' = outbox \cup {r}
       /\ acknowledged' = acknowledged

Commit(c) ==
    /\ stage[c] = "AFTER_OUTBOX_INSERT"
    /\ CommitTables(c)
    /\ stage' = [stage EXCEPT ![c] = "AFTER_COMMIT_BEFORE_ACK"]
    /\ UNCHANGED <<staged, request, answer, receipts, workerVars, history>>

\* The receipt reaches the caller.
CommitAnswered(c) ==
    /\ stage[c] = "AFTER_COMMIT_BEFORE_ACK"
    /\ receipts' = receipts \cup staged[c]
    /\ stage' = [stage EXCEPT ![c] = "idle"]
    /\ staged' = [staged EXCEPT ![c] = {}]
    /\ answer' = [answer EXCEPT ![c] = "committed"]
    /\ UNCHANGED <<tables, request, workerVars, history>>

\* The client process dies: an open transaction rolls back, a committed one
\* stays committed and only its answer is lost.
ClientCrash(c) ==
    /\ faults < MaxFaults
    /\ stage[c] # "idle"
    /\ stage' = [stage EXCEPT ![c] = "idle"]
    /\ staged' = [staged EXCEPT ![c] = {}]
    /\ faults' = faults + 1
    /\ UNCHANGED <<tables, request, answer, receipts, workerVars,
                   lostBindings, lostEvents>>

-------------------------------------------------------------------------------
(* SingleWriterRecoveryCoordinator: reconcile and relay under one lock *)

\* SELECT ... LIMIT n with no ORDER BY: any n rows, or all if there are fewer.
AnyUpTo(rows, n) ==
    {s \in SUBSET rows : \/ s = rows /\ Cardinality(s) <= n
                         \/ Cardinality(s) = n}

OrphanedIdempotency == commits \ idempotency
OrphanedOutbox == commits \ outbox

\* Entering "with self._lock.held(...)" and leaving it, the normal way or by
\* an exception.  A worker whose session dropped leaves without the lock.
Enter(w) ==
    /\ phase[w] = "idle"
    /\ holder = NoWorker
    /\ holder' = w
Leave(w) == holder' = IF holder = w THEN NoWorker ELSE holder

\* Mutant: the pass takes one row less than the limit.
RecoverySelectFewer(w) ==
    /\ Enter(w)
    /\ \E rows \in AnyUpTo(OrphanedIdempotency, Limit - 1) :
         batch' = [batch EXCEPT ![w] = rows]
    /\ phase' = [phase EXCEPT ![w] = "reconciling"]
    /\ UNCHANGED <<tables, clientVars, unacked, sink, history>>

\* run_recovery_pass / assert_healthy: the first SELECT of reconcile.
RecoverySelect(w) ==
    /\ Enter(w)
    /\ \E rows \in AnyUpTo(OrphanedIdempotency, Limit) :
         batch' = [batch EXCEPT ![w] = rows]
    /\ phase' = [phase EXCEPT ![w] = "reconciling"]
    /\ UNCHANGED <<tables, clientVars, unacked, sink, history>>

\* An uncommitted insert of the same primary key makes an insert wait.
InsertsWait(rows) ==
    \E c \in Clients : /\ stage[c] \in {"AFTER_IDEMPOTENCY_INSERT", "AFTER_OUTBOX_INSERT"}
                       /\ \E cmd \in request[c], r \in rows :
                            r.cmd.ref = cmd.ref /\ r.cmd.key = cmd.key

\* Mutant: no row is inserted.
InsertableNone(rows) == {{}}

\* Rows of the batch whose primary key is free: ON CONFLICT DO NOTHING skips
\* the others, and of two rows for one key the first inserted wins.
Insertable(rows) ==
    {s \in SUBSET rows :
       /\ \A r \in s : Bound(r.cmd) = {}
       /\ \A r, q \in s : r.cmd.ref = q.cmd.ref /\ r.cmd.key = q.cmd.key => r = q
       /\ \A r \in rows : Bound(r.cmd) = {} =>
            \E q \in s : r.cmd.ref = q.cmd.ref /\ r.cmd.key = q.cmd.key}

\* The inserts of reconcile, its second SELECT and its COMMIT.
RecoveryFinish(w) ==
    /\ phase[w] = "reconciling"
    /\ ~InsertsWait(batch[w])
    /\ \E bound \in Insertable(batch[w]), events \in AnyUpTo(OrphanedOutbox, Limit) :
         /\ idempotency' = idempotency \cup bound
         /\ outbox' = outbox \cup events
    /\ Leave(w)
    /\ phase' = [phase EXCEPT ![w] = "idle"]
    /\ batch' = [batch EXCEPT ![w] = {}]
    /\ UNCHANGED <<aggregate, commits, acknowledged, clientVars, unacked, sink, history>>

Pending == outbox \ acknowledged

\* Mutant: the ORDER BY is missing.
EarliestUnordered(rows, n) == AnyUpTo(rows, n)

\* The first n rows of ORDER BY occurred_at; equal times come in any order.
Earliest(rows, n) ==
    {s \in AnyUpTo(rows, n) : \A r \in s, q \in rows \ s : r.at <= q.at}

\* claim_and_deliver: claim_outbox_batch reads the batch and marks nothing.
Claim(w) ==
    /\ Enter(w)
    /\ Pending # {}
    /\ \E rows \in Earliest(Pending, Limit) : batch' = [batch EXCEPT ![w] = rows]
    /\ phase' = [phase EXCEPT ![w] = "delivering"]
    /\ UNCHANGED <<tables, clientVars, unacked, sink, history>>

\* The next envelope of the batch.
NextEnvelope(w) == {r \in batch[w] : \A q \in batch[w] : r.at <= q.at}

\* deliver(envelope) returns: the sink, idempotent by event_id, has it.
Deliver(w) ==
    /\ phase[w] = "delivering"
    /\ \E r \in NextEnvelope(w) :
         /\ sink' = sink \cup {r}
         /\ batch' = [batch EXCEPT ![w] = @ \ {r}]
         /\ unacked' = [unacked EXCEPT ![w] = {r}]
    /\ phase' = [phase EXCEPT ![w] = "acknowledging"]
    /\ UNCHANGED <<tables, clientVars, holder, history>>

\* acknowledge_outbox: an UPDATE, which touches no row if the row is gone.
Acknowledge(w) ==
    /\ phase[w] = "acknowledging"
    /\ acknowledged' = acknowledged \cup (unacked[w] \cap outbox)
    /\ unacked' = [unacked EXCEPT ![w] = {}]
    /\ phase' = [phase EXCEPT ![w] = IF batch[w] = {} THEN "idle" ELSE "delivering"]
    /\ IF batch[w] = {} THEN Leave(w) ELSE UNCHANGED holder
    /\ UNCHANGED <<aggregate, commits, idempotency, outbox, clientVars,
                   batch, sink, history>>

\* An exception out of the with block, or the death of the worker process:
\* the lock's session ends, an open reconcile rolls back, and what was
\* delivered but not acknowledged stays claimable.  delivered is what the
\* sink accepted although its caller saw the call fail.
Abandon(w, delivered) ==
    /\ faults < MaxFaults
    /\ Leave(w)
    /\ phase' = [phase EXCEPT ![w] = "idle"]
    /\ batch' = [batch EXCEPT ![w] = {}]
    /\ unacked' = [unacked EXCEPT ![w] = {}]
    /\ sink' = sink \cup delivered
    /\ faults' = faults + 1
    /\ UNCHANGED <<tables, clientVars, lostBindings, lostEvents>>

DeliverFails(w) ==
    /\ phase[w] = "delivering"
    /\ \E r \in NextEnvelope(w), delivered \in BOOLEAN :
         Abandon(w, IF delivered THEN {r} ELSE {})

WorkerCrash(w) == phase[w] # "idle" /\ Abandon(w, {})

\* The lock's own connection drops while its holder keeps working through
\* the adapter's other connections; the server frees the lock.
DropSession(w) ==
    /\ SessionMayDrop
    /\ faults < MaxFaults
    /\ holder = w
    /\ holder' = NoWorker
    /\ faults' = faults + 1
    /\ UNCHANGED <<tables, clientVars, phase, batch, unacked, sink,
                   lostBindings, lostEvents>>

-------------------------------------------------------------------------------
(* Corruption: a derived row is deleted after the fact. *)

LoseBinding(r) ==
    /\ faults < MaxFaults
    /\ r \in idempotency
    /\ idempotency' = idempotency \ {r}
    /\ lostBindings' = lostBindings \cup {r}
    /\ faults' = faults + 1
    /\ UNCHANGED <<aggregate, commits, outbox, acknowledged, clientVars,
                   workerVars, lostEvents>>

LoseEvent(r) ==
    /\ faults < MaxFaults
    /\ r \in outbox
    /\ outbox' = outbox \ {r}
    /\ acknowledged' = acknowledged \ {r}
    /\ lostEvents' = lostEvents \cup {r}
    /\ faults' = faults + 1
    /\ UNCHANGED <<aggregate, commits, idempotency, clientVars, workerVars,
                   lostBindings>>

-------------------------------------------------------------------------------
Submit(c) ==
    \E cmd \in Commands :
        \/ CommitReplayed(c, cmd)
        \/ CommitConflicting(c, cmd)
        \/ CommitFenced(c, cmd)
        \/ CommitBegun(c, cmd)

Proceed(c) ==
    \/ UpsertAggregate(c) \/ InsertCommit(c)
    \/ InsertIdempotency(c) \/ InsertIdempotencyRefused(c)
    \/ InsertOutbox(c) \/ Commit(c) \/ CommitAnswered(c)

Reconcile(w) == RecoverySelect(w) \/ RecoveryFinish(w)
Relay(w) == Claim(w) \/ Deliver(w) \/ Acknowledge(w)

Next ==
    \/ \E c \in Clients : Submit(c) \/ Proceed(c) \/ ClientCrash(c)
    \/ \E w \in Workers : \/ Reconcile(w) \/ Relay(w)
                          \/ DeliverFails(w) \/ WorkerCrash(w) \/ DropSession(w)
    \/ \E r \in commits : LoseBinding(r) \/ LoseEvent(r)

Spec == Init /\ [][Next]_vars

\* A statement sent to a live server completes, and coordinators are invoked
\* again and again: a pass or a batch that keeps getting the lock is run.
Fairness ==
    /\ \A c \in Clients : WF_vars(Proceed(c))
    /\ \A w \in Workers :
         /\ WF_vars(RecoveryFinish(w)) /\ WF_vars(Deliver(w)) /\ WF_vars(Acknowledge(w))
         /\ SF_vars(RecoverySelect(w)) /\ SF_vars(Claim(w))

FairSpec == Spec /\ Fairness

-------------------------------------------------------------------------------
(* Properties *)

\* Every variable has its type; a client has a staged row exactly while a
\* transaction is open or its answer is outstanding (commit_transaction).
TypeOK ==
    /\ aggregate \in [Aggregates -> [revision : Nat, state : Documents]]
    /\ commits \subseteq CommitRow
    /\ idempotency \subseteq commits
    /\ outbox \subseteq commits
    /\ acknowledged \subseteq outbox
    /\ stage \in [Clients -> Stages]
    /\ staged \in [Clients -> SUBSET CommitRow]
    /\ request \in [Clients -> SUBSET Command]
    /\ answer \in [Clients -> Answers]
    /\ \A c \in Clients : (stage[c] = "idle") = (staged[c] = {})
    /\ receipts \subseteq CommitRow
    /\ holder \in Workers \cup {NoWorker}
    /\ phase \in [Workers -> {"idle", "reconciling", "delivering", "acknowledging"}]
    /\ batch \in [Workers -> SUBSET commits]
    /\ unacked \in [Workers -> SUBSET commits]
    /\ sink \subseteq commits
    /\ lostBindings \subseteq commits
    /\ lostEvents \subseteq commits
    /\ faults \in Nat

RowsOf(a) == {r \in commits : r.cmd.ref = a}

\* The commit rows of an aggregate are its revisions 1, 2, ... without gap or
\* fork, each committed by a command that expected the revision before it.
\* (commit_transaction's advisory lock and expected_revision fence.)
RevisionChain ==
    \A a \in Aggregates :
       /\ \A n \in 1..aggregate[a].revision : \E r \in RowsOf(a) : r.to = n
       /\ \A r \in RowsOf(a) : /\ r.to \in 1..aggregate[a].revision
                               /\ r.to = r.cmd.expected + 1
       /\ \A r, q \in RowsOf(a) : r.to = q.to => r = q

\* The state digest of every commit row is that of the previous revision's
\* state merged with the command's delta, and the aggregate row holds the
\* state of its last commit: no update is lost and none is applied twice.
StateChain ==
    \A a \in Aggregates :
       /\ aggregate[a].revision = 0 => aggregate[a].state = Blank
       /\ \A r \in RowsOf(a) :
            /\ r.to = 1 => r.state = merge_delta(Blank, r.cmd.delta)
            /\ r.to = aggregate[a].revision => aggregate[a].state = r.state
            /\ \A q \in RowsOf(a) :
                 q.to = r.to + 1 => q.state = merge_delta(r.state, q.cmd.delta)

\* A command is committed at most once, however often it is retried and even
\* if its idempotency row was lost: the revision fence stands behind the
\* idempotency lookup.
CommandOnce == \A r, q \in commits : r.cmd = q.cmd => r = q

\* Two commits share an idempotency scope only if the binding of the earlier
\* one was lost in between (the lookup and the primary key of c3_idempotency).
KeyReboundOnlyAfterLoss ==
    \A r, q \in commits :
       r.cmd.ref = q.cmd.ref /\ r.cmd.key = q.cmd.key /\ r.to < q.to => r \in lostBindings

\* c3_idempotency binds a scope to one commit (its primary key), whatever the
\* interleaving of commits, losses and recovery passes.
BindingUnique ==
    \A r, q \in idempotency : r.cmd.ref = q.cmd.ref /\ r.cmd.key = q.cmd.key => r = q

\* A crash at any stage leaves a commit with all its derived rows or no commit:
\* a row is missing only if it was deleted after the commit (reconcile's doc).
CommitAtomic ==
    /\ OrphanedIdempotency \subseteq lostBindings
    /\ OrphanedOutbox \subseteq lostEvents

\* What is committed is exact: the state is the sum of the commits, each command is
\* among them once, and each has its derived rows (the three facts above).
CommitsExact == StateChain /\ CommandOnce /\ CommitAtomic

\* A receipt a caller received names a durable commit (CommitReceipt).
ReceiptsDurable == receipts \subseteq commits

\* An event is acknowledged only after the sink accepted it, so a crash can
\* cause a redelivery and never a lost event (claim_and_deliver).
AcknowledgedDelivered == acknowledged \subseteq sink

\* While the lock's session holds, two workers never have the same row claimed
\* and unacknowledged (claim_and_deliver's single-writer critical section).
ClaimsDisjoint ==
    SessionMayDrop \/
    \A w, v \in Workers :
       w # v => (batch[w] \cup unacked[w]) \cap (batch[v] \cup unacked[v]) = {}

\* With synchronised clocks the sink first sees the revisions of an aggregate
\* in order, except across a lost outbox row (ORDER BY occurred_at, where
\* occurred_at is read under the aggregate's lock).
DeliveredInOrder ==
    MaxSkew = 0 =>
    \A r \in sink, q \in commits :
       q.cmd.ref = r.cmd.ref /\ q.to < r.to => q \in sink \cup lostEvents

\* A caller told of a conflict has no commit of that command behind it, unless
\* the binding that would have answered with the receipt was lost.
RefusalTruthful ==
    [][\A c \in Clients :
         answer'[c] \in Refusals /\ <<answer[c], request[c]>> # <<answer'[c], request'[c]>> =>
           {r \in commits : r.cmd \in request'[c]} \subseteq lostBindings]_vars

\* Orphans whose key was bound again meanwhile: no pass can repair them, and
\* every pass may select them again.
Stuck == {r \in OrphanedIdempotency : Bound(r.cmd) # {}}

\* Once faults stop, every committed event reaches the sink and is
\* acknowledged, and recovery repairs every missing row whose key is not bound
\* to a later commit, unless there are enough stuck orphans to fill each pass
\* (claim_and_deliver, run_recovery_pass; reconcile selects without an order).
EventuallyDelivered == <>[](commits \subseteq sink /\ Pending = {})
EventuallyRepaired ==
    <>[](/\ OrphanedOutbox = {}
         /\ OrphanedIdempotency = Stuck \/ Cardinality(Stuck) >= Limit)

\* The relay and the recovery coordinator both reach their ends: the two above.
RecoveryEnds == EventuallyDelivered /\ EventuallyRepaired

-------------------------------------------------------------------------------
(* Refinement: the tables implement the abstract log of C3Canonical. *)

CommandAt(a, n) == (CHOOSE r \in commits : r.cmd.ref = a /\ r.to = n).cmd
Log == [a \in Aggregates |-> [n \in 1..aggregate[a].revision |-> CommandAt(a, n)]]
EntriesOf(rows) == {<<r.cmd.ref, r.to>> : r \in rows}

Canonical == INSTANCE C3Canonical WITH
    log <- Log, receipted <- EntriesOf(receipts), published <- EntriesOf(sink)

\* Transactions, crashes, replays, lost rows, recovery passes and redeliveries
\* together implement the conditional append-only log of the C3 ports.
ImplementsCanonical == Canonical!Spec
===============================================================================
