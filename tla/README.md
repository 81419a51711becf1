# Formal models of the OCOR runtime

TLA+ models of the state-changing parts of the OCOR runtime
(`ocor-runtime/src/ocor_runtime/`, below called `rt/`) and of its delivery runner,
the TLC configurations that check them on small instances, and TLAPS proofs about
the commit service, the lease port, capabilities, break-glass, the tool runtime,
memory promotion and the restore gate. `PROJECT.json` maps every definition to the
lines it models.

## 1. The system and its parts

OCOR is a governed decision runtime. A canonical store (C3) holds aggregates and
an outbox; an event backbone (C5) carries canonical events on a Kafka journal; a
control component (C6) holds the emergency stop, capability leases, break-glass,
the Human Gate and the outcome reconciler; C7 emits effects from the outbox and
answers causal queries on scenario overlays; C8 runs agents and their tools; C2
resolves identities and plans queries, C4 holds projections and markings. The
memory services keep versioned items for agents. The security control plane
decides who may do what, and the delivery runner builds the project itself.

| Part | What is hard about it | Module |
|---|---|---|
| C3 ports `rt/c3/ports.py` | the promise: one append-only log per aggregate | `C3Canonical` |
| C3 commit and recovery `rt/c3/adapters/postgres.py`, `recovery.py`, `recovery_lock.py` | racing writers, a crash after every insert, lost answers, the recovery lock lost under its holder | `C3Postgres` |
| C3 on TerminusDB `rt/c3/adapters/terminusdb.py` | no lock: snapshots, conditional transactions, writer epochs | `C3Terminus` |
| C3 fallback outbox `rt/fallback/postgres_outbox.py` | `FOR UPDATE` on a row that is not there yet | `C3FallbackOutbox` |
| C5 backbone, operations `rt/c5/` | a write that lands after its timeout, restart with an empty cache, counters in two critical sections | `C5Backbone`, `C5Operations` |
| C5 action machine `rt/c5_actions.py` | detours around a time window | `C5Actions` |
| C6 emergency stop `rt/c6/safety.py` | a stop between a check and a use | `C6EmergencyStop` |
| C6 capabilities `rt/c6_capabilities.py` | the last use raced, lineage revoked, late binding of the stop | `C6Capabilities` |
| C6 break-glass `rt/c6/safety.py` | a sink fails half-way, clock rewound, registry changes | `C6BreakGlass` |
| C6 reconciler `rt/c6/safety.py` | a second timeout of a settled command | `C6Reconciler` |
| C6 Human Gate `rt/c6/human_gate.py` | approvals that lapse during the control check | `C6HumanGate` |
| C6 lease port and Temporal adapter `rt/kernel/governance.py`, `rt/c6/temporal_*.py` | answer lost after the effect, history roll-over, termination | `C6LeasePort`, `C6Temporal` |
| C6 engine, C7 emission `rt/c6/engine.py`, `rt/c7_emission.py`, `rt/c3_store.py` | crash between effect and mark, several emitters | `C7Emission` |
| C7 causal queries, overlays `rt/c7/` | four estimates of one population; a fork in three requests; a bucket others write to | `C7Causal`, `C7Overlay` |
| C8 tool runtime `rt/c8/tool_runtime.py` | a tool races its cancellation, hangs, acts late | `C8ToolRuntime` |
| C8 agents `rt/c8_agent.py` | reservations of one budget by several threads | `C8Agents` |
| C2 identity `rt/c2_identity.py`, `rt/c2/provisioning.py` | a check, a policy call, a second check | `C2Identity` |
| C2 gateway, C4 projection `rt/c2/`, `rt/c4/` | rebuilders and readers without a common transaction | `C4Projection` |
| C4 markings `rt/c4_marking.py` | is the accepted order a lattice | `C4Marking` |
| Security control plane `rt/security/control_plane.py` | policy, keys and grants change between backend calls | `SecurityControlPlane` |
| Delivery runner `scripts/ocor_autonomous_delivery.py` | whole-file saves by several processes, death anywhere | `DeliveryRunner` |
| Memory admission `rt/memory/model.py` | several processes on one journal | `MemoryAdmission` |
| Memory stores `rt/memory/stores.py` | one commit over four stores, a reconciler beside it | `MemoryStores` |
| Memory lifecycle `rt/memory/lifecycle.py` | a saga over five stores, content shared with an item under hold | `MemoryLifecycle` |
| Memory restore gate `rt/memory/deletion.py` | deletions and late restores while a response is put together | `MemoryRestore` |
| Memory promotion `rt/memory/promotion.py` | sources and controls change between the checks | `MemoryPromotion` |
| Memory consolidation `rt/memory/consolidation.py` | interrupted jobs, dissent | `MemoryConsolidation` |
| Memory embeddings `rt/memory/embeddings.py` | rebuild and invalidation beside searches | `MemoryEmbeddings` |
| Memory retrieval, context `rt/memory/retrieval.py`, `context.py` | eligibility lost between ranking and reading | `MemoryRetrieval` |
| Memory operations `rt/memory/operations.py` | an inventory read while it is written | `MemoryOperations` |

How they interact: C6's engine writes to the C3 store and lets C7 emit
(`C7Emission` composes the three); the stop of `C6EmergencyStop` is extended by
`C6Capabilities`, `C6BreakGlass` and `C8ToolRuntime`, where it moves between any
two steps; `C8ToolRuntime` also extends `C6Reconciler`; `C5Operations` extends
`C5Backbone` and drives it; `C6HumanGate` extends `C2Identity`; `C3Postgres` and
`C3Terminus` both instantiate `C3Canonical`, `C6Temporal` extends `C6LeasePort`
and is shown to implement it.

## 2. Modules, and how they correspond to the code

Digests are injective, so a command or document stands for its own digest;
signatures, the format of timestamps and field validation are abstracted to the
outcomes that change control flow. A call that holds a lock or a database
transaction is one action where nobody can observe its middle, and several where
a crash, a lost answer or another lock separates its steps. Every call of an
external store or backend is a step of its own. A process in the middle of an
operation is a record whose `at` or `stage` is the next call it makes.

* **C3Postgres.** A client's transaction is `CommitBegun`, four stages (the
  code's own `CrashStage`s) and `CommitAnswered`; replay, conflict and fence are
  the early returns. `ClientCrash` loses an open transaction or an answer.
  Workers take the recovery lock (`Enter`), then either select orphans and
  re-insert derived rows one by one, or claim a batch, deliver and acknowledge.
  `LoseBinding` and `LoseEvent` are the losses that `reconcile` exists for.
* **C3Canonical.** The abstract log: commit appends atomically, delivery and
  acknowledgement follow.
* **C3Terminus.** A snapshot, then one conditional transaction that applies whole
  or not at all; a failed condition repeats the operation within its attempts; the
  newest writer epoch fences the others.
* **C3FallbackOutbox.** One READ COMMITTED transaction with the row lock it takes
  or fails to take, and the reconciler.
* **C5Backbone, C5Operations.** `publish` from the checks before the lock to the
  cached key; a write may succeed, fail without trace, fail after landing, or
  exceed its timeout and land later. `Restart` loses the cache. `timedOut` is a
  history variable: the keys for which the code itself cannot know.
* **C6EmergencyStop, C6Capabilities, C6BreakGlass, C6Reconciler.** One action per
  method, split where the code leaves one lock before taking another.
* **C6LeasePort, C6Temporal.** In the port a call is made, takes effect at one
  instant, and its caller is told or is not. `TSpec` is the workflow with its
  update queue, history roll-over and termination.
* **C7Emission.** Engine gates, store write with replay, registration, the fence,
  the sink, the emitted mark; `Crash` empties the process memory.
* **C8ToolRuntime.** The calling thread's stages and one worker per dispatch.
* **MemoryLifecycle.** `Tombstone` (journal), `AppendVersion` (ledger), `Write`
  and `CommitVersion`, `PurgeProjections`, `ListObjects` and `EraseObjects` (the
  participants), then the outcome through the same stages. `Request` and
  `EnforceSweep` begin one, `Replay` takes up a recorded one, `Crash` forgets it.
* **MemoryPromotion, MemoryRestore.** One step per call of a store or a control,
  in the order of `propose`, `commit` and `serve`; what the model records of an
  attempt (`gone`, `leaked`) is history that the properties read.
* The header comment of each other module says what its steps are and what it
  leaves out.

A `MC...` module gives the constants their small values. Most of them are *sums*:
they put several components that share no state side by side, and a variable
`focus`, chosen once in the initial state, says which one runs, while the others
keep their initial state. A sum has the behaviours of each component and no
others, so a run over it asks one question per component. The theorems are about
each component's own specification and not about the sum.

## 3. Runs

Each run lists its properties in `PROJECT.json`; each property has a mutant of
mapped code that breaks it. A property that joins several facts (`CommitsExact`,
`LifecycleSound`, ...) is the conjunction of the definitions just above it.

| Run | Module, config | Instance | Shows |
|---|---|---|---|
| `c3_commit` | `MCC3Commit` | 2 clients, 1 worker, 2 keys, 2 fields, 2 revisions, 1 fault; 2 TerminusDB writers on one or two adapters, 2 attempts, 2 epochs; 2 outbox writers and 2 reconcilers; every relation on 4 labels | `CommitsExact`, `RefusalTruthful` of the tables; `TerminusImplements` the abstract log; `OutboxConsistent`; `MarkingLattice` |
| `c3_recovery` | `C3Postgres` | 1 client, 2 workers, 2 faults, droppable lock session | `DeliveredInOrder`, `ImplementsCanonical`, `RecoveryEnds` |
| `c5_operations` | `MCC5Operations` | 2 threads, 5 kinds of envelope straight to the backbone, or 2 conflicting ones through the coordinator; 1 fault, quota 1, threshold 2; one action at every instant around its window | `OperationsExact`, `RunsInWindow`, `PublishEnds` |
| `c5_poison_gate` | `MCC5Operations`, `MCC5PoisonGate.cfg` | as above, 3 attempts | *Violation* of `PoisonGate`: an early PERMANENT dead letter of a poisoned event is replayed with no release |
| `c6_capabilities` | `C6Capabilities` | 2 leases, a delegation, one stop and reset, late binding | `LeasesContained`, `UsesInForce` |
| `c6_break_glass` | `MCC6BreakGlass` | 2 threads, 3 calls, failing sinks, a clock that goes back; 2 policy clients and 2 bundles; provisioning in 2 threads; 3 signatures; 2 rebuilders and a reader | `UsesAccounted`, `UsesPermitted`, `DecisionsSound`, `IdentitySound`, `GateExact`, `ExactServed` |
| `c6_temporal` | `MCC6Temporal` | 2 leases and 2 calls; 2 runners on 3 tasks; 2 promoters; 4 versions in 2 partitions; 2 operators and a searcher; 2 workers on 3 items | `Implements`, `ReceiptsBacked`, `DeliverySound`, `PromotedInForce`, `RetrievalSound`, `SearchComplete`, `InventoryExact` |
| `c7_emission` | `MCC7Emission` | 2 actions on one aggregate, 2 threads, 1 crash; all bags of 2 to 4 rows; 2 scenarists on one run, 2 forks; 2 sealers | `EffectsExact`, `EventuallyEmitted`, `EstimatesAgree`, `OverlaySound` |
| `c8_tools` | `MCC8ToolRuntime` | 2 threads, expressions of one and two tools, 2 dispatches, 3 uses; 3 invocations on one budget; 2 admitting processes; 2 consolidation services; 2 restored items | `ToolsAccounted`, `CallEnds`, `BudgetExact`, `RecordsSound`, `RetryCompletes`, `NoDeletedServed` |
| `memory_lifecycle` | `MCMemoryLifecycle` | 2 items with one payload, a deletion, a hold and its release, both sweeps, 2 faults; one store writer, one store fault | `LifecycleSound`, `SagaEnds`, `CommittedReadable`, `LeftoversSwept` |
| `memory_saga` | `MCMemoryLifecycle`, `MCMemorySaga.cfg` | as above | *Violation* of `SagaResumable`: a crash after the COMPLETED tombstone leaves a saga no replay completes |
| `c6_reconciler` | `C6Reconciler` | 2 commands | *Violation* of `IndeterminateBlocks`: an INDETERMINATE record is replaced without adjudication |

### Bounds

Two of everything that can conflict (clients, keys, threads, leases, writers,
records of a stream) is enough for each pairwise race these properties speak of; a
third is added where a third party matters (requester and two approvers; three
invocations on one budget). One or two faults place one crash or loss at every
point of a run; two let a loss be followed by a crash of its repair. A bound is a
named constant and a conjunct of the guard it caps. Runs say `CHECK_DEADLOCK
FALSE` where callers really stop once their bound is used up or nothing is left to
do. Symmetry (`c3_commit`, `c6_capabilities`) is over elements no definition
tells apart, in runs without liveness properties.

Some properties name the interleavings they except, because the code does not
handle them and says nothing else: a lost outbox or idempotency row
(`DeliveredInOrder`, `RefusalTruthful`, `OutboxConsistent`), a publish that
timed out (`OperationsExact`), a writer that stalls past the grace period
(`CommittedReadable`), two operations on one representation at once
(`SearchComplete`), a row changed by a foreign writer (`ExactServed`), a crash
after the COMPLETED tombstone (`SagaEnds`, see the finding). Each exception is
read off a history variable or a journal that only those steps write.

### Fairness

* `c3_recovery`: weak fairness of each client's and worker's own steps, strong
  fairness of taking the recovery lock, as both retry for ever in the loops that
  call them; faults are never fair.
* `c5_operations`: the thread holding the publish lock goes on (the producer and
  consumer commands have timeouts); a waiting thread eventually gets a lock that
  is free again and again.
* `c7_emission`: threads run; one thread keeps draining (`drain` is meant to be
  called periodically) and gets the fence.
* `c8_tools`: calling threads run, and nothing is assumed of tools; consolidation
  services go on with a job they have begun, and its client asks again.
* `memory_lifecycle`: processes run, and the client of a deletion asks again with
  its operation id until it is answered (strong fairness of `Replay`); store
  writers run, the grace period of a version ends, and the reconciler begins and
  finishes passes over every partition.

## 4. Proofs

The proofs hold for every value of the constants that satisfies the named
assumptions of the component's module: any number of clients, workers, leases,
threads, items, and any number of faults.

**`C3PostgresProofs`** (assumptions: deltas are documents, `Limit` is positive,
`NoWorker` is no worker). `TypeInv` joins the types with the finiteness of the
commit rows. `ChainInv` is what relates open transactions to the tables: who holds
the advisory lock of an aggregate, and that a staged row extends the current
revision and state. `RevisionChain` alone is not inductive: a commit needs to know
that the staged row was computed from a revision nobody has moved since, which is
the lock's doing. `DerivedInv` adds that a transaction which has inserted its
idempotency row holds the key, and that a lost binding is remembered; `RelayInv`
is about claimed batches. They give the revision and state chains, at-most-once,
durable receipts, atomicity, unique bindings, delivery before acknowledgement,
disjoint claims, and the action property `RefusalTruthful`.

The second half of the module is what the world outside sees. `CommitsExact`
follows from the above. `DeliveredInOrder` needs `OrderInv`: the commit times of an aggregate follow its revisions, as the time is
read under the aggregate's lock, and the revisions before a row of a claimed batch
are in the batch, delivered or lost. The theorem is conditional on `MaxSkew = 0`,
as the property is: with skewed clocks the code's order does not hold. The refinement
`ImplementsCanonical` maps the commit rows of an aggregate, in revision order, to
the abstract log: the initial states map to initial states, the COMMIT of a
transaction is the abstract append, delivery and acknowledgement are their
namesakes, and every other step (staging, crashes, losses, repairs) is a stutter.

**`C6LeaseProofs`** (leases have an action, a window, an epoch and a token): the
port's invariant `Ind`, that a decision and an answer of CONSUMED are recorded in
the consumption of a lease; a consumption is final and of the current epoch and
token; the in-memory state implements the port and consumes only within the
window; and the Temporal workflow implements the port. The refinement needs
`Sent`: the instant an update carries was read from the clock, so the port's
evaluation at that instant is not in the future.

**`C6CapabilityProofs`** (an offer's window is not empty and it has a scope).
`StopInv`: no event of the stop is from a later epoch than the current one, and
the event of a confirmed reset is from a later epoch than all before it; hence no
epoch comes back. `LedgerInv` is about the recorded leases and the ones still
being issued alike: each lies within a parent of the ledger, the parent's copy that
a call keeps differs from the ledger's at most in its revocation, and each is
fenced, so that a stop accepted since it was built has made its epoch an earlier
one. `LeasesContained` is an invariant and `UsesInForce` an action property: the
decision re-reads the whole lineage under the lock, and the fence turns its
comparison of epochs into "no stop since".

**`C6BreakGlassProofs`** (registries and forbidden capabilities are typed).
`GlassInv`: a call of `authorize` that holds the lock has a grant that is issued,
unrevoked and inside its window, and the stop was NORMAL at the beginning of the
call or since (`SeenNormal`). Without it, a use recorded after the checks says
nothing of them. `UsesAccounted` is its conjunct, `UsesPermitted` follows from it
for the step that returns a use.

**`C7EmissionProofs`** (`AggregateOf` maps actions to aggregates, `NoThread` is no
thread, the bounds are naturals). That an effect happens once and in order is
known to no single variable: the sink's history is not read by the code, the
receipts are lost in a crash, the store's mark comes after the effect, and drain
registers events it read before. `Inv` says what each of them still knows. An
effect beyond one per crash has a receipt, or its thread is between the sink and
the receipt (`OnceInv`). Whoever is inside the fence holds the lock alone; while
the sink works on an event, no receipt for it appears, and the earlier events of
its aggregate are done (`CallSound`). A mark, a receipt or a stale reading that
says emitted stands for an effect. New events are the latest of their aggregate
(`StoreInv`), so nothing slips in before an effect that has happened (`OrderInv`).
`EffectsExact` follows; what a crash may repeat is counted, not excluded.

**`C8ToolProofs`** (plans are non-empty sequences of tools). `ToolInv`: the tools a
call has made are its own, unanswered, and, all but the current one, ended clean;
two calls share none. A worker moves by itself, also after its call was answered,
so `ToolsAccounted` needs to know what was on record before.

**`MemoryPromotion`** (no assumption). `PromotionInv`: what is gone for a proposal
(a newer source, a stop, a revoked control) is gone for good, so each check that an
attempt passes after its intent was recorded shows that one part was still in force
at that record: the controls at step 4, source and epoch at step 5. The check and
the commit are separate steps; the theorem is about the moment of the intent.

**`MemoryRestore`** (no assumption). `RestoreInv`: a deleted item in a response is
still in some store, since nothing is purged between the action and the check that
follows, and the check has that store before it. So the check finds it, although
deletions and late restores go on meanwhile.

`PromotionInv`, `RestoreInv` and the `Inv` of `C7EmissionProofs` were checked with
TLC before they were proved. The two memory modules hold their own proofs. A leaf
names `SMTT` where it needs arithmetic or sequences; the others are Zenon's.

What is only model-checked:

* liveness, which needs fairness and `ENABLED`: `RecoveryEnds`, `PublishEnds`,
  `EventuallyEmitted`, `CallEnds`, `RetryCompletes`, `SagaEnds`, `LeftoversSwept`;
* facts that need induction over data: `BudgetExact` (a sum over the open
  reservations), `MarkingLattice` (a closure computed by sweeps), `EstimatesAgree`
  (means), the greedy ranking of `RetrievalSound`, and `GateExact` and
  `RecordsSound`, whose modules define the assignment and the ancestors by
  recursion;
* the remaining safety properties, for which no inductive invariant is written
  down yet: `TerminusImplements`, `OutboxConsistent`, `OperationsExact`,
  `RunsInWindow`, `OverlaySound`, `DecisionsSound`,
  `IdentitySound`, `ExactServed`, `DeliverySound`, `SearchComplete`,
  `InventoryExact`, `LifecycleSound`, `CommittedReadable`.

## 5. Observations on the code

Three runs are expected to violate a statement of the repository (see
`findings`). Further behaviours met while modelling:

* `rt/c5/backbone.py:416`: a write that exceeds its timeout leaves the cache as
  it was, so a retry may append a second record of the key.
* `rt/c3/adapters/postgres.py:420`: the reported number of repairs counts
  inserts that `ON CONFLICT DO NOTHING` ignored.
* TerminusDB: a lost binding whose key was bound to another commit meanwhile
  makes every later `reconcile` fail.
* Fallback outbox: a lost event is rebuilt from the current document, whatever
  version it was of.
* `rt/c6_capabilities.py:251`: a lease inserted after the sweep of a stop looked
  at the table is not revoked by it; the epoch check still keeps it from use.
* `rt/c8/tool_runtime.py:461,479`: the stop is checked before the worker is
  started, without its lock, so a tool may start after an accepted stop; it is
  cancelled one supervision interval later. Line 81 says that no new tool is
  dispatched.
* `rt/c6/temporal_adapter.py:396`: the time of a consumption is the caller's, so
  the window may have closed when the workflow applies it.
* C4: a projection that merely lags is quarantined as drift; `AT_LEAST_COMMIT`
  is served only at equality; two first rebuilds may leave two watermarks.
* C7: the effect of `estimate_intervention` averages the strata without weights,
  where its docstring says "population average".
* `rt/memory/lifecycle.py:1824`: a saga begun by a sweep and interrupted is not
  taken up again, since a sweep skips DELETION_PENDING items and the digest of
  any other request differs.
* `rt/memory/lifecycle.py:349`: two processes that delete two items with one
  payload may each keep the object for the other; a purge may delete the content
  of an item stored after it listed the objects.
* `rt/memory/operations.py:499`: a failed store commit leaves a pending row for
  which the inventory refuses the whole partition, the retry included, until the
  stores are reconciled.
* `rt/memory/consolidation.py:1582`: "retry completes it" holds of a
  consolidation and not of an interrupted correction.
* Delivery runner: `emergency_stop` may be overwritten by the later save of a
  running process; a task that is out of retries keeps its ownership lock; a run
  that is interrupted consumes no retry.

## 6. Not modelled

* The ontology compiler, contract generation and the TypeScript SDK, canonical
  JSON text, report and plan validators: text transformation with no state that
  interleaves.
* Deployment and bootstrap scripts, campaigns and qualification spikes: one-shot
  sequences of external commands.
* The Jena projection (SPARQL text over HTTP), the C6 transition table that the
  engine only reads, the C8 orchestrator, which calls parts that are modelled, and
  Temporal's action-effects workflow.
* Inside modelled parts: encryption, certificate and token parsing, vectors and
  similarity, bootstrap draws, the expression evaluator of the agents, the gate
  that opens a signed backup. `PROJECT.json` says so per component.
