--------------------------- MODULE C3PostgresProofs ---------------------------
(***************************************************************************)
(* Machine-checked proofs about C3Postgres, for any number of aggregates,  *)
(* keys, clients and workers, any limit, any clock skew and any number of  *)
(* faults: the chain of revisions, the derived rows, refusals and relays,  *)
(* then what the world outside sees of a commit, in the order of delivery  *)
(* and in the abstract log of the C3 ports that all this implements.       *)
(***************************************************************************)
EXTENDS C3Postgres, FiniteSetTheorems, TLAPS

-------------------------------------------------------------------------------
(* The inductive invariant *)

\* Two open transactions never work on the same aggregate (the advisory lock).
LockExclusive ==
    \A c, d \in Clients :
       c # d /\ InTransaction(c) /\ InTransaction(d) =>
         \A r \in staged[c], q \in staged[d] : r.cmd.ref # q.cmd.ref

\* A client stages one row, of the command it was sent.
StagedOne ==
    \A c \in Clients : \A r \in staged[c] : staged[c] = {r} /\ request[c] = {r.cmd}

\* While a transaction is open, the row it will commit extends the aggregate as
\* it stands: nobody else has moved it since the transaction read it.
StagedExtends ==
    \A c \in Clients : InTransaction(c) =>
       \A r \in staged[c] :
          /\ r.cmd.expected = aggregate[r.cmd.ref].revision
          /\ r.to = aggregate[r.cmd.ref].revision + 1
          /\ r.state = merge_delta(aggregate[r.cmd.ref].state, r.cmd.delta)

\* A row whose COMMIT succeeded is durable.
StagedDurable ==
    \A c \in Clients : stage[c] = "AFTER_COMMIT_BEFORE_ACK" => staged[c] \subseteq commits

\* Once a transaction has inserted its idempotency row, no other transaction
\* can bind the same key.
KeyHeld ==
    \A c \in Clients :
       stage[c] \in {"AFTER_IDEMPOTENCY_INSERT", "AFTER_OUTBOX_INSERT"} =>
         \A r \in staged[c] : Bound(r.cmd) = {}

\* What concerns the aggregates, the commit rows and the transactions.
ChainInv ==
    /\ LockExclusive
    /\ StagedOne
    /\ StagedExtends
    /\ StagedDurable
    /\ RevisionChain
    /\ StateChain
    /\ ReceiptsDurable

\* What concerns the derived rows.
DerivedInv ==
    /\ KeyHeld
    /\ BindingUnique
    /\ KeyReboundOnlyAfterLoss
    /\ CommitAtomic

-------------------------------------------------------------------------------
(* Operators *)

\* First-order leaves are for Zenon, arithmetic and sequences for the SMT solver.
USE ZenonT(30), SMTT(60)

\* Merging a delta into a document gives a document.
LEMMA MergeDocument ==
    ASSUME NEW s \in Documents, NEW d \in Documents
    PROVE  merge_delta(s, d) \in Documents
BY DEF merge_delta, Documents

\* The bounded commands clients send are commands.
LEMMA CommandsTyped == Commands \subseteq Command
BY SMTT(60), BoundsAssumption DEF Commands, Command

TypeInv == TypeOK /\ IsFiniteSet(commits)

-------------------------------------------------------------------------------
(* Type correctness *)

\* Empty tables are well typed.
LEMMA TypeInit == Init => TypeInv
<1> SUFFICES ASSUME Init PROVE TypeInv
    OBVIOUS
<1>1. Blank \in Documents
    BY DEF Blank, Documents
<1>2. IsFiniteSet(commits)
    BY FS_EmptySet DEF Init
<1> QED
    BY <1>1, <1>2 DEF Init, TypeInv, TypeOK, Stages, Answers

\* Opening, replaying or refusing a commit keeps the types.
LEMMA TypeSubmit ==
    ASSUME TypeInv, NEW c \in Clients, Submit(c)
    PROVE  TypeInv'
<1>1. PICK cmd \in Command :
         \/ CommitReplayed(c, cmd) \/ CommitConflicting(c, cmd)
         \/ CommitFenced(c, cmd) \/ CommitBegun(c, cmd)
    BY CommandsTyped DEF Submit
<1>2. CASE CommitReplayed(c, cmd)
    BY <1>2 DEF CommitReplayed, Begins, AnswerWith, Bound, TypeInv, TypeOK, Answers,
                tables, workerVars, history
<1>3. CASE CommitConflicting(c, cmd)
    BY <1>3 DEF CommitConflicting, Begins, AnswerWith, TypeInv, TypeOK, Answers, Refusals,
                tables, workerVars, history
<1>4. CASE CommitFenced(c, cmd)
    BY <1>4 DEF CommitFenced, Begins, AnswerWith, TypeInv, TypeOK, Answers, Refusals,
                tables, workerVars, history
<1>5. CASE CommitBegun(c, cmd)
  <2>1. PICK t \in Readings :
          staged' = [staged EXCEPT ![c] =
            {[cmd |-> cmd, to |-> aggregate[cmd.ref].revision + 1,
              state |-> merge_delta(aggregate[cmd.ref].state, cmd.delta), at |-> t]}]
      BY <1>5 DEF CommitBegun
  <2>2. t \in Nat
      BY SMTT(60) DEF Readings
  <2>3. cmd.ref \in Aggregates /\ cmd.delta \in Documents
      BY DeltasAssumption DEF Command
  <2>4. aggregate[cmd.ref].revision \in Nat /\ aggregate[cmd.ref].state \in Documents
      BY <2>3 DEF TypeInv, TypeOK
  <2>5. merge_delta(aggregate[cmd.ref].state, cmd.delta) \in Documents
      BY <2>3, <2>4, MergeDocument
  <2>6. [cmd |-> cmd, to |-> aggregate[cmd.ref].revision + 1,
         state |-> merge_delta(aggregate[cmd.ref].state, cmd.delta), at |-> t] \in CommitRow
      BY SMTT(60), <2>2, <2>4, <2>5 DEF CommitRow
  <2>7. staged' \in [Clients -> SUBSET CommitRow] /\ staged'[c] # {}
        /\ \A d \in Clients \ {c} : staged'[d] = staged[d]
      BY <2>1, <2>6 DEF TypeInv, TypeOK
  <2> QED
      BY SMTT(60), <1>5, <2>7 DEF CommitBegun, Begins, AnswerWith, TypeInv, TypeOK, Answers, Stages,
                        OpenStages, tables, workerVars, history
<1> QED
    BY <1>1, <1>2, <1>3, <1>4, <1>5

\* So do the inserts, the COMMIT and the answer.
LEMMA TypeProceed ==
    ASSUME TypeInv, NEW c \in Clients, Proceed(c)
    PROVE  TypeInv'
<1>1. CASE \E from, to \in Stages \ {"idle"} : InsertStep(c, from, to)
    BY SMTT(60), <1>1 DEF InsertStep, TypeInv, TypeOK, tables, workerVars, history
<1>2. CASE InsertIdempotencyRefused(c)
    BY <1>2 DEF InsertIdempotencyRefused, TypeInv, TypeOK, Stages, Answers, Refusals,
                tables, workerVars, history
<1>3. CASE Commit(c)
  <2>1. PICK r \in staged[c] :
          /\ aggregate' = [aggregate EXCEPT ![r.cmd.ref] = [revision |-> r.to, state |-> r.state]]
          /\ commits' = commits \cup {r}
          /\ idempotency' = idempotency \cup {r}
          /\ outbox' = outbox \cup {r}
          /\ acknowledged' = acknowledged
      BY <1>3 DEF Commit, CommitTables
  <2>2. r \in CommitRow /\ r.to \in Nat /\ r.state \in Documents
      BY SMTT(60) DEF TypeInv, TypeOK, CommitRow
  <2>3. IsFiniteSet(commits')
      BY <2>1, FS_AddElement DEF TypeInv
  <2>4. aggregate' \in [Aggregates -> [revision : Nat, state : Documents]]
      BY <2>1, <2>2 DEF TypeInv, TypeOK
  <2>5. commits' \subseteq CommitRow /\ commits \subseteq commits'
      BY <2>1, <2>2 DEF TypeInv, TypeOK
  <2>6. batch' \in [Workers -> SUBSET commits'] /\ unacked' \in [Workers -> SUBSET commits']
      BY <1>3, <2>5 DEF Commit, workerVars, TypeInv, TypeOK
  <2> QED
      BY <1>3, <2>1, <2>3, <2>4, <2>5, <2>6
      DEF Commit, TypeInv, TypeOK, Stages, workerVars, history
<1>4. CASE CommitAnswered(c)
    BY <1>4 DEF CommitAnswered, TypeInv, TypeOK, Stages, Answers, tables, workerVars, history
<1> QED
    BY <1>1, <1>2, <1>3, <1>4
    DEF Proceed, UpsertAggregate, InsertCommit, InsertIdempotency, InsertOutbox, Stages, OpenStages

\* So does a client that dies.
LEMMA TypeClientCrash ==
    ASSUME TypeInv, NEW c \in Clients, ClientCrash(c)
    PROVE  TypeInv'
BY SMTT(60) DEF ClientCrash, TypeInv, TypeOK, Stages, tables, workerVars

\* So do the steps of a recovery worker.
LEMMA TypeWorker ==
    ASSUME TypeInv, NEW w \in Workers, Reconcile(w) \/ Relay(w)
    PROVE  TypeInv'
<1>1. CASE RecoverySelect(w)
    BY <1>1 DEF RecoverySelect, Enter, AnyUpTo, OrphanedIdempotency, TypeInv, TypeOK,
                tables, clientVars, history
<1>2. CASE RecoveryFinish(w)
  <2>1. PICK bound \in Insertable(batch[w]), events \in AnyUpTo(OrphanedOutbox, Limit) :
          /\ idempotency' = idempotency \cup bound
          /\ outbox' = outbox \cup events
      BY <1>2 DEF RecoveryFinish
  <2>2. batch[w] \subseteq commits /\ bound \subseteq commits /\ events \subseteq commits
      BY DEF Insertable, AnyUpTo, OrphanedOutbox, TypeInv, TypeOK
  <2> QED
      BY <1>2, <2>1, <2>2 DEF RecoveryFinish, Leave, TypeInv, TypeOK, clientVars, history
<1>3. CASE Claim(w)
    BY SMTT(60), <1>3 DEF Claim, Enter, Earliest, AnyUpTo, Pending, TypeInv, TypeOK,
                tables, clientVars, history
<1>4. CASE Deliver(w)
    BY SMTT(60), <1>4 DEF Deliver, NextEnvelope, TypeInv, TypeOK, tables, clientVars, history
<1>5. CASE Acknowledge(w)
    BY <1>5 DEF Acknowledge, Leave, TypeInv, TypeOK, clientVars, history
<1> QED
    BY <1>1, <1>2, <1>3, <1>4, <1>5 DEF Reconcile, Relay

\* So does a pass that is given up.
LEMMA TypeAbandon ==
    ASSUME TypeInv, NEW w \in Workers, NEW delivered \in SUBSET commits, Abandon(w, delivered)
    PROVE  TypeInv'
BY SMTT(60) DEF Abandon, Leave, TypeInv, TypeOK, tables, clientVars

\* So do a crash of a worker and a dropped lock session.
LEMMA TypeWorkerFault ==
    ASSUME TypeInv, NEW w \in Workers, DeliverFails(w) \/ WorkerCrash(w) \/ DropSession(w)
    PROVE  TypeInv'
<1>1. CASE DeliverFails(w)
  <2>1. PICK r \in NextEnvelope(w), d \in BOOLEAN : Abandon(w, IF d THEN {r} ELSE {})
      BY <1>1 DEF DeliverFails
  <2>2. (IF d THEN {r} ELSE {}) \in SUBSET commits
      BY DEF NextEnvelope, TypeInv, TypeOK
  <2> QED
      BY <2>1, <2>2, TypeAbandon
<1>2. CASE WorkerCrash(w)
    BY <1>2, TypeAbandon DEF WorkerCrash
<1>3. CASE DropSession(w)
    BY SMTT(60), <1>3 DEF DropSession, TypeInv, TypeOK, tables, clientVars
<1> QED
    BY <1>1, <1>2, <1>3

\* So does the loss of a derived row.
LEMMA TypeLoss ==
    ASSUME TypeInv, NEW r \in commits, LoseBinding(r) \/ LoseEvent(r)
    PROVE  TypeInv'
BY SMTT(60) DEF LoseBinding, LoseEvent, TypeInv, TypeOK, clientVars, workerVars

\* The type invariant is inductive.
LEMMA TypeStep == TypeInv /\ [Next]_vars => TypeInv'
<1> SUFFICES ASSUME TypeInv, [Next]_vars PROVE TypeInv'
    OBVIOUS
<1>1. CASE UNCHANGED vars
    BY <1>1 DEF vars, tables, clientVars, workerVars, history, TypeInv, TypeOK
<1>2. CASE Next
    BY <1>2, TypeSubmit, TypeProceed, TypeClientCrash, TypeWorker, TypeWorkerFault, TypeLoss
    DEF Next
<1> QED
    BY <1>1, <1>2

\* Every variable of the commit and recovery model keeps its type: in
\* particular every derived row, claimed batch and delivered event belongs to
\* a row of c3_commit (the foreign keys), through every crash and repair.
THEOREM TypeCorrect == Spec => []TypeOK
<1>1. TypeInv => TypeOK
    BY DEF TypeInv
<1> QED
    BY TypeInit, TypeStep, <1>1, PTL DEF Spec

-------------------------------------------------------------------------------
(* The revision chain and the state chain *)

\* The empty chain.
LEMMA ChainInit == Init => ChainInv
BY SMTT(60)
DEF Init, ChainInv, LockExclusive, StagedOne, StagedExtends, StagedDurable, RevisionChain,
       StateChain, ReceiptsDurable, RowsOf, InTransaction, OpenStages

\* A step that leaves commits, aggregates and transactions alone keeps the chain.
LEMMA ChainUnchanged ==
    ASSUME ChainInv, UNCHANGED <<aggregate, commits, clientVars>>
    PROVE  ChainInv'
BY SMTT(60) DEF ChainInv, LockExclusive, StagedOne, StagedExtends, StagedDurable, RevisionChain,
       StateChain, ReceiptsDurable, RowsOf, InTransaction, clientVars

\* A transaction is staged on the current revision, under the lock of its aggregate.
LEMMA ChainSubmit ==
    ASSUME TypeInv, ChainInv, NEW c \in Clients, Submit(c)
    PROVE  ChainInv'
<1>1. PICK cmd \in Command :
         \/ CommitReplayed(c, cmd) \/ CommitConflicting(c, cmd)
         \/ CommitFenced(c, cmd) \/ CommitBegun(c, cmd)
    BY CommandsTyped DEF Submit
<1>2. stage[c] = "idle" /\ staged[c] = {} /\ Unlocked(cmd.ref)
      /\ request' = [request EXCEPT ![c] = {cmd}]
    BY <1>1 DEF CommitReplayed, CommitConflicting, CommitFenced, CommitBegun, Begins,
                AnswerWith, TypeInv, TypeOK
<1>3. UNCHANGED <<aggregate, commits>>
    BY <1>1 DEF CommitReplayed, CommitConflicting, CommitFenced, CommitBegun, tables
<1>4. RevisionChain' /\ StateChain'
    BY SMTT(60), <1>3 DEF ChainInv, RevisionChain, StateChain, RowsOf
<1>5. CASE UNCHANGED <<stage, staged>>
  <2>1. LockExclusive' /\ StagedExtends' /\ StagedDurable'
      BY SMTT(60), <1>3, <1>5 DEF ChainInv, LockExclusive, StagedExtends, StagedDurable, InTransaction
  <2>2. StagedOne'
      BY <1>2, <1>5 DEF ChainInv, StagedOne, TypeInv, TypeOK
  <2>3. ReceiptsDurable'
      BY <1>1, <1>3, <1>5 DEF ChainInv, ReceiptsDurable, CommitReplayed, CommitConflicting,
                              CommitFenced, CommitBegun, Bound, TypeInv, TypeOK
  <2> QED
      BY <1>4, <2>1, <2>2, <2>3 DEF ChainInv
<1>6. CASE CommitBegun(c, cmd)
  <2>1. PICK t \in Readings :
          staged' = [staged EXCEPT ![c] =
            {[cmd |-> cmd, to |-> aggregate[cmd.ref].revision + 1,
              state |-> merge_delta(aggregate[cmd.ref].state, cmd.delta), at |-> t]}]
      BY <1>6 DEF CommitBegun
  <2> DEFINE row == [cmd |-> cmd, to |-> aggregate[cmd.ref].revision + 1,
                     state |-> merge_delta(aggregate[cmd.ref].state, cmd.delta), at |-> t]
  <2>2. /\ staged'[c] = {row}
        /\ \A d \in Clients \ {c} : staged'[d] = staged[d]
      BY <2>1 DEF TypeInv, TypeOK
  <2>3. /\ row.cmd = cmd /\ row.to = aggregate[cmd.ref].revision + 1
        /\ row.state = merge_delta(aggregate[cmd.ref].state, cmd.delta)
      OBVIOUS
  <2> HIDE DEF row
  <2>4. /\ stage'[c] = "begun"
        /\ \A d \in Clients \ {c} : stage'[d] = stage[d]
      BY <1>6 DEF CommitBegun, TypeInv, TypeOK
  <2>5. /\ request'[c] = {cmd}
        /\ \A d \in Clients \ {c} : request'[d] = request[d]
      BY <1>2 DEF TypeInv, TypeOK
  <2>6. StagedOne'
      BY SMTT(60), <2>2, <2>3, <2>5 DEF ChainInv, StagedOne
  <2>7. cmd.expected = aggregate[cmd.ref].revision
      BY <1>6 DEF CommitBegun
  <2>8. StagedExtends'
      BY SMTT(60), <1>3, <2>2, <2>3, <2>4, <2>7 DEF ChainInv, StagedExtends, InTransaction
  <2>9. \A d \in Clients \ {c} : InTransaction(d) => \A q \in staged[d] : q.cmd.ref # cmd.ref
      BY SMTT(60), <1>2 DEF Unlocked, ChainInv, StagedOne
  <2>10. LockExclusive'
      BY SMTT(60), <2>2, <2>3, <2>4, <2>9 DEF ChainInv, LockExclusive, InTransaction
  <2>11. StagedDurable'
      BY <1>3, <2>2, <2>4 DEF ChainInv, StagedDurable
  <2>12. ReceiptsDurable'
      BY <1>3, <1>6 DEF ChainInv, ReceiptsDurable, CommitBegun
  <2> QED
      BY <1>4, <2>6, <2>8, <2>10, <2>11, <2>12 DEF ChainInv
<1> QED
    BY <1>1, <1>5, <1>6 DEF CommitReplayed, CommitConflicting, CommitFenced

\* The COMMIT of a staged row extends both chains by one revision.
LEMMA ChainCommit ==
    ASSUME TypeInv, ChainInv, NEW c \in Clients, Commit(c)
    PROVE  ChainInv'
<1>1. PICK r \in staged[c] :
        /\ aggregate' = [aggregate EXCEPT ![r.cmd.ref] = [revision |-> r.to, state |-> r.state]]
        /\ commits' = commits \cup {r}
    BY DEF Commit, CommitTables
<1> DEFINE a == r.cmd.ref
<1>2. /\ staged[c] = {r} /\ InTransaction(c)
      /\ r.cmd.expected = aggregate[a].revision
      /\ r.to = aggregate[a].revision + 1
      /\ r.state = merge_delta(aggregate[a].state, r.cmd.delta)
    BY DEF ChainInv, StagedOne, StagedExtends, Commit, InTransaction, OpenStages
<1>3. r \in CommitRow /\ a \in Aggregates /\ r.to \in Nat /\ aggregate[a].revision \in Nat
    BY SMTT(60) DEF TypeInv, TypeOK, CommitRow, Command
<1>4. /\ aggregate'[a] = [revision |-> r.to, state |-> r.state]
      /\ \A b \in Aggregates \ {a} : aggregate'[b] = aggregate[b]
    BY <1>1, <1>3 DEF TypeInv, TypeOK
<1>5. aggregate'[a].revision = r.to /\ aggregate'[a].state = r.state
    BY SMTT(60), <1>4
<1>6. /\ stage'[c] = "AFTER_COMMIT_BEFORE_ACK"
      /\ \A d \in Clients \ {c} : stage'[d] = stage[d]
      /\ UNCHANGED <<staged, request, receipts>>
    BY DEF Commit, TypeInv, TypeOK
<1> HIDE DEF a
<1>7. /\ RowsOf(a)' = RowsOf(a) \cup {r}
      /\ \A b \in Aggregates \ {a} : RowsOf(b)' = RowsOf(b)
    BY <1>1 DEF RowsOf, a
<1>8. \A q \in RowsOf(a) : q.to \in Nat /\ 1 <= q.to /\ q.to < r.to
    BY SMTT(60), <1>2, <1>3 DEF ChainInv, RevisionChain, TypeInv, TypeOK, CommitRow, RowsOf
<1>9. RevisionChain'
  <2> SUFFICES ASSUME NEW b \in Aggregates
               PROVE /\ \A n \in 1..aggregate'[b].revision : \E q \in RowsOf(b)' : q.to = n
                     /\ \A q \in RowsOf(b)' : /\ q.to \in 1..aggregate'[b].revision
                                              /\ q.to = q.cmd.expected + 1
                     /\ \A p, q \in RowsOf(b)' : p.to = q.to => p = q
      BY DEF RevisionChain
  <2>1. CASE b # a
      BY SMTT(60), <2>1, <1>4, <1>7 DEF ChainInv, RevisionChain
  <2>2. CASE b = a
    <3>1. \A n \in 1..r.to : \E q \in RowsOf(a)' : q.to = n
      <4> SUFFICES ASSUME NEW n \in 1..r.to PROVE \E q \in RowsOf(a)' : q.to = n
          OBVIOUS
      <4>1. n = r.to \/ n \in 1..aggregate[a].revision
          BY SMTT(60), <1>2, <1>3
      <4> QED
          BY <4>1, <1>3, <1>7 DEF ChainInv, RevisionChain
    <3>2. \A q \in RowsOf(a)' : q.to \in 1..r.to /\ q.to = q.cmd.expected + 1
        BY SMTT(60), <1>2, <1>3, <1>7, <1>8 DEF ChainInv, RevisionChain
    <3>3. \A p, q \in RowsOf(a)' : p.to = q.to => p = q
        BY SMTT(60), <1>3, <1>7, <1>8 DEF ChainInv, RevisionChain
    <3> QED
        BY <2>2, <1>5, <3>1, <3>2, <3>3
  <2> QED
      BY <2>1, <2>2
<1>10. StateChain'
  <2> SUFFICES ASSUME NEW b \in Aggregates
               PROVE /\ aggregate'[b].revision = 0 => aggregate'[b].state = Blank
                     /\ \A p \in RowsOf(b)' :
                          /\ p.to = 1 => p.state = merge_delta(Blank, p.cmd.delta)
                          /\ p.to = aggregate'[b].revision => aggregate'[b].state = p.state
                          /\ \A q \in RowsOf(b)' :
                               q.to = p.to + 1 => q.state = merge_delta(p.state, q.cmd.delta)
      BY DEF StateChain
  <2>1. CASE b # a
      BY SMTT(60), <2>1, <1>4, <1>7 DEF ChainInv, StateChain
  <2>2. CASE b = a
    <3>1. r.to # 0
        BY SMTT(60), <1>2, <1>3
    <3>2. r.to = 1 => r.state = merge_delta(Blank, r.cmd.delta)
        BY SMTT(60), <1>2, <1>3 DEF ChainInv, StateChain
    <3>3. \A p \in RowsOf(a) : r.to = p.to + 1 => r.state = merge_delta(p.state, r.cmd.delta)
        BY SMTT(60), <1>2, <1>3, <1>8 DEF ChainInv, StateChain
    <3>4. \A p \in RowsOf(a) : p.to # r.to + 1 /\ p.to # r.to
        BY SMTT(60), <1>3, <1>8
    <3>5. \A p, q \in RowsOf(a) : /\ p.to = 1 => p.state = merge_delta(Blank, p.cmd.delta)
                                  /\ q.to = p.to + 1 => q.state = merge_delta(p.state, q.cmd.delta)
        BY <1>3 DEF ChainInv, StateChain
    <3>6. r.to # r.to + 1
        BY SMTT(60), <1>3
    <3> QED
        BY <2>2, <1>5, <1>7, <3>1, <3>2, <3>3, <3>4, <3>5, <3>6
  <2> QED
      BY <2>1, <2>2
<1>11. StagedOne' /\ ReceiptsDurable'
    BY <1>1, <1>6 DEF ChainInv, StagedOne, ReceiptsDurable
<1>12. StagedDurable'
    BY <1>1, <1>2, <1>6 DEF ChainInv, StagedDurable, TypeInv, TypeOK
<1>13. LockExclusive'
    BY <1>6 DEF ChainInv, LockExclusive, InTransaction, OpenStages
<1>14. StagedExtends'
  <2> SUFFICES ASSUME NEW d \in Clients, InTransaction(d)', NEW q \in staged[d]
               PROVE /\ q.cmd.expected = aggregate'[q.cmd.ref].revision
                     /\ q.to = aggregate'[q.cmd.ref].revision + 1
                     /\ q.state = merge_delta(aggregate'[q.cmd.ref].state, q.cmd.delta)
      BY <1>6 DEF StagedExtends
  <2>1. d # c /\ InTransaction(d)
      BY <1>6 DEF InTransaction, OpenStages
  <2>2. q.cmd.ref # a
      BY <1>2, <2>1 DEF ChainInv, LockExclusive, a
  <2>3. q.cmd.ref \in Aggregates
      BY SMTT(60) DEF TypeInv, TypeOK, CommitRow, Command
  <2> QED
      BY <1>4, <2>1, <2>2, <2>3 DEF ChainInv, StagedExtends
<1> QED
    BY <1>9, <1>10, <1>11, <1>12, <1>13, <1>14 DEF ChainInv

\* The COMMIT of a row staged on the current revision extends the chain.
LEMMA ChainInsert ==
    ASSUME TypeInv, ChainInv, NEW c \in Clients, NEW from \in OpenStages, NEW to \in OpenStages,
           InsertStep(c, from, to)
    PROVE  ChainInv'
<1>1. \A d \in Clients : /\ InTransaction(d)' = InTransaction(d)
                         /\ stage'[d] = "AFTER_COMMIT_BEFORE_ACK" =>
                              stage[d] = "AFTER_COMMIT_BEFORE_ACK"
    BY DEF InsertStep, InTransaction, TypeInv, TypeOK, OpenStages
<1>2. UNCHANGED <<aggregate, commits, staged, request, receipts>>
    BY DEF InsertStep, tables
<1> QED
    BY SMTT(60), <1>1, <1>2 DEF ChainInv, LockExclusive, StagedOne, StagedExtends, StagedDurable,
                      RevisionChain, StateChain, ReceiptsDurable, RowsOf

\* A transaction or an answer ends: the client is idle with nothing staged.
LEMMA ChainEnds ==
    ASSUME TypeInv, ChainInv, NEW c \in Clients,
           stage' = [stage EXCEPT ![c] = "idle"], staged' = [staged EXCEPT ![c] = {}],
           UNCHANGED <<aggregate, commits, request>>, receipts' \subseteq commits
    PROVE  ChainInv'
<1>1. /\ stage'[c] = "idle" /\ staged'[c] = {}
      /\ \A d \in Clients \ {c} : stage'[d] = stage[d] /\ staged'[d] = staged[d]
    BY DEF TypeInv, TypeOK
<1>2. StagedOne' /\ LockExclusive' /\ StagedExtends' /\ StagedDurable'
    BY SMTT(60), <1>1 DEF ChainInv, LockExclusive, StagedOne, StagedExtends, StagedDurable,
                InTransaction, OpenStages
<1>3. RevisionChain' /\ StateChain' /\ ReceiptsDurable'
    BY SMTT(60) DEF ChainInv, RevisionChain, StateChain, ReceiptsDurable, RowsOf
<1> QED
    BY <1>2, <1>3 DEF ChainInv

\* Every stage of a transaction keeps the chain.
LEMMA ChainProceed ==
    ASSUME TypeInv, ChainInv, NEW c \in Clients, Proceed(c) \/ ClientCrash(c)
    PROVE  ChainInv'
<1>1. CASE \E from, to \in OpenStages : InsertStep(c, from, to)
    BY <1>1, ChainInsert
<1>2. CASE InsertIdempotencyRefused(c) \/ ClientCrash(c)
    BY <1>2, ChainEnds DEF InsertIdempotencyRefused, ClientCrash, tables, ChainInv, ReceiptsDurable
<1>3. CASE Commit(c)
    BY <1>3, ChainCommit
<1>4. CASE CommitAnswered(c)
  <2>1. receipts' \subseteq commits
      BY <1>4 DEF CommitAnswered, ChainInv, ReceiptsDurable, StagedDurable
  <2> QED
      BY <1>4, <2>1, ChainEnds DEF CommitAnswered, tables
<1> QED
    BY <1>1, <1>2, <1>3, <1>4
    DEF Proceed, UpsertAggregate, InsertCommit, InsertIdempotency, InsertOutbox, OpenStages

\* The chain invariant is inductive given the types.
LEMMA ChainStep == TypeInv /\ ChainInv /\ [Next]_vars => ChainInv'
<1> SUFFICES ASSUME TypeInv, ChainInv, [Next]_vars PROVE ChainInv'
    OBVIOUS
<1>1. CASE UNCHANGED vars
    BY <1>1, ChainUnchanged DEF vars, tables
<1>2. ASSUME NEW w \in Workers, Reconcile(w) \/ Relay(w)
      PROVE  ChainInv'
    BY <1>2, ChainUnchanged
    DEF Reconcile, Relay, RecoverySelect, RecoveryFinish, Claim, Deliver, Acknowledge, tables
<1>3. ASSUME NEW w \in Workers, DeliverFails(w) \/ WorkerCrash(w) \/ DropSession(w)
      PROVE  ChainInv'
    BY <1>3, ChainUnchanged DEF DeliverFails, WorkerCrash, DropSession, Abandon, tables
<1>4. ASSUME NEW r \in commits, LoseBinding(r) \/ LoseEvent(r)
      PROVE  ChainInv'
    BY <1>4, ChainUnchanged DEF LoseBinding, LoseEvent
<1> QED
    BY <1>1, <1>2, <1>3, <1>4, ChainSubmit, ChainProceed DEF Next

\* It holds in every behaviour.
LEMMA ChainInvariant == Spec => [](TypeInv /\ ChainInv)
BY TypeInit, TypeStep, ChainInit, ChainStep, PTL DEF Spec

\* For any number of clients, crashes and lost rows, the commit rows of an
\* aggregate are its revisions in order, without gap or fork.
THEOREM RevisionsChain == Spec => []RevisionChain
<1>1. ChainInv => RevisionChain
    BY DEF ChainInv
<1> QED
    BY ChainInvariant, <1>1, PTL

\* Each revision's state is the previous one merged with its command's delta.
THEOREM StatesChain == Spec => []StateChain
<1>1. ChainInv => StateChain
    BY DEF ChainInv
<1> QED
    BY ChainInvariant, <1>1, PTL

\* No command is ever committed twice: the revision fence holds even where
\* the idempotency row of an earlier attempt was lost.
THEOREM CommandsOnce == Spec => []CommandOnce
<1>1. TypeInv /\ ChainInv => CommandOnce
  <2> SUFFICES ASSUME TypeInv, ChainInv, NEW r \in commits, NEW q \in commits, r.cmd = q.cmd
               PROVE  r = q
      BY DEF CommandOnce
  <2>1. r.cmd.ref \in Aggregates /\ r \in RowsOf(r.cmd.ref) /\ q \in RowsOf(r.cmd.ref)
      BY DEF TypeInv, TypeOK, CommitRow, Command, RowsOf
  <2>2. r.to = r.cmd.expected + 1 /\ q.to = q.cmd.expected + 1
      BY <2>1 DEF ChainInv, RevisionChain
  <2> QED
      BY SMTT(60), <2>1, <2>2 DEF ChainInv, RevisionChain
<1> QED
    BY ChainInvariant, <1>1, PTL

\* Every receipt a caller ever received names a durable commit.
THEOREM ReceiptsAreDurable == Spec => []ReceiptsDurable
<1>1. ChainInv => ReceiptsDurable
    BY DEF ChainInv
<1> QED
    BY ChainInvariant, <1>1, PTL

-------------------------------------------------------------------------------
(* The relay *)

\* What a worker has delivered is in the sink; an idle worker holds nothing;
\* unless sessions may drop, a worker that is not idle holds the lock.
RelayInv ==
    /\ AcknowledgedDelivered
    /\ \A w \in Workers :
         /\ unacked[w] \subseteq sink
         /\ phase[w] = "idle" => batch[w] = {}
         /\ phase[w] # "acknowledging" => unacked[w] = {}
         /\ phase[w] # "idle" => SessionMayDrop \/ holder = w

\* No worker holds a batch.
LEMMA RelayInit == Init => RelayInv
BY DEF Init, RelayInv, AcknowledgedDelivered

\* The steps of a worker under the lock keep batches apart and acknowledge what was delivered.
LEMMA RelayWorker ==
    ASSUME TypeInv, RelayInv, NEW w \in Workers, Reconcile(w) \/ Relay(w)
    PROVE  RelayInv'
<1>1. CASE RecoverySelect(w)
    BY <1>1, NoWorkerAssumption
    DEF RecoverySelect, Enter, tables, RelayInv, AcknowledgedDelivered, TypeInv, TypeOK
<1>2. CASE RecoveryFinish(w)
    BY <1>2 DEF RecoveryFinish, Leave, RelayInv, AcknowledgedDelivered, TypeInv, TypeOK
<1>3. CASE Claim(w)
    BY <1>3, NoWorkerAssumption
    DEF Claim, Enter, tables, RelayInv, AcknowledgedDelivered, TypeInv, TypeOK
<1>4. CASE Deliver(w)
    BY <1>4 DEF Deliver, tables, RelayInv, AcknowledgedDelivered, TypeInv, TypeOK
<1>5. CASE Acknowledge(w)
    BY <1>5 DEF Acknowledge, Leave, RelayInv, AcknowledgedDelivered, TypeInv, TypeOK
<1> QED
    BY <1>1, <1>2, <1>3, <1>4, <1>5 DEF Reconcile, Relay

\* A crash or a dropped session keeps them so.
LEMMA RelayFault ==
    ASSUME TypeInv, RelayInv, NEW w \in Workers,
           DeliverFails(w) \/ WorkerCrash(w) \/ DropSession(w)
    PROVE  RelayInv'
<1>1. ASSUME NEW delivered, Abandon(w, delivered)
      PROVE  RelayInv'
    BY <1>1 DEF Abandon, Leave, tables, RelayInv, AcknowledgedDelivered, TypeInv, TypeOK
<1>2. CASE DropSession(w)
    BY <1>2 DEF DropSession, tables, RelayInv, AcknowledgedDelivered
<1> QED
    BY <1>1, <1>2 DEF DeliverFails, WorkerCrash

\* The relay invariant is inductive given the types.
LEMMA RelayStep == TypeInv /\ RelayInv /\ [Next]_vars => RelayInv'
<1> SUFFICES ASSUME TypeInv, RelayInv, [Next]_vars PROVE RelayInv'
    OBVIOUS
<1>1. CASE UNCHANGED vars
    BY <1>1 DEF vars, tables, workerVars, RelayInv, AcknowledgedDelivered
<1>2. ASSUME NEW c \in Clients, Submit(c) \/ Proceed(c) \/ ClientCrash(c)
      PROVE  UNCHANGED <<acknowledged, workerVars>>
    BY <1>2 DEF Submit, CommitReplayed, CommitConflicting, CommitFenced, CommitBegun, Proceed,
                UpsertAggregate, InsertCommit, InsertIdempotency, InsertIdempotencyRefused,
                InsertOutbox, InsertStep, Commit, CommitTables, CommitAnswered, ClientCrash, tables
<1>3. ASSUME UNCHANGED <<acknowledged, workerVars>>
      PROVE  RelayInv'
    BY <1>3 DEF workerVars, RelayInv, AcknowledgedDelivered
<1>4. ASSUME NEW r \in commits, LoseBinding(r) \/ LoseEvent(r)
      PROVE  RelayInv'
    BY <1>4 DEF LoseBinding, LoseEvent, workerVars, RelayInv, AcknowledgedDelivered
<1> QED
    BY <1>1, <1>2, <1>3, <1>4, RelayWorker, RelayFault DEF Next

\* It holds in every behaviour.
LEMMA RelayInvariant == Spec => [](TypeInv /\ RelayInv)
BY TypeInit, TypeStep, RelayInit, RelayStep, PTL DEF Spec

\* No event is acknowledged before the sink accepted it, whatever workers
\* crash and even if the recovery lock is lost under its holder.
THEOREM AcknowledgedAreDelivered == Spec => []AcknowledgedDelivered
<1>1. RelayInv => AcknowledgedDelivered
    BY DEF RelayInv
<1> QED
    BY RelayInvariant, <1>1, PTL

\* Two workers never both hold an unacknowledged row while sessions last.
THEOREM ClaimsAreDisjoint == Spec => []ClaimsDisjoint
<1>1. RelayInv => ClaimsDisjoint
    BY DEF RelayInv, ClaimsDisjoint
<1> QED
    BY RelayInvariant, <1>1, PTL

-------------------------------------------------------------------------------
(* The derived rows *)

\* No binding, no loss, no receipt.
LEMMA DerivedInit == Init => DerivedInv
BY DEF Init, DerivedInv, KeyHeld, BindingUnique, KeyReboundOnlyAfterLoss, CommitAtomic,
       OrphanedIdempotency, OrphanedOutbox

\* A step that writes no table and lets no transaction past its idempotency
\* insert.
LEMMA DerivedQuiet ==
    ASSUME DerivedInv, UNCHANGED <<commits, idempotency, outbox, lostBindings, lostEvents>>,
           \A c \in Clients : stage'[c] \in {"AFTER_IDEMPOTENCY_INSERT", "AFTER_OUTBOX_INSERT"} =>
              /\ staged'[c] = staged[c]
              /\ \/ stage[c] \in {"AFTER_IDEMPOTENCY_INSERT", "AFTER_OUTBOX_INSERT"}
                 \/ \A r \in staged[c] : Bound(r.cmd) = {}
    PROVE  DerivedInv'
<1>1. KeyHeld'
    BY DEF DerivedInv, KeyHeld, Bound
<1> QED
    BY <1>1 DEF DerivedInv, BindingUnique, KeyReboundOnlyAfterLoss, CommitAtomic,
                OrphanedIdempotency, OrphanedOutbox

\* A commit is opened only for a scope without a binding.
LEMMA DerivedSubmit ==
    ASSUME TypeInv, DerivedInv, NEW c \in Clients, Submit(c)
    PROVE  DerivedInv'
<1>1. PICK cmd \in Command :
         \/ CommitReplayed(c, cmd) \/ CommitConflicting(c, cmd)
         \/ CommitFenced(c, cmd) \/ CommitBegun(c, cmd)
    BY CommandsTyped DEF Submit
<1>2. UNCHANGED <<commits, idempotency, outbox, lostBindings, lostEvents>>
    BY <1>1 DEF CommitReplayed, CommitConflicting, CommitFenced, CommitBegun, tables, history
<1>3. \A d \in Clients : stage'[d] \in {"AFTER_IDEMPOTENCY_INSERT", "AFTER_OUTBOX_INSERT"} =>
         stage[d] = stage'[d] /\ staged'[d] = staged[d]
    BY <1>1 DEF CommitReplayed, CommitConflicting, CommitFenced, CommitBegun, TypeInv, TypeOK
<1> QED
    BY <1>2, <1>3, DerivedQuiet

\* The COMMIT binds a key nobody else holds, so two commits of one scope have
\* the earlier one's binding lost in between.
LEMMA DerivedCommit ==
    ASSUME TypeInv, ChainInv, DerivedInv, NEW c \in Clients, Commit(c)
    PROVE  DerivedInv'
<1>1. PICK r \in staged[c] :
        /\ commits' = commits \cup {r}
        /\ idempotency' = idempotency \cup {r}
        /\ outbox' = outbox \cup {r}
    BY DEF Commit, CommitTables
<1>2. Bound(r.cmd) = {}
    BY DEF Commit, DerivedInv, KeyHeld
<1>3. /\ stage'[c] = "AFTER_COMMIT_BEFORE_ACK"
      /\ \A d \in Clients \ {c} : stage'[d] = stage[d]
      /\ UNCHANGED <<staged, lostBindings, lostEvents>>
    BY DEF Commit, TypeInv, TypeOK, history
<1>4. InTransaction(c)
    BY DEF Commit, InTransaction, OpenStages
<1>5. CommitAtomic'
    BY <1>1, <1>3 DEF DerivedInv, CommitAtomic, OrphanedIdempotency, OrphanedOutbox
<1>6. BindingUnique'
    BY <1>1, <1>2 DEF DerivedInv, BindingUnique, Bound
<1>7. KeyReboundOnlyAfterLoss'
  <2> SUFFICES ASSUME NEW p \in commits', NEW q \in commits',
                      p.cmd.ref = q.cmd.ref, p.cmd.key = q.cmd.key, p.to < q.to
               PROVE  p \in lostBindings
      BY <1>3 DEF KeyReboundOnlyAfterLoss
  <2>1. CASE p \in commits /\ q \in commits
      BY <2>1 DEF DerivedInv, KeyReboundOnlyAfterLoss
  <2>2. CASE p \in commits /\ q = r
    <3>1. p \notin idempotency
        BY <1>2, <2>2 DEF Bound
    <3> QED
        BY <2>2, <3>1 DEF DerivedInv, CommitAtomic, OrphanedIdempotency
  <2>3. CASE p = r /\ q \in commits
    <3>1. q.cmd.ref \in Aggregates /\ q \in RowsOf(q.cmd.ref)
        BY <2>3 DEF TypeInv, TypeOK, CommitRow, Command, RowsOf
    <3>2. q.to \in 1..aggregate[q.cmd.ref].revision
        BY <3>1 DEF ChainInv, RevisionChain
    <3>3. r.to = aggregate[q.cmd.ref].revision + 1
        BY <1>4, <2>3 DEF ChainInv, StagedExtends
    <3>4. aggregate[q.cmd.ref].revision \in Nat
        BY <3>1 DEF TypeInv, TypeOK
    <3> QED
        BY SMTT(60), <2>3, <3>2, <3>3, <3>4
  <2>4. CASE p = r /\ q = r
    <3>1. r.to \in Nat
        BY SMTT(60) DEF TypeInv, TypeOK, CommitRow
    <3> QED
        BY SMTT(60), <2>4, <3>1
  <2> QED
      BY <1>1, <2>1, <2>2, <2>3, <2>4
<1>8. KeyHeld'
  <2> SUFFICES ASSUME NEW d \in Clients,
                      stage'[d] \in {"AFTER_IDEMPOTENCY_INSERT", "AFTER_OUTBOX_INSERT"},
                      NEW q \in staged[d]
               PROVE  Bound(q.cmd)' = {}
      BY <1>3 DEF KeyHeld
  <2>1. d # c /\ stage[d] = stage'[d] /\ InTransaction(d)
      BY <1>3 DEF InTransaction, OpenStages
  <2>2. Bound(q.cmd) = {}
      BY <2>1 DEF DerivedInv, KeyHeld
  <2>3. q.cmd.ref # r.cmd.ref
      BY <1>4, <2>1 DEF ChainInv, LockExclusive
  <2> QED
      BY <1>1, <2>2, <2>3 DEF Bound
<1> QED
    BY <1>5, <1>6, <1>7, <1>8 DEF DerivedInv

\* The COMMIT binds its scope with its row.
LEMMA DerivedProceed ==
    ASSUME TypeInv, ChainInv, DerivedInv, NEW c \in Clients, Proceed(c) \/ ClientCrash(c)
    PROVE  DerivedInv'
<1>1. CASE Commit(c)
    BY <1>1, DerivedCommit
<1>2. CASE InsertIdempotency(c)
  <2>1. \A r \in staged[c] : Bound(r.cmd) = {}
      BY SMTT(60), <1>2 DEF InsertIdempotency, ChainInv, StagedOne
  <2> QED
      BY <1>2, <2>1, DerivedQuiet
      DEF InsertIdempotency, InsertStep, tables, history, TypeInv, TypeOK
<1>3. CASE UpsertAggregate(c) \/ InsertCommit(c) \/ InsertOutbox(c)
    BY <1>3, DerivedQuiet
    DEF UpsertAggregate, InsertCommit, InsertOutbox, InsertStep, tables, history, TypeInv, TypeOK
<1>4. CASE InsertIdempotencyRefused(c) \/ CommitAnswered(c) \/ ClientCrash(c)
    BY <1>4, DerivedQuiet
    DEF InsertIdempotencyRefused, CommitAnswered, ClientCrash, tables, history, TypeInv, TypeOK
<1> QED
    BY <1>1, <1>2, <1>3, <1>4 DEF Proceed

\* A recovery pass inserts only free keys, and waits for a transaction that
\* has inserted the same key and not yet committed.
LEMMA DerivedFinish ==
    ASSUME TypeInv, ChainInv, DerivedInv, NEW w \in Workers, RecoveryFinish(w)
    PROVE  DerivedInv'
<1>1. PICK bound \in Insertable(batch[w]), events \in AnyUpTo(OrphanedOutbox, Limit) :
        idempotency' = idempotency \cup bound /\ outbox' = outbox \cup events
    BY DEF RecoveryFinish
<1>2. UNCHANGED <<commits, stage, staged, request, lostBindings, lostEvents>>
    BY DEF RecoveryFinish, clientVars, history
<1>3. CommitAtomic' /\ KeyReboundOnlyAfterLoss'
    BY <1>1, <1>2 DEF DerivedInv, CommitAtomic, KeyReboundOnlyAfterLoss,
                      OrphanedIdempotency, OrphanedOutbox
<1>4. BindingUnique'
    BY SMTT(60), <1>1 DEF DerivedInv, BindingUnique, Insertable, Bound
<1>5. KeyHeld'
  <2> SUFFICES ASSUME NEW d \in Clients,
                      stage[d] \in {"AFTER_IDEMPOTENCY_INSERT", "AFTER_OUTBOX_INSERT"},
                      NEW q \in staged[d]
               PROVE  Bound(q.cmd)' = {}
      BY <1>2 DEF KeyHeld
  <2>1. Bound(q.cmd) = {} /\ q.cmd \in request[d]
      BY SMTT(60) DEF DerivedInv, KeyHeld, ChainInv, StagedOne
  <2>2. \A r \in bound : ~(r.cmd.ref = q.cmd.ref /\ r.cmd.key = q.cmd.key)
      BY SMTT(60), <2>1 DEF RecoveryFinish, InsertsWait, Insertable
  <2> QED
      BY <1>1, <2>1, <2>2 DEF Bound
<1> QED
    BY <1>3, <1>4, <1>5 DEF DerivedInv

\* A lost binding is remembered.
LEMMA DerivedLoss ==
    ASSUME DerivedInv, NEW r \in commits, LoseBinding(r) \/ LoseEvent(r)
    PROVE  DerivedInv'
<1>1. KeyHeld'
    BY DEF DerivedInv, KeyHeld, Bound, LoseBinding, LoseEvent, clientVars
<1> QED
    BY <1>1 DEF DerivedInv, BindingUnique, KeyReboundOnlyAfterLoss, CommitAtomic,
                OrphanedIdempotency, OrphanedOutbox, LoseBinding, LoseEvent

\* The invariant on derived rows is inductive given types and chain.
LEMMA DerivedStep == TypeInv /\ ChainInv /\ DerivedInv /\ [Next]_vars => DerivedInv'
<1> SUFFICES ASSUME TypeInv, ChainInv, DerivedInv, [Next]_vars PROVE DerivedInv'
    OBVIOUS
<1>1. CASE UNCHANGED vars
    BY <1>1, DerivedQuiet DEF vars, tables, clientVars, history
<1>2. ASSUME NEW w \in Workers, Reconcile(w) \/ Relay(w)
      PROVE  DerivedInv'
  <2>1. CASE RecoveryFinish(w)
      BY <2>1, DerivedFinish
  <2>2. CASE RecoverySelect(w) \/ Relay(w)
      BY <2>2, DerivedQuiet
      DEF Relay, RecoverySelect, Claim, Deliver, Acknowledge, tables, clientVars, history
  <2> QED
      BY <1>2, <2>1, <2>2 DEF Reconcile
<1>3. ASSUME NEW w \in Workers, DeliverFails(w) \/ WorkerCrash(w) \/ DropSession(w)
      PROVE  DerivedInv'
    BY <1>3, DerivedQuiet DEF DeliverFails, WorkerCrash, DropSession, Abandon, tables, clientVars
<1> QED
    BY <1>1, <1>2, <1>3, DerivedSubmit, DerivedProceed, DerivedLoss DEF Next

\* It holds in every behaviour.
LEMMA DerivedInvariant == Spec => [](TypeInv /\ ChainInv /\ DerivedInv)
BY TypeInit, TypeStep, ChainInit, ChainStep, DerivedInit, DerivedStep, PTL DEF Spec

\* A crash of a client at any stage never leaves a commit without its derived
\* rows: only rows deleted after the commit are missing.
THEOREM CommitsAtomic == Spec => []CommitAtomic
<1>1. DerivedInv => CommitAtomic
    BY DEF DerivedInv
<1> QED
    BY DerivedInvariant, <1>1, PTL

\* An idempotency scope is bound to one commit at a time ...
THEOREM BindingsUnique == Spec => []BindingUnique
<1>1. DerivedInv => BindingUnique
    BY DEF DerivedInv
<1> QED
    BY DerivedInvariant, <1>1, PTL

\* ... and is bound again only after its binding was lost.
THEOREM KeysReboundOnlyAfterLoss == Spec => []KeyReboundOnlyAfterLoss
<1>1. DerivedInv => KeyReboundOnlyAfterLoss
    BY DEF DerivedInv
<1> QED
    BY DerivedInvariant, <1>1, PTL

-------------------------------------------------------------------------------
(* Refusals *)

\* A step that refuses a command finds it uncommitted, or its binding lost.
LEMMA RefusalStep ==
    ASSUME TypeInv, ChainInv, DerivedInv, Next, NEW c \in Clients,
           answer'[c] \in Refusals,
           <<answer[c], request[c]>> # <<answer'[c], request'[c]>>,
           NEW r \in commits, r.cmd \in request'[c]
    PROVE  r \in lostBindings
<1>1. r \notin idempotency => r \in lostBindings
    BY DEF DerivedInv, CommitAtomic, OrphanedIdempotency
<1>2. ASSUME NEW d \in Clients, Submit(d)
      PROVE  r \in lostBindings
  <2>1. PICK cmd \in Command :
           \/ CommitReplayed(d, cmd) \/ CommitConflicting(d, cmd)
           \/ CommitFenced(d, cmd) \/ CommitBegun(d, cmd)
      BY <1>2, CommandsTyped DEF Submit
  <2>2. d = c
      BY <2>1 DEF CommitReplayed, CommitConflicting, CommitFenced, CommitBegun, AnswerWith,
                  TypeInv, TypeOK
  <2>3. request'[c] = {cmd}
      BY <2>1, <2>2 DEF CommitReplayed, CommitConflicting, CommitFenced, CommitBegun,
                        AnswerWith, TypeInv, TypeOK
  <2>4. CASE CommitReplayed(d, cmd) \/ CommitBegun(d, cmd)
      BY <2>2, <2>4 DEF CommitReplayed, CommitBegun, AnswerWith, Refusals, TypeInv, TypeOK
  <2>5. CASE CommitConflicting(d, cmd)
    <3>1. PICK q \in Bound(cmd) : q.cmd # cmd
        BY <2>5 DEF CommitConflicting
    <3>2. r \notin idempotency
        BY <2>3, <3>1 DEF Bound, DerivedInv, BindingUnique
    <3> QED
        BY <1>1, <3>2
  <2>6. CASE CommitFenced(d, cmd)
      BY <1>1, <2>3, <2>6 DEF CommitFenced, Bound
  <2> QED
      BY <2>1, <2>4, <2>5, <2>6
<1>3. ASSUME NEW d \in Clients, Proceed(d) \/ ClientCrash(d)
      PROVE  r \in lostBindings
  <2>1. CASE InsertIdempotencyRefused(d)
    <3>1. d = c /\ request' = request
        BY <2>1 DEF InsertIdempotencyRefused, TypeInv, TypeOK
    <3>2. PICK q \in staged[c] : TRUE
        BY <2>1, <3>1 DEF InsertIdempotencyRefused, TypeInv, TypeOK
    <3>3. q.cmd = r.cmd /\ InTransaction(c)
        BY SMTT(60), <2>1, <3>1, <3>2
        DEF ChainInv, StagedOne, InsertIdempotencyRefused, InTransaction,
                                OpenStages
    <3>4. r.cmd.expected = aggregate[r.cmd.ref].revision
        BY <3>3 DEF ChainInv, StagedExtends
    <3>5. r.cmd.ref \in Aggregates /\ r \in RowsOf(r.cmd.ref)
        BY DEF TypeInv, TypeOK, CommitRow, Command, RowsOf
    <3>6. r.to \in 1..aggregate[r.cmd.ref].revision /\ r.to = r.cmd.expected + 1
        BY <3>5 DEF ChainInv, RevisionChain
    <3>7. aggregate[r.cmd.ref].revision \in Nat
        BY <3>5 DEF TypeInv, TypeOK
    <3> QED
        BY SMTT(60), <3>4, <3>6, <3>7
  <2>2. CASE CommitAnswered(d)
      BY <2>2 DEF CommitAnswered, Refusals, TypeInv, TypeOK
  <2> QED
      BY <1>3, <2>1, <2>2
      DEF Proceed, ClientCrash, UpsertAggregate, InsertCommit, InsertIdempotency, InsertOutbox,
          InsertStep, Commit
<1>4. ~\E w \in Workers : \/ Reconcile(w) \/ Relay(w) \/ DeliverFails(w)
                          \/ WorkerCrash(w) \/ DropSession(w)
    BY DEF Reconcile, Relay, RecoverySelect, RecoveryFinish, Claim, Deliver, Acknowledge,
           DeliverFails, WorkerCrash, DropSession, Abandon, clientVars
<1>5. ~\E q \in commits : LoseBinding(q) \/ LoseEvent(q)
    BY DEF LoseBinding, LoseEvent, clientVars
<1> QED
    BY <1>2, <1>3, <1>4, <1>5 DEF Next

\* A caller refused with a conflict has no commit of its command behind it,
\* unless that commit's idempotency row was lost.
THEOREM RefusalsTruthful == Spec => RefusalTruthful
<1>1. TypeInv /\ ChainInv /\ DerivedInv /\ [Next]_vars =>
        [\A c \in Clients :
           answer'[c] \in Refusals /\ <<answer[c], request[c]>> # <<answer'[c], request'[c]>> =>
             {r \in commits : r.cmd \in request'[c]} \subseteq lostBindings]_vars
    BY RefusalStep
<1> QED
    BY DerivedInvariant, <1>1, PTL DEF Spec, RefusalTruthful

-------------------------------------------------------------------------------
(* What the world outside sees of a commit *)

\* What is committed is exact, for every number of clients, workers and faults.
THEOREM CommitsAreExact == Spec => []CommitsExact
BY StatesChain, CommandsOnce, CommitsAtomic, PTL DEF CommitsExact

-------------------------------------------------------------------------------
(* The order of delivery, with synchronised clocks *)

\* A later revision of an aggregate carries a later time, no row is dated past
\* the number of commits, and an open transaction's row is later than all of
\* its aggregate.
TimesInOrder ==
    /\ \A r \in commits : r.at <= Cardinality(commits)
    /\ \A r, q \in commits : q.cmd.ref = r.cmd.ref /\ q.to < r.to => q.at < r.at
    /\ \A c \in Clients : InTransaction(c) => \A r \in staged[c] :
         /\ r.at <= Cardinality(commits) + 1
         /\ \A q \in commits : q.cmd.ref = r.cmd.ref => q.at < r.at

Delivering(w) == phase[w] \in {"delivering", "acknowledging"}

\* The revisions before a row of a claimed batch are in the batch too, or were
\* delivered, or their event was lost.
BatchesInOrder ==
    \A w \in Workers : Delivering(w) =>
       \A r \in batch[w], q \in commits :
          q.cmd.ref = r.cmd.ref /\ q.to < r.to => q \in batch[w] \cup sink \cup lostEvents

OrderInv == MaxSkew = 0 => TimesInOrder /\ BatchesInOrder /\ DeliveredInOrder

\* Nothing is committed, staged or claimed.
LEMMA OrderInit == Init => OrderInv
BY DEF Init, OrderInv, TimesInOrder, BatchesInOrder, DeliveredInOrder, Delivering, InTransaction,
       OpenStages

\* A step that commits nothing, opens no transaction and does not deliver.
LEMMA TimesQuiet ==
    ASSUME TimesInOrder, UNCHANGED commits,
           \A c \in Clients : InTransaction(c)' => InTransaction(c) /\ staged'[c] = staged[c]
    PROVE  TimesInOrder'
BY DEF TimesInOrder

\* A step that commits, claims and delivers nothing.
LEMMA DeliveryQuiet ==
    ASSUME BatchesInOrder, DeliveredInOrder, MaxSkew = 0, UNCHANGED <<commits, sink>>,
           lostEvents \subseteq lostEvents',
           \A w \in Workers : Delivering(w)' => Delivering(w) /\ batch'[w] = batch[w]
    PROVE  BatchesInOrder' /\ DeliveredInOrder'
BY DEF BatchesInOrder, DeliveredInOrder

\* With no skew a row is dated one past the commits so far, which is later than
\* every row there is.
LEMMA OrderBegun ==
    ASSUME TypeInv, TimesInOrder, MaxSkew = 0, NEW c \in Clients, NEW cmd \in Command,
           CommitBegun(c, cmd)
    PROVE  TimesInOrder'
<1>1. PICK t \in Readings : staged' = [staged EXCEPT ![c] =
           {[cmd |-> cmd, to |-> aggregate[cmd.ref].revision + 1,
             state |-> merge_delta(aggregate[cmd.ref].state, cmd.delta), at |-> t]}]
    BY DEF CommitBegun
<1>2. Cardinality(commits) \in Nat
    BY FS_CardinalityType DEF TypeInv
<1>3. t = Cardinality(commits) + 1
    BY SMTT(60), <1>2 DEF Readings, Now
<1>4. UNCHANGED commits
    BY DEF CommitBegun, tables
<1>5. \A d \in Clients \ {c} : InTransaction(d)' = InTransaction(d) /\ staged'[d] = staged[d]
    BY DEF CommitBegun, InTransaction, TypeInv, TypeOK
<1>6. \A r \in staged'[c] : r.at = t
    BY SMTT(60), <1>1 DEF TypeInv, TypeOK
<1>7. \A q \in commits : q.at \in Nat
    BY DEF TypeInv, TypeOK, CommitRow
<1> QED
    BY SMTT(60), <1>2, <1>3, <1>4, <1>5, <1>6, <1>7 DEF TimesInOrder

\* A COMMIT adds the last row of its aggregate, with the latest time, while no
\* other transaction on the aggregate is open.
LEMMA OrderCommit ==
    ASSUME TypeInv, ChainInv, TimesInOrder, BatchesInOrder, DeliveredInOrder, MaxSkew = 0,
           NEW c \in Clients, Commit(c)
    PROVE  TimesInOrder' /\ BatchesInOrder' /\ DeliveredInOrder'
<1>1. PICK r \in staged[c] : commits' = commits \cup {r}
    BY DEF Commit, CommitTables
<1>2. InTransaction(c)
    BY DEF Commit, InTransaction, OpenStages
<1>3. r \in CommitRow /\ r.cmd.ref \in Aggregates /\ r.to \in Nat /\ r.at \in Nat
    BY SMTT(60) DEF TypeInv, TypeOK, CommitRow, Command
<1>4. \A q \in commits : q \in CommitRow /\ q.cmd.ref \in Aggregates /\ q.to \in Nat /\ q.at \in Nat
    BY DEF TypeInv, TypeOK, CommitRow, Command
<1>5. \A q \in commits : q.cmd.ref = r.cmd.ref => q.to < r.to
  <2> SUFFICES ASSUME NEW q \in commits, q.cmd.ref = r.cmd.ref PROVE q.to < r.to
      OBVIOUS
  <2>1. q.to \in 1..aggregate[r.cmd.ref].revision
      BY <1>3 DEF ChainInv, RevisionChain, RowsOf
  <2>2. r.to = aggregate[r.cmd.ref].revision + 1
      BY <1>2 DEF ChainInv, StagedExtends
  <2>3. aggregate[r.cmd.ref].revision \in Nat
      BY <1>3 DEF TypeInv, TypeOK
  <2> QED
      BY SMTT(60), <2>1, <2>2, <2>3
<1>6. r \notin commits
    BY SMTT(60), <1>3, <1>5
<1>7. Cardinality(commits) \in Nat /\ Cardinality(commits') = Cardinality(commits) + 1
    BY <1>1, <1>6, FS_CardinalityType, FS_AddElement DEF TypeInv
<1>8. UNCHANGED <<staged, phase, batch, sink, lostEvents>>
    BY DEF Commit, workerVars, history
<1>9. ~InTransaction(c)' /\ \A d \in Clients \ {c} : InTransaction(d)' = InTransaction(d)
    BY DEF Commit, InTransaction, OpenStages, TypeInv, TypeOK
<1>10. TimesInOrder'
  <2>1. r.at <= Cardinality(commits) + 1 /\ \A q \in commits : q.cmd.ref = r.cmd.ref => q.at < r.at
      BY <1>2 DEF TimesInOrder
  <2>2. \A q \in commits' : q.at <= Cardinality(commits')
      BY SMTT(60), <1>1, <1>3, <1>4, <1>7, <2>1 DEF TimesInOrder
  <2>3. \A p, q \in commits' : q.cmd.ref = p.cmd.ref /\ q.to < p.to => q.at < p.at
      BY SMTT(60), <1>1, <1>3, <1>4, <1>5, <2>1 DEF TimesInOrder
  <2>4. ASSUME NEW d \in Clients, InTransaction(d)', NEW p \in staged'[d]
        PROVE  /\ p.at <= Cardinality(commits') + 1
               /\ \A q \in commits' : q.cmd.ref = p.cmd.ref => q.at < p.at
    <3>1. d # c /\ InTransaction(d) /\ p \in staged[d]
        BY <1>8, <1>9, <2>4
    <3>2. p.cmd.ref # r.cmd.ref /\ p.at \in Nat
        BY SMTT(60), <1>2, <3>1 DEF ChainInv, LockExclusive, TypeInv, TypeOK, CommitRow
    <3> QED
        BY SMTT(60), <1>1, <1>7, <3>1, <3>2 DEF TimesInOrder
  <2> QED
      BY <2>2, <2>3, <2>4 DEF TimesInOrder
<1>11. BatchesInOrder'
  <2> SUFFICES ASSUME NEW w \in Workers, Delivering(w)', NEW p \in batch'[w], NEW q \in commits',
                      q.cmd.ref = p.cmd.ref, q.to < p.to
               PROVE  (q \in batch[w] \cup sink \cup lostEvents)'
      BY DEF BatchesInOrder
  <2>1. Delivering(w) /\ p \in batch[w] /\ p \in commits
      BY <1>8 DEF Delivering, TypeInv, TypeOK
  <2>2. q # r
      BY SMTT(60), <1>3, <1>4, <1>5, <2>1
  <2> QED
      BY <1>1, <1>8, <2>1, <2>2 DEF BatchesInOrder
<1>12. DeliveredInOrder'
  <2> SUFFICES ASSUME NEW p \in sink', NEW q \in commits', q.cmd.ref = p.cmd.ref, q.to < p.to
               PROVE  q \in sink' \cup lostEvents'
      BY DEF DeliveredInOrder
  <2>1. p \in sink /\ p \in commits
      BY <1>8 DEF TypeInv, TypeOK
  <2>2. q # r
      BY SMTT(60), <1>3, <1>4, <1>5, <2>1
  <2> QED
      BY <1>1, <1>8, <2>1, <2>2 DEF DeliveredInOrder
<1> QED
    BY <1>10, <1>11, <1>12

\* A batch claimed in time order leaves behind only what is acknowledged, lost
\* or later than all of it.
LEMMA OrderClaim ==
    ASSUME TypeInv, DerivedInv, RelayInv, TimesInOrder, BatchesInOrder, DeliveredInOrder,
           MaxSkew = 0, NEW v \in Workers, Claim(v)
    PROVE  BatchesInOrder' /\ DeliveredInOrder'
<1>1. PICK rows \in Earliest(Pending, Limit) : batch' = [batch EXCEPT ![v] = rows]
    BY DEF Claim
<1>2. UNCHANGED <<commits, sink, lostEvents>>
    BY DEF Claim, tables, history
<1>3. DeliveredInOrder'
    BY <1>2 DEF DeliveredInOrder
<1>4. ASSUME NEW w \in Workers, Delivering(w)', NEW r \in batch'[w], NEW q \in commits,
             q.cmd.ref = r.cmd.ref, q.to < r.to
      PROVE  q \in batch'[w] \cup sink \cup lostEvents
  <2>1. CASE w # v
    <3>1. Delivering(w) /\ batch'[w] = batch[w]
        BY <1>1, <1>4, <2>1 DEF Claim, Delivering, TypeInv, TypeOK
    <3> QED
        BY <1>4, <3>1 DEF BatchesInOrder
  <2>2. CASE w = v
    <3>1. batch'[w] = rows /\ r \in rows /\ rows \subseteq Pending
        BY <1>1, <1>4, <2>2 DEF TypeInv, TypeOK, Earliest, AnyUpTo
    <3>2. r \in commits /\ q.at < r.at /\ q.at \in Nat /\ r.at \in Nat
        BY SMTT(60), <1>4, <3>1 DEF Pending, TypeInv, TypeOK, CommitRow, TimesInOrder
    <3>3. q \in Pending => q \in rows
        BY SMTT(60), <3>1, <3>2 DEF Earliest
    <3>4. q \notin outbox => q \in lostEvents
        BY DEF DerivedInv, CommitAtomic, OrphanedOutbox
    <3>5. q \in acknowledged => q \in sink
        BY DEF RelayInv, AcknowledgedDelivered
    <3> QED
        BY <3>1, <3>3, <3>4, <3>5 DEF Pending
  <2> QED
      BY <2>1, <2>2
<1> QED
    BY <1>2, <1>3, <1>4 DEF BatchesInOrder

\* The earliest row of a batch is delivered: what precedes it in its aggregate
\* is earlier, so it is no longer in the batch.
LEMMA OrderDeliver ==
    ASSUME TypeInv, TimesInOrder, BatchesInOrder, DeliveredInOrder, MaxSkew = 0,
           NEW v \in Workers, phase[v] = "delivering", NEW r \in NextEnvelope(v),
           sink' = sink \cup {r}, UNCHANGED <<commits, lostEvents>>,
           \A w \in Workers : Delivering(w)' => Delivering(w) /\ batch[w] \subseteq batch'[w] \cup {r}
                                                 /\ batch'[w] \subseteq batch[w]
    PROVE  BatchesInOrder' /\ DeliveredInOrder'
<1>1. r \in batch[v] /\ r \in commits /\ Delivering(v)
    BY DEF NextEnvelope, TypeInv, TypeOK, Delivering
<1>2. ASSUME NEW q \in commits, q.cmd.ref = r.cmd.ref, q.to < r.to
      PROVE  q \in sink \cup lostEvents
  <2>1. q.at < r.at /\ q.at \in Nat /\ r.at \in Nat
      BY <1>1, <1>2 DEF TimesInOrder, TypeInv, TypeOK, CommitRow
  <2>2. q \notin batch[v]
      BY SMTT(60), <2>1 DEF NextEnvelope
  <2> QED
      BY <1>1, <1>2, <2>2 DEF BatchesInOrder
<1>3. DeliveredInOrder'
    BY <1>2 DEF DeliveredInOrder
<1>4. BatchesInOrder'
    BY DEF BatchesInOrder
<1> QED
    BY <1>3, <1>4

\* The order is kept by every step.
LEMMA OrderStep ==
    TypeInv /\ ChainInv /\ DerivedInv /\ RelayInv /\ OrderInv /\ [Next]_vars => OrderInv'
<1> SUFFICES ASSUME TypeInv, ChainInv, DerivedInv, RelayInv, MaxSkew = 0,
                    TimesInOrder, BatchesInOrder, DeliveredInOrder, [Next]_vars
             PROVE  TimesInOrder' /\ BatchesInOrder' /\ DeliveredInOrder'
    BY DEF OrderInv
<1>1. CASE UNCHANGED vars
    BY <1>1, TimesQuiet, DeliveryQuiet
    DEF vars, tables, clientVars, workerVars, history, InTransaction, Delivering
<1>2. ASSUME NEW c \in Clients, Submit(c)
      PROVE  TimesInOrder' /\ BatchesInOrder' /\ DeliveredInOrder'
  <2>1. PICK cmd \in Command :
           \/ CommitReplayed(c, cmd) \/ CommitConflicting(c, cmd)
           \/ CommitFenced(c, cmd) \/ CommitBegun(c, cmd)
      BY <1>2, CommandsTyped DEF Submit
  <2>2. BatchesInOrder' /\ DeliveredInOrder'
      BY <2>1, DeliveryQuiet
      DEF CommitReplayed, CommitConflicting, CommitFenced, CommitBegun, tables, workerVars,
          history, Delivering
  <2>3. CASE CommitBegun(c, cmd)
      BY <2>2, <2>3, OrderBegun
  <2>4. CASE CommitReplayed(c, cmd) \/ CommitConflicting(c, cmd) \/ CommitFenced(c, cmd)
      BY <2>2, <2>4, TimesQuiet
      DEF CommitReplayed, CommitConflicting, CommitFenced, tables, InTransaction
  <2> QED
      BY <2>1, <2>3, <2>4
<1>3. ASSUME NEW c \in Clients, Proceed(c) \/ ClientCrash(c)
      PROVE  TimesInOrder' /\ BatchesInOrder' /\ DeliveredInOrder'
  <2>1. CASE Commit(c)
      BY <2>1, OrderCommit
  <2>2. CASE \E from, to \in OpenStages : InsertStep(c, from, to)
    <3>1. \A d \in Clients : InTransaction(d)' => InTransaction(d) /\ staged'[d] = staged[d]
        BY <2>2 DEF InsertStep, InTransaction, TypeInv, TypeOK
    <3> QED
        BY <2>2, <3>1, TimesQuiet, DeliveryQuiet
        DEF InsertStep, tables, workerVars, history, Delivering
  <2>3. CASE InsertIdempotencyRefused(c) \/ CommitAnswered(c) \/ ClientCrash(c)
    <3>1. \A d \in Clients : InTransaction(d)' => InTransaction(d) /\ staged'[d] = staged[d]
        BY <2>3 DEF InsertIdempotencyRefused, CommitAnswered, ClientCrash, InTransaction,
                    OpenStages, TypeInv, TypeOK
    <3> QED
        BY <2>3, <3>1, TimesQuiet, DeliveryQuiet
        DEF InsertIdempotencyRefused, CommitAnswered, ClientCrash, tables, workerVars, history,
            Delivering
  <2> QED
      BY <1>3, <2>1, <2>2, <2>3
      DEF Proceed, UpsertAggregate, InsertCommit, InsertIdempotency, InsertOutbox, OpenStages
<1>4. ASSUME NEW w \in Workers, \/ Reconcile(w) \/ Relay(w)
                                \/ DeliverFails(w) \/ WorkerCrash(w) \/ DropSession(w)
      PROVE  TimesInOrder' /\ BatchesInOrder' /\ DeliveredInOrder'
  <2>1. UNCHANGED <<commits, clientVars, lostEvents>>
      BY <1>4 DEF Reconcile, Relay, RecoverySelect, RecoveryFinish, Claim, Deliver, Acknowledge,
                  DeliverFails, WorkerCrash, DropSession, Abandon, tables, history
  <2>2. TimesInOrder'
      BY <2>1, TimesQuiet DEF clientVars, InTransaction
  <2>3. CASE Claim(w)
      BY <2>2, <2>3, OrderClaim
  <2>4. CASE Deliver(w)
    <3>1. PICK r \in NextEnvelope(w) : sink' = sink \cup {r} /\ batch' = [batch EXCEPT ![w] = @ \ {r}]
        BY <2>4 DEF Deliver
    <3>2. \A v \in Workers : Delivering(v)' => Delivering(v) /\ batch[v] \subseteq batch'[v] \cup {r}
                                               /\ batch'[v] \subseteq batch[v]
        BY <2>4, <3>1 DEF Deliver, Delivering, TypeInv, TypeOK
    <3> QED
        BY <2>1, <2>2, <2>4, <3>1, <3>2, OrderDeliver DEF Deliver
  <2>5. CASE DeliverFails(w)
    <3>1. PICK r \in NextEnvelope(w), delivered \in BOOLEAN :
             Abandon(w, IF delivered THEN {r} ELSE {})
        BY <2>5 DEF DeliverFails
    <3>2. \A v \in Workers : Delivering(v)' => Delivering(v) /\ batch'[v] = batch[v]
        BY <3>1 DEF Abandon, Delivering, TypeInv, TypeOK
    <3>3. CASE delivered
      <4>1. sink' = sink \cup {r}
          BY <3>1, <3>3 DEF Abandon
      <4> QED
          BY <2>1, <2>2, <2>5, <3>2, <4>1, OrderDeliver DEF DeliverFails
    <3>4. CASE ~delivered
      <4>1. sink' = sink
          BY <3>1, <3>4 DEF Abandon
      <4> QED
          BY <2>1, <2>2, <3>2, <4>1, DeliveryQuiet
    <3> QED
        BY <3>3, <3>4
  <2>6. CASE Reconcile(w) \/ Acknowledge(w) \/ WorkerCrash(w) \/ DropSession(w)
    <3>1. \A v \in Workers : Delivering(v)' => Delivering(v) /\ batch'[v] = batch[v]
        BY <2>6 DEF Reconcile, RecoverySelect, RecoveryFinish, Acknowledge, WorkerCrash,
                    DropSession, Abandon, Delivering, TypeInv, TypeOK
    <3>2. sink' = sink
        BY <2>6 DEF Reconcile, RecoverySelect, RecoveryFinish, Acknowledge, WorkerCrash,
                    DropSession, Abandon
    <3> QED
        BY <2>1, <2>2, <3>1, <3>2, DeliveryQuiet
  <2> QED
      BY <1>4, <2>3, <2>4, <2>5, <2>6 DEF Relay
<1>5. ASSUME NEW r \in commits, LoseBinding(r) \/ LoseEvent(r)
      PROVE  TimesInOrder' /\ BatchesInOrder' /\ DeliveredInOrder'
    BY <1>5, TimesQuiet, DeliveryQuiet
    DEF LoseBinding, LoseEvent, clientVars, workerVars, InTransaction, Delivering
<1> QED
    BY <1>1, <1>2, <1>3, <1>4, <1>5 DEF Next

\* With synchronised clocks, the sink sees the revisions of every aggregate in
\* order, save across a lost outbox row: for any limit of the batches and any
\* number of relays, crashes, redeliveries and lost sessions.
THEOREM DeliveriesInOrder == Spec => []DeliveredInOrder
<1>1. OrderInv => DeliveredInOrder
    BY DEF OrderInv, DeliveredInOrder
<1>2. Spec => []OrderInv
    BY OrderInit, OrderStep, DerivedInvariant, RelayInvariant, PTL DEF Spec
<1> QED
    BY <1>1, <1>2, PTL

-------------------------------------------------------------------------------
(* The abstract log *)

\* Clients send commands of the bounded set.
Requested == \A c \in Clients : request[c] \subseteq Commands

\* Every request is one of the commands.
LEMMA RequestedStep == TypeInv /\ Requested /\ [Next]_vars => Requested'
<1> SUFFICES ASSUME TypeInv, Requested, [Next]_vars PROVE Requested'
    OBVIOUS
<1>1. ASSUME NEW c \in Clients, Submit(c)
      PROVE  Requested'
    BY SMTT(60), <1>1
    DEF Submit, CommitReplayed, CommitConflicting, CommitFenced, CommitBegun, AnswerWith,
                Requested, TypeInv, TypeOK
<1>2. ASSUME NEW c \in Clients, Proceed(c) \/ ClientCrash(c)
      PROVE  UNCHANGED request
    BY <1>2 DEF Proceed, ClientCrash, UpsertAggregate, InsertCommit, InsertIdempotency,
                InsertIdempotencyRefused, InsertOutbox, InsertStep, Commit, CommitAnswered
<1>3. ASSUME NEW w \in Workers, \/ Reconcile(w) \/ Relay(w)
                                \/ DeliverFails(w) \/ WorkerCrash(w) \/ DropSession(w)
      PROVE  UNCHANGED request
    BY <1>3 DEF Reconcile, Relay, RecoverySelect, RecoveryFinish, Claim, Deliver, Acknowledge,
                DeliverFails, WorkerCrash, DropSession, Abandon, clientVars
<1>4. ASSUME NEW r \in commits, LoseBinding(r) \/ LoseEvent(r)
      PROVE  UNCHANGED request
    BY <1>4 DEF LoseBinding, LoseEvent, clientVars
<1>5. CASE UNCHANGED vars
    BY <1>5 DEF vars, clientVars, Requested
<1> QED
    BY <1>1, <1>2, <1>3, <1>4, <1>5 DEF Next, Requested

\* The command at a revision of an aggregate is that of its one commit row.
LEMMA CommandOfRow ==
    ASSUME TypeInv, RevisionChain, NEW r \in commits
    PROVE  /\ r.cmd.ref \in Aggregates /\ r.to \in 1..aggregate[r.cmd.ref].revision
           /\ CommandAt(r.cmd.ref, r.to) = r.cmd
<1>1. r.cmd.ref \in Aggregates /\ r \in RowsOf(r.cmd.ref)
    BY DEF TypeInv, TypeOK, CommitRow, Command, RowsOf
<1>2. \A q \in commits : q.cmd.ref = r.cmd.ref /\ q.to = r.to => q = r
    BY <1>1 DEF RevisionChain, RowsOf
<1>3. (CHOOSE q \in commits : q.cmd.ref = r.cmd.ref /\ q.to = r.to) = r
    BY <1>2
<1> QED
    BY <1>1, <1>3 DEF RevisionChain, CommandAt

\* The log of an aggregate is a sequence of commands, as long as its revision.
LEMMA LogTyped ==
    ASSUME TypeInv, RevisionChain, NEW a \in Aggregates
    PROVE  /\ Log[a] \in Seq(Command) /\ Len(Log[a]) = aggregate[a].revision
           /\ DOMAIN Log[a] = 1..aggregate[a].revision
<1>1. aggregate[a].revision \in Nat
    BY DEF TypeInv, TypeOK
<1>2. \A n \in 1..aggregate[a].revision : CommandAt(a, n) \in Command
  <2> TAKE n \in 1..aggregate[a].revision
  <2>1. PICK r \in RowsOf(a) : r.to = n
      BY DEF RevisionChain
  <2>2. r \in commits /\ r.cmd.ref = a /\ r.cmd \in Command
      BY DEF RowsOf, TypeInv, TypeOK, CommitRow
  <2> QED
      BY <2>1, <2>2, CommandOfRow
<1>3. Log[a] = [n \in 1..aggregate[a].revision |-> CommandAt(a, n)]
    BY DEF Log
<1>4. Log[a] \in [1..aggregate[a].revision -> Command]
    BY <1>2, <1>3
<1> QED
    BY SMTT(60), <1>1, <1>3, <1>4

\* Before the first commit every log is empty.
LEMMA CanonicalInit == Init => Canonical!Init
<1> SUFFICES ASSUME Init PROVE Canonical!Init
    OBVIOUS
<1>1. \A a \in Aggregates : Log[a] = <<>>
  <2> TAKE a \in Aggregates
  <2>1. Log[a] = [n \in 1..0 |-> CommandAt(a, n)]
      BY DEF Log, Init
  <2> QED
      BY SMTT(60), <2>1
<1>2. Log = [a \in Aggregates |-> <<>>]
    BY <1>1 DEF Log
<1> QED
    BY <1>2 DEF Init, Canonical!Init, EntriesOf

\* A step that leaves aggregates and commits alone leaves the log alone.
LEMMA LogUnchanged == UNCHANGED <<aggregate, commits>> => UNCHANGED Log
BY SMTT(60) DEF Log, CommandAt

\* An entry of the log is what a commit row stands for.
LEMMA EntryInLog ==
    ASSUME TypeInv, RevisionChain, NEW r \in commits
    PROVE  r.cmd.ref \in Aggregates /\ r.to \in DOMAIN Log[r.cmd.ref]
           /\ r.to \in 1..Len(Log[r.cmd.ref])
BY CommandOfRow, LogTyped

\* A COMMIT appends its command to the log of its aggregate.
LEMMA CanonicalCommit ==
    ASSUME TypeInv, ChainInv, TypeInv', ChainInv', Requested, NEW c \in Clients, Commit(c)
    PROVE  Canonical!Next
<1>1. PICK r \in staged[c] :
        /\ aggregate' = [aggregate EXCEPT ![r.cmd.ref] = [revision |-> r.to, state |-> r.state]]
        /\ commits' = commits \cup {r}
    BY DEF Commit, CommitTables
<1> DEFINE b == r.cmd.ref
<1>2. InTransaction(c)
    BY DEF Commit, InTransaction, OpenStages
<1>3. b \in Aggregates /\ r.cmd \in Commands /\ r.cmd \in Command
    BY SMTT(60) DEF ChainInv, StagedOne, Requested, TypeInv, TypeOK, CommitRow, Command
<1>n. PICK n \in Nat : n = aggregate[b].revision
    BY <1>3 DEF TypeInv, TypeOK
<1>4. r.cmd.expected = n /\ r.to = n + 1
    BY <1>2, <1>n DEF ChainInv, StagedExtends
<1>5. aggregate'[b].revision = n + 1 /\ \A a \in Aggregates \ {b} : aggregate'[a] = aggregate[a]
    BY <1>1, <1>3, <1>4, <1>n DEF TypeInv, TypeOK
<1>6. \A q \in commits : CommandAt(q.cmd.ref, q.to)' = CommandAt(q.cmd.ref, q.to)
  <2> TAKE q \in commits
  <2>1. CommandAt(q.cmd.ref, q.to) = q.cmd
      BY CommandOfRow DEF ChainInv
  <2>2. (\A p \in commits : CommandAt(p.cmd.ref, p.to) = p.cmd)'
    <3> SUFFICES ASSUME NEW p \in commits' PROVE CommandAt(p.cmd.ref, p.to)' = p.cmd
        OBVIOUS
    <3>1. \A s \in commits' : s.cmd.ref = p.cmd.ref /\ s.to = p.to => s = p
        BY SMTT(60) DEF ChainInv, RevisionChain, RowsOf, TypeInv, TypeOK, CommitRow, Command
    <3> QED
        BY <3>1 DEF CommandAt
  <2> QED
      BY <1>1, <2>1, <2>2
<1>7. CommandAt(b, n + 1)' = r.cmd
  <2>1. \A s \in commits' : s.cmd.ref = b /\ s.to = n + 1 => s = r
      BY SMTT(60), <1>1, <1>3, <1>4 DEF ChainInv, RevisionChain, RowsOf
  <2> QED
      BY SMTT(60), <1>1, <1>4, <2>1 DEF CommandAt
<1>8. ASSUME NEW a \in Aggregates, NEW m \in 1..aggregate[a].revision
      PROVE  CommandAt(a, m)' = CommandAt(a, m)
  <2>1. PICK q \in RowsOf(a) : q.to = m
      BY DEF ChainInv, RevisionChain
  <2> QED
      BY <1>6, <2>1 DEF RowsOf
<1>9. \A a \in Aggregates \ {b} : Log'[a] = Log[a]
    BY <1>5, <1>8 DEF Log
<1>10. Log[b] \in Seq(Command) /\ Len(Log[b]) = n
    BY SMTT(60), <1>3, <1>n, LogTyped DEF ChainInv
<1>11. Log'[b] = Append(Log[b], r.cmd)
  <2>1. Log'[b] = [m \in 1..(n + 1) |-> CommandAt(b, m)']
      BY <1>3, <1>5 DEF Log
  <2>2. \A m \in 1..n : CommandAt(b, m)' = Log[b][m]
      BY <1>3, <1>8, <1>n DEF Log
  <2>3. Append(Log[b], r.cmd) = [m \in 1..(n + 1) |-> IF m \in 1..n THEN Log[b][m] ELSE r.cmd]
      BY SMTT(60), <1>3, <1>10
  <2> QED
      BY SMTT(60), <1>3, <1>7, <2>1, <2>2, <2>3
<1>12. Log' = [Log EXCEPT ![b] = Append(@, r.cmd)]
    BY <1>3, <1>9, <1>11 DEF Log
<1>13. UNCHANGED <<EntriesOf(receipts), EntriesOf(sink)>>
    BY DEF Commit, workerVars, EntriesOf
<1> QED
    BY <1>3, <1>4, <1>10, <1>12, <1>13 DEF Canonical!Next, Canonical!Append1

\* A caller that gets a receipt, and a sink that gets an event, learn of an
\* entry of the log.
LEMMA CanonicalEntry ==
    ASSUME TypeInv, ChainInv, NEW r \in commits, UNCHANGED <<aggregate, commits>>,
           \/ receipts' = receipts \cup {r} /\ UNCHANGED sink
           \/ sink' = sink \cup {r} /\ UNCHANGED receipts
    PROVE  Canonical!Next
<1>1. r.cmd.ref \in Aggregates /\ r.to \in DOMAIN Log[r.cmd.ref] /\ r.to \in 1..Len(Log[r.cmd.ref])
    BY EntryInLog DEF ChainInv
<1>2. UNCHANGED Log
    BY LogUnchanged
<1>3. CASE receipts' = receipts \cup {r} /\ UNCHANGED sink
  <2>1. EntriesOf(receipts)' = EntriesOf(receipts) \cup {<<r.cmd.ref, r.to>>}
      BY <1>3 DEF EntriesOf
  <2>2. UNCHANGED EntriesOf(sink)
      BY <1>3 DEF EntriesOf
  <2> QED
      BY <1>1, <1>2, <2>1, <2>2 DEF Canonical!Next, Canonical!Receipt, Canonical!InLog
<1>4. CASE sink' = sink \cup {r} /\ UNCHANGED receipts
  <2>1. EntriesOf(sink)' = EntriesOf(sink) \cup {<<r.cmd.ref, r.to>>}
      BY <1>4 DEF EntriesOf
  <2>2. UNCHANGED EntriesOf(receipts)
      BY <1>4 DEF EntriesOf
  <2> QED
      BY <1>1, <1>2, <2>1, <2>2 DEF Canonical!Next, Canonical!Publish, Canonical!InLog
<1> QED
    BY <1>3, <1>4

\* Every step of C3 is a step of the abstract log or leaves it alone.
LEMMA CanonicalStep ==
    ASSUME TypeInv, ChainInv, TypeInv', ChainInv', Requested, [Next]_vars
    PROVE  [Canonical!Next]_<<Log, EntriesOf(receipts), EntriesOf(sink)>>
<1>1. ASSUME UNCHANGED <<aggregate, commits, receipts, sink>>
      PROVE  UNCHANGED <<Log, EntriesOf(receipts), EntriesOf(sink)>>
    BY <1>1, LogUnchanged DEF EntriesOf
<1>2. ASSUME NEW c \in Clients, Submit(c)
      PROVE  \/ UNCHANGED <<aggregate, commits, receipts, sink>>
             \/ Canonical!Next
  <2>1. PICK cmd \in Commands :
           \/ CommitReplayed(c, cmd) \/ CommitConflicting(c, cmd)
           \/ CommitFenced(c, cmd) \/ CommitBegun(c, cmd)
      BY <1>2 DEF Submit
  <2>2. CASE CommitReplayed(c, cmd)
    <3>1. PICK r \in Bound(cmd) : receipts' = receipts \cup {r}
        BY <2>2 DEF CommitReplayed
    <3>2. r \in commits
        BY DEF Bound, TypeInv, TypeOK
    <3> QED
        BY <2>2, <3>1, <3>2, CanonicalEntry DEF CommitReplayed, tables, workerVars
  <2>3. CASE CommitConflicting(c, cmd) \/ CommitFenced(c, cmd) \/ CommitBegun(c, cmd)
      BY <2>3 DEF CommitConflicting, CommitFenced, CommitBegun, tables, workerVars
  <2> QED
      BY <2>1, <2>2, <2>3
<1>3. ASSUME NEW c \in Clients, Proceed(c) \/ ClientCrash(c)
      PROVE  \/ UNCHANGED <<aggregate, commits, receipts, sink>>
             \/ Canonical!Next
  <2>1. CASE Commit(c)
      BY <2>1, CanonicalCommit
  <2>2. CASE CommitAnswered(c)
    <3>1. PICK r \in staged[c] : TRUE
        BY <2>2 DEF CommitAnswered, TypeInv, TypeOK
    <3>2. staged[c] = {r} /\ r \in commits
        BY <2>2 DEF CommitAnswered, ChainInv, StagedOne, StagedDurable
    <3>3. receipts' = receipts \cup {r} /\ UNCHANGED <<aggregate, commits, sink>>
        BY <2>2, <3>2 DEF CommitAnswered, tables, workerVars
    <3> QED
        BY <3>2, <3>3, CanonicalEntry
  <2>3. CASE ~Commit(c) /\ ~CommitAnswered(c)
      BY <1>3, <2>3 DEF Proceed, ClientCrash, UpsertAggregate, InsertCommit, InsertIdempotency,
                        InsertIdempotencyRefused, InsertOutbox, InsertStep, tables, workerVars
  <2> QED
      BY <2>1, <2>2, <2>3
<1>4. ASSUME NEW w \in Workers, \/ Reconcile(w) \/ Relay(w)
                                \/ DeliverFails(w) \/ WorkerCrash(w) \/ DropSession(w)
      PROVE  \/ UNCHANGED <<aggregate, commits, receipts, sink>>
             \/ Canonical!Next
  <2>1. UNCHANGED <<aggregate, commits, receipts>>
      BY <1>4 DEF Reconcile, Relay, RecoverySelect, RecoveryFinish, Claim, Deliver, Acknowledge,
                  DeliverFails, WorkerCrash, DropSession, Abandon, tables, clientVars
  <2>2. sink' = sink \/ \E r \in NextEnvelope(w) : sink' = sink \cup {r}
      BY <1>4 DEF Reconcile, Relay, RecoverySelect, RecoveryFinish, Claim, Deliver, Acknowledge,
                  DeliverFails, WorkerCrash, DropSession, Abandon
  <2>3. NextEnvelope(w) \subseteq commits
      BY DEF NextEnvelope, TypeInv, TypeOK
  <2> QED
      BY <2>1, <2>2, <2>3, CanonicalEntry
<1>5. ASSUME NEW r \in commits, LoseBinding(r) \/ LoseEvent(r)
      PROVE  UNCHANGED <<aggregate, commits, receipts, sink>>
    BY <1>5 DEF LoseBinding, LoseEvent, clientVars, workerVars
<1>6. CASE UNCHANGED vars
    BY <1>1, <1>6 DEF vars, tables, clientVars, workerVars
<1> QED
    BY <1>1, <1>2, <1>3, <1>4, <1>5, <1>6 DEF Next

\* The PostgreSQL tables, transactions, replays, crashes, lost rows, recovery
\* passes and redeliveries implement the abstract log of the C3 ports, for any
\* aggregates, clients, workers, limits, clocks and faults.
THEOREM PostgresImplementsCanonical == Spec => ImplementsCanonical
<1>1. Init => Requested
    BY DEF Init, Requested
<1>2. Spec => []Requested
    BY <1>1, RequestedStep, ChainInvariant, PTL DEF Spec
<1>3. TypeInv /\ ChainInv /\ TypeInv' /\ ChainInv' /\ Requested /\ [Next]_vars =>
        [Canonical!Next]_<<Log, EntriesOf(receipts), EntriesOf(sink)>>
    BY CanonicalStep
<1> QED
    BY <1>2, <1>3, CanonicalInit, ChainInvariant, PTL
    DEF Spec, ImplementsCanonical, Canonical!Spec

===============================================================================
