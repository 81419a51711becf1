--------------------------- MODULE C3FallbackOutbox ---------------------------
(***************************************************************************)
(* The PostgreSQL transactional outbox kept as a fallback for C3, and its  *)
(* reconciler (fallback/postgres_outbox.py).                               *)
(*                                                                         *)
(* write is one READ COMMITTED transaction.  SELECT ... FOR UPDATE locks   *)
(* the aggregate's row only when there is one, so two first writes of an   *)
(* aggregate both pass the version check; the upsert of the second waits   *)
(* for the first to commit and then updates no row, without an error.      *)
(* The inserts and the COMMIT are one step: their uniqueness is decided    *)
(* against committed rows and a transaction that dies leaves nothing.      *)
(***************************************************************************)
EXTENDS Naturals, FiniteSets

CONSTANTS
    OutboxRefs,     \* aggregate ids
    Writes,         \* write requests: [ref, key, expected, document]
    OutboxWriters,  \* processes calling write
    Reconcilers,    \* processes calling reconcile_once
    OutboxLimit,    \* the limit argument of reconcile_once
    OutboxFaults    \* bound: dead transactions and lost outbox rows

VARIABLES
    rows,           \* ocor_aggregates: version (0 without a row) and document
    events,         \* ocor_outbox
    intents,        \* ocor_reconciliation_queue
    tx,             \* the open transaction of each writer
    repair,         \* the open transaction of each reconciler
    lost,           \* history: events deleted behind the adapter's back
    outboxFaults

outboxVars == <<rows, events, intents, tx, repair, lost, outboxFaults>>

NoTx == [at |-> "none"]

OutboxInit ==
    /\ rows = [a \in OutboxRefs |-> [version |-> 0, document |-> "none"]]
    /\ events = {} /\ intents = {} /\ lost = {}
    /\ tx = [w \in OutboxWriters |-> NoTx]
    /\ repair = [r \in Reconcilers |-> {}]
    /\ outboxFaults = 0

EndTx(w) == tx' = [tx EXCEPT ![w] = NoTx]

\* The transaction of w holds the lock of the aggregate's row.
Locks(w, ref) == tx[w].at # "none" /\ tx[w].req.ref = ref /\ tx[w].locked

RowFree(w, ref) == \A v \in OutboxWriters \ {w} : ~Locks(v, ref)

\* The look-up of the idempotency key: a replay or a conflict ends the call.
BeginWrite(w, req) ==
    /\ tx[w].at = "none"
    /\ \A e \in events : e.key # <<"client", req.key>>
    /\ tx' = [tx EXCEPT ![w] = [at |-> "begun", req |-> req, locked |-> FALSE]]
    /\ UNCHANGED <<rows, events, intents, repair, lost, outboxFaults>>

\* SELECT version ... FOR UPDATE and the version check.
LockVersion(w) ==
    /\ tx[w].at = "begun"
    /\ LET ref == tx[w].req.ref IN
       /\ RowFree(w, ref) \/ rows[ref].version = 0
       /\ IF rows[ref].version # tx[w].req.expected
          THEN EndTx(w)
          ELSE tx' = [tx EXCEPT ![w].at = "checked", ![w].locked = rows[ref].version # 0]
    /\ UNCHANGED <<rows, events, intents, repair, lost, outboxFaults>>

\* INSERT ... ON CONFLICT DO UPDATE ... WHERE version = expected, holding the
\* row from here on.
Upsert(w) ==
    /\ tx[w].at = "checked"
    /\ RowFree(w, tx[w].req.ref)
    /\ tx' = [tx EXCEPT ![w].at = "upserted", ![w].locked = TRUE]
    /\ UNCHANGED <<rows, events, intents, repair, lost, outboxFaults>>

\* Mutant: the outbox has no UNIQUE (aggregate_id, aggregate_version).
KeyUnique(event) == \A e \in events : e.key # event.key /\ e.id # event.id

\* The uniqueness constraints of ocor_outbox.
OutboxUnique(event) ==
    \A e \in events :
      e.key # event.key /\ e.id # event.id /\ <<e.ref, e.version>> # <<event.ref, event.version>>

\* The outbox and queue inserts and the COMMIT; a violated constraint rolls back.
InsertAndCommit(w) ==
    LET req == tx[w].req
        event == [id |-> <<req.ref, req.key, req.document>>, ref |-> req.ref,
                  version |-> req.expected + 1, key |-> <<"client", req.key>>,
                  document |-> req.document]
    IN
    /\ tx[w].at = "upserted"
    /\ IF OutboxUnique(event)
       THEN /\ events' = events \cup {event}
            /\ intents' = intents \cup {[tx |-> <<event.id, event.version, Cardinality(intents)>>,
                                         event |-> event.id, ref |-> req.ref,
                                         version |-> event.version, reconciled |-> FALSE]}
            /\ rows' = IF rows[req.ref].version = req.expected
                       THEN [rows EXCEPT ![req.ref] = [version |-> event.version,
                                                       document |-> req.document]]
                       ELSE rows
       ELSE UNCHANGED <<rows, events, intents>>
    /\ EndTx(w)
    /\ UNCHANGED <<repair, lost, outboxFaults>>

\* The process or its connection dies: PostgreSQL rolls back.
WriteDies(w) ==
    /\ tx[w].at # "none"
    /\ outboxFaults < OutboxFaults
    /\ outboxFaults' = outboxFaults + 1
    /\ EndTx(w)
    /\ UNCHANGED <<rows, events, intents, repair, lost>>

Announced(i) == \E e \in events : e.id = i.event

\* The reconciler's SELECT ... FOR UPDATE OF q SKIP LOCKED LIMIT.
SelectMissing(r) ==
    LET held == UNION {{x.intent : x \in repair[o]} : o \in Reconcilers}
        missing == {i \in intents \ held : ~i.reconciled /\ ~Announced(i)}
    IN
    /\ repair[r] = {}
    /\ missing # {}
    /\ \E chosen \in SUBSET missing :
         /\ Cardinality(chosen) = IF Cardinality(missing) < OutboxLimit
                                  THEN Cardinality(missing) ELSE OutboxLimit
         /\ repair' = [repair EXCEPT ![r] =
                         {[intent |-> i, document |-> rows[i.ref].document] : i \in chosen}]
    /\ UNCHANGED <<rows, events, intents, tx, lost, outboxFaults>>

Marked(i, announced) == [i EXCEPT !.reconciled = @ \/ i.event \in announced]

\* The inserts (ON CONFLICT (event_id) DO NOTHING), the marking of every
\* announced intent, and the COMMIT; another violated constraint rolls back.
InsertRepairs(r) ==
    LET absent == {x \in repair[r] : ~Announced(x.intent)}
        new == {[id |-> x.intent.event, ref |-> x.intent.ref, version |-> x.intent.version,
                 key |-> <<"reconciled", x.intent.tx>>, document |-> x.document] : x \in absent}
    IN
    /\ IF \A e \in new : OutboxUnique(e)
       THEN /\ events' = events \cup new
            /\ intents' = {Marked(i, {e.id : e \in events'}) : i \in intents}
       ELSE UNCHANGED <<events, intents>>
    /\ repair' = [repair EXCEPT ![r] = {}]
    /\ UNCHANGED <<rows, tx, lost, outboxFaults>>

\* An outbox row disappears (test_postgres_outbox_live.py deletes one).
EventLost ==
    /\ outboxFaults < OutboxFaults
    /\ outboxFaults' = outboxFaults + 1
    /\ \E e \in events : events' = events \ {e} /\ lost' = lost \cup {e}
    /\ UNCHANGED <<rows, intents, tx, repair>>

OutboxNext ==
    \/ \E w \in OutboxWriters :
         \/ \E req \in Writes : BeginWrite(w, req)
         \/ LockVersion(w) \/ Upsert(w) \/ InsertAndCommit(w) \/ WriteDies(w)
    \/ \E r \in Reconcilers : SelectMissing(r) \/ InsertRepairs(r)
    \/ EventLost

-------------------------------------------------------------------------------
(* What the outbox promises *)

\* Whichever writers race, the aggregate, the outbox and the queue tell one
\* story: each version up to the current one has exactly one intent and exactly
\* one event, and the newest event carries the stored document (write; module
\* docstring: "committed by one database transaction").  An aggregate that lost
\* an event is excepted: nothing but the UNIQUE constraint on that row stops the
\* second of two racing first writes.
OutboxConsistent ==
    \A a \in OutboxRefs :
      LET of(S) == {x \in S : x.ref = a} IN
      of(lost) = {} =>
        /\ {e.version : e \in of(events)} = 1..rows[a].version
        /\ Cardinality(of(events)) = rows[a].version
        /\ {i.event : i \in of(intents)} = {e.id : e \in of(events)}
        /\ \A e \in of(events) : e.version = rows[a].version => e.document = rows[a].document
===============================================================================
