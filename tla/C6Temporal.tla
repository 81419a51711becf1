------------------------------ MODULE C6Temporal ------------------------------
(***************************************************************************)
(* TemporalLeaseState (c6/temporal_adapter.py) over LeaseStateWorkflow     *)
(* (c6/temporal_workflows.py): the lease port as updates of one workflow.  *)
(*                                                                         *)
(* A call reads the clock, sends an update and waits.  The server keeps    *)
(* the update until a worker handles it; the caller may give up before,    *)
(* which does not withdraw it.  Workers stop and start; the workflow's     *)
(* state is rebuilt from its history, and is carried over when the         *)
(* history rolls over.  A cancellation is ignored; a termination ends the  *)
(* scope, which can be neither attached to nor created again while the     *)
(* server retains it.                                                      *)
(***************************************************************************)
EXTENDS C6LeasePort

VARIABLES
    request,    \* call -> the update the server holds for it
    worker,     \* a worker polls the task queue
    status      \* the workflow's status

temporal == <<request, worker, status>>
tvars == <<vars, temporal>>

TInit ==
    /\ Init
    /\ request = [c \in Calls |-> {}]
    /\ worker = TRUE
    /\ status = "RUNNING"

Handling == worker /\ status = "RUNNING"

\* The caller's side of consume_if_current: now is read before the update is
\* sent; a clock that fails ends the call.
Send(c, l) ==
    /\ reply[c] = "open" /\ request[c] = {} /\ decision[c] = "none"
    /\ status = "RUNNING"
    /\ request' = [request EXCEPT ![c] = {[lease |-> l, now |-> clock]}]
    /\ UNCHANGED <<vars, worker, status>>

\* The workflow handles the update with the instant it carries.
Handle(c) ==
    /\ Handling
    /\ \E r \in request[c] : consume_if_current(c, r.lease, r.now)
    /\ request' = [request EXCEPT ![c] = {}]
    /\ UNCHANGED <<worker, status>>

\* _run: a timeout, a lost answer or a failure of the clock or the server; the
\* update stays where it is.
GiveUp(c) == NotTold(c) /\ UNCHANGED temporal

Answer(c) == Told(c) /\ UNCHANGED temporal

\* set_stop_epoch, set_fencing_token, revoke: their validators and handlers.
Update == Handling /\ Authorities /\ UNCHANGED temporal

\* The durable state in the arguments of the next run of the workflow.
Snapshot == [stop_epoch |-> stop_epoch, tokens |-> tokens, revoked |-> revoked, consumed |-> consumed,
             attempts |-> decision]

\* Mutant: the consumptions are left behind.
SnapshotUnconsumed == [Snapshot EXCEPT !.consumed = [l \in Leases |-> NoCall]]

\* The snapshot a workflow continues from.
Carried == Snapshot

\* run: the history rolls over into a new run of the same workflow.
ContinueAsNew ==
    /\ Handling
    /\ stop_epoch' = Carried.stop_epoch /\ tokens' = Carried.tokens
    /\ revoked' = Carried.revoked /\ consumed' = Carried.consumed
    /\ decision' = Carried.attempts
    /\ UNCHANGED <<clock, reply, consumedAt, temporal>>

WorkerMoves ==
    /\ worker' = ~worker
    /\ UNCHANGED <<vars, request, status>>

\* terminate_workflow: updates that were not handled are lost.
Terminate ==
    /\ status = "RUNNING"
    /\ status' = "TERMINATED"
    /\ request' = [c \in Calls |-> {}]
    /\ UNCHANGED <<vars, worker>>

TNext ==
    \/ Ticks /\ UNCHANGED temporal
    \/ Update \/ ContinueAsNew \/ WorkerMoves \/ Terminate
    \/ \E c \in Calls :
         \/ \E l \in Leases : Send(c, l)
         \/ Handle(c) \/ GiveUp(c) \/ Answer(c)

TSpec == TInit /\ [][TNext]_tvars

-------------------------------------------------------------------------------

\* Every variable has its type.
TTypeOK ==
    /\ TypeOK
    /\ request \in [Calls -> SUBSET [lease : Leases, now : Nat]]
    /\ worker \in BOOLEAN
    /\ status \in {"RUNNING", "TERMINATED"}

\* The adapter is an implementation of the port: whatever is lost, delayed,
\* restarted or rolled over, callers and state behave as with one atomic step
\* per call, evaluated at an instant no later than the clock.
Implements == Spec
===============================================================================
