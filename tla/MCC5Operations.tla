---------------------------- MODULE MCC5Operations ----------------------------
(* C5 for TLC: threads use the backbone directly, with envelopes of every     *)
(* kind, or through the coordinator, with two that get in each other's way;   *)
(* or an action runs through its state machine.  The action shares no state   *)
(* with the others, so a behaviour follows one of the three.                  *)
EXTENDS C5Operations, C5Actions, TLC

CONSTANTS t1, t2, n1, n2, DirectFaults, x1, x2, r1, k1, k2, i1, i2, i3, i4, i5

E(id, formed, known, context, key, sequence) ==
    [id |-> id, wellFormed |-> formed, registered |-> known, context |-> context,
     ref |-> r1, key |-> key, sequence |-> sequence]

\* Two sequences of one stream: published in the wrong order the first is
\* rejected until the journal is rebuilt, and for ever after.
Stream == {E(i1, TRUE, TRUE, x1, k1, 1), E(i2, TRUE, TRUE, x1, k2, 2)}
\* And the first key in another context, in an envelope the journal's reader
\* rejects, and one of each kind publish rejects before the lock.
Colliding ==
    Stream \cup {E(i3, FALSE, TRUE, x2, k1, 1), E(i4, TRUE, FALSE, x1, k2, 1),
                 E(i5, FALSE, TRUE, NoContext, k2, 1)}

MCWindows == {[not_before |-> 0, expires_at |-> NoEnd], [not_before |-> 1, expires_at |-> 2],
              [not_before |-> 0, expires_at |-> 2]}

\* Two publishes meet on one tenant's quota, or publish one event for two.
MCTenantsOf == t1 :> {n1} @@ t2 :> {n1, n2}

VARIABLE focus

MCInit ==
    /\ focus \in {"direct", "coordinated", "action"} /\ OpsInit /\ ActionInit
    /\ focus # "action" => action.window.not_before = 1
MCNext ==
    /\ \/ focus = "direct" /\ Next /\ faults' <= DirectFaults /\ UNCHANGED <<ops, action>>
       \/ focus = "coordinated" /\ OpsNext /\ UNCHANGED action
       \/ focus = "action" /\ ActionNext /\ UNCHANGED opsVars
    /\ UNCHANGED focus
MCSpec == MCInit /\ [][MCNext]_<<opsVars, action, focus>>

MCFairSpec ==
    /\ MCSpec
    /\ \A t \in Threads : SF_vars(Acquire(t)) /\ WF_vars(Holding(t))
===============================================================================
