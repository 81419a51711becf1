-------------------------- MODULE MCMemoryLifecycle --------------------------
(* What is kept and what is deleted of the memory plane, for TLC: lifecycle    *)
(* and deletion sagas, and the commits and sweeps of the stores.  They share   *)
(* no state, so a behaviour follows one of them.                               *)
EXTENDS MemoryLifecycle, MemoryStores, TLC

CONSTANTS a, b, text

\* Two items with the same payload.
OneObject == [i \in {a, b} |-> "payload"]

R(id, kind, item, version, target) ==
    [id |-> <<id>>, kind |-> kind, item |-> item, version |-> version, target |-> target]

Asked ==
    {R("forget a", "delete", a, 0, "DELETION_PENDING"),
     R("hold b", "transition", b, 1, "LEGAL_HOLD"),
     R("restore b", "transition", b, 2, "ACTIVE")}

\* a can be forgotten twice; b is admitted twice.
Lengths == (a :> 5 @@ b :> 3)
Admissions == (a :> 1 @@ b :> 2)

Ordered == {[id |-> "retention", kind |-> "retention"], [id |-> "expiry", kind |-> "expiry"]}

MCRecords == {<<a, 1>>, <<a, 2>>, <<b, 1>>}
MCPartitionOf == a :> 1 @@ b :> 1
\* Two items share a payload.
MCPayloadOf == <<a, 1>> :> 1 @@ <<a, 2>> :> 2 @@ <<b, 1>> :> 1
MCKindsOf == <<a, 1>> :> {text} @@ <<a, 2>> :> {} @@ <<b, 1>> :> {}

VARIABLE focus

MCInit == focus \in {"lifecycle", "stores"} /\ Init /\ StoreInit

MCNext ==
    /\ UNCHANGED focus
    /\ \/ focus = "lifecycle" /\ Next /\ UNCHANGED storeVars
       \/ focus = "stores" /\ StoreNext /\ UNCHANGED vars

MCSpec == MCInit /\ [][MCNext]_<<focus, vars, storeVars>>

\* The fairness of each component, for the behaviours that follow it.
MCFairSpec ==
    /\ MCSpec
    /\ \A p \in Processes : WF_vars(focus = "lifecycle" /\ Works(p))
    /\ \A r \in Deletions :
         SF_vars(focus = "lifecycle" /\ \E c \in Coordinators : Replay(c, r))
    /\ \A v \in StoreWriters : WF_storeVars(focus = "stores" /\ Commits(v))
    /\ \A v \in Records : WF_storeVars(focus = "stores" /\ GraceElapses(v))
    /\ WF_storeVars(focus = "stores" /\ Passes)
    /\ \A p \in Partitions : WF_storeVars(focus = "stores" /\ BeginPass(p))
===============================================================================
