------------------------------ MODULE C6LeasePort ------------------------------
(***************************************************************************)
(* LeaseStatePort and LeaseConsumptionLedger of kernel/governance.py: the  *)
(* one atomic step in which a one-shot lease is found current and is       *)
(* consumed, and the answer a caller gets of it.                           *)
(*                                                                         *)
(* InMemorySpec is InMemoryLeaseState, which reads the clock under its     *)
(* lock.  Spec is what every adapter of the port owes its callers: the     *)
(* instant it evaluates may be one the caller read earlier.                *)
(*                                                                         *)
(* A lease is immutable: its window, stop epoch, fencing token and action  *)
(* are constants.  A call is used once and stands for the pair of action   *)
(* and emission attempt that consumption records.  A call whose signature, *)
(* bindings or expected epoch and token the ledger refuses changes nothing *)
(* and is not a step.                                                      *)
(***************************************************************************)
EXTENDS Naturals

CONSTANTS
    Leases, Calls, ActionIds,
    NoCall,
    ActionOf,           \* action_instance_id of a lease
    Issued, Expires,    \* its window
    EpochOf, TokenOf,   \* its stop_epoch and fencing_token
    MaxTime, MaxEpoch, MaxToken   \* bounds

ASSUME LeaseAssumption ==
    /\ ActionOf \in [Leases -> ActionIds]
    /\ Issued \in [Leases -> Nat] /\ Expires \in [Leases -> Nat]
    /\ EpochOf \in [Leases -> Nat] /\ TokenOf \in [Leases -> Nat]
    /\ NoCall \notin Calls
ASSUME BoundAssumption == MaxTime \in Nat /\ MaxEpoch \in Nat /\ MaxToken \in Nat

Outcomes ==
    {"CONSUMED", "EXPIRED", "REVOKED", "STOP_EPOCH_MISMATCH", "FENCING_TOKEN_STALE",
     "ALREADY_CONSUMED"}
Unavailable == "CONTROL_PLANE_UNAVAILABLE"

VARIABLES
    clock,          \* the trusted clock
    stop_epoch, tokens, revoked,
    consumed,       \* lease -> the call that consumed it, or NoCall
    decision,       \* call -> outcome the state decided, "none" before
    reply,          \* call -> what its caller was told, "open" before
    consumedAt      \* history: the clock when the lease was consumed

authority == <<stop_epoch, tokens, revoked>>
vars == <<clock, stop_epoch, tokens, revoked, consumed, decision, reply, consumedAt>>

Init ==
    /\ clock = 0 /\ stop_epoch = 0 /\ revoked = {}
    /\ tokens = [a \in ActionIds |-> 1]
    /\ consumed = [l \in Leases |-> NoCall]
    /\ decision = [c \in Calls |-> "none"]
    /\ reply = [c \in Calls |-> "open"]
    /\ consumedAt = [l \in Leases |-> 0]

Ticks ==
    /\ clock < MaxTime
    /\ clock' = clock + 1
    /\ UNCHANGED <<authority, consumed, decision, reply, consumedAt>>

set_stop_epoch(n) ==
    /\ n >= stop_epoch
    /\ stop_epoch' = n
    /\ UNCHANGED <<clock, tokens, revoked, consumed, decision, reply, consumedAt>>

set_fencing_token(a, n) ==
    /\ n >= tokens[a]
    /\ tokens' = [tokens EXCEPT ![a] = n]
    /\ UNCHANGED <<clock, stop_epoch, revoked, consumed, decision, reply, consumedAt>>

revoke(l) ==
    /\ revoked' = revoked \cup {l}
    /\ UNCHANGED <<clock, stop_epoch, tokens, consumed, decision, reply, consumedAt>>

\* The checks of consume_if_current, in their order.
Evaluate(l, at) ==
    IF at < Issued[l] \/ at >= Expires[l] THEN "EXPIRED"
    ELSE IF l \in revoked THEN "REVOKED"
    ELSE IF EpochOf[l] # stop_epoch THEN "STOP_EPOCH_MISMATCH"
    ELSE IF TokenOf[l] # tokens[ActionOf[l]] THEN "FENCING_TOKEN_STALE"
    ELSE IF consumed[l] # NoCall THEN "ALREADY_CONSUMED"
    ELSE "CONSUMED"

\* consume_if_current at the instant the adapter evaluates.
consume_if_current(c, l, at) ==
    /\ decision[c] = "none"
    /\ LET outcome == Evaluate(l, at) IN
       /\ decision' = [decision EXCEPT ![c] = outcome]
       /\ IF outcome = "CONSUMED"
          THEN /\ consumed' = [consumed EXCEPT ![l] = c]
               /\ consumedAt' = [consumedAt EXCEPT ![l] = clock]
          ELSE UNCHANGED <<consumed, consumedAt>>
    /\ UNCHANGED <<clock, authority, reply>>

\* consume: the caller is told the decision ...
Told(c) ==
    /\ reply[c] = "open" /\ decision[c] # "none"
    /\ reply' = [reply EXCEPT ![c] = decision[c]]
    /\ UNCHANGED <<clock, authority, consumed, decision, consumedAt>>

\* Mutant: a failure of the state counts as its consent.
NotToldGranted(c) ==
    /\ reply[c] = "open"
    /\ reply' = [reply EXCEPT ![c] = "CONSUMED"]
    /\ UNCHANGED <<clock, authority, consumed, decision, consumedAt>>

\* ... or CONTROL_PLANE_UNAVAILABLE, when the clock or the state failed,
\* whether or not the state decided.
NotTold(c) ==
    /\ reply[c] = "open"
    /\ reply' = [reply EXCEPT ![c] = Unavailable]
    /\ UNCHANGED <<clock, authority, consumed, decision, consumedAt>>

Authorities ==
    \/ \E n \in 0..MaxEpoch : set_stop_epoch(n)
    \/ \E a \in ActionIds, n \in 1..MaxToken : set_fencing_token(a, n)
    \/ \E l \in Leases : revoke(l)

Next ==
    \/ Ticks \/ Authorities
    \/ \E c \in Calls :
         \/ \E l \in Leases, at \in 0..clock : consume_if_current(c, l, at)
         \/ Told(c) \/ NotTold(c)

Spec == Init /\ [][Next]_vars

\* InMemoryLeaseState: the clock is read under the lock, and a caller whose
\* clock failed never reaches the state.
InMemoryNext ==
    \/ Ticks \/ Authorities
    \/ \E c \in Calls :
         \/ \E l \in Leases : reply[c] = "open" /\ consume_if_current(c, l, clock)
         \/ Told(c)
         \/ decision[c] = "none" /\ NotTold(c)

InMemorySpec == Init /\ [][InMemoryNext]_vars

-------------------------------------------------------------------------------

\* Every variable has its type.
TypeOK ==
    /\ clock \in Nat /\ stop_epoch \in Nat
    /\ tokens \in [ActionIds -> Nat]
    /\ revoked \subseteq Leases
    /\ consumed \in [Leases -> Calls \cup {NoCall}]
    /\ decision \in [Calls -> Outcomes \cup {"none"}]
    /\ reply \in [Calls -> Outcomes \cup {"open", Unavailable}]
    /\ consumedAt \in [Leases -> Nat]

Receipts == {c \in Calls : reply[c] = "CONSUMED"}

\* Every lease authorises at most one emission: each call that was told
\* CONSUMED is the one its lease's consumption records, so lost answers,
\* retries and concurrent calls never share a lease.
ReceiptsBacked == \A c \in Receipts : \E l \in Leases : consumed[l] = c

\* A consumption is final: it is never given to another call.
ConsumedOnce == [][\A l \in Leases : consumed[l] # NoCall => consumed'[l] = consumed[l]]_vars

\* A lease is consumed only while its epoch and its token are the current ones
\* and it is not revoked: a stop, a newer worker or a revocation that the state
\* holds wins over every call, however early the call began.
ConsumedCurrent ==
    [][\A l \in Leases : consumed'[l] # consumed[l] =>
         /\ EpochOf[l] = stop_epoch /\ TokenOf[l] = tokens[ActionOf[l]]
         /\ l \notin revoked]_vars

\* A lease is consumed inside its window as of the moment of the consumption.
WindowAtEmission ==
    \A l \in Leases : consumed[l] # NoCall =>
       Issued[l] <= consumedAt[l] /\ consumedAt[l] < Expires[l]
===============================================================================
