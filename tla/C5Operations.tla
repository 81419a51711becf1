----------------------------- MODULE C5Operations -----------------------------
(***************************************************************************)
(* EventOperationsCoordinator (c5/operations.py) over the C5 backbone: a   *)
(* bounded number of publishes in flight per tenant, dead letters for      *)
(* governed rejections, the POISON quarantine with its operator gate, and  *)
(* replay.  All of its state is in memory and a restart loses it; the      *)
(* journal stays.                                                          *)
(***************************************************************************)
EXTENDS C5Backbone

CONSTANTS
    Submitted,          \* the envelopes callers publish through the coordinator
    Tenants,
    TenantsOf,          \* the tenants each thread publishes for
    NoTenant,           \* a thread that publishes for no tenant
    max_in_flight,      \* max_in_flight_per_tenant
    POISON_THRESHOLD,
    MaxAttempts         \* bound: publishes of one event, a restart aside

ASSUME QuotaAssumption == max_in_flight \in Nat /\ MaxAttempts \in Nat
ASSUME SubmittedAssumption == Submitted \subseteq Envelopes
ASSUME TenantAssumption == NoTenant \notin Tenants /\ TenantsOf \in [Threads -> SUBSET Tenants]
ASSUME ThresholdAssumption == POISON_THRESHOLD \in Nat \ {0}

VARIABLES
    in_flight,      \* _in_flight_by_tenant
    attempts,       \* _attempts_by_event_id
    dead_letters,   \* _dead_letters; attempts tells those of an event apart
    poisoned,       \* _poisoned_event_ids
    released,       \* _operator_released_event_ids
    mode,           \* what each thread is doing
    tenant,         \* the tenant each publishing thread was admitted for
    attempt         \* the local "attempts" of each publishing thread

ops == <<in_flight, attempts, dead_letters, poisoned, released, mode, tenant, attempt>>
opsVars == <<vars, ops>>

\* Every thread idle, every dictionary and set empty.
Empty(in, att, dead, poi, rel, mod, ten, num) ==
    /\ in = [n \in Tenants |-> 0]
    /\ att = [i \in Ids |-> 0]
    /\ dead = {} /\ poi = {} /\ rel = {}
    /\ mod = [t \in Threads |-> "none"]
    /\ ten = [t \in Threads |-> NoTenant]
    /\ num = [t \in Threads |-> 0]

OpsInit ==
    /\ Init
    /\ Empty(in_flight, attempts, dead_letters, poisoned, released, mode, tenant, attempt)

-------------------------------------------------------------------------------
(* publish_with_backpressure *)

\* The quota check and the count, in one section of the lock.  A tenant at its
\* quota gets BACKPRESSURE_EXCEEDED and nothing changes.
Admit(t, n) ==
    /\ mode[t] = "none"
    /\ in_flight[n] < max_in_flight
    /\ in_flight' = [in_flight EXCEPT ![n] = @ + 1]
    /\ mode' = [mode EXCEPT ![t] = "admitted"]
    /\ tenant' = [tenant EXCEPT ![t] = n]
    /\ UNCHANGED <<vars, attempts, dead_letters, poisoned, released, attempt>>

\* _publish_and_record counts the attempt in a second section of the lock and
\* enters the backbone's publish.
Attempt(t, e) ==
    /\ mode[t] = "admitted"
    /\ attempts[e.id] < MaxAttempts
    /\ attempts' = [attempts EXCEPT ![e.id] = @ + 1]
    /\ attempt' = [attempt EXCEPT ![t] = attempts[e.id] + 1]
    /\ mode' = [mode EXCEPT ![t] = "publish"]
    /\ Call(t, e)
    /\ UNCHANGED <<in_flight, dead_letters, poisoned, released, tenant>>

\* Mutant: only the attempt after the threshold is POISON.
ClassOfLate(n) == IF n > POISON_THRESHOLD THEN "POISON" ELSE "PERMANENT"

ClassOf(n) == IF n >= POISON_THRESHOLD THEN "POISON" ELSE "PERMANENT"

\* "except BackboneError": a rejection becomes a dead letter.  Any other
\* exception passes by (KafkaBackboneError and TimeoutExpired are not
\* BackboneErrors).
Record(t) ==
    /\ mode[t] = "publish" /\ step[t] = "returned" /\ result[t] \in Rejections
    /\ dead_letters' = dead_letters \cup
         {[envelope |-> e, reason |-> result[t], class |-> ClassOf(attempt[t]),
           attempts |-> attempt[t]] : e \in envelope[t]}
    /\ mode' = [mode EXCEPT ![t] = "recorded"]
    /\ UNCHANGED <<vars, in_flight, attempts, poisoned, released, tenant, attempt>>

\* The publish is over for the coordinator: nothing to record, or recorded.
Over(t) ==
    \/ mode[t] = "recorded"
    \/ mode[t] = "publish" /\ result[t] \notin Rejections

\* A POISON failure puts the event in quarantine.
Poison(t) ==
    poisoned' = IF mode[t] = "recorded" /\ ClassOf(attempt[t]) = "POISON"
                THEN poisoned \cup {e.id : e \in envelope[t]} ELSE poisoned

\* Mutant: a rejected publish skips the decrement (it is not in a "finally").
FinishNoFinally(t) ==
    /\ Over(t)
    /\ Collect(t)
    /\ Poison(t)
    /\ IF mode[t] = "recorded"
       THEN UNCHANGED in_flight
       ELSE in_flight' = [in_flight EXCEPT ![tenant[t]] = @ - 1]
    /\ mode' = [mode EXCEPT ![t] = "none"]
    /\ tenant' = [tenant EXCEPT ![t] = NoTenant]
    /\ attempt' = [attempt EXCEPT ![t] = 0]
    /\ UNCHANGED <<attempts, dead_letters, released>>

\* The publish returns or raises: the event is quarantined if it is to be, then
\* "finally" gives the tenant's slot back.
Finish(t) ==
    /\ Over(t)
    /\ Collect(t)
    /\ Poison(t)
    /\ in_flight' = [in_flight EXCEPT ![tenant[t]] = @ - 1]
    /\ mode' = [mode EXCEPT ![t] = "none"]
    /\ tenant' = [tenant EXCEPT ![t] = NoTenant]
    /\ attempt' = [attempt EXCEPT ![t] = 0]
    /\ UNCHANGED <<attempts, dead_letters, released>>

-------------------------------------------------------------------------------
(* Operator gate and replay *)

release_for_operator_replay(i) ==
    /\ i \in poisoned
    /\ released' = released \cup {i}
    /\ UNCHANGED <<vars, in_flight, attempts, dead_letters, poisoned, mode, tenant, attempt>>

\* replay: the gate asks the dead letter's own class; from_mapping refuses an
\* ill-formed envelope with no trace in the quarantine; publish checks again.
replay(t, d) ==
    /\ mode[t] = "none"
    /\ d.class = "POISON" => d.envelope.id \in released
    /\ d.envelope.wellFormed
    /\ mode' = [mode EXCEPT ![t] = "replay"]
    /\ Call(t, d.envelope)
    /\ UNCHANGED <<in_flight, attempts, dead_letters, poisoned, released, tenant, attempt>>

\* A replay that fails leaves no dead letter.
Replayed(t) ==
    /\ mode[t] = "replay"
    /\ Collect(t)
    /\ mode' = [mode EXCEPT ![t] = "none"]
    /\ UNCHANGED <<in_flight, attempts, dead_letters, poisoned, released, tenant, attempt>>

-------------------------------------------------------------------------------

OpsRestart ==
    /\ Restart
    /\ Empty(in_flight', attempts', dead_letters', poisoned', released', mode', tenant', attempt')

\* A thread inside the backbone's publish.
Inside(t) == (Acquire(t) \/ Holding(t)) /\ UNCHANGED ops

OpsNext ==
    \/ \E t \in Threads :
         \/ \E n \in TenantsOf[t] : Admit(t, n)
         \/ \E e \in Submitted : Attempt(t, e)
         \/ Inside(t) \/ Record(t) \/ Finish(t)
         \/ \E d \in dead_letters : replay(t, d)
         \/ Replayed(t)
    \/ \E i \in Ids : release_for_operator_replay(i)
    \/ LateLanding /\ UNCHANGED ops
    \/ OpsRestart

OpsSpec == OpsInit /\ [][OpsNext]_opsVars

-------------------------------------------------------------------------------
(* Properties *)

\* The quota holds under concurrent publishes, rejections, failed writes and
\* timeouts, and the count is exactly the tenant's publishes in flight (it
\* never goes negative and no slot leaks).
QuotaExact ==
    \A n \in Tenants :
       /\ in_flight[n] <= max_in_flight
       /\ in_flight[n] = Cardinality({t \in Threads : tenant[t] = n})

\* An event that keeps failing is quarantined: one with POISON_THRESHOLD dead
\* letters is poisoned, or about to be by a thread that has just recorded one,
\* whatever threads failed and in whatever order they recorded it.
KeepsFailingPoisoned ==
    \A i \in Ids :
       Cardinality({d \in dead_letters : d.envelope.id = i}) >= POISON_THRESHOLD =>
         \/ i \in poisoned
         \/ \E t \in Threads : /\ mode[t] = "recorded" /\ attempt[t] >= POISON_THRESHOLD
                               /\ \E e \in envelope[t] : e.id = i

\* The coordinator's counts are exact over an exact journal: no publish slot leaks,
\* no event fails past the threshold unnoticed, and what was acknowledged is in
\* the topic once and in order.
OperationsExact == JournalExact /\ QuotaExact /\ KeepsFailingPoisoned

\* release_for_operator_replay's docstring: "a POISON event may never be
\* replayed without this explicit, separate action".
PoisonGate ==
    [][\A t \in Threads : mode[t] # "replay" /\ mode'[t] = "replay" =>
         \A e \in envelope'[t] : e.id \in poisoned => e.id \in released]_opsVars
===============================================================================
