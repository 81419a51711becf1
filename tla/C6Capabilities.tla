---------------------------- MODULE C6Capabilities ----------------------------
(***************************************************************************)
(* CapabilityAuthority (c6_capabilities.py) bound to the emergency stop:   *)
(* threads issue, delegate, revoke and use capability leases while         *)
(* operators stop and reset the system.                                    *)
(*                                                                         *)
(* issue takes the authority's lock twice, for the parent and for the      *)
(* insertion, and asks the stop between the two.  authorize holds the lock *)
(* throughout, but the stop has its own lock, which it asks once for the   *)
(* sweep and once for the guard, and moves before, between and after.      *)
(*                                                                         *)
(* A lease's capabilities and resources are one set of scopes: a request   *)
(* matches when its scope is in the set, a delegation is contained when    *)
(* the child's set is.  Instants come from the callers.                    *)
(***************************************************************************)
EXTENDS C6EmergencyStop, FiniteSets
LOCAL INSTANCE TLC

CONSTANTS
    LeaseIds,
    Scopes,
    Offers,         \* the windows, scopes and limits callers ask for
    BindLate,       \* is the authority constructed without the stop controller
    Instants,       \* the instants callers revoke and use leases at
    Threads,        \* threads that issue; any thread may do the rest
    MaxUses         \* bound: uses recorded against one lease without a limit

ASSUME OffersAssumption ==
    Offers \subseteq [from : Times, until : Times, scope : SUBSET Scopes, max : Nat]
ASSUME CallsAssumption == Instants \subseteq Times /\ BindLate \in BOOLEAN
ASSUME WindowAssumption == \A o \in Offers : o.from < o.until /\ o.scope # {}

VARIABLES
    bound,          \* _stop is set
    bound_epoch,    \* _bound_epoch
    swept_epoch,    \* _swept_epoch
    leases,         \* _leases, as a set of records with distinct ids
    uses,           \* _uses; 0 where the dictionary has no entry
    issuing,        \* per thread: the lease issue is building, if any
    using           \* the request inside authorize, which holds the lock, if any

authority == <<bound, bound_epoch, swept_epoch, leases, uses>>
calls == <<issuing, using>>
vars == <<stop, authority, calls>>

\* epoch and parent are sets of at most one element (None is {}); max = 0 is
\* no limit and revoked = 0 is not revoked.  mark is the length of the stop's
\* history when issue asked for the epoch, if it has one.
Lease == [id : LeaseIds, from : Times, until : Times, scope : SUBSET Scopes, max : Nat,
          epoch : SUBSET Nat, parent : SUBSET LeaseIds, revoked : 0..MaxTime, mark : Nat]

Init ==
    /\ StopInit
    /\ bound = ~BindLate /\ bound_epoch = 0 /\ swept_epoch = 0
    /\ leases = {} /\ uses = [i \in LeaseIds |-> 0]
    /\ issuing = [t \in Threads |-> {}] /\ using = {}

\* The authority's lock is free: authorize is the operation that keeps it
\* across a step of the stop.
Unlocked == using = {}
Idle(t) == issuing[t] = {}

is_active(l, at) == l.from <= at /\ at < l.until /\ (l.revoked = 0 \/ at < l.revoked)

Later(a, b) == IF a < b THEN b ELSE a

\* The first accepted event past the lease's epoch.
Superseding(e) ==
    {history[i] : i \in {j \in 1..Len(history) :
        history[j].epoch > e /\ \A k \in 1..(j - 1) : history[k].epoch <= e}}

LeaseEpoch(l) == CHOOSE e \in IF l.epoch = {} THEN {bound_epoch} ELSE l.epoch : TRUE

SweepOne(l) ==
    IF l.revoked = 0 /\ LeaseEpoch(l) # epoch /\ Superseding(LeaseEpoch(l)) # {}
    THEN LET event == CHOOSE v \in Superseding(LeaseEpoch(l)) : TRUE
         IN [l EXCEPT !.revoked = Later(event.at, l.from)]
    ELSE l

\* _sweep_superseded_leases, as a value: the ledger after the sweep.
Swept == IF bound /\ epoch # swept_epoch THEN {SweepOne(l) : l \in leases} ELSE leases
SweptEpoch == IF bound THEN epoch ELSE swept_epoch

bind_stop_controller ==
    /\ Unlocked
    /\ ~bound
    /\ bound' = TRUE /\ bound_epoch' = epoch /\ swept_epoch' = epoch
    /\ UNCHANGED <<stop, leases, uses, calls>>

-------------------------------------------------------------------------------
(* issue *)

Build(i, o, parent, e) ==
    [id |-> i, from |-> o.from, until |-> o.until, scope |-> o.scope, max |-> o.max,
     epoch |-> e, parent |-> {p.id : p \in parent}, revoked |-> 0, mark |-> IF e = {} THEN 0 ELSE Len(history)]

\* Mutant: the child's window is not compared with its parent's.
ValidateScopeOnly(parent, child) ==
    /\ child.from >= parent.from
    /\ child.epoch # {} => parent.epoch # {}
    /\ parent.epoch # {} => child.epoch = parent.epoch
    /\ child.scope \subseteq parent.scope

\* issued_at is the start of the window here, so "predates its parent" is the
\* same comparison as the window's lower end.
validate_delegation(parent, child) ==
    /\ child.from >= parent.from /\ child.until <= parent.until
    /\ child.epoch # {} => parent.epoch # {}
    /\ parent.epoch # {} => child.epoch = parent.epoch
    /\ child.scope \subseteq parent.scope

\* issue with a parent: the parent is read from the ledger, after a sweep, and
\* kept.
IssueDelegated(t, i, o, p) ==
    /\ Unlocked /\ Idle(t)
    /\ leases' = Swept /\ swept_epoch' = SweptEpoch
    /\ \E l \in leases' :
         /\ l.id = p /\ is_active(l, o.from)
         /\ issuing' = [issuing EXCEPT ![t] =
              {[id |-> i, offer |-> o, parent |-> {l}, built |-> {}]}]
    /\ UNCHANGED <<stop, bound, bound_epoch, uses, using>>

\* _current_stop_epoch, then the lease is built and the delegation validated.
Offered(i, o, parent) ==
    {l \in {Build(i, o, parent, IF bound THEN {epoch} ELSE {})} :
       /\ bound => guard_dispatch(epoch)
       /\ \A p \in parent : validate_delegation(p, l)}

\* issue without a parent reads nothing before the stop.
IssueRoot(t, i, o) ==
    /\ Idle(t)
    /\ Offered(i, o, {}) # {}
    /\ issuing' = [issuing EXCEPT ![t] =
         {[id |-> i, offer |-> o, parent |-> {}, built |-> Offered(i, o, {})]}]
    /\ UNCHANGED <<stop, authority, using>>

\* The second part of a delegation; a refusal ends the call.
IssueEpoch(t) ==
    /\ \E c \in issuing[t] :
         /\ c.built = {}
         /\ LET built == Offered(c.id, c.offer, c.parent)
            IN issuing' = [issuing EXCEPT ![t] =
                 IF built = {} THEN {} ELSE {[c EXCEPT !.built = built]}]
    /\ UNCHANGED <<stop, authority, using>>

\* The insertion; a duplicate id raises and nothing is inserted.
IssueInsert(t) ==
    /\ Unlocked
    /\ \E c \in issuing[t] : \E l \in c.built :
         IF \E k \in leases : k.id = l.id
         THEN UNCHANGED <<leases, uses>>
         ELSE leases' = leases \cup {l} /\ uses' = [uses EXCEPT ![l.id] = 0]
    /\ issuing' = [issuing EXCEPT ![t] = {}]
    /\ UNCHANGED <<stop, bound, bound_epoch, swept_epoch, using>>

-------------------------------------------------------------------------------
(* get, revoke and authorize *)

get ==
    /\ Unlocked
    /\ leases' = Swept /\ swept_epoch' = SweptEpoch
    /\ UNCHANGED <<stop, bound, bound_epoch, uses, calls>>

\* The sweep, then the revocation of a lease that has none.  A revocation
\* before the issue instant is refused by the lease's own constructor.
revoke(i, at) ==
    /\ Unlocked
    /\ \E l \in leases : l.id = i /\ l.from <= at
    /\ leases' = {IF l.id = i /\ l.revoked = 0 THEN [l EXCEPT !.revoked = at] ELSE l :
                    l \in Swept}
    /\ swept_epoch' = SweptEpoch
    /\ UNCHANGED <<stop, bound, bound_epoch, uses, calls>>

Ledger(i) == {l \in leases : l.id = i}

\* authorize up to and including its sweep; the lock stays taken.  begun is the
\* length of the history of a bound stop then.  An unknown lease is refused after the
\* sweep, which leaves what get leaves.
AuthorizeSweep(i, s, at) ==
    /\ Unlocked
    /\ Ledger(i) # {}
    /\ leases' = Swept /\ swept_epoch' = SweptEpoch
    /\ using' = {[id |-> i, scope |-> s, at |-> at, guarded |-> FALSE,
                   begun |-> IF bound THEN Len(history) ELSE 0]}
    /\ UNCHANGED <<stop, bound, bound_epoch, uses, issuing>>

allows(l, s, at) == is_active(l, at) /\ s \in l.scope

\* _require_current_stop_epoch returns normally.
require_current_stop_epoch(l) ==
    bound => l.epoch # {} /\ \A e \in l.epoch : guard_dispatch(e)

\* The leases from which l was delegated, in any number of steps.
Ancestors(l) ==
    LET up(S) == S \cup UNION {Ledger(p) : p \in UNION {k.parent : k \in S}}
        f[n \in 0..Cardinality(LeaseIds)] ==
            IF n = 0 THEN UNION {Ledger(p) : p \in l.parent} ELSE up(f[n - 1])
    IN f[Cardinality(LeaseIds)]

\* Mutant: the ancestry is not asked.
AncestryIgnored(l, at) == TRUE

\* _require_active_ancestry returns normally.
require_active_ancestry(l, at) ==
    /\ \A p \in l.parent : Ledger(p) # {}
    /\ \A k \in Ancestors(l) : is_active(k, at) /\ \A p \in k.parent : Ledger(p) # {}

\* Mutant: the use that reaches the limit is counted one too late.
ExhaustedLate(l) == l.max # 0 /\ uses[l.id] > l.max

Exhausted(l) == l.max # 0 /\ uses[l.id] >= l.max

\* Mutant: the stop is not asked again once the sweep is done.
GuardSwept ==
    /\ \E u \in using :
         /\ ~u.guarded
         /\ using' = {[u EXCEPT !.guarded = TRUE] : l \in Ledger(u.id)}
    /\ UNCHANGED <<stop, authority, issuing>>

\* The stop is asked, under its own lock, which is free again when the answer
\* is used.  A refusal ends the call.
AuthorizeGuard ==
    /\ \E u \in using :
         /\ ~u.guarded
         /\ using' = {[u EXCEPT !.guarded = TRUE] :
                        l \in {k \in Ledger(u.id) : require_current_stop_epoch(k)}}
    /\ UNCHANGED <<stop, authority, issuing>>

\* The rest of authorize: every check, the use if it is consumed, the lock.
\* The bound on the uses of an unlimited lease is the model's.
AuthorizeDecide(consume) ==
    /\ \E u \in using :
         LET granted == {l \in Ledger(u.id) :
                 /\ allows(l, u.scope, u.at)
                 /\ require_active_ancestry(l, u.at)
                 /\ ~Exhausted(l)}
         IN /\ u.guarded
            /\ consume => \A l \in Ledger(u.id) : l.max = 0 => uses[u.id] < MaxUses
            /\ uses' = IF granted # {} /\ consume THEN [uses EXCEPT ![u.id] = @ + 1] ELSE uses
    /\ using' = {}
    /\ UNCHANGED <<stop, bound, bound_epoch, swept_epoch, leases, issuing>>

-------------------------------------------------------------------------------

StopMoves == StopNext /\ UNCHANGED <<authority, calls>>

Next ==
    \/ StopMoves
    \/ bind_stop_controller
    \/ \E t \in Threads :
         \/ \E i \in LeaseIds, o \in Offers :
              IssueRoot(t, i, o) \/ \E p \in LeaseIds : IssueDelegated(t, i, o, p)
         \/ IssueEpoch(t) \/ IssueInsert(t)
    \/ get
    \/ \E i \in LeaseIds, at \in Instants :
         revoke(i, at) \/ \E s \in Scopes : AuthorizeSweep(i, s, at)
    \/ AuthorizeGuard
    \/ \E consume \in BOOLEAN : AuthorizeDecide(consume)

Spec == Init /\ [][Next]_vars

\* Offers for TLC: a wide unlimited lease and a narrower one with a single use.
Narrowing ==
    {[from |-> 1, until |-> 3, scope |-> Scopes, max |-> 0],
     [from |-> 1, until |-> 2, scope |-> Scopes, max |-> 1]}
Interchangeable == Permutations(LeaseIds)

-------------------------------------------------------------------------------
(* Properties *)

\* The leases a step records a use of, each with the call that uses it.
Granted == {<<l, u>> : l \in {k \in leases : uses'[k.id] > uses[k.id]},
                         u \in using}

\* A use is granted only while the lease and all leases it was delegated from
\* are active at the instant of the use, although a parent may be revoked at
\* any point of the child's issue and life; and, once the authority is bound,
\* only to a call that began before any stop accepted since the lease was
\* issued, whatever resets followed.  A stop accepted while the call runs may
\* come after its guard and then does not prevent this one use (authorize:
\* guard_dispatch, require_active_ancestry).
UsesInForce ==
    [][\A g \in Granted :
         /\ \A k \in {g[1]} \cup Ancestors(g[1]) : is_active(k, g[2].at)
         /\ bound => \A n \in (g[1].mark + 1)..g[2].begun : history[n].status # "STOPPING"]_vars

\* A lease with a limit is never used more often, whoever uses it.
UsesBounded == \A l \in leases : l.max # 0 => uses[l.id] <= l.max

\* A delegated lease lies within its parent as the ledger has it now: its
\* window, its scope and its epoch (issue validates a copy of the parent it
\* read before it asked the stop).
DelegationContained ==
    \A l \in leases : \A p \in l.parent : \E k \in Ledger(p) :
       /\ k.from <= l.from /\ l.until <= k.until
       /\ l.scope \subseteq k.scope
       /\ k.epoch # {} => l.epoch = k.epoch

\* What has been issued stays within what it was issued from: uses within the
\* limit, a delegated lease within its parent, and epochs that no reset brings
\* back (the three facts above and in C6EmergencyStop).
LeasesContained == UsesBounded /\ DelegationContained /\ EpochNeverReenabled
===============================================================================
