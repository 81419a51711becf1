------------------------------ MODULE C7Emission ------------------------------
(***************************************************************************)
(* A governed action from its gates to its effect: GovernedActionEngine    *)
(* (c6/engine.py) writes the atomic outbox store (c3_store.py) and the     *)
(* EMISSION-FENCE (c7_emission.py) lets the committed event out to a sink. *)
(*                                                                         *)
(* The store and the fence have a lock each.  The fence keeps its lock     *)
(* while the sink works; the store is written meanwhile.  A crash of the   *)
(* process loses the fence and every call; the store stays, and the sink   *)
(* keeps what it did.                                                      *)
(*                                                                         *)
(* An action is its own idempotency key and names one aggregate.  The      *)
(* store's three dictionaries are replaced together in a write, so the     *)
(* set of events determines the other two.                                 *)
(***************************************************************************)
EXTENDS Naturals, Sequences, FiniteSets, Functions

CONSTANTS
    Actions,
    Aggregates,     \* aggregate ids, as numbers: outbox compares them
    AggregateOf,    \* the aggregate each action writes
    Threads,
    NoThread,
    MaxTime,        \* bound: instants are 1..MaxTime
    MaxUses,        \* max_uses of the capability lease the engine consumes
    Clearances,     \* whether an emission passes the fence's marking and capability
    MaxCrashes,     \* bound: crashes of the process
    MaxRaises       \* bound: how often a sink acts on an action and then raises

ASSUME AggregateAssumption == AggregateOf \in [Actions -> Aggregates] /\ Aggregates \subseteq Nat
ASSUME ThreadAssumption == NoThread \notin Threads
ASSUME BoundsAssumption ==
    /\ MaxTime \in Nat /\ MaxUses \in Nat /\ MaxCrashes \in Nat /\ MaxRaises \in Nat
    /\ Clearances \subseteq BOOLEAN

Times == 1..MaxTime

VARIABLES
    events,         \* the store's events; emitted = 0 until emitted_at is set
    uses,           \* uses of the lease
    registered,     \* the fence's _registered
    receipts,       \* the actions with an entry in _receipts
    last_version,   \* _last_version
    fence,          \* the thread inside the fence's lock
    call,           \* per thread: the call in progress, if any
    effects,        \* history: what the sink did, in order
    gated,          \* history: the actions that passed the four gates
    crashes,        \* crashes so far
    raised          \* history: how often the sink acted on an action and then raised

store == events
fenced == <<registered, receipts, last_version, fence>>
failures == <<crashes, raised>>
vars == <<events, uses, fenced, call, effects, gated, failures>>

Init ==
    /\ events = {} /\ uses = 0
    /\ registered = {} /\ receipts = {} /\ last_version = [g \in Aggregates |-> 0]
    /\ fence = NoThread
    /\ call = [t \in Threads |-> {}]
    /\ effects = <<>> /\ gated = {}
    /\ crashes = 0 /\ raised = [a \in Actions |-> 0]

Of(g) == {e \in events : e.aggregate = g}
Version(g) == Cardinality(Of(g))
Durable(a) == {e \in events : e.action = a}

\* What a thread does next: stage, instant, the actions still to emit, how many
\* of them drain has yet to register, and the event register read.
Begin(t, stage, at, todo, toRegister) ==
    call' = [call EXCEPT ![t] =
               {[stage |-> stage, at |-> at, todo |-> todo, toRegister |-> toRegister, read |-> {}]}]
Goto(t, c, stage) == call' = [call EXCEPT ![t] = {[c EXCEPT !.stage = stage]}]
End(t) == call' = [call EXCEPT ![t] = {}]

\* emit returns: on to the rest of the list.
Emitted(t, c) ==
    IF Tail(c.todo) = <<>> THEN End(t)
    ELSE call' = [call EXCEPT ![t] = {[c EXCEPT !.stage = "emit", !.todo = Tail(@)]}]

-------------------------------------------------------------------------------
(* GovernedActionEngine.execute *)

\* Mutant: the Decision gate is not asked.
GatesNoDecision(approved, accepted) == approved

\* The Human Gate and the Decision, after the authority.
Gates(approved, accepted) == approved /\ accepted

\* Authority consumes a use first; a later gate that denies keeps it consumed.
\* An exhausted lease is refused and nothing changes.
Execute(t, a, at, approved, accepted) ==
    /\ call[t] = {}
    /\ \/ /\ uses < MaxUses
          /\ uses' = uses + 1
          /\ IF Gates(approved, accepted)
             THEN Begin(t, "write", at, <<a>>, 0)
             ELSE UNCHANGED call
          /\ gated' = IF approved /\ accepted THEN gated \cup {a} ELSE gated
       \/ uses = MaxUses /\ UNCHANGED <<uses, call, gated>>
    /\ UNCHANGED <<store, fenced, effects, failures>>

\* Mutant: a write does not look for its idempotency key.
WriteNoReplay(t) ==
    /\ \E c \in call[t] :
         /\ c.stage = "write"
         /\ LET a == Head(c.todo)
                g == AggregateOf[a] IN
            /\ \A e \in Of(g) : e.at <= c.at
            /\ events' = events \cup
                 {[action |-> a, aggregate |-> g, version |-> Version(g) + 1, at |-> c.at, emitted |-> 0]}
            /\ Goto(t, c, "emit")
    /\ UNCHANGED <<uses, fenced, effects, gated, failures>>

\* store.write: a known key returns its event, a write that would move the
\* aggregate's time backwards raises, any other commits document and event.
Write(t) ==
    /\ \E c \in call[t] :
         /\ c.stage = "write"
         /\ LET a == Head(c.todo)
                g == AggregateOf[a] IN
            \/ /\ Durable(a) # {}
               /\ Goto(t, c, "emit")
               /\ UNCHANGED events
            \/ /\ Durable(a) = {} /\ \A e \in Of(g) : e.at <= c.at
               /\ events' = events \cup
                    {[action |-> a, aggregate |-> g, version |-> Version(g) + 1, at |-> c.at, emitted |-> 0]}
               /\ Goto(t, c, "emit")
            \/ /\ Durable(a) = {} /\ \E e \in Of(g) : e.at > c.at
               /\ End(t)
               /\ UNCHANGED events
    /\ UNCHANGED <<uses, fenced, effects, gated, failures>>

-------------------------------------------------------------------------------
(* EmissionFence *)

\* Mutant: the fence does not lock.
FenceIgnored == TRUE

\* The fence's lock is free.
FenceFree == fence = NoThread

\* A collision: the fence registered the event before it was emitted.
Collides(e) == \E r \in registered : r.action = e.action /\ r # e

\* register, of an event the store holds: what it leaves in the fence.
Register(e) ==
    /\ registered' = registered \cup {e}
    /\ receipts' = IF e.emitted # 0 THEN receipts \cup {e.action} ELSE receipts
    /\ last_version' =
         IF e.emitted # 0 /\ e.action \notin receipts /\ e.version > last_version[e.aggregate]
         THEN [last_version EXCEPT ![e.aggregate] = e.version] ELSE last_version

\* Mutant: only the events this fence registered count as pending.
InOrderRegistered(e) ==
    /\ e.version > last_version'[e.aggregate]
    /\ \A c \in registered' :
         c.aggregate = e.aggregate /\ c.version < e.version /\ c.emitted = 0 => c.action \in receipts'

\* _check_order, after the registration, returns normally.
InOrder(e) ==
    /\ e.version > last_version'[e.aggregate]
    /\ \A c \in registered' \cup events :
         c.aggregate = e.aggregate /\ c.version < e.version /\ c.emitted = 0 => c.action \in receipts'

\* emit up to the call of the sink: the lock, a receipt that is already there,
\* registration, the event's time, the order, marking and capability (which
\* the caller may lack: cleared).  After the sink the thread goes on with the
\* rest of its list.
EmitEnter(t, cleared) ==
    /\ FenceFree
    /\ \E c \in call[t] : \E e \in Durable(Head(c.todo)) :
         /\ c.stage = "emit"
         /\ \/ /\ e.action \in receipts
               /\ Emitted(t, c)
               /\ UNCHANGED fenced
            \/ /\ e.action \notin receipts /\ Collides(e)
               /\ End(t)
               /\ UNCHANGED fenced
            \/ /\ e.action \notin receipts /\ ~Collides(e)
               /\ Register(e)
               /\ IF c.at >= e.at /\ InOrder(e) /\ cleared
                  THEN fence' = t /\ Goto(t, c, "sink")
                  ELSE UNCHANGED fence /\ End(t)
    /\ UNCHANGED <<store, uses, effects, gated, failures>>

\* The sink does the effect; it has not returned yet.
SinkActs(t) ==
    /\ \E c \in call[t] :
         /\ c.stage = "sink"
         /\ effects' = Append(effects, Head(c.todo))
         /\ Goto(t, c, "finish")
    /\ UNCHANGED <<store, uses, fenced, gated, failures>>

\* The sink raises before it does anything: the event stays pending.
SinkFails(t) ==
    /\ \E c \in call[t] : c.stage = "sink"
    /\ End(t)
    /\ fence' = NoThread
    /\ UNCHANGED <<store, uses, registered, receipts, last_version, effects, gated, failures>>

\* The sink raises after it has done the effect: the event stays pending all the
\* same, and is emitted again by the next call.
SinkRaises(t) ==
    /\ \E c \in call[t] :
         /\ c.stage = "finish" /\ raised[Head(c.todo)] < MaxRaises
         /\ raised' = [raised EXCEPT ![Head(c.todo)] = @ + 1]
    /\ End(t)
    /\ fence' = NoThread
    /\ UNCHANGED <<store, uses, registered, receipts, last_version, effects, gated, crashes>>

\* store.mark_emitted: the first instant stays.
mark_emitted(e, at) == events' = (events \ {e}) \cup {[e EXCEPT !.emitted = IF @ = 0 THEN at ELSE @]}

\* The sink acknowledges: mark_emitted in the store, then the receipt and the version in the fence.
EmitFinish(t) ==
    /\ \E c \in call[t] : \E e \in Durable(Head(c.todo)) :
         /\ c.stage = "finish"
         /\ mark_emitted(e, c.at)
         /\ receipts' = receipts \cup {e.action}
         /\ last_version' = [last_version EXCEPT ![e.aggregate] = e.version]
         /\ Emitted(t, c)
    /\ fence' = NoThread
    /\ UNCHANGED <<uses, registered, effects, gated, failures>>

\* Mutant: outbox sorts by instant alone.
BeforeByTime(e, f) == e.at < f.at

\* outbox's order: the instant, then the aggregate, then the version.
Before(e, f) ==
    \/ e.at < f.at
    \/ e.at = f.at /\ e.aggregate < f.aggregate
    \/ e.at = f.at /\ e.aggregate = f.aggregate /\ e.version < f.version

\* drain takes a snapshot of the pending events.
Drain(t, at) ==
    /\ call[t] = {}
    /\ LET pending == {e \in events : e.emitted = 0} IN
       /\ pending # {}
       /\ \E order \in Injection(1..Cardinality(pending), pending) :
            /\ \A i, j \in 1..Len(order) : Before(order[i], order[j]) => i < j
            /\ Begin(t, "read", at, [i \in 1..Len(order) |-> order[i].action], Len(order))
    /\ UNCHANGED <<store, uses, fenced, effects, gated, failures>>

\* register, called by drain for each event of the snapshot before it emits
\* any: the store is read without the fence's lock ...
DrainRead(t) ==
    /\ \E c \in call[t] :
         /\ c.stage = "read"
         /\ LET a == c.todo[Len(c.todo) - c.toRegister + 1] IN
            call' = [call EXCEPT ![t] = {[c EXCEPT !.stage = "register", !.read = Durable(a)]}]
    /\ UNCHANGED <<store, uses, fenced, effects, gated, failures>>

\* ... and what was read is registered under it.  A collision ends the drain.
DrainRegister(t) ==
    /\ FenceFree
    /\ \E c \in call[t] : \E e \in c.read :
         /\ c.stage = "register"
         /\ IF Collides(e)
            THEN UNCHANGED <<registered, receipts, last_version>> /\ End(t)
            ELSE /\ Register(e)
                 /\ call' = [call EXCEPT ![t] =
                      {[c EXCEPT !.stage = IF c.toRegister = 1 THEN "emit" ELSE "read",
                                 !.toRegister = @ - 1, !.read = {}]}]
    /\ UNCHANGED <<store, uses, fence, effects, gated, failures>>

-------------------------------------------------------------------------------

\* The process dies; a new engine and a new fence start on the store.
Crash ==
    /\ crashes < MaxCrashes
    /\ crashes' = crashes + 1
    /\ registered' = {} /\ receipts' = {} /\ last_version' = [g \in Aggregates |-> 0]
    /\ fence' = NoThread
    /\ call' = [t \in Threads |-> {}]
    /\ UNCHANGED <<store, uses, effects, gated, raised>>

Next ==
    \/ \E t \in Threads :
         \/ \E a \in Actions, at \in Times, approved, accepted \in BOOLEAN :
              Execute(t, a, at, approved, accepted)
         \/ Write(t)
         \/ \E cleared \in Clearances : EmitEnter(t, cleared)
         \/ SinkActs(t) \/ SinkFails(t) \/ SinkRaises(t) \/ EmitFinish(t)
         \/ \E at \in Times : Drain(t, at)
         \/ DrainRead(t) \/ DrainRegister(t)
    \/ Crash

Spec == Init /\ [][Next]_vars

\* Every thread runs.  One of them drains again and again, is let into the
\* fence when it keeps asking, and its sink acts when it is called again and
\* again.
Drainer == CHOOSE t \in Threads : TRUE

Fairness ==
    /\ \A t \in Threads :
         WF_vars(Write(t) \/ EmitEnter(t, TRUE) \/ SinkActs(t) \/ SinkFails(t)
                 \/ EmitFinish(t) \/ DrainRead(t) \/ DrainRegister(t))
    /\ SF_vars(Drain(Drainer, MaxTime)) /\ SF_vars(DrainRegister(Drainer))
    /\ SF_vars(EmitEnter(Drainer, TRUE)) /\ SF_vars(EmitEnter(Drainer, TRUE) /\ fence' = Drainer)
    /\ SF_vars(SinkActs(Drainer))

FairSpec == Spec /\ Fairness

-------------------------------------------------------------------------------
(* Properties *)

\* No effect without every gate and a durable commit: what the sink did was
\* authorized, approved and decided, and is in the store.
EffectsGated == \A a \in Range(effects) : a \in gated /\ Durable(a) # {}

EffectCount(a) == Cardinality({i \in 1..Len(effects) : effects[i] = a})

\* The effects that the fence could not know of: one per crash, and one whenever
\* the sink acted and raised all the same.
Unknown(a) == crashes + raised[a]

\* The sink acts once per event, but for one more time per crash and per failure
\* after the effect (both of which the idempotency key lets it recognise): no
\* interleaving of execute and drain repeats an effect.
EffectOnce == \A a \in Actions : EffectCount(a) <= 1 + Unknown(a)

\* The effects of an aggregate appear in the order of its versions, whichever
\* threads emitted them and wherever the process crashed or the sink failed.
EffectsInOrder ==
    \A i, j \in 1..Len(effects) : i < j =>
       \A e \in Durable(effects[i]), f \in Durable(effects[j]) :
          e.aggregate = f.aggregate /\ e.version > f.version =>
            \E k \in 1..i : effects[k] = effects[j]

\* What the sink did is what execute decided and committed, once and in order:
\* the three facts above, through every interleaving of execute, drain, crashes and
\* failures of the sink.
EffectsExact == EffectsGated /\ EffectOnce /\ EffectsInOrder

\* Once crashes stop, every committed event is emitted: drain repairs what a
\* crash between the commit and the emission left behind.
EventuallyEmitted ==
    \A a \in Actions : []<>(Durable(a) # {} => \E e \in Durable(a) : e.emitted # 0)
===============================================================================
