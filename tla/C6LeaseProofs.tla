----------------------------- MODULE C6LeaseProofs -----------------------------
(***************************************************************************)
(* The lease port for any leases, calls and bounds: what every adapter     *)
(* that implements it guarantees, what the in-memory adapter adds, and     *)
(* that the Temporal adapter implements it.                                *)
(***************************************************************************)
EXTENDS C6Temporal, TLAPS

\* What a step of the port keeps: types, and that a decision or an answer of
\* CONSUMED is recorded in the lease's consumption.
Decided == \A c \in Calls : decision[c] = "CONSUMED" => \E l \in Leases : consumed[l] = c
Answered == \A c \in Calls : reply[c] = "CONSUMED" => decision[c] = "CONSUMED"
Ind == TypeOK /\ Decided /\ Answered

\* An outcome of consume_if_current is one of the six.
LEMMA EvaluateType == \A l \in Leases, at \in Nat : Evaluate(l, at) \in Outcomes
BY DEF Evaluate, Outcomes

\* consume_if_current decides CONSUMED only for a lease nobody consumed, of
\* the current epoch and token, not revoked, inside its window.
LEMMA EvaluateConsumed ==
    ASSUME NEW l \in Leases, NEW at \in Nat, Evaluate(l, at) = "CONSUMED"
    PROVE  /\ consumed[l] = NoCall /\ l \notin revoked
           /\ EpochOf[l] = stop_epoch /\ TokenOf[l] = tokens[ActionOf[l]]
           /\ Issued[l] <= at /\ at < Expires[l]
BY LeaseAssumption DEF Evaluate

\* The initial state.
LEMMA InitInd == Init => Ind
BY LeaseAssumption DEF Init, Ind, TypeOK, Decided, Answered, Outcomes, Unavailable

\* A call of the port that consumes or refuses a lease.
LEMMA ConsumeInd ==
    ASSUME Ind, NEW c \in Calls, NEW l \in Leases, NEW at \in Nat, consume_if_current(c, l, at)
    PROVE  Ind'
<1> DEFINE outcome == Evaluate(l, at)
<1>1. outcome \in Outcomes
  BY EvaluateType
<1>2. decision' = [decision EXCEPT ![c] = outcome] /\ decision[c] = "none"
  BY DEF consume_if_current
<1>3. UNCHANGED <<clock, stop_epoch, tokens, revoked, reply>>
  BY DEF consume_if_current, authority
<1>4. CASE outcome = "CONSUMED"
  <2>1. consumed[l] = NoCall
    BY <1>4, EvaluateConsumed
  <2>2. consumed' = [consumed EXCEPT ![l] = c] /\ consumedAt' = [consumedAt EXCEPT ![l] = clock]
    BY <1>4 DEF consume_if_current
  <2>3. TypeOK'
    BY <1>1, <1>2, <1>3, <2>2 DEF Ind, TypeOK
  <2>4. Decided'
    <3> SUFFICES ASSUME NEW d \in Calls, decision'[d] = "CONSUMED"
                 PROVE  \E m \in Leases : consumed'[m] = d
      BY DEF Decided
    <3>1. CASE d = c
      BY <2>2, <3>1 DEF Ind, TypeOK
    <3>2. CASE d # c
      <4>1. PICK m \in Leases : consumed[m] = d
        BY <1>2, <3>2 DEF Ind, TypeOK, Decided
      <4>2. m # l
        BY <2>1, <4>1, LeaseAssumption
      <4> QED BY <2>2, <4>1, <4>2 DEF Ind, TypeOK
    <3> QED BY <3>1, <3>2
  <2>5. Answered'
    BY <1>2, <1>3 DEF Ind, TypeOK, Answered
  <2> QED BY <2>3, <2>4, <2>5 DEF Ind
<1>5. CASE outcome # "CONSUMED"
  <2>1. UNCHANGED <<consumed, consumedAt>>
    BY <1>5 DEF consume_if_current
  <2>2. TypeOK'
    BY <1>1, <1>2, <1>3, <2>1 DEF Ind, TypeOK
  <2>3. Decided'
    BY <1>2, <1>5, <2>1 DEF Ind, TypeOK, Decided
  <2>4. Answered'
    BY <1>2, <1>3 DEF Ind, TypeOK, Answered
  <2> QED BY <2>2, <2>3, <2>4 DEF Ind
<1> QED BY <1>4, <1>5

\* Stops, tokens and revocations leave calls and consumptions alone.
LEMMA AuthoritiesInd ==
    ASSUME Ind, Authorities
    PROVE  Ind' /\ UNCHANGED <<clock, consumed, decision, reply, consumedAt>>
<1>1. ASSUME NEW n \in 0..MaxEpoch, set_stop_epoch(n)
      PROVE  Ind' /\ UNCHANGED <<clock, consumed, decision, reply, consumedAt>>
  BY <1>1, BoundAssumption DEF set_stop_epoch, Ind, TypeOK, Decided, Answered
<1>2. ASSUME NEW a \in ActionIds, NEW n \in 1..MaxToken, set_fencing_token(a, n)
      PROVE  Ind' /\ UNCHANGED <<clock, consumed, decision, reply, consumedAt>>
  BY <1>2, BoundAssumption DEF set_fencing_token, Ind, TypeOK, Decided, Answered
<1>3. ASSUME NEW l \in Leases, revoke(l)
      PROVE  Ind' /\ UNCHANGED <<clock, consumed, decision, reply, consumedAt>>
  BY <1>3 DEF revoke, Ind, TypeOK, Decided, Answered
<1> QED BY <1>1, <1>2, <1>3 DEF Authorities

\* The answers.
LEMMA ReplyInd ==
    ASSUME Ind, NEW c \in Calls, Told(c) \/ NotTold(c)
    PROVE  Ind' /\ UNCHANGED <<clock, authority, consumed, decision, consumedAt>>
<1>1. CASE Told(c)
  BY <1>1 DEF Told, authority, Ind, TypeOK, Decided, Answered, Outcomes
<1>2. CASE NotTold(c)
  BY <1>2 DEF NotTold, authority, Ind, TypeOK, Decided, Answered, Outcomes, Unavailable
<1> QED BY <1>1, <1>2

\* The inductive invariant is preserved by every step of the port.
LEMMA NextInd == Ind /\ [Next]_vars => Ind'
<1> SUFFICES ASSUME Ind, [Next]_vars PROVE Ind'
  OBVIOUS
<1>1. CASE Ticks
  BY <1>1 DEF Ticks, authority, Ind, TypeOK, Decided, Answered
<1>2. CASE Authorities
  BY <1>2, AuthoritiesInd
<1>3. ASSUME NEW c \in Calls, NEW l \in Leases, NEW at \in 0..clock, consume_if_current(c, l, at)
      PROVE  Ind'
  BY <1>3, ConsumeInd DEF Ind, TypeOK
<1>4. ASSUME NEW c \in Calls, Told(c) \/ NotTold(c)
      PROVE  Ind'
  BY <1>4, ReplyInd
<1>5. CASE UNCHANGED vars
  BY <1>5 DEF vars, Ind, TypeOK, Decided, Answered
<1> QED BY <1>1, <1>2, <1>3, <1>4, <1>5 DEF Next

\* The induction over the port's steps.
LEMMA PortInd == Spec => []Ind
BY InitInd, NextInd, PTL DEF Spec

\* Every adapter of the port keeps the types of its state.
THEOREM PortTyped == Spec => []TypeOK
BY PortInd, PTL DEF Ind

\* Every adapter of the port: a caller that was told CONSUMED holds the
\* consumption of a lease, so a lease authorises at most one emission whatever
\* answers were lost.
THEOREM PortReceipts == Spec => []ReceiptsBacked
<1>1. Ind => ReceiptsBacked
  BY DEF Ind, Decided, Answered, ReceiptsBacked, Receipts
<1> QED BY <1>1, PortInd, PTL

\* One step of the port consumes only a free lease that is current.
LEMMA StepConsumes ==
    ASSUME Ind, [Next]_vars, NEW m \in Leases, consumed'[m] # consumed[m]
    PROVE  /\ consumed[m] = NoCall
           /\ EpochOf[m] = stop_epoch /\ TokenOf[m] = tokens[ActionOf[m]]
           /\ m \notin revoked
<1>1. ~Ticks /\ ~UNCHANGED vars
  BY DEF Ticks, vars
<1>2. ~Authorities
  BY AuthoritiesInd
<1>3. \A c \in Calls : ~Told(c) /\ ~NotTold(c)
  BY ReplyInd
<1>4. PICK c \in Calls, l \in Leases, at \in 0..clock : consume_if_current(c, l, at)
  BY <1>1, <1>2, <1>3 DEF Next
<1>5. at \in Nat
  BY DEF Ind, TypeOK
<1>6. Evaluate(l, at) = "CONSUMED" /\ m = l
  BY <1>4 DEF consume_if_current, Ind, TypeOK
<1> QED BY <1>5, <1>6, EvaluateConsumed

\* Every adapter of the port: a consumption is never given to another call.
THEOREM PortConsumesOnce == Spec => ConsumedOnce
<1>1. Ind /\ [Next]_vars => [\A l \in Leases : consumed[l] # NoCall => consumed'[l] = consumed[l]]_vars
  BY StepConsumes
<1> QED BY <1>1, PortInd, PTL DEF Spec, ConsumedOnce

\* Every adapter of the port: what is consumed is of the current epoch and
\* token and is not revoked, so a stop, a newer worker and a revocation win
\* over every call that was not decided before them.
THEOREM PortConsumesCurrent == Spec => ConsumedCurrent
<1>1. Ind /\ [Next]_vars =>
        [\A l \in Leases : consumed'[l] # consumed[l] =>
           /\ EpochOf[l] = stop_epoch /\ TokenOf[l] = tokens[ActionOf[l]]
           /\ l \notin revoked]_vars
  BY StepConsumes
<1> QED BY <1>1, PortInd, PTL DEF Spec, ConsumedCurrent

-------------------------------------------------------------------------------

\* A step of InMemoryLeaseState is a step of the port.
LEMMA InMemoryStep == Ind /\ [InMemoryNext]_vars => [Next]_vars
<1> SUFFICES ASSUME Ind, InMemoryNext PROVE Next
  OBVIOUS
<1>1. clock \in 0..clock
  BY DEF Ind, TypeOK
<1> QED BY <1>1 DEF InMemoryNext, Next

\* InMemoryLeaseState implements the port.
THEOREM InMemoryImplements == InMemorySpec => Spec
<1>1. Ind /\ [InMemoryNext]_vars => Ind'
  BY InMemoryStep, NextInd
<1>2. InMemorySpec => []Ind
  BY <1>1, InitInd, PTL DEF InMemorySpec
<1> QED BY <1>2, InMemoryStep, PTL DEF InMemorySpec, Spec

\* InMemoryLeaseState reads the clock under its lock: no lease is consumed
\* outside its window as of the consumption.
THEOREM InMemoryWindow == InMemorySpec => []WindowAtEmission
<1>1. Init => WindowAtEmission
  BY DEF Init, WindowAtEmission
<1>2. Ind /\ WindowAtEmission /\ [InMemoryNext]_vars => WindowAtEmission'
  <2> SUFFICES ASSUME Ind, WindowAtEmission, [InMemoryNext]_vars PROVE WindowAtEmission'
    OBVIOUS
  <2>1. CASE UNCHANGED <<consumed, consumedAt>>
    BY <2>1 DEF WindowAtEmission
  <2>2. ASSUME NEW c \in Calls, NEW l \in Leases, consume_if_current(c, l, clock)
        PROVE  WindowAtEmission'
    <3>1. CASE Evaluate(l, clock) = "CONSUMED"
      <4>1. Issued[l] <= clock /\ clock < Expires[l]
        BY <3>1, EvaluateConsumed DEF Ind, TypeOK
      <4> QED BY <2>2, <3>1, <4>1 DEF consume_if_current, Ind, TypeOK, WindowAtEmission
    <3>2. CASE Evaluate(l, clock) # "CONSUMED"
      BY <2>2, <3>2 DEF consume_if_current, WindowAtEmission
    <3> QED BY <3>1, <3>2
  <2>3. Ticks => UNCHANGED <<consumed, consumedAt>>
    BY DEF Ticks
  <2>4. Authorities => UNCHANGED <<consumed, consumedAt>>
    BY AuthoritiesInd
  <2>5. \A c \in Calls : Told(c) \/ NotTold(c) => UNCHANGED <<consumed, consumedAt>>
    BY ReplyInd
  <2>6. UNCHANGED vars => UNCHANGED <<consumed, consumedAt>>
    BY DEF vars
  <2> QED BY <2>1, <2>2, <2>3, <2>4, <2>5, <2>6 DEF InMemoryNext
<1> QED BY <1>1, <1>2, PortInd, InMemoryImplements, PTL DEF InMemorySpec

-------------------------------------------------------------------------------

\* What the refinement needs of the updates in flight: their instants have
\* been read, so they are not after the clock.
Sent == \A c \in Calls : \A r \in request[c] : r.lease \in Leases /\ r.now \in 0..clock

\* Every step of the workflow, its clients and its workers is a step of the
\* port or leaves the port's variables alone, and no update is from the future.
LEMMA TemporalStep ==
    ASSUME Ind, Sent, request \in [Calls -> SUBSET [lease : Leases, now : Nat]], [TNext]_tvars
    PROVE  /\ [Next]_vars /\ Sent'
           /\ request' \in [Calls -> SUBSET [lease : Leases, now : Nat]]
<1> USE DEF temporal
<1>1. CASE Ticks /\ UNCHANGED temporal
  BY <1>1 DEF Ticks, Next, Sent, Ind, TypeOK
<1>2. CASE Update
  <2>1. UNCHANGED clock
    BY <1>2, AuthoritiesInd DEF Update
  <2> QED BY <1>2, <2>1 DEF Update, Next, Sent
<1>3. CASE ContinueAsNew
  BY <1>3 DEF ContinueAsNew, Carried, Snapshot, vars, Sent
<1>4. CASE WorkerMoves
  BY <1>4 DEF WorkerMoves, vars, Sent
<1>5. CASE Terminate
  BY <1>5 DEF Terminate, vars, Sent
<1>6. ASSUME NEW c \in Calls, NEW l \in Leases, Send(c, l)
      PROVE  /\ [Next]_vars /\ Sent'
             /\ request' \in [Calls -> SUBSET [lease : Leases, now : Nat]]
  BY <1>6 DEF Send, vars, Sent, Ind, TypeOK
<1>7. ASSUME NEW c \in Calls, Handle(c)
      PROVE  /\ [Next]_vars /\ Sent'
             /\ request' \in [Calls -> SUBSET [lease : Leases, now : Nat]]
  <2>1. PICK r \in request[c] : consume_if_current(c, r.lease, r.now)
    BY <1>7 DEF Handle
  <2>2. r.lease \in Leases /\ r.now \in 0..clock
    BY DEF Sent
  <2>3. Next
    BY <2>1, <2>2 DEF Next
  <2>4. UNCHANGED clock
    BY <2>1 DEF consume_if_current
  <2> QED BY <1>7, <2>3, <2>4 DEF Handle, Sent
<1>8. ASSUME NEW c \in Calls, GiveUp(c) \/ Answer(c)
      PROVE  /\ [Next]_vars /\ Sent'
             /\ request' \in [Calls -> SUBSET [lease : Leases, now : Nat]]
  BY <1>8, ReplyInd DEF GiveUp, Answer, Next, Sent
<1>9. CASE UNCHANGED tvars
  BY <1>9 DEF tvars, vars, Sent
<1> QED BY <1>1, <1>2, <1>3, <1>4, <1>5, <1>6, <1>7, <1>8, <1>9 DEF TNext

\* The Temporal adapter implements the port, for any leases, callers and
\* bounds: timeouts, late updates, restarts, roll-over and termination add no
\* behaviour.  With the theorems on the port it follows that it consumes each
\* lease once, and only a current one.
THEOREM TemporalImplements == TSpec => Implements
<1> DEFINE TInd == Ind /\ Sent /\ request \in [Calls -> SUBSET [lease : Leases, now : Nat]]
<1>1. TInit => TInd
  BY InitInd DEF TInit, Sent
<1>2. TInd /\ [TNext]_tvars => TInd' /\ [Next]_vars
  BY TemporalStep, NextInd
<1>3. TSpec => []TInd
  BY <1>1, <1>2, PTL DEF TSpec
<1>4. TInit => Init
  BY DEF TInit
<1> QED BY <1>2, <1>3, <1>4, PTL DEF TSpec, Implements, Spec
===============================================================================
