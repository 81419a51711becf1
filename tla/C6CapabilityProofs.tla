--------------------------- MODULE C6CapabilityProofs ---------------------------
(***************************************************************************)
(* Proofs about the emergency stop and the capability authority, for any   *)
(* leases, scopes, offers, threads and principals, any instants and any    *)
(* number of stops, resets and uses.                                       *)
(***************************************************************************)
EXTENDS C6Capabilities, TLAPS

-------------------------------------------------------------------------------
(* The emergency stop *)

StopEvent == [epoch : Nat, status : StopStatus, at : Times]

\* No event is from a later epoch than the current one, and the event of a
\* confirmed reset is from a later epoch than every event before it.
StopInv ==
    /\ epoch \in Nat /\ status \in StopStatus /\ history \in Seq(StopEvent)
    /\ \A n \in 1..Len(history) : history[n].epoch <= epoch
    /\ \A j \in 1..Len(history) : history[j].status = "NORMAL" =>
         \A n \in 1..(j - 1) : history[n].epoch < history[j].epoch

\* What every operation of the controller does: it appends one event, of the
\* same epoch or the next; the next where it is a stop or a confirmed reset.
StopMove ==
    \E e \in {epoch, epoch + 1}, s \in StopStatus, at \in Times :
       /\ s \in {"STOPPING", "NORMAL"} => e = epoch + 1
       /\ Accept(e, s, at)

\* First-order leaves are for Zenon, arithmetic and sequences for the SMT solver.
USE ZenonT(30), SMTT(60)

\* The operations are such moves.
LEMMA StopMoveOfNext == StopNext => StopMove
BY StopBounds DEF StopNext, StopMove, activate, finish_draining, request_reset, confirm_reset,
                  StopStatus, Times

\* A move extends the history by its event.
LEMMA StopMoveHistory ==
    ASSUME StopInv, NEW e \in Nat, NEW s \in StopStatus, NEW at \in Times, Accept(e, s, at)
    PROVE  /\ history' \in Seq(StopEvent) /\ Len(history') = Len(history) + 1
           /\ \A n \in 1..Len(history) : history'[n] = history[n]
           /\ history'[Len(history) + 1] = [epoch |-> e, status |-> s, at |-> at]
BY SMTT(60) DEF StopInv, Accept, StopEvent

\* A move keeps the order of the epochs.
LEMMA StopMoveInv ==
    ASSUME StopInv, StopMove
    PROVE  StopInv'
<1>1. PICK e \in {epoch, epoch + 1}, s \in StopStatus, at \in Times :
         /\ s \in {"STOPPING", "NORMAL"} => e = epoch + 1
         /\ Accept(e, s, at)
    BY DEF StopMove
<1>2. epoch \in Nat /\ e \in Nat /\ epoch <= e
    BY SMTT(60) DEF StopInv
<1>3. /\ history' \in Seq(StopEvent) /\ Len(history') = Len(history) + 1 /\ Len(history) \in Nat
      /\ \A n \in 1..Len(history) : history'[n] = history[n]
      /\ history'[Len(history) + 1] = [epoch |-> e, status |-> s, at |-> at]
    BY SMTT(60), <1>1, <1>2, StopMoveHistory DEF StopInv
<1>4. epoch' = e /\ status' = s
    BY <1>1 DEF Accept
<1>5. \A n \in 1..Len(history) : history[n].epoch \in Nat /\ history[n].epoch <= epoch
  <2>1. \A n \in 1..Len(history) : history[n] \in StopEvent
      BY SMTT(60) DEF StopInv
  <2> QED
      BY <2>1 DEF StopInv, StopEvent
<1>6. \A n \in 1..Len(history') : history'[n].epoch <= epoch'
    BY SMTT(60), <1>2, <1>3, <1>4, <1>5
<1>7. \A j \in 1..Len(history') : history'[j].status = "NORMAL" =>
         \A n \in 1..(j - 1) : history'[n].epoch < history'[j].epoch
  <2> SUFFICES ASSUME NEW j \in 1..Len(history'), history'[j].status = "NORMAL",
                      NEW n \in 1..(j - 1)
               PROVE  history'[n].epoch < history'[j].epoch
      OBVIOUS
  <2>1. CASE j \in 1..Len(history)
      BY SMTT(60), <1>3, <2>1 DEF StopInv
  <2>2. CASE j = Len(history) + 1
      BY SMTT(60), <1>1, <1>2, <1>3, <1>5, <2>2
  <2> QED
      BY SMTT(60), <1>3, <2>1, <2>2
<1> QED
    BY <1>2, <1>3, <1>4, <1>6, <1>7 DEF StopInv

\* The order of the epochs is inductive.
LEMMA StopStep == StopInv /\ [StopNext]_stop => StopInv'
<1> SUFFICES ASSUME StopInv, [StopNext]_stop PROVE StopInv'
    OBVIOUS
<1>1. CASE StopNext
    BY <1>1, StopMoveOfNext, StopMoveInv
<1>2. CASE UNCHANGED stop
    BY <1>2 DEF stop, StopInv
<1> QED
    BY <1>1, <1>2

\* The controller starts without events.
LEMMA StopInitInv == StopInit => StopInv
BY SMTT(60) DEF StopInit, StopInv, StopStatus

\* An epoch that a stop has ended never comes back.
LEMMA StopEpochs == StopInv => EpochNeverReenabled
BY SMTT(60) DEF StopInv, EpochNeverReenabled, StopEvent

\* The controller alone: however often it is stopped and reset, by whomever,
\* the epoch after a reset is later than every epoch before.
THEOREM EpochsNeverReenabled == StopSpec => []EpochNeverReenabled
BY StopInitInv, StopStep, StopEpochs, PTL DEF StopSpec

-------------------------------------------------------------------------------
(* The ledger of leases *)

Call == [id : LeaseIds, offer : Offers, parent : SUBSET Lease, built : SUBSET Lease]
Use == [id : LeaseIds, scope : Scopes, at : Instants, guarded : BOOLEAN, begun : Nat]

\* Two records of one lease: they differ at most in their revocation.
SameLease(k, l) ==
    /\ k.id = l.id /\ k.from = l.from /\ k.until = l.until /\ k.scope = l.scope
    /\ k.max = l.max /\ k.epoch = l.epoch /\ k.parent = l.parent /\ k.mark = l.mark

\* A lease lies within the one it was delegated from.
Within(l, k) ==
    /\ k.from <= l.from /\ l.until <= k.until
    /\ l.scope \subseteq k.scope
    /\ k.epoch # {} => l.epoch = k.epoch

\* A lease that carries an epoch was built in it: a stop accepted since then has
\* made the epoch a later one.
Fenced(l) ==
    /\ l.mark <= Len(history)
    /\ \A e \in l.epoch :
         /\ e <= epoch
         /\ \A n \in (l.mark + 1)..Len(history) :
              history[n].status = "STOPPING" => e < history[n].epoch

\* Every parent of the lease is in the ledger and contains it.
Contained(l) == \A p \in l.parent : \E k \in Ledger(p) : Within(l, k)

LedgerTyped ==
    /\ bound \in BOOLEAN
    /\ leases \subseteq Lease
    /\ uses \in [LeaseIds -> Nat]
    /\ issuing \in [Threads -> SUBSET Call]
    /\ using \subseteq Use
    /\ \A u, v \in using : u = v
    /\ \A k, l \in leases : k.id = l.id => k = l

\* The leases recorded and the leases being issued are fenced and contained; the
\* copy of a parent that a call keeps is a lease of the ledger.
LedgerInv ==
    /\ LedgerTyped
    /\ UsesBounded
    /\ \A l \in leases : Fenced(l) /\ Contained(l)
    /\ \A t \in Threads : \A c \in issuing[t] :
         /\ \A l \in c.built : Fenced(l) /\ Contained(l)
         /\ \A p \in c.parent : \E k \in leases : SameLease(k, p)

\* Nothing is issued yet.
LEMMA LedgerInit == Init => LedgerInv
BY SMTT(60) DEF Init, LedgerInv, LedgerTyped, UsesBounded

\* What the sweep of a stop makes of a lease is that lease, perhaps revoked.
LEMMA SweepKeeps ==
    ASSUME StopInv, NEW l \in Lease
    PROVE  SweepOne(l) \in Lease /\ SameLease(SweepOne(l), l)
<1>1. \A v \in Superseding(LeaseEpoch(l)) : v \in StopEvent
    BY SMTT(60) DEF Superseding, StopInv
<1>2. CASE l.revoked = 0 /\ LeaseEpoch(l) # epoch /\ Superseding(LeaseEpoch(l)) # {}
  <2>1. PICK v \in Superseding(LeaseEpoch(l)) : SweepOne(l) = [l EXCEPT !.revoked = Later(v.at, l.from)]
      BY <1>2 DEF SweepOne
  <2>2. v.at \in Times /\ l.from \in Times
      BY <1>1 DEF StopEvent, Lease
  <2>3. Later(v.at, l.from) \in 0..MaxTime
      BY SMTT(60), <2>2, StopBounds DEF Later, Times
  <2> QED
      BY <2>1, <2>3 DEF Lease, SameLease
<1>3. CASE ~(l.revoked = 0 /\ LeaseEpoch(l) # epoch /\ Superseding(LeaseEpoch(l)) # {})
    BY <1>3 DEF SweepOne, SameLease
<1> QED
    BY <1>2, <1>3

\* A ledger in which leases were only revoked, function f saying how.
Revised(f) ==
    /\ f \in [leases -> Lease]
    /\ \A l \in leases : SameLease(f[l], l)
    /\ leases' = {f[l] : l \in leases}

\* Revisions keep the ledger's invariant, whatever calls are in progress.
LEMMA LedgerRevised ==
    ASSUME LedgerInv, NEW f, Revised(f), UNCHANGED <<stop, uses, issuing, bound>>,
           using' \subseteq Use,
           \A u, v \in using' : u = v
    PROVE  LedgerInv'
<1>1. \A k \in leases' : k \in Lease /\ \E l \in leases : k = f[l] /\ SameLease(k, l)
    BY DEF Revised
<1>2. \A l \in leases : f[l] \in leases' /\ SameLease(f[l], l)
    BY DEF Revised
<1>3. LedgerTyped'
  <2>1. ASSUME NEW k \in leases', NEW l \in leases', k.id = l.id PROVE k = l
      BY SMTT(60), <1>1, <2>1 DEF LedgerInv, LedgerTyped, SameLease
  <2> QED
      BY <1>1, <2>1 DEF LedgerInv, LedgerTyped
<1>4. UsesBounded'
    BY SMTT(60), <1>1 DEF LedgerInv, UsesBounded, SameLease
<1>5. \A l : Fenced(l)' = Fenced(l)
    BY DEF Fenced, stop
<1>6. ASSUME NEW l \in Lease, Contained(l)
      PROVE  Contained(l)'
    BY SMTT(60), <1>2, <1>6 DEF Contained, Ledger, Within, SameLease
<1>7. ASSUME NEW k \in leases'
      PROVE  Fenced(k)' /\ Contained(k)'
  <2>1. PICK l \in leases : SameLease(k, l)
      BY <1>1
  <2>2. l \in Lease /\ Fenced(l) /\ Contained(l)
      BY DEF LedgerInv, LedgerTyped
  <2>3. Fenced(l)' /\ Contained(l)'
      BY <1>5, <1>6, <2>2
  <2> QED
      BY <2>1, <2>3 DEF Fenced, Contained, Within, SameLease
<1>8. ASSUME NEW t \in Threads, NEW c \in issuing'[t]
      PROVE  /\ \A l \in c.built : Fenced(l)' /\ Contained(l)'
             /\ \A p \in c.parent : \E k \in leases' : SameLease(k, p)
  <2>1. c \in issuing[t] /\ c \in Call
      BY DEF LedgerInv, LedgerTyped
  <2>2. c.built \subseteq Lease
      BY <2>1 DEF Call
  <2>3. \A l \in c.built : Fenced(l)' /\ Contained(l)'
      BY <1>5, <1>6, <2>1, <2>2 DEF LedgerInv
  <2>4. \A p \in c.parent : \E k \in leases' : SameLease(k, p)
      BY SMTT(60), <1>2, <2>1 DEF LedgerInv, SameLease
  <2> QED
      BY <2>3, <2>4
<1> QED
    BY <1>3, <1>4, <1>7, <1>8 DEF LedgerInv

\* The sweep is a revision.
LEMMA SweepRevises ==
    ASSUME StopInv, LedgerTyped, leases' = Swept
    PROVE  \E f : Revised(f)
<1>1. CASE bound /\ epoch # swept_epoch
  <2> DEFINE f == [l \in leases |-> SweepOne(l)]
  <2>1. leases' = {f[l] : l \in leases}
      BY <1>1 DEF Swept
  <2>2. f \in [leases -> Lease] /\ \A l \in leases : SameLease(f[l], l)
      BY SweepKeeps DEF LedgerTyped
  <2> QED
      BY <2>1, <2>2 DEF Revised
<1>2. CASE ~(bound /\ epoch # swept_epoch)
  <2> DEFINE f == [l \in leases |-> l]
  <2>1. leases' = {f[l] : l \in leases}
      BY <1>2 DEF Swept
  <2>2. f \in [leases -> Lease] /\ \A l \in leases : SameLease(f[l], l)
      BY DEF LedgerTyped, SameLease
  <2> QED
      BY <2>1, <2>2 DEF Revised
<1> QED
    BY <1>1, <1>2

\* So is a revocation after the sweep.
LEMMA RevokeRevises ==
    ASSUME StopInv, LedgerTyped, NEW i \in LeaseIds, NEW at \in Instants, revoke(i, at)
    PROVE  \E f : Revised(f)
<1> DEFINE Mark(k) == IF k.id = i /\ k.revoked = 0 THEN [k EXCEPT !.revoked = at] ELSE k
           sweep(l) == IF bound /\ epoch # swept_epoch THEN SweepOne(l) ELSE l
           f == [l \in leases |-> Mark(sweep(l))]
<1>1. at \in 0..MaxTime
    BY SMTT(60), CallsAssumption, StopBounds DEF Times
<1>2. \A k \in Lease : Mark(k) \in Lease /\ SameLease(Mark(k), k)
    BY <1>1 DEF Lease, SameLease
<1>3. \A l \in leases : sweep(l) \in Lease /\ SameLease(sweep(l), l)
    BY SweepKeeps DEF LedgerTyped, SameLease
<1>4. \A l \in leases : f[l] \in Lease /\ SameLease(f[l], l)
    BY SMTT(60), <1>2, <1>3 DEF SameLease
<1>5. Swept = {sweep(l) : l \in leases}
    BY DEF Swept
<1>6. leases' = {Mark(k) : k \in Swept}
    BY DEF revoke
<1>7. leases' = {f[l] : l \in leases}
    BY SMTT(60), <1>5, <1>6
<1>8. f \in [leases -> Lease]
    BY <1>4
<1> QED
    BY <1>4, <1>7, <1>8 DEF Revised

\* A lease that _current_stop_epoch lets a call build is fenced, and lies within
\* the parents the call read.
LEMMA OfferedFenced ==
    ASSUME StopInv, LedgerTyped, NEW i \in LeaseIds, NEW o \in Offers, NEW parent \in SUBSET Lease,
           \A p \in parent : \E k \in leases : SameLease(k, p),
           NEW l \in Offered(i, o, parent)
    PROVE  l \in Lease /\ Fenced(l) /\ Contained(l)
<1>1. l = Build(i, o, parent, IF bound THEN {epoch} ELSE {})
    BY DEF Offered
<1>2. Len(history) \in Nat /\ epoch \in Nat
    BY SMTT(60) DEF StopInv
<1>3. o.from \in Times /\ o.until \in Times /\ o.scope \in SUBSET Scopes /\ o.max \in Nat
    BY OffersAssumption
<1>4. {p.id : p \in parent} \subseteq LeaseIds
    BY DEF Lease
<1>5. l \in Lease
    BY SMTT(60), <1>1, <1>2, <1>3, <1>4, StopBounds DEF Build, Lease
<1>6. Fenced(l)
    BY SMTT(60), <1>1, <1>2 DEF Build, Fenced
<1>7. Contained(l)
  <2> SUFFICES ASSUME NEW j \in l.parent PROVE \E k \in Ledger(j) : Within(l, k)
      BY DEF Contained
  <2>1. PICK p \in parent : p.id = j
      BY <1>1 DEF Build
  <2>2. PICK k \in leases : SameLease(k, p)
      BY <2>1
  <2>3. validate_delegation(p, l)
      BY <2>1 DEF Offered
  <2>4. p.from \in Times /\ l.from \in Times
      BY <1>5 DEF Lease
  <2> QED
      BY <2>1, <2>2, <2>3, <2>4 DEF Ledger, Within, SameLease, validate_delegation, Times
<1> QED
    BY <1>5, <1>6, <1>7

\* What the ledger's invariant asks of the calls in progress.
CallSound(c) ==
    /\ c \in Call
    /\ \A l \in c.built : Fenced(l) /\ Contained(l)
    /\ \A p \in c.parent : \E k \in leases : SameLease(k, p)

\* A step of issue that touches nothing but its own call.
LEMMA IssuingMoves ==
    ASSUME StopInv, LedgerInv, NEW t \in Threads, NEW S, \A c \in S : CallSound(c),
           issuing' = [issuing EXCEPT ![t] = S],
           UNCHANGED <<stop, bound, leases, uses, using>>
    PROVE  LedgerInv'
<1>1. S \subseteq Call
    BY DEF CallSound
<1>2. issuing' \in [Threads -> SUBSET Call]
    BY <1>1 DEF LedgerInv, LedgerTyped
<1>3. LedgerTyped' /\ UsesBounded'
    BY <1>2 DEF LedgerInv, LedgerTyped, UsesBounded
<1>4. \A l : Fenced(l)' = Fenced(l) /\ Contained(l)' = Contained(l)
    BY DEF Fenced, Contained, Ledger, stop
<1>5. \A u \in Threads : \A c \in issuing'[u] :
         /\ \A l \in c.built : Fenced(l) /\ Contained(l)
         /\ \A p \in c.parent : \E k \in leases : SameLease(k, p)
    BY DEF LedgerInv, LedgerTyped, CallSound
<1> QED
    BY <1>3, <1>4, <1>5 DEF LedgerInv

\* The three steps of issue that build a lease.
LEMMA LedgerBuild ==
    ASSUME StopInv, LedgerInv, NEW t \in Threads,
           \/ \E i \in LeaseIds, o \in Offers : IssueRoot(t, i, o)
           \/ IssueEpoch(t)
    PROVE  LedgerInv'
<1>1. CASE \E i \in LeaseIds, o \in Offers : IssueRoot(t, i, o)
  <2>1. PICK i \in LeaseIds, o \in Offers : IssueRoot(t, i, o)
      BY <1>1
  <2>2. CallSound([id |-> i, offer |-> o, parent |-> {}, built |-> Offered(i, o, {})])
      BY OfferedFenced DEF CallSound, Call, LedgerInv
  <2>3. /\ issuing' = [issuing EXCEPT ![t] =
              {[id |-> i, offer |-> o, parent |-> {}, built |-> Offered(i, o, {})]}]
        /\ UNCHANGED <<stop, bound, leases, uses, using>>
      BY <2>1 DEF IssueRoot, authority
  <2> QED
      BY <2>2, <2>3, IssuingMoves
<1>2. CASE IssueEpoch(t)
  <2>1. PICK c \in issuing[t] : issuing' = [issuing EXCEPT ![t] =
           IF Offered(c.id, c.offer, c.parent) = {} THEN {}
           ELSE {[c EXCEPT !.built = Offered(c.id, c.offer, c.parent)]}]
      BY <1>2 DEF IssueEpoch
  <2>2. c \in Call /\ \A p \in c.parent : \E k \in leases : SameLease(k, p)
      BY DEF LedgerInv, LedgerTyped
  <2>3. c.id \in LeaseIds /\ c.offer \in Offers /\ c.parent \in SUBSET Lease
      BY <2>2 DEF Call
  <2>4. \A l \in Offered(c.id, c.offer, c.parent) : l \in Lease /\ Fenced(l) /\ Contained(l)
      BY <2>2, <2>3, OfferedFenced DEF LedgerInv
  <2> DEFINE n == [c EXCEPT !.built = Offered(c.id, c.offer, c.parent)]
  <2>5. CallSound(n)
      BY <2>2, <2>3, <2>4 DEF CallSound, Call
  <2>6. UNCHANGED <<stop, bound, leases, uses, using>>
      BY <1>2 DEF IssueEpoch, authority
  <2>7. CASE Offered(c.id, c.offer, c.parent) = {}
      BY <2>1, <2>6, <2>7, IssuingMoves
  <2>8. CASE Offered(c.id, c.offer, c.parent) # {}
    <3>1. issuing' = [issuing EXCEPT ![t] = {n}]
        BY <2>1, <2>8
    <3> HIDE DEF n
    <3>2. \A d \in {n} : CallSound(d)
        BY <2>5
    <3> QED
        BY <2>6, <3>1, <3>2, IssuingMoves
  <2> QED
      BY <2>7, <2>8
<1> QED
    BY <1>1, <1>2

\* issue reads a parent from the swept ledger and keeps it.
LEMMA LedgerDelegated ==
    ASSUME StopInv, LedgerInv, NEW t \in Threads, NEW i \in LeaseIds, NEW o \in Offers,
           NEW p \in LeaseIds, IssueDelegated(t, i, o, p)
    PROVE  LedgerInv'
<1>1. PICK f : Revised(f)
    BY SweepRevises DEF IssueDelegated, LedgerInv
<1>2. PICK l \in leases' : issuing' = [issuing EXCEPT ![t] =
         {[id |-> i, offer |-> o, parent |-> {l}, built |-> {}]}]
    BY DEF IssueDelegated
<1>3. l \in Lease /\ SameLease(l, l)
    BY <1>1 DEF Revised, SameLease
<1>4. UNCHANGED <<stop, uses, bound, using>>
    BY DEF IssueDelegated
<1>5. \A k \in leases' : k \in Lease /\ \E j \in leases : SameLease(k, j)
    BY <1>1 DEF Revised
<1>6. \A j \in leases : f[j] \in leases' /\ SameLease(f[j], j)
    BY <1>1 DEF Revised
<1>7. LedgerTyped'
  <2>1. ASSUME NEW j \in leases', NEW k \in leases', j.id = k.id PROVE j = k
      BY SMTT(60), <1>1, <2>1 DEF Revised, LedgerInv, LedgerTyped, SameLease
  <2>2. issuing' \in [Threads -> SUBSET Call]
      BY SMTT(60), <1>2, <1>3 DEF LedgerInv, LedgerTyped, Call
  <2> QED
      BY <1>4, <1>5, <2>1, <2>2 DEF LedgerInv, LedgerTyped
<1>8. UsesBounded'
    BY SMTT(60), <1>4, <1>5 DEF LedgerInv, UsesBounded, SameLease
<1>9. ASSUME NEW k \in Lease
      PROVE  Fenced(k)' = Fenced(k) /\ (Contained(k) => Contained(k)')
    BY SMTT(60), <1>4, <1>6 DEF Fenced, stop, Contained, Ledger, Within, SameLease
<1>10. ASSUME NEW k \in leases' PROVE Fenced(k)' /\ Contained(k)'
  <2>1. PICK j \in leases : SameLease(k, j)
      BY <1>5
  <2>2. j \in Lease /\ Fenced(j)' /\ Contained(j)'
      BY <1>9 DEF LedgerInv, LedgerTyped
  <2> QED
      BY <2>1, <2>2 DEF Fenced, Contained, Within, SameLease
<1>11. ASSUME NEW u \in Threads, NEW c \in issuing'[u]
       PROVE  /\ \A k \in c.built : Fenced(k)' /\ Contained(k)'
              /\ \A q \in c.parent : \E k \in leases' : SameLease(k, q)
  <2>1. CASE c \in issuing[u]
    <3>1. c.built \subseteq Lease
        BY SMTT(60), <2>1 DEF LedgerInv, LedgerTyped, Call
    <3> QED
        BY SMTT(60), <1>6, <1>9, <2>1, <3>1 DEF LedgerInv, SameLease
  <2>2. CASE c = [id |-> i, offer |-> o, parent |-> {l}, built |-> {}]
      BY <1>3, <2>2
  <2> QED
      BY <1>2, <2>1, <2>2 DEF LedgerInv, LedgerTyped
<1> QED
    BY <1>7, <1>8, <1>10, <1>11 DEF LedgerInv

\* The insertion adds a lease under a new id, unused.
LEMMA LedgerInsert ==
    ASSUME StopInv, LedgerInv, NEW t \in Threads, IssueInsert(t)
    PROVE  LedgerInv'
<1>c. PICK c \in issuing[t] : \E l \in c.built :
         IF \E k \in leases : k.id = l.id
         THEN UNCHANGED <<leases, uses>>
         ELSE leases' = leases \cup {l} /\ uses' = [uses EXCEPT ![l.id] = 0]
    BY DEF IssueInsert
<1>1. PICK l \in c.built :
         IF \E k \in leases : k.id = l.id
         THEN UNCHANGED <<leases, uses>>
         ELSE leases' = leases \cup {l} /\ uses' = [uses EXCEPT ![l.id] = 0]
    BY <1>c
<1>2. l \in Lease /\ Fenced(l) /\ Contained(l)
    BY SMTT(60) DEF LedgerInv, LedgerTyped, Call
<1>3. issuing' = [issuing EXCEPT ![t] = {}] /\ UNCHANGED <<stop, bound, using>>
    BY DEF IssueInsert
<1>4. CASE \E k \in leases : k.id = l.id
    BY <1>1, <1>3, <1>4, IssuingMoves
<1>5. CASE ~\E k \in leases : k.id = l.id
  <2>1. leases' = leases \cup {l} /\ uses' = [uses EXCEPT ![l.id] = 0]
      BY <1>1, <1>5
  <2>2. l.id \in LeaseIds
      BY <1>2 DEF Lease
  <2>3. LedgerTyped'
      BY <1>2, <1>3, <1>5, <2>1, <2>2 DEF LedgerInv, LedgerTyped
  <2>4. UsesBounded'
    <3> SUFFICES ASSUME NEW k \in leases', k.max # 0 PROVE uses'[k.id] <= k.max
        BY DEF UsesBounded
    <3>1. CASE k = l
        BY SMTT(60), <1>2, <2>1, <2>2, <3>1 DEF LedgerInv, LedgerTyped, Lease
    <3>2. CASE k \in leases
        BY <1>5, <2>1, <3>2 DEF LedgerInv, LedgerTyped, UsesBounded, Lease
    <3> QED
        BY <2>1, <3>1, <3>2
  <2>5. \A k : Fenced(k)' = Fenced(k) /\ (Contained(k) => Contained(k)')
      BY <1>3, <2>1 DEF Fenced, stop, Contained, Ledger
  <2>6. \A k \in leases' : Fenced(k)' /\ Contained(k)'
      BY <1>2, <2>1, <2>5 DEF LedgerInv
  <2>7. \A u \in Threads : \A d \in issuing'[u] : d \in issuing[u]
      BY <1>3 DEF LedgerInv, LedgerTyped
  <2>8. \A u \in Threads : \A d \in issuing'[u] :
           /\ \A k \in d.built : Fenced(k)' /\ Contained(k)'
           /\ \A q \in d.parent : \E k \in leases' : SameLease(k, q)
      BY <2>1, <2>5, <2>7 DEF LedgerInv
  <2> QED
      BY <2>3, <2>4, <2>6, <2>8 DEF LedgerInv
<1> QED
    BY <1>4, <1>5

\* The guard changes nothing but the call.
LEMMA LedgerGuard ==
    ASSUME LedgerInv, AuthorizeGuard
    PROVE  LedgerInv'
<1>1. PICK u \in using : using' = {[u EXCEPT !.guarded = TRUE] :
                             l \in {k \in Ledger(u.id) : require_current_stop_epoch(k)}}
    BY DEF AuthorizeGuard
<1>u. u \in Use
    BY DEF LedgerInv, LedgerTyped
<1>2. \A v \in using' : v = [u EXCEPT !.guarded = TRUE]
    BY <1>1
<1>3. [u EXCEPT !.guarded = TRUE] \in Use
    BY <1>u DEF Use
<1>4. using' \subseteq Use /\ \A v, w \in using' : v = w
    BY <1>2, <1>3
<1>5. UNCHANGED <<stop, bound, leases, uses, issuing>>
    BY DEF AuthorizeGuard, authority
<1>6. \A l : Fenced(l)' = Fenced(l) /\ Contained(l)' = Contained(l)
    BY <1>5 DEF Fenced, stop, Contained, Ledger
<1> QED
    BY <1>4, <1>5, <1>6 DEF LedgerInv, LedgerTyped, UsesBounded

\* A granted use finds the lease not exhausted, and ids are unique.
LEMMA LedgerDecide ==
    ASSUME LedgerInv, NEW consume \in BOOLEAN, AuthorizeDecide(consume)
    PROVE  LedgerInv'
<1>1. UNCHANGED <<stop, bound, leases, issuing>> /\ using' = {}
    BY DEF AuthorizeDecide
<1>2. uses' \in [LeaseIds -> Nat]
  <2>1. PICK u \in using : uses' \in {uses, [uses EXCEPT ![u.id] = @ + 1]}
      BY DEF AuthorizeDecide
  <2>2. u.id \in LeaseIds /\ uses \in [LeaseIds -> Nat]
      BY DEF LedgerInv, LedgerTyped, Use
  <2>3. uses[u.id] + 1 \in Nat
      BY SMTT(60), <2>2
  <2> QED
      BY <2>1, <2>2, <2>3
<1>3. UsesBounded'
  <2> SUFFICES ASSUME NEW k \in leases, k.max # 0 PROVE uses'[k.id] <= k.max
      BY <1>1 DEF UsesBounded
  <2>1. k \in Lease /\ k.id \in LeaseIds /\ k.max \in Nat /\ uses[k.id] \in Nat /\ uses[k.id] <= k.max
      BY DEF LedgerInv, LedgerTyped, UsesBounded, Lease
  <2>2. CASE uses' = uses
      BY <2>1, <2>2
  <2>3. CASE uses' # uses
    <3>u. PICK u \in using : \E l \in Ledger(u.id) :
             ~Exhausted(l) /\ uses' = [uses EXCEPT ![u.id] = @ + 1]
        BY <2>3 DEF AuthorizeDecide
    <3>1. PICK l \in Ledger(u.id) : ~Exhausted(l) /\ uses' = [uses EXCEPT ![u.id] = @ + 1]
        BY <3>u
    <3>2. CASE u.id = k.id
      <4>1. l = k
          BY <3>2 DEF Ledger, LedgerInv, LedgerTyped
      <4>2. uses[k.id] < k.max
          BY SMTT(60), <2>1, <3>1, <4>1 DEF Exhausted
      <4>3. uses'[k.id] = uses[k.id] + 1
          BY <2>1, <3>1, <3>2 DEF LedgerInv, LedgerTyped
      <4> QED
          BY SMTT(60), <2>1, <4>2, <4>3
    <3>3. CASE u.id # k.id
        BY <2>1, <3>1, <3>3 DEF LedgerInv, LedgerTyped
    <3> QED
        BY <3>2, <3>3
  <2> QED
      BY <2>2, <2>3
<1>4. \A k : Fenced(k)' = Fenced(k) /\ Contained(k)' = Contained(k)
    BY <1>1 DEF Fenced, stop, Contained, Ledger
<1> QED
    BY <1>1, <1>2, <1>3, <1>4 DEF LedgerInv, LedgerTyped

\* A move of the stop only adds events; a new stop is of a later epoch than any
\* lease carries.
LEMMA LedgerStop ==
    ASSUME StopInv, LedgerInv, StopMove, UNCHANGED <<authority, calls>>
    PROVE  LedgerInv'
<1>1. PICK e \in {epoch, epoch + 1}, s \in StopStatus, at \in Times :
         /\ s \in {"STOPPING", "NORMAL"} => e = epoch + 1
         /\ Accept(e, s, at)
    BY DEF StopMove
<1>2. epoch \in Nat /\ e \in Nat /\ epoch <= e /\ epoch' = e
    BY SMTT(60), <1>1 DEF StopInv, Accept
<1>3. /\ Len(history') = Len(history) + 1 /\ Len(history) \in Nat
      /\ \A n \in 1..Len(history) : history'[n] = history[n]
      /\ history'[Len(history) + 1] = [epoch |-> e, status |-> s, at |-> at]
    BY SMTT(60), <1>1, <1>2, StopMoveHistory DEF StopInv
<1>4. ASSUME NEW l \in Lease, Fenced(l)
      PROVE  Fenced(l)'
  <2>1. l.mark \in Nat /\ l.epoch \subseteq Nat
      BY DEF Lease
  <2>2. ASSUME NEW d \in l.epoch, NEW n \in (l.mark + 1)..Len(history'),
               history'[n].status = "STOPPING"
        PROVE  d < history'[n].epoch
    <3>1. CASE n \in 1..Len(history)
        BY SMTT(60), <1>3, <1>4, <2>1, <2>2, <3>1 DEF Fenced
    <3>2. CASE n = Len(history) + 1
      <4>1. d <= epoch /\ d \in Nat
          BY <1>4, <2>1 DEF Fenced
      <4> QED
          BY SMTT(60), <1>1, <1>2, <1>3, <2>2, <3>2, <4>1
    <3> QED
        BY SMTT(60), <1>3, <2>1, <3>1, <3>2
  <2>3. l.mark <= Len(history') /\ \A d \in l.epoch : d <= epoch'
      BY SMTT(60), <1>2, <1>3, <1>4, <2>1 DEF Fenced
  <2> QED
      BY <2>2, <2>3 DEF Fenced
<1>5. UNCHANGED <<bound, leases, uses, issuing, using>>
    BY DEF authority, calls
<1>6. \A l : Contained(l)' = Contained(l)
    BY <1>5 DEF Contained, Ledger
<1>7. leases \subseteq Lease /\ \A t \in Threads : \A c \in issuing[t] : c.built \subseteq Lease
    BY SMTT(60) DEF LedgerInv, LedgerTyped, Call
<1>8. LedgerTyped' /\ UsesBounded'
    BY <1>5 DEF LedgerInv, LedgerTyped, UsesBounded
<1> QED
    BY <1>4, <1>5, <1>6, <1>7, <1>8 DEF LedgerInv

\* A step that leaves ledger and calls as they are, but for the binding.
LEMMA LedgerQuiet ==
    ASSUME LedgerInv, UNCHANGED <<stop, leases, uses, issuing, using>>, bound' \in BOOLEAN
    PROVE  LedgerInv'
<1>1. \A l : Fenced(l)' = Fenced(l) /\ Contained(l)' = Contained(l)
    BY DEF Fenced, stop, Contained, Ledger
<1> QED
    BY <1>1 DEF LedgerInv, LedgerTyped, UsesBounded

\* The invariants of the stop and of the ledger are inductive together.
LEMMA LedgerStep == StopInv /\ LedgerInv /\ [Next]_vars => StopInv' /\ LedgerInv'
<1> SUFFICES ASSUME StopInv, LedgerInv, [Next]_vars PROVE StopInv' /\ LedgerInv'
    OBVIOUS
<1>1. CASE StopMoves
    BY <1>1, StopMoveOfNext, StopMoveInv, LedgerStop DEF StopMoves
<1>2. CASE ~StopMoves
  <2>1. UNCHANGED stop
      BY <1>2 DEF Next, vars, bind_stop_controller, IssueRoot, IssueDelegated, IssueEpoch,
                  IssueInsert, get, revoke, AuthorizeSweep, AuthorizeGuard, AuthorizeDecide
  <2>2. StopInv'
      BY <2>1 DEF stop, StopInv
  <2>3. CASE UNCHANGED vars
      BY <2>2, <2>3, LedgerQuiet DEF vars, authority, calls, LedgerInv, LedgerTyped
  <2>4. CASE bind_stop_controller
      BY <2>2, <2>4, LedgerQuiet DEF bind_stop_controller, calls
  <2>5. CASE get
      BY <2>2, <2>5, SweepRevises, LedgerRevised DEF get, calls, LedgerInv, LedgerTyped
  <2>6. ASSUME NEW i \in LeaseIds, NEW at \in Instants, revoke(i, at)
        PROVE  LedgerInv'
      BY <2>6, RevokeRevises, LedgerRevised DEF revoke, calls, LedgerInv, LedgerTyped
  <2>7. ASSUME NEW i \in LeaseIds, NEW at \in Instants, NEW s \in Scopes, AuthorizeSweep(i, s, at)
        PROVE  LedgerInv'
    <3>1. \E f : Revised(f)
        BY <2>7, SweepRevises DEF AuthorizeSweep, LedgerInv
    <3>2. Len(history) \in Nat
        BY SMTT(60) DEF StopInv
    <3>3. /\ using' = {[id |-> i, scope |-> s, at |-> at, guarded |-> FALSE,
                        begun |-> IF bound THEN Len(history) ELSE 0]}
          /\ UNCHANGED <<stop, uses, issuing, bound>>
        BY <2>7 DEF AuthorizeSweep
    <3>4. using' \subseteq Use /\ \A u, v \in using' : u = v
        BY SMTT(60), <3>2, <3>3 DEF Use
    <3> QED
        BY <3>1, <3>3, <3>4, LedgerRevised
  <2> QED
      BY <1>2, <2>2, <2>3, <2>4, <2>5, <2>6, <2>7, LedgerGuard,
         LedgerBuild, LedgerDelegated, LedgerInsert, LedgerDecide DEF Next
<1> QED
    BY <1>1, <1>2

\* They hold in every behaviour.
LEMMA LedgerInvariant == Spec => [](StopInv /\ LedgerInv)
<1>1. Init => StopInv /\ LedgerInv
    BY StopInitInv, LedgerInit DEF Init
<1> QED
    BY <1>1, LedgerStep, PTL DEF Spec

\* Whatever threads issue, delegate, revoke and use, and whenever the system is
\* stopped and reset meanwhile: no lease is used beyond its limit, a delegated
\* lease lies within its parent, and no reset brings an epoch back.
THEOREM LeasesAreContained == Spec => []LeasesContained
<1>1. StopInv /\ LedgerInv => LeasesContained
    BY StopEpochs
    DEF LeasesContained, LedgerInv, DelegationContained, Contained, Within
<1> QED
    BY LedgerInvariant, <1>1, PTL

\* A call that has passed the guard of a bound stop uses a lease that no stop
\* accepted before the call began has fenced.
GuardInv ==
    \A u \in using :
       /\ u.begun <= Len(history)
       /\ u.guarded /\ bound => \A l \in Ledger(u.id) :
            \A n \in (l.mark + 1)..u.begun : history[n].status # "STOPPING"

\* A lease that passes the guard was not stopped since it was built.
LEMMA GuardedNotStopped ==
    ASSUME StopInv, LedgerInv, bound, NEW l \in leases, require_current_stop_epoch(l),
           NEW n \in (l.mark + 1)..Len(history)
    PROVE  history[n].status # "STOPPING"
<1>1. epoch \in l.epoch
    BY DEF require_current_stop_epoch, guard_dispatch
<1>2. l.mark \in Nat /\ Len(history) \in Nat /\ n \in 1..Len(history)
    BY SMTT(60) DEF LedgerInv, LedgerTyped, Lease, StopInv
<1>3. history[n] \in StopEvent /\ epoch \in Nat /\ history[n].epoch <= epoch
    BY SMTT(60), <1>2 DEF StopInv
<1>4. history[n].status = "STOPPING" => epoch < history[n].epoch
    BY <1>1 DEF LedgerInv, Fenced
<1> QED
    BY SMTT(60), <1>3, <1>4 DEF StopEvent

\* What the guard found stays true while the call holds the lock: the ledger and
\* the binding stand still, and the stop's history only grows.
LEMMA GuardStep == StopInv /\ LedgerInv /\ GuardInv /\ [Next]_vars => GuardInv'
<1> SUFFICES ASSUME StopInv, LedgerInv, GuardInv, [Next]_vars PROVE GuardInv'
    OBVIOUS
<1>1. CASE StopMoves
  <2>1. PICK e \in {epoch, epoch + 1}, s \in StopStatus, at \in Times : Accept(e, s, at)
      BY <1>1, StopMoveOfNext DEF StopMoves, StopMove
  <2>2. e \in Nat
      BY SMTT(60) DEF StopInv
  <2>l. Len(history) \in Nat
      BY SMTT(60) DEF StopInv
  <2>3. /\ Len(history') = Len(history) + 1 /\ Len(history) \in Nat
        /\ \A n \in 1..Len(history) : history'[n] = history[n]
      BY <2>1, <2>2, <2>l, StopMoveHistory
  <2>4. UNCHANGED <<bound, leases, using>>
      BY <1>1 DEF StopMoves, authority, calls
  <2> SUFFICES ASSUME NEW u \in using
               PROVE  /\ u.begun <= Len(history')
                      /\ u.guarded /\ bound => \A l \in Ledger(u.id) :
                           \A n \in (l.mark + 1)..u.begun : history'[n].status # "STOPPING"
      BY <2>4 DEF GuardInv, Ledger
  <2>5. u.begun \in Nat /\ u.begun <= Len(history)
      BY DEF LedgerInv, LedgerTyped, Use, GuardInv
  <2>6. \A l \in Ledger(u.id) : l.mark \in Nat
      BY DEF Ledger, LedgerInv, LedgerTyped, Lease
  <2>7. \A l \in Ledger(u.id) : \A n \in (l.mark + 1)..u.begun : history'[n] = history[n]
      BY SMTT(60), <2>3, <2>5, <2>6
  <2>8. u.begun <= Len(history')
      BY SMTT(60), <2>3, <2>5
  <2> QED
      BY <2>7, <2>8 DEF GuardInv
<1>2. CASE AuthorizeGuard
  <2>1. PICK u \in using : using' = {[u EXCEPT !.guarded = TRUE] :
                               l \in {k \in Ledger(u.id) : require_current_stop_epoch(k)}}
      BY <1>2 DEF AuthorizeGuard
  <2>2. UNCHANGED <<history, bound, leases>>
      BY <1>2 DEF AuthorizeGuard, stop, authority
  <2> SUFFICES ASSUME NEW v \in using'
               PROVE  /\ v.begun <= Len(history)
                      /\ v.guarded /\ bound => \A l \in Ledger(v.id) :
                           \A n \in (l.mark + 1)..v.begun : history[n].status # "STOPPING"
      BY <2>2 DEF GuardInv, Ledger
  <2>3. u \in Use /\ v = [u EXCEPT !.guarded = TRUE]
      BY <2>1 DEF LedgerInv, LedgerTyped
  <2>4. v.id = u.id /\ v.begun = u.begun /\ u.begun \in Nat
      BY <2>3 DEF Use
  <2>5. u.begun <= Len(history)
      BY DEF GuardInv
  <2>6. PICK k \in Ledger(u.id) : require_current_stop_epoch(k)
      BY <2>1
  <2>7. \A l \in Ledger(u.id) : l = k /\ l \in leases
      BY DEF Ledger, LedgerInv, LedgerTyped
  <2>8. ASSUME bound, NEW l \in Ledger(u.id), NEW n \in (l.mark + 1)..u.begun
        PROVE  history[n].status # "STOPPING"
    <3>1. l.mark \in Nat /\ Len(history) \in Nat
        BY SMTT(60), <2>7 DEF LedgerInv, LedgerTyped, Lease, StopInv
    <3>2. n \in (l.mark + 1)..Len(history)
        BY SMTT(60), <2>4, <2>5, <3>1
    <3> QED
        BY <2>6, <2>7, <2>8, <3>2, GuardedNotStopped
  <2> QED
      BY <2>4, <2>5, <2>8
<1>3. ASSUME NEW i \in LeaseIds, NEW at \in Instants, NEW s \in Scopes, AuthorizeSweep(i, s, at)
      PROVE  GuardInv'
  <2>1. /\ using' = {[id |-> i, scope |-> s, at |-> at, guarded |-> FALSE,
                      begun |-> IF bound THEN Len(history) ELSE 0]}
        /\ history' = history
      BY <1>3 DEF AuthorizeSweep, stop
  <2>2. Len(history) \in Nat
      BY SMTT(60) DEF StopInv
  <2>3. \A u \in using' : ~u.guarded /\ u.begun <= Len(history)
      BY SMTT(60), <2>1, <2>2
  <2> QED
      BY <2>1, <2>3 DEF GuardInv
<1>4. CASE using' = {}
    BY <1>4 DEF GuardInv
<1>5. CASE UNCHANGED <<history, bound, leases, using>>
    BY <1>5 DEF GuardInv, Ledger
<1>6. CASE \E consume \in BOOLEAN : AuthorizeDecide(consume)
    BY <1>4, <1>6 DEF AuthorizeDecide
<1>7. CASE UNCHANGED vars
    BY <1>5, <1>7 DEF vars, stop, authority, calls
<1>8. CASE \E t \in Threads : \/ \E i \in LeaseIds, o \in Offers : IssueRoot(t, i, o)
                              \/ IssueEpoch(t)
    BY <1>5, <1>8 DEF IssueRoot, IssueEpoch, stop, authority
<1>9. CASE \/ bind_stop_controller \/ get
           \/ \E i \in LeaseIds, at \in Instants : revoke(i, at)
           \/ \E t \in Threads : \/ IssueInsert(t)
                                 \/ \E i \in LeaseIds, o \in Offers, p \in LeaseIds :
                                      IssueDelegated(t, i, o, p)
    BY <1>4, <1>9 DEF bind_stop_controller, get, revoke, IssueInsert, IssueDelegated,
                      Unlocked, calls
<1> QED
    BY <1>1, <1>2, <1>3, <1>6, <1>7, <1>8, <1>9 DEF Next

\* The three invariants hold in every behaviour.
LEMMA GuardInvariant == Spec => [](StopInv /\ LedgerInv /\ GuardInv)
<1>1. Init => GuardInv
    BY DEF Init, GuardInv
<1> QED
    BY <1>1, LedgerInvariant, GuardStep, PTL DEF Spec

\* A step that records a use of a lease is a decision of authorize that passed
\* every check on that lease.
LEMMA UseDecided ==
    ASSUME StopInv, LedgerInv, Next, NEW l \in leases, uses'[l.id] > uses[l.id],
           NEW u \in using
    PROVE  /\ u.guarded /\ u.id = l.id /\ is_active(l, u.at)
           /\ require_active_ancestry(l, u.at)
<1>1. l.id \in LeaseIds /\ uses[l.id] \in Nat
    BY DEF LedgerInv, LedgerTyped, Lease
<1>2. uses' # uses /\ using # {}
    BY SMTT(60), <1>1
<1>3. \E consume \in BOOLEAN : AuthorizeDecide(consume)
    BY <1>2 DEF Next, StopMoves, authority, bind_stop_controller, IssueRoot, IssueDelegated,
                IssueEpoch, IssueInsert, get, revoke, AuthorizeSweep, AuthorizeGuard, Unlocked
<1>4. PICK v \in using :
         /\ v.guarded
         /\ uses' = [uses EXCEPT ![v.id] = @ + 1]
         /\ \E k \in Ledger(v.id) : /\ allows(k, v.scope, v.at)
                                    /\ require_active_ancestry(k, v.at)
    BY <1>2, <1>3 DEF AuthorizeDecide
<1>5. v = u /\ v.id = l.id
    BY SMTT(60), <1>1, <1>4 DEF LedgerInv, LedgerTyped
<1>6. \A k \in Ledger(v.id) : k = l
    BY <1>5 DEF Ledger, LedgerInv, LedgerTyped
<1> QED
    BY <1>4, <1>5, <1>6 DEF allows

\* A use is granted only while the lease and all it was delegated from are
\* active, and, under a bound stop, only to a call that began before any stop
\* accepted since the lease was built; the stop may move again between the
\* guard and the use.
THEOREM UsesAreInForce == Spec => UsesInForce
<1> DEFINE InForce == \A g \in Granted :
      /\ \A k \in {g[1]} \cup Ancestors(g[1]) : is_active(k, g[2].at)
      /\ bound => \A n \in (g[1].mark + 1)..g[2].begun : history[n].status # "STOPPING"
<1>1. ASSUME StopInv, LedgerInv, GuardInv, Next
      PROVE  InForce
  <2> SUFFICES ASSUME NEW l \in leases, uses'[l.id] > uses[l.id], NEW u \in using
               PROVE  /\ \A k \in {l} \cup Ancestors(l) : is_active(k, u.at)
                      /\ bound => \A n \in (l.mark + 1)..u.begun :
                                     history[n].status # "STOPPING"
      BY SMTT(60) DEF Granted
  <2>1. /\ u.guarded /\ u.id = l.id /\ is_active(l, u.at)
        /\ require_active_ancestry(l, u.at)
      BY <1>1, UseDecided
  <2>2. \A k \in Ancestors(l) : is_active(k, u.at)
      BY <2>1 DEF require_active_ancestry
  <2>3. bound => \A n \in (l.mark + 1)..u.begun : history[n].status # "STOPPING"
      BY <1>1, <2>1 DEF GuardInv, Ledger
  <2> QED
      BY <2>1, <2>2, <2>3
<1>2. StopInv /\ LedgerInv /\ GuardInv /\ [Next]_vars => [InForce]_vars
    BY <1>1
<1> QED
    BY GuardInvariant, <1>2, PTL DEF Spec, UsesInForce

================================================================================
