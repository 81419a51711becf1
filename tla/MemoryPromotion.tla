---------------------------- MODULE MemoryPromotion ----------------------------
(***************************************************************************)
(* MemoryPromotionService and C6MemoryPromotionConsumer                    *)
(* (memory/promotion.py): a memory version is proposed for promotion, and  *)
(* a proposal is committed to the canonical store under the controls of    *)
(* C6, while the version, the stop epoch and the controls change.          *)
(*                                                                         *)
(* A proposal is [version, epoch]; its receipt is its entry in the audit.  *)
(* A validation reads the epoch and the source, asks the policy, and reads *)
(* both again: two source steps.  Signatures, bindings and schemas refuse  *)
(* without changing anything.                                              *)
(***************************************************************************)
EXTENDS Naturals, Sequences, FiniteSets, TLAPS

CONSTANTS
    Promoters,
    Controls,           \* the decision, the authority, its delegation, the approval
    MaxProposals,       \* bound on the proposals recorded before one begins
    MaxPromoted,        \* bound on the versions of the source
    MaxStopEpoch,           \* bound on the stop epochs
    PromotionFaults     \* bound on failures

VARIABLES
    promotable,         \* the version of the source that is active, 0 if none
    epoch,              \* the stop epoch
    lapsed,            \* the controls that expired or were revoked
    recorded,           \* the proposals in the audit
    intents,            \* the commits whose intent is in the audit
    canonical,          \* the commits in C3: [proposal, gone]
    attempt,            \* process -> the proposal or commit in progress, if any
    promotionFaults

promotionVars == <<promotable, epoch, lapsed, recorded, intents, canonical, attempt, promotionFaults>>

PromotionInit ==
    /\ promotable = 1 /\ epoch = 0 /\ lapsed = {}
    /\ recorded = {} /\ intents = {} /\ canonical = {}
    /\ attempt = [p \in Promoters |-> {}] /\ promotionFaults = 0

\* The source is superseded or deleted, a stop is ordered, a control goes.
WorldChanges ==
    /\ \/ promotable \in 1 .. MaxPromoted - 1 /\ promotable' = promotable + 1 /\ UNCHANGED <<epoch, lapsed>>
       \/ promotable # 0 /\ promotable' = 0 /\ UNCHANGED <<epoch, lapsed>>
       \/ epoch < MaxStopEpoch /\ epoch' = epoch + 1 /\ UNCHANGED <<promotable, lapsed>>
       \/ \E c \in Controls \ lapsed : lapsed' = lapsed \cup {c} /\ UNCHANGED <<promotable, epoch>>
    /\ UNCHANGED <<recorded, intents, canonical, attempt, promotionFaults>>

-------------------------------------------------------------------------------

\* propose: validate, record, validate again.
ProposeSteps == <<"source", "source", "record", "source", "source">>

\* Mutant: what was checked before the audit call is not checked again.
CommitOnce == <<"source", "source", "live", "intent", "commit", "complete">>

\* C6MemoryPromotionConsumer.commit: load the proposal and its gate, record the
\* intent, check the controls, load again, check the controls again, commit.
CommitSteps == <<"source", "source", "intent", "live", "source", "source", "live", "commit", "complete">>

Gone(x) ==
    lapsed \cup (IF x.version # promotable THEN {"source"} ELSE {})
            \cup (IF x.epoch # epoch THEN {"epoch"} ELSE {})

Begin(p, proposal, steps) ==
    attempt' = [attempt EXCEPT ![p] = {[proposal |-> proposal, left |-> steps, gone |-> {}]}]

\* The envelope passes; the plan reads the source and the epoch.
Propose(p) ==
    /\ attempt[p] = {} /\ promotable # 0 /\ Cardinality(recorded) < MaxProposals
    /\ Begin(p, [version |-> promotable, epoch |-> epoch], ProposeSteps)
    /\ UNCHANGED <<promotable, epoch, lapsed, recorded, intents, canonical, promotionFaults>>

\* load: the proposal is the one that is on record.
PromotionCommit(p) ==
    /\ attempt[p] = {}
    /\ \E x \in recorded : Begin(p, x, CommitSteps)
    /\ UNCHANGED <<promotable, epoch, lapsed, recorded, intents, canonical, promotionFaults>>

Done(p, a) ==
    attempt' = [attempt EXCEPT ![p] = IF Len(a.left) = 1 THEN {} ELSE {[a EXCEPT !.left = Tail(@)]}]
Denied(p) == attempt' = [attempt EXCEPT ![p] = {}]

\* _validate: the source is the same, and no stop was ordered since.
CheckSource(p) ==
    /\ \E a \in attempt[p] :
         /\ Head(a.left) = "source"
         /\ IF Gone(a.proposal) \cap {"source", "epoch"} = {} THEN Done(p, a) ELSE Denied(p)
    /\ UNCHANGED <<promotable, epoch, lapsed, recorded, intents, canonical, promotionFaults>>

RecordProposal(p) ==
    /\ \E a \in attempt[p] :
         /\ Head(a.left) = "record"
         /\ recorded' = recorded \cup {a.proposal} /\ Done(p, a)
    /\ UNCHANGED <<promotable, epoch, lapsed, intents, canonical, promotionFaults>>

RecordIntent(p) ==
    /\ \E a \in attempt[p] :
         /\ Head(a.left) = "intent"
         /\ intents' = intents \cup {a.proposal}
         /\ Done(p, [a EXCEPT !.gone = Gone(a.proposal)])
    /\ UNCHANGED <<promotable, epoch, lapsed, recorded, canonical, promotionFaults>>

\* _require_live: decision, authority, delegation and approval are in force.
RequireLive(p) ==
    /\ \E a \in attempt[p] :
         /\ Head(a.left) = "live"
         /\ IF lapsed = {} THEN Done(p, a) ELSE Denied(p)
    /\ UNCHANGED <<promotable, epoch, lapsed, recorded, intents, canonical, promotionFaults>>

\* The command reaches C3, which is idempotent; the answer may be lost.
CommitPromotion(p) ==
    /\ \E a \in attempt[p] :
         /\ Head(a.left) = "commit"
         /\ canonical' = canonical \cup {[proposal |-> a.proposal, gone |-> a.gone]}
         /\ Done(p, a) \/ Denied(p)
    /\ UNCHANGED <<promotable, epoch, lapsed, recorded, intents, promotionFaults>>

\* The completion is on record, or else that the outcome is not known.
RecordCompletion(p) ==
    /\ \E a \in attempt[p] : Head(a.left) = "complete" /\ Done(p, a)
    /\ UNCHANGED <<promotable, epoch, lapsed, recorded, intents, canonical, promotionFaults>>

\* The audit, the policy or a store is unreachable, or the deadline passes.
PromotionFails(p) ==
    /\ attempt[p] # {} /\ promotionFaults < PromotionFaults
    /\ promotionFaults' = promotionFaults + 1 /\ Denied(p)
    /\ UNCHANGED <<promotable, epoch, lapsed, recorded, intents, canonical>>

PromotionNext ==
    \/ WorldChanges
    \/ \E p \in Promoters :
         \/ Propose(p) \/ PromotionCommit(p) \/ CheckSource(p) \/ RecordProposal(p) \/ RecordIntent(p)
         \/ RequireLive(p) \/ CommitPromotion(p) \/ RecordCompletion(p) \/ PromotionFails(p)

PromotionSpec == PromotionInit /\ [][PromotionNext]_promotionVars

-------------------------------------------------------------------------------
(* Properties *)

\* What reaches the canonical store was announced, and everything it rests on
\* was in force when it was: a source superseded, a stop ordered or a control
\* revoked by the time the intent is on record prevents the commit, even when it
\* happened during the calls that led to it (commit).
PromotedInForce ==
    \A c \in canonical : c.proposal \in recorded \cap intents /\ c.gone = {}

-------------------------------------------------------------------------------
(* The inductive invariant and the proof *)

Proposal == [version : Nat \ {0}, epoch : Nat]
Steps == {"source", "record", "intent", "live", "commit", "complete"}
Attempt == [proposal : Proposal, left : Seq(Steps), gone : SUBSET (Controls \cup {"source", "epoch"})]

\* A proposal was made of a version and an epoch that the world has seen, so
\* that what is gone for it is gone for good.
Past(x) == x \in Proposal /\ (promotable # 0 => x.version <= promotable) /\ x.epoch <= epoch

\* What is left of an attempt before step n.
ProposeLeft == [n \in 1 .. 5 |-> SubSeq(ProposeSteps, n, 5)]
CommitLeft == [n \in 1 .. 9 |-> SubSeq(CommitSteps, n, 9)]

\* A commit that is about to take step n of CommitSteps.  What was gone when
\* its intent was recorded is still gone, so each check that it passed shows
\* that one part of it was not: the controls at step 4, the source at step 5.
CommitAt(a, n) ==
    /\ a.left = CommitLeft[n]
    /\ a.proposal \in recorded
    /\ n >= 4 => a.proposal \in intents /\ a.gone \subseteq Gone(a.proposal)
    /\ n >= 5 => a.gone \subseteq {"source", "epoch"}
    /\ n >= 6 => a.gone = {}

AttemptSound(a) ==
    /\ a \in Attempt /\ Past(a.proposal)
    /\ \/ \E n \in 1 .. 5 : a.left = ProposeLeft[n]
       \/ \E n \in 1 .. 9 : CommitAt(a, n)

PromotionInv ==
    /\ promotable \in Nat /\ epoch \in Nat /\ lapsed \subseteq Controls
    /\ \A x \in recorded : Past(x)
    /\ attempt \in [Promoters -> SUBSET Attempt]
    /\ \A p \in Promoters : \A a \in attempt[p] : AttemptSound(a)
    /\ PromotedInForce

\* First-order leaves are for Zenon, arithmetic and sequences for the SMT solver.
USE ZenonT(30), SMTT(60)

\* The two sequences of steps and their lengths.
LEMMA StepsTyped ==
    /\ ProposeSteps \in Seq(Steps) /\ Len(ProposeSteps) = 5
    /\ CommitSteps \in Seq(Steps) /\ Len(CommitSteps) = 9
BY SMTT(60) DEF ProposeSteps, CommitSteps, Steps

\* The world only moves on.
Ages ==
    /\ promotable' \in Nat /\ epoch' \in Nat /\ epoch <= epoch'
    /\ promotable' # 0 => promotable # 0 /\ promotable <= promotable'
    /\ lapsed \subseteq lapsed' /\ lapsed' \subseteq Controls

\* What is gone for a proposal is gone for good.
LEMMA GoneForGood ==
    ASSUME PromotionInv, Ages, NEW x, Past(x)
    PROVE  Past(x)' /\ Gone(x) \subseteq Gone(x)'
<1>1. Past(x)'
    BY SMTT(60) DEF PromotionInv, Ages, Past, Proposal
<1>2. x.version # promotable => x.version # promotable'
    BY SMTT(60) DEF PromotionInv, Ages, Past, Proposal
<1>3. x.epoch # epoch => x.epoch # epoch'
    BY SMTT(60) DEF PromotionInv, Ages, Past, Proposal
<1>4. lapsed \subseteq lapsed'
    BY DEF Ages
<1> QED
    BY <1>1, <1>2, <1>3, <1>4 DEF Gone

\* An attempt that takes no step stays sound while the records grow.
LEMMA SoundStays ==
    ASSUME PromotionInv, Ages, recorded \subseteq recorded', intents \subseteq intents',
           NEW a, AttemptSound(a)
    PROVE  AttemptSound(a)'
<1>1. Past(a.proposal)' /\ Gone(a.proposal) \subseteq Gone(a.proposal)'
    BY GoneForGood DEF AttemptSound
<1>2. \A n \in 1 .. 9 : CommitAt(a, n) => CommitAt(a, n)'
    BY <1>1 DEF CommitAt
<1> QED
    BY <1>1, <1>2 DEF AttemptSound

\* A step is safe when the attempts it changes, the proposals it records and
\* the commits it adds are.
LEMMA PromotionKept ==
    ASSUME PromotionInv, Ages, recorded \subseteq recorded', intents \subseteq intents',
           \A x \in recorded' \ recorded : Past(x)',
           attempt' \in [Promoters -> SUBSET Attempt],
           \A p \in Promoters : \A a \in attempt'[p] : a \in attempt[p] \/ AttemptSound(a)',
           \A c \in canonical' \ canonical : c.proposal \in recorded \cap intents /\ c.gone = {}
    PROVE  PromotionInv'
<1>1. \A x \in recorded' : Past(x)'
    BY GoneForGood DEF PromotionInv
<1>2. \A p \in Promoters : \A a \in attempt'[p] : AttemptSound(a)'
    BY SoundStays DEF PromotionInv
<1>3. PromotedInForce'
    BY DEF PromotionInv, PromotedInForce
<1> QED
    BY <1>1, <1>2, <1>3 DEF PromotionInv, Ages

\* A step of the source, the stop and the controls.
LEMMA WorldSafe == ASSUME PromotionInv, WorldChanges PROVE PromotionInv'
<1>1. Ages
    BY SMTT(60) DEF WorldChanges, PromotionInv, Ages
<1>2. UNCHANGED <<recorded, intents, canonical, attempt>>
    BY DEF WorldChanges
<1> QED
    BY <1>1, <1>2, PromotionKept DEF PromotionInv

\* The world stands still.
LEMMA Still == ASSUME PromotionInv, UNCHANGED <<promotable, epoch, lapsed>> PROVE Ages
BY SMTT(60) DEF PromotionInv, Ages

\* An attempt begins, or ends.
LEMMA BeginSafe ==
    ASSUME PromotionInv, NEW p \in Promoters, Propose(p) \/ PromotionCommit(p)
    PROVE  PromotionInv'
<1>1. UNCHANGED <<promotable, epoch, lapsed, recorded, intents, canonical>>
    BY DEF Propose, PromotionCommit
<1>2. PICK x, steps :
        /\ attempt' = [attempt EXCEPT ![p] = {[proposal |-> x, left |-> steps, gone |-> {}]}]
        /\ Past(x)
        /\ \/ steps = ProposeSteps
           \/ steps = CommitSteps /\ x \in recorded
    <2>1. CASE Propose(p)
        <3> DEFINE x == [version |-> promotable, epoch |-> epoch]
        <3>1. Past(x)
            BY SMTT(60), <2>1 DEF Propose, PromotionInv, Past, Proposal
        <3>2. attempt' = [attempt EXCEPT ![p] = {[proposal |-> x, left |-> ProposeSteps, gone |-> {}]}]
            BY <2>1 DEF Propose, Begin
        <3> HIDE DEF x
        <3> QED
            BY <3>1, <3>2
    <2>2. CASE PromotionCommit(p)
        BY <2>2 DEF PromotionCommit, Begin, PromotionInv
    <2> QED
        BY <2>1, <2>2
<1> DEFINE a == [proposal |-> x, left |-> steps, gone |-> {}]
<1>3. a \in Attempt /\ a.proposal = x /\ a.left = steps
    BY <1>2, StepsTyped DEF Attempt, Past
<1>4. ProposeSteps = ProposeLeft[1] /\ CommitSteps = CommitLeft[1] /\ 1 \in 1 .. 5 /\ 1 \in 1 .. 9
    BY SMTT(60), StepsTyped DEF ProposeLeft, CommitLeft
<1> HIDE DEF a
<1>5. AttemptSound(a)
    <2>1. CASE steps = ProposeSteps
        BY <1>2, <1>3, <1>4, <2>1 DEF AttemptSound
    <2>2. CASE steps = CommitSteps /\ x \in recorded
        <3>1. CommitAt(a, 1)
            BY SMTT(60), <1>3, <1>4, <2>2 DEF CommitAt
        <3> QED
            BY <1>2, <1>3, <1>4, <3>1 DEF AttemptSound
    <2> QED
        BY <1>2, <2>1, <2>2
<1>6. attempt' = [attempt EXCEPT ![p] = {a}]
    BY <1>2 DEF a
<1>7. AttemptSound(a)'
    BY <1>1, <1>5, Still, SoundStays
<1>8. attempt' \in [Promoters -> SUBSET Attempt]
    BY <1>3, <1>6 DEF PromotionInv
<1>9. \A q \in Promoters : \A b \in attempt'[q] : b \in attempt[q] \/ AttemptSound(b)'
    BY <1>6, <1>7 DEF PromotionInv
<1> QED
    BY <1>1, <1>8, <1>9, Still, PromotionKept

\* An attempt that is denied leaves nothing to be shown of it.
LEMMA DeniedSafe ==
    ASSUME PromotionInv, NEW p \in Promoters, Denied(p)
    PROVE  /\ attempt' \in [Promoters -> SUBSET Attempt]
           /\ \A q \in Promoters : \A b \in attempt'[q] : b \in attempt[q]
BY DEF PromotionInv, Denied

\* An attempt that takes its next step is the only one that changes.
LEMMA DoneSafe ==
    ASSUME PromotionInv, NEW p \in Promoters, NEW a \in Attempt, Done(p, a),
           Len(a.left) # 1 => /\ [a EXCEPT !.left = Tail(@)] \in Attempt
                              /\ AttemptSound([a EXCEPT !.left = Tail(@)])'
    PROVE  /\ attempt' \in [Promoters -> SUBSET Attempt]
           /\ \A q \in Promoters : \A b \in attempt'[q] : b \in attempt[q] \/ AttemptSound(b)'
<1> DEFINE b == [a EXCEPT !.left = Tail(@)]
<1>1. attempt' = [attempt EXCEPT ![p] = IF Len(a.left) = 1 THEN {} ELSE {b}]
    BY DEF Done
<1>2. Len(a.left) # 1 => b \in Attempt /\ AttemptSound(b)'
    OBVIOUS
<1> HIDE DEF b
<1> QED
    BY <1>1, <1>2 DEF PromotionInv

\* What is left of a sequence of steps, before and after the next one.
LEMMA Suffix ==
    ASSUME NEW s \in Seq(Steps), NEW n \in 1 .. Len(s)
    PROVE  /\ Head(SubSeq(s, n, Len(s))) = s[n] /\ Len(SubSeq(s, n, Len(s))) = Len(s) - n + 1
           /\ n < Len(s) => Tail(SubSeq(s, n, Len(s))) = SubSeq(s, n + 1, Len(s))
<1>1. Len(SubSeq(s, n, Len(s))) = Len(s) - n + 1
    BY SMTT(60)
<1>2. Head(SubSeq(s, n, Len(s))) = s[n]
    BY SMTT(60)
<1>3. ASSUME n < Len(s) PROVE Tail(SubSeq(s, n, Len(s))) = SubSeq(s, n + 1, Len(s))
    BY SMTT(60), <1>3
<1> QED
    BY <1>1, <1>2, <1>3

\* The step that is next, and what is left after it.
LEMMA ProposeStepped ==
    \A n \in 1 .. 5 :
       /\ Len(ProposeLeft[n]) = 6 - n /\ Head(ProposeLeft[n]) = ProposeSteps[n]
       /\ n < 5 => Tail(ProposeLeft[n]) = ProposeLeft[n + 1]
<1> SUFFICES ASSUME NEW n \in 1 .. 5
             PROVE  /\ Len(ProposeLeft[n]) = 6 - n /\ Head(ProposeLeft[n]) = ProposeSteps[n]
                    /\ n < 5 => Tail(ProposeLeft[n]) = ProposeLeft[n + 1]
    OBVIOUS
<1>1. ProposeLeft[n] = SubSeq(ProposeSteps, n, Len(ProposeSteps)) /\ n \in 1 .. Len(ProposeSteps)
    BY StepsTyped DEF ProposeLeft
<1>2. n < 5 => ProposeLeft[n + 1] = SubSeq(ProposeSteps, n + 1, Len(ProposeSteps))
    BY SMTT(60), StepsTyped DEF ProposeLeft
<1>3. Len(ProposeLeft[n]) = 6 - n
    <2>1. Len(ProposeLeft[n]) = Len(ProposeSteps) - n + 1
        BY <1>1, StepsTyped, Suffix
    <2> QED
        BY SMTT(60), <2>1, StepsTyped
<1>5. Head(ProposeLeft[n]) = ProposeSteps[n]
    BY <1>1, StepsTyped, Suffix
<1>4. ASSUME n < 5 PROVE Tail(ProposeLeft[n]) = ProposeLeft[n + 1]
    BY <1>1, <1>2, <1>4, StepsTyped, Suffix
<1> QED
    BY <1>3, <1>4, <1>5

\* The same for a commit.
LEMMA CommitStepped ==
    \A n \in 1 .. 9 :
       /\ Len(CommitLeft[n]) = 10 - n /\ Head(CommitLeft[n]) = CommitSteps[n]
       /\ n < 9 => Tail(CommitLeft[n]) = CommitLeft[n + 1]
<1> SUFFICES ASSUME NEW n \in 1 .. 9
             PROVE  /\ Len(CommitLeft[n]) = 10 - n /\ Head(CommitLeft[n]) = CommitSteps[n]
                    /\ n < 9 => Tail(CommitLeft[n]) = CommitLeft[n + 1]
    OBVIOUS
<1>1. CommitLeft[n] = SubSeq(CommitSteps, n, Len(CommitSteps)) /\ n \in 1 .. Len(CommitSteps)
    BY StepsTyped DEF CommitLeft
<1>2. n < 9 => CommitLeft[n + 1] = SubSeq(CommitSteps, n + 1, Len(CommitSteps))
    BY SMTT(60), StepsTyped DEF CommitLeft
<1>3. Len(CommitLeft[n]) = 10 - n
    <2>1. Len(CommitLeft[n]) = Len(CommitSteps) - n + 1
        BY <1>1, StepsTyped, Suffix
    <2> QED
        BY SMTT(60), <2>1, StepsTyped
<1>5. Head(CommitLeft[n]) = CommitSteps[n]
    BY <1>1, StepsTyped, Suffix
<1>4. ASSUME n < 9 PROVE Tail(CommitLeft[n]) = CommitLeft[n + 1]
    BY <1>1, <1>2, <1>4, StepsTyped, Suffix
<1> QED
    BY <1>3, <1>4, <1>5

\* An attempt with one step less.
LEMMA Shortened ==
    ASSUME NEW a \in Attempt, Len(a.left) # 0
    PROVE  LET b == [a EXCEPT !.left = Tail(@)]
           IN b \in Attempt /\ b.proposal = a.proposal /\ b.gone = a.gone /\ b.left = Tail(a.left)
<1>1. Tail(a.left) \in Seq(Steps)
    BY SMTT(60) DEF Attempt
<1> QED
    BY <1>1 DEF Attempt

\* The steps, one by one.
LEMMA StepNames ==
    /\ \A n \in 1 .. 9 : /\ CommitSteps[n] = "source" => n \in {1, 2, 5, 6}
                         /\ CommitSteps[n] = "intent" => n = 3
                         /\ CommitSteps[n] = "live" => n \in {4, 7}
                         /\ CommitSteps[n] = "commit" => n = 8
                         /\ CommitSteps[n] = "complete" => n = 9
                         /\ CommitSteps[n] # "record"
    /\ \A n \in 1 .. 5 : /\ ProposeSteps[n] \in {"source", "record"}
BY SMTT(60) DEF CommitSteps, ProposeSteps

\* Where an attempt is before and after a step of it.
LEMMA Advance ==
    ASSUME NEW a, AttemptSound(a), Len(a.left) # 1
    PROVE  /\ [a EXCEPT !.left = Tail(@)] \in Attempt
           /\ \/ \E n \in 1 .. 5 : Tail(a.left) = ProposeLeft[n] /\ Head(a.left) \in {"source", "record"}
              \/ \E n, m \in 1 .. 9 : /\ CommitAt(a, n) /\ m = n + 1 /\ Tail(a.left) = CommitLeft[m]
                                       /\ Head(a.left) = CommitSteps[n]
<1>1. ASSUME NEW n \in 1 .. 5, a.left = ProposeLeft[n]
      PROVE  Len(a.left) # 0 /\ \E m \in 1 .. 5 : Tail(a.left) = ProposeLeft[m] /\ Head(a.left) \in {"source", "record"}
    <2>1. Len(ProposeLeft[n]) = 6 - n /\ Head(ProposeLeft[n]) = ProposeSteps[n]
        BY ProposeStepped
    <2>2. n < 5
        BY SMTT(60), <1>1, <2>1
    <2>3. PICK m \in 1 .. 5 : Tail(a.left) = ProposeLeft[m]
        BY SMTT(60), <1>1, <2>2, ProposeStepped
    <2>4. Head(a.left) \in {"source", "record"}
        BY <1>1, <2>1, StepNames
    <2> QED
        BY SMTT(60), <1>1, <2>1, <2>2, <2>3, <2>4
<1>2. ASSUME NEW n \in 1 .. 9, CommitAt(a, n)
      PROVE  /\ Len(a.left) # 0 /\ Head(a.left) = CommitSteps[n]
             /\ \E m \in 1 .. 9 : m = n + 1 /\ Tail(a.left) = CommitLeft[m]
    <2>1. a.left = CommitLeft[n]
        BY <1>2 DEF CommitAt
    <2>2. Len(CommitLeft[n]) = 10 - n /\ Head(CommitLeft[n]) = CommitSteps[n]
        BY CommitStepped
    <2>3. n < 9
        BY SMTT(60), <2>1, <2>2
    <2>4. \E m \in 1 .. 9 : m = n + 1 /\ Tail(a.left) = CommitLeft[m]
        BY SMTT(60), <2>1, <2>3, CommitStepped
    <2> QED
        BY SMTT(60), <2>1, <2>2, <2>3, <2>4
<1>3. a \in Attempt /\ Len(a.left) # 0
    BY <1>1, <1>2 DEF AttemptSound
<1>4. [a EXCEPT !.left = Tail(@)] \in Attempt
    BY <1>3, Shortened
<1>5. CASE \E n \in 1 .. 5 : a.left = ProposeLeft[n]
    BY <1>1, <1>4, <1>5
<1>6. CASE \E n \in 1 .. 9 : CommitAt(a, n)
    BY <1>2, <1>4, <1>6
<1> QED
    BY <1>5, <1>6 DEF AttemptSound

\* A check that lets the attempt go on is safe when what it has checked is
\* what the next step rests on.
LEMMA CheckSafe ==
    ASSUME PromotionInv, NEW p \in Promoters, CheckSource(p) \/ RequireLive(p)
    PROVE  PromotionInv'
<1>1. UNCHANGED <<promotable, epoch, lapsed, recorded, intents, canonical>>
    BY DEF CheckSource, RequireLive
<1>2. PICK a \in attempt[p] :
        \/ Denied(p)
        \/ /\ Done(p, a) /\ Head(a.left) \in {"source", "live"}
           /\ Head(a.left) = "source" => Gone(a.proposal) \cap {"source", "epoch"} = {}
           /\ Head(a.left) = "live" => lapsed = {}
    BY DEF CheckSource, RequireLive
<1>3. AttemptSound(a) /\ a \in Attempt
    BY DEF PromotionInv, AttemptSound
<1>4. CASE Denied(p)
    BY <1>1, <1>4, DeniedSafe, Still, PromotionKept
<1>5. CASE ~Denied(p)
    <2> DEFINE b == [a EXCEPT !.left = Tail(@)]
    <2>1. ASSUME Len(a.left) # 1 PROVE AttemptSound(b)
        <3>1. b \in Attempt /\ b.proposal = a.proposal /\ b.gone = a.gone /\ b.left = Tail(a.left)
            BY <1>3, <2>1, Advance DEF Attempt
        <3> HIDE DEF b
        <3>2. CASE \E n \in 1 .. 5 : Tail(a.left) = ProposeLeft[n]
            BY <1>3, <3>1, <3>2 DEF AttemptSound
        <3>3. ASSUME NEW n \in 1 .. 9, NEW m \in 1 .. 9, CommitAt(a, n), m = n + 1,
                     Tail(a.left) = CommitLeft[m], Head(a.left) = CommitSteps[n]
              PROVE  AttemptSound(b)
            <4>1. Head(a.left) \in {"source", "live"}
                BY <1>2, <1>5
            <4>2. \/ n \in {1, 2, 5, 6} /\ Head(a.left) = "source"
                  \/ n \in {4, 7} /\ Head(a.left) = "live"
                BY <3>3, <4>1, StepNames
            <4>3. n = 4 => b.gone \subseteq {"source", "epoch"}
                BY SMTT(60), <1>2, <1>5, <3>1, <3>3, <4>2 DEF CommitAt, Gone
            <4>4. n = 5 => b.gone = {}
                BY SMTT(60), <1>2, <1>5, <3>1, <3>3, <4>2 DEF CommitAt
            <4>5. CommitAt(b, m)
                BY SMTT(60), <3>1, <3>3, <4>2, <4>3, <4>4 DEF CommitAt
            <4> QED
                BY <1>3, <3>1, <4>5 DEF AttemptSound
        <3> QED
            BY <1>3, <2>1, <3>2, <3>3, Advance
    <2>2. Len(a.left) # 1 => b \in Attempt /\ AttemptSound(b)'
        BY <1>1, <2>1, Still, SoundStays DEF AttemptSound
    <2>3. Done(p, a)
        BY <1>2, <1>5
    <2> QED
        BY <1>1, <1>3, <2>2, <2>3, DoneSafe, Still, PromotionKept
<1> QED
    BY <1>4, <1>5

\* Only a commit reaches the steps after the proposal is on record.
LEMMA CommitNext ==
    ASSUME NEW a, AttemptSound(a), Head(a.left) \notin {"source", "record"}
    PROVE  \E n \in 1 .. 9 : CommitAt(a, n) /\ Head(a.left) = CommitSteps[n]
<1>1. ASSUME NEW n \in 1 .. 5, a.left = ProposeLeft[n] PROVE FALSE
    <2>1. Head(a.left) = ProposeSteps[n]
        BY <1>1, ProposeStepped
    <2> QED
        BY <2>1, StepNames
<1>2. PICK n \in 1 .. 9 : CommitAt(a, n)
    BY <1>1 DEF AttemptSound
<1>3. Head(a.left) = CommitSteps[n]
    BY <1>2, CommitStepped DEF CommitAt
<1> QED
    BY <1>2, <1>3

\* The proposal is on record: it is one of the past.
LEMMA RecordSafe ==
    ASSUME PromotionInv, NEW p \in Promoters, RecordProposal(p)
    PROVE  PromotionInv'
<1>1. UNCHANGED <<promotable, epoch, lapsed, intents, canonical>>
    BY DEF RecordProposal
<1>2. PICK a \in attempt[p] :
        Head(a.left) = "record" /\ recorded' = recorded \cup {a.proposal} /\ Done(p, a)
    BY DEF RecordProposal
<1>3. AttemptSound(a) /\ a \in Attempt /\ Past(a.proposal)
    BY DEF PromotionInv, AttemptSound
<1>4. Past(a.proposal)'
    BY <1>1, <1>3, Still, GoneForGood
<1> DEFINE b == [a EXCEPT !.left = Tail(@)]
<1>5. ASSUME Len(a.left) # 1 PROVE b \in Attempt /\ AttemptSound(b)'
    <2>1. b \in Attempt /\ b.proposal = a.proposal /\ b.left = Tail(a.left)
        BY <1>3, <1>5, Advance DEF Attempt
    <2>2. \E n \in 1 .. 5 : Tail(a.left) = ProposeLeft[n]
        <3>1. \A n \in 1 .. 9 : CommitSteps[n] # Head(a.left)
            BY <1>2, StepNames
        <3> QED
            BY <1>3, <1>5, <3>1, Advance
    <2> HIDE DEF b
    <2> QED
        BY <1>4, <2>1, <2>2 DEF AttemptSound
<1> HIDE DEF b
<1>6. /\ attempt' \in [Promoters -> SUBSET Attempt]
      /\ \A q \in Promoters : \A c \in attempt'[q] : c \in attempt[q] \/ AttemptSound(c)'
    BY <1>2, <1>3, <1>5, DoneSafe DEF b
<1>7. recorded \subseteq recorded' /\ \A x \in recorded' \ recorded : Past(x)'
    BY <1>2, <1>4
<1> QED
    BY <1>1, <1>6, <1>7, Still, PromotionKept

\* The intent is on record with what is gone at that moment.
LEMMA IntentSafe ==
    ASSUME PromotionInv, NEW p \in Promoters, RecordIntent(p)
    PROVE  PromotionInv'
<1>1. UNCHANGED <<promotable, epoch, lapsed, recorded, canonical>>
    BY DEF RecordIntent
<1>2. PICK a \in attempt[p] :
        /\ Head(a.left) = "intent" /\ intents' = intents \cup {a.proposal}
        /\ Done(p, [a EXCEPT !.gone = Gone(a.proposal)])
    BY DEF RecordIntent
<1>3. AttemptSound(a) /\ a \in Attempt /\ Past(a.proposal)
    BY DEF PromotionInv, AttemptSound
<1>4. CommitAt(a, 3)
    BY SMTT(60), <1>2, <1>3, CommitNext, StepNames
<1>5. PICK c : c = [a EXCEPT !.gone = Gone(a.proposal)]
    OBVIOUS
<1>6. Gone(a.proposal) \in SUBSET (Controls \cup {"source", "epoch"})
    BY DEF PromotionInv, Gone
<1>7. c \in Attempt /\ c.proposal = a.proposal /\ c.left = a.left /\ c.gone = Gone(a.proposal)
    BY <1>3, <1>5, <1>6 DEF Attempt
<1>8. CommitAt(c, 3) /\ 3 \in 1 .. 9
    BY SMTT(60), <1>4, <1>7 DEF CommitAt
<1>9. AttemptSound(c)
    BY <1>3, <1>7, <1>8 DEF AttemptSound
<1> DEFINE b == [c EXCEPT !.left = Tail(@)]
<1>10. ASSUME Len(c.left) # 1 PROVE b \in Attempt /\ AttemptSound(b)'
    <2>1. b \in Attempt /\ b.proposal = a.proposal /\ b.left = Tail(c.left) /\ b.gone = Gone(a.proposal)
        BY <1>7, <1>9, <1>10, Advance DEF Attempt
    <2> HIDE DEF b
    <2>2. b.left = CommitLeft[4] /\ 4 \in 1 .. 9
        BY SMTT(60), <1>8, <2>1, CommitStepped DEF CommitAt
    <2>3. Past(b.proposal)' /\ Gone(a.proposal) \subseteq Gone(a.proposal)'
        BY <1>1, <1>3, <2>1, Still, GoneForGood
    <2>4. b.proposal \in recorded' /\ b.proposal \in intents' /\ b.gone \subseteq Gone(b.proposal)'
        BY <1>1, <1>2, <1>4, <2>1, <2>3 DEF CommitAt
    <2>5. CommitAt(b, 4)'
        BY SMTT(60), <2>2, <2>4 DEF CommitAt
    <2> QED
        BY <2>1, <2>2, <2>3, <2>5 DEF AttemptSound
<1> HIDE DEF b
<1>11. /\ attempt' \in [Promoters -> SUBSET Attempt]
       /\ \A q \in Promoters : \A d \in attempt'[q] : d \in attempt[q] \/ AttemptSound(d)'
    BY <1>2, <1>5, <1>7, <1>10, DoneSafe DEF b
<1> QED
    BY <1>1, <1>2, <1>11, Still, PromotionKept

\* What reaches C3 passed both checks after its intent.
LEMMA CommitSafe ==
    ASSUME PromotionInv, NEW p \in Promoters, CommitPromotion(p) \/ RecordCompletion(p)
    PROVE  PromotionInv'
<1>1. UNCHANGED <<promotable, epoch, lapsed, recorded, intents>>
    BY DEF CommitPromotion, RecordCompletion
<1>2. PICK a \in attempt[p] :
        /\ Done(p, a) \/ Denied(p)
        /\ \/ Head(a.left) = "commit" /\ canonical' = canonical \cup {[proposal |-> a.proposal, gone |-> a.gone]}
           \/ Head(a.left) = "complete" /\ canonical' = canonical
    BY DEF CommitPromotion, RecordCompletion
<1>3. AttemptSound(a) /\ a \in Attempt
    BY DEF PromotionInv, AttemptSound
<1>4. PICK n \in {8, 9} : CommitAt(a, n)
    BY SMTT(60), <1>2, <1>3, CommitNext, StepNames
<1>5. a.proposal \in recorded \cap intents /\ a.gone = {}
    BY SMTT(60), <1>4 DEF CommitAt
<1>6. \A c \in canonical' \ canonical : c.proposal \in recorded \cap intents /\ c.gone = {}
    BY SMTT(60), <1>2, <1>5
<1> DEFINE b == [a EXCEPT !.left = Tail(@)]
<1>7. ASSUME Len(a.left) # 1 PROVE b \in Attempt /\ AttemptSound(b)
    <2>1. b \in Attempt /\ b.proposal = a.proposal /\ b.left = Tail(a.left) /\ b.gone = {}
        BY <1>3, <1>5, <1>7, Advance DEF Attempt
    <2> HIDE DEF b
    <2>2. PICK k \in 1 .. 9, m \in 1 .. 9 : CommitAt(a, k) /\ m = k + 1 /\ Tail(a.left) = CommitLeft[m]
        <3>1. Head(a.left) \notin {"source", "record"}
            BY <1>2
        <3> QED
            BY <1>3, <1>7, <3>1, Advance
    <2>3. CommitAt(b, m)
        BY <1>5, <2>1, <2>2 DEF CommitAt
    <2> QED
        BY <1>3, <2>1, <2>3 DEF AttemptSound
<1>8. Len(a.left) # 1 => b \in Attempt /\ AttemptSound(b)'
    BY <1>1, <1>7, Still, SoundStays
<1> HIDE DEF b
<1>9. /\ attempt' \in [Promoters -> SUBSET Attempt]
      /\ \A q \in Promoters : \A d \in attempt'[q] : d \in attempt[q] \/ AttemptSound(d)'
    BY <1>2, <1>3, <1>8, DoneSafe, DeniedSafe DEF b
<1> QED
    BY <1>1, <1>6, <1>9, Still, PromotionKept

\* A promotion that reaches the canonical store was recorded and announced,
\* and its source, its epoch and every control were in force when its intent
\* was recorded, for any number of promoters, versions, stops, controls and
\* failures.
THEOREM PromotionsInForce == PromotionSpec => []PromotedInForce
<1>1. PromotionInit => PromotionInv
    BY SMTT(60) DEF PromotionInit, PromotionInv, PromotedInForce
<1>2. PromotionInv /\ [PromotionNext]_promotionVars => PromotionInv'
    <2> SUFFICES ASSUME PromotionInv, [PromotionNext]_promotionVars PROVE PromotionInv'
        OBVIOUS
    <2>1. CASE UNCHANGED promotionVars
        <3>1. UNCHANGED <<promotable, epoch, lapsed, recorded, intents, canonical, attempt>>
            BY <2>1 DEF promotionVars
        <3> QED
            BY <3>1, Still, PromotionKept DEF PromotionInv
    <2>2. ASSUME NEW p \in Promoters, PromotionFails(p) PROVE PromotionInv'
        <3>1. UNCHANGED <<promotable, epoch, lapsed, recorded, intents, canonical>> /\ Denied(p)
            BY <2>2 DEF PromotionFails
        <3> QED
            BY <3>1, DeniedSafe, Still, PromotionKept
    <2> QED
        BY <2>1, <2>2, WorldSafe, BeginSafe, CheckSafe, RecordSafe, IntentSafe, CommitSafe
        DEF PromotionNext
<1>3. PromotionInv => PromotedInForce
    BY DEF PromotionInv
<1> QED
    BY <1>1, <1>2, <1>3, PTL DEF PromotionSpec
===============================================================================
