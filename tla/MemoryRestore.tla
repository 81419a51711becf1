----------------------------- MODULE MemoryRestore -----------------------------
(***************************************************************************)
(* DeletionRestoreGate (memory/deletion.py): a restored copy of the memory *)
(* stores is served only while no item that was deleted, before or after   *)
(* the backup, is left in it.                                              *)
(*                                                                         *)
(* The deletion authority attests the length and head of its tombstone     *)
(* journal; the head binds every entry, so a checkpoint is the length.  A  *)
(* tombstone is [item, phase]; its epoch and versions follow from it.  The *)
(* gate's lock serialises its operations; the authority, the journal file  *)
(* and the participants are read one call at a time.  Every access is on   *)
(* record before it starts, or it fails (_RecoveryDenials.guard): this,    *)
(* like every other failure of a port, is GateFails.                       *)
(***************************************************************************)
EXTENDS Naturals, Sequences, TLAPS

CONSTANTS
    RestoredItems,
    Participants,       \* the stores purged, as a sequence: the metadata first
    GateFaults,         \* bound on failures
    LateRestores,       \* bound on the items that are restored late
    MaxTombstones       \* bound on the journal

VARIABLES
    tombstones,         \* the journal of the deletion authority
    copied,             \* the entries that the journal file holds
    source,             \* item -> the phase its source metadata is in
    residue,            \* what is left in the restored stores: <<item, participant>>
    gate,               \* the operation in progress, if any
    reconciled,         \* the checkpoint that is served, if any
    leaked,             \* history: tombstoned items in a response
    gateFaults, lateRestores

restoreVars == <<tombstones, copied, source, residue, gate, reconciled, leaked, gateFaults, lateRestores>>

Stores == {Participants[n] : n \in 1 .. Len(Participants)}
PhaseAt(i, n) ==
    LET marks == {k \in 1 .. n : tombstones[k].item = i}
    IN IF marks = {} THEN "none" ELSE tombstones[CHOOSE k \in marks : \A m \in marks : m <= k].phase

\* DeletionJournalSnapshot.obligations: one for every item with an entry.
obligations(n) == {tombstones[k].item : k \in 1 .. n}

Tombstoned == obligations(Len(tombstones))

RestoreInit ==
    /\ tombstones = <<>> /\ copied = 0
    /\ source = [i \in RestoredItems |-> "none"]
    /\ residue = RestoredItems \X Stores
    /\ gate = {} /\ reconciled = {} /\ leaked = {} /\ gateFaults = 0 /\ lateRestores = 0

-------------------------------------------------------------------------------
(* The deletion authority, the journal file, the backup *)

Phases == {"STARTED", "INCOMPLETE", "COMPLETED"}
Follows(phase, last) ==
    CASE phase = "STARTED" -> last \in {"none", "INCOMPLETE"} [] OTHER -> last = "STARTED"

\* A deletion starts, again after an incomplete one, or ends: the tombstone
\* first, once the version of the last one is committed.  (A saga that dies in
\* between and is begun anew has another epoch: no snapshot of that journal can
\* be read, and nothing is served any more.)
DeletionRecorded(i) ==
    /\ Len(tombstones) < MaxTombstones /\ source[i] = PhaseAt(i, Len(tombstones))
    /\ \E phase \in Phases :
         /\ Follows(phase, source[i])
         /\ tombstones' = Append(tombstones, [item |-> i, phase |-> phase])
    /\ UNCHANGED <<copied, source, residue, gate, reconciled, leaked, gateFaults, lateRestores>>

\* ... then the version that records it.
SourceRecords(i) ==
    /\ source' = [source EXCEPT ![i] = PhaseAt(i, Len(tombstones))]
    /\ source' # source
    /\ residue' = residue \cup {<<i, Participants[1]>>}
    /\ UNCHANGED <<tombstones, copied, gate, reconciled, leaked, gateFaults, lateRestores>>

JournalCopied ==
    /\ copied < Len(tombstones) /\ copied' = Len(tombstones)
    /\ UNCHANGED <<tombstones, source, residue, gate, reconciled, leaked, gateFaults, lateRestores>>

\* A store receives an item from the backup after the gate was created.
RestoredLate(i, s) ==
    /\ lateRestores < LateRestores /\ lateRestores' = lateRestores + 1
    /\ <<i, s>> \notin residue
    /\ residue' = residue \cup {<<i, s>>}
    /\ UNCHANGED <<tombstones, copied, source, gate, reconciled, leaked, gateFaults>>

-------------------------------------------------------------------------------
(* The gate *)

Todo(n) == obligations(n) \X Stores
GateAt(g, stage, todo) == gate' = {[g EXCEPT !.stage = stage, !.todo = todo]}

\* DeletionJournalSnapshot.read against the authority's checkpoint.
ReconcileBegins ==
    /\ gate = {} /\ copied = Len(tombstones)
    /\ gate' = {[stage |-> "purge", snapshot |-> copied, todo |-> Todo(copied), response |-> {}]}
    /\ reconciled' = {}
    /\ UNCHANGED <<tombstones, copied, source, residue, leaked, gateFaults, lateRestores>>

\* The next store of an item in the order of the participants.
PurgeOrder(g) ==
    {e \in g.todo : \A m, n \in 1 .. Len(Participants) :
        Participants[n] = e[2] /\ <<e[1], Participants[m]>> \in g.todo => n <= m}

\* The metadata comes first: its replay needs the source's versions of the
\* phase that the tombstone records, and the other stores need the replay.
Purgeable(g, e) ==
    IF e[2] = Participants[1] THEN source[e[1]] = PhaseAt(e[1], g.snapshot)
    ELSE <<e[1], Participants[1]>> \notin residue

PurgeEntry ==
    /\ \E g \in gate : \E e \in PurgeOrder(g) :
         /\ g.stage = "purge" /\ Purgeable(g, e)
         /\ residue' = residue \ {e}
         /\ GateAt(g, "purge", g.todo \ {e})
    /\ UNCHANGED <<tombstones, copied, source, reconciled, leaked, gateFaults, lateRestores>>

\* _check: the checkpoint and the journal are still those of the snapshot ...
CheckBegins ==
    /\ \E g \in gate :
         /\ \/ g.stage = "purge" /\ g.todo = {}
            \/ g.stage \in {"before", "after"}
         /\ Len(tombstones) = g.snapshot /\ copied = g.snapshot
         /\ GateAt(g, IF g.stage = "before" THEN "inventory_before" ELSE "inventory", Todo(g.snapshot))
    /\ UNCHANGED <<tombstones, copied, source, residue, reconciled, leaked, gateFaults, lateRestores>>

\* ... no store has anything left of any item ...
CheckEntry ==
    /\ \E g \in gate : \E e \in g.todo :
         /\ g.stage \in {"inventory_before", "inventory"}
         /\ e \notin residue
         /\ GateAt(g, g.stage, g.todo \ {e})
    /\ UNCHANGED <<tombstones, copied, source, residue, reconciled, leaked, gateFaults, lateRestores>>

\* ... and the checkpoint is the same at the end: the reconciliation opens the
\* gate, the response is returned.
CheckEnds ==
    /\ \E g \in gate :
         /\ g.todo = {} /\ Len(tombstones) = g.snapshot
         /\ \/ /\ g.stage = "inventory_before" /\ GateAt(g, "action", {})
               /\ UNCHANGED <<reconciled, leaked>>
            \/ /\ g.stage = "inventory" /\ gate' = {} /\ reconciled' = {g.snapshot}
               /\ leaked' = leaked \cup (g.response \cap Tombstoned)
    /\ UNCHANGED <<tombstones, copied, source, residue, gateFaults, lateRestores>>

ServeBegins ==
    /\ gate = {}
    /\ \E n \in reconciled :
         gate' = {[stage |-> "before", snapshot |-> n, todo |-> {}, response |-> {}]}
    /\ UNCHANGED <<tombstones, copied, source, residue, reconciled, leaked, gateFaults, lateRestores>>

\* Mutant: the response is returned as it is.
ServeUnchecked ==
    /\ \E g \in gate :
         /\ g.stage = "action"
         /\ leaked' = leaked \cup ({i \in RestoredItems : \E s \in Stores : <<i, s>> \in residue} \cap Tombstoned)
    /\ gate' = {}
    /\ UNCHANGED <<tombstones, copied, source, residue, reconciled, gateFaults, lateRestores>>

\* The restored search answers from what the stores hold.
ServeAction ==
    /\ \E g \in gate :
         /\ g.stage = "action"
         /\ gate' = {[g EXCEPT !.stage = "after",
                      !.response = {i \in RestoredItems : \E s \in Stores : <<i, s>> \in residue}]}
    /\ UNCHANGED <<tombstones, copied, source, residue, reconciled, leaked, gateFaults, lateRestores>>

\* A check does not hold, or a port fails: nothing is served until the next
\* reconciliation.
GateRefuses ==
    /\ \E g \in gate :
         \/ g.stage = "purge" /\ \E e \in PurgeOrder(g) : ~Purgeable(g, e)
         \/ g.stage # "action" /\ Len(tombstones) # g.snapshot
         \/ g.stage \in {"inventory_before", "inventory"} /\ g.todo \cap residue # {}
    /\ gate' = {} /\ reconciled' = {}
    /\ UNCHANGED <<tombstones, copied, source, residue, leaked, gateFaults, lateRestores>>

GateFails ==
    /\ gate # {} /\ gateFaults < GateFaults /\ gateFaults' = gateFaults + 1
    /\ gate' = {} /\ reconciled' = {}
    /\ UNCHANGED <<tombstones, copied, source, residue, leaked, lateRestores>>

GateSteps == PurgeEntry \/ CheckBegins \/ CheckEntry \/ CheckEnds \/ ServeAction \/ GateRefuses

RestoreNext ==
    \/ \E i \in RestoredItems : DeletionRecorded(i) \/ SourceRecords(i) \/ \E s \in Stores : RestoredLate(i, s)
    \/ JournalCopied \/ ReconcileBegins \/ ServeBegins \/ GateSteps \/ GateFails

RestoreSpec == RestoreInit /\ [][RestoreNext]_restoreVars

-------------------------------------------------------------------------------
(* Properties *)

\* No response of the restored stores contains an item whose deletion the
\* authority has on record when the response is returned, even when the
\* deletion, or a late restore, happened while it was put together (serve).
NoDeletedServed == leaked = {}

-------------------------------------------------------------------------------
(* The inductive invariant and the proof *)

Tombstone == [item : RestoredItems, phase : Phases]
Stages == {"purge", "before", "inventory_before", "action", "after", "inventory"}
Operation ==
    [stage : Stages,
     snapshot : Nat, todo : SUBSET (RestoredItems \X Stores), response : SUBSET RestoredItems]

\* A deleted item in a response is still in some store: nothing is purged
\* between the action and the check that follows, and that check has this
\* store before it.
ResponseHeld(g) ==
    \A i \in g.response \cap obligations(g.snapshot) : \E s \in Stores :
       <<i, s>> \in residue /\ (g.stage = "inventory" => <<i, s>> \in g.todo)

GateSound(g) ==
    /\ g \in Operation
    /\ g.snapshot <= Len(tombstones)
    /\ g.stage \notin {"after", "inventory"} => g.response = {}
    /\ ResponseHeld(g)

RestoreInv ==
    /\ tombstones \in Seq(Tombstone)
    /\ reconciled \subseteq 0 .. Len(tombstones)
    /\ \A g \in gate : GateSound(g)
    /\ NoDeletedServed

\* First-order leaves are for Zenon, arithmetic and sequences for the SMT solver.
USE ZenonT(30), SMTT(60)

\* Only items have obligations.
LEMMA ObligationsTyped ==
    ASSUME RestoreInv PROVE \A n \in 0 .. Len(tombstones) : obligations(n) \subseteq RestoredItems
<1>1. \A k \in 1 .. Len(tombstones) : tombstones[k] \in Tombstone
    BY SMTT(60) DEF RestoreInv
<1>2. Len(tombstones) \in Nat
    BY SMTT(60) DEF RestoreInv
<1> QED
    BY SMTT(60), <1>1, <1>2 DEF obligations, Tombstone

\* The journal only grows, and what it held stays.
LEMMA JournalGrows ==
    ASSUME RestoreInv, NEW i \in RestoredItems, DeletionRecorded(i)
    PROVE  /\ tombstones' \in Seq(Tombstone)
           /\ Len(tombstones') = Len(tombstones) + 1
           /\ \A n \in 0 .. Len(tombstones) : obligations(n)' = obligations(n)
<1>1. PICK e \in Tombstone : tombstones' = Append(tombstones, e)
    BY DEF DeletionRecorded, Tombstone
<1>2. \A k \in 1 .. Len(tombstones) : tombstones'[k] = tombstones[k]
    BY SMTT(60), <1>1 DEF RestoreInv
<1> QED
    BY SMTT(60), <1>1, <1>2 DEF RestoreInv, obligations

\* A step that neither starts nor ends an operation, takes nothing out of a
\* store and leaves what the journal held.
LEMMA GateKept ==
    ASSUME RestoreInv, gate' = gate, residue \subseteq residue',
           Len(tombstones) <= Len(tombstones'), Len(tombstones) \in Nat, Len(tombstones') \in Nat,
           \A n \in 0 .. Len(tombstones) : obligations(n)' = obligations(n)
    PROVE  \A g \in gate' : GateSound(g)'
<1> SUFFICES ASSUME NEW g \in gate PROVE GateSound(g)'
    OBVIOUS
<1>1. GateSound(g) /\ g.snapshot \in 0 .. Len(tombstones)
    BY SMTT(60) DEF RestoreInv, GateSound, Operation
<1>2. obligations(g.snapshot)' = obligations(g.snapshot)
    BY <1>1
<1>3. ResponseHeld(g)'
    BY <1>1, <1>2 DEF GateSound, ResponseHeld
<1> QED
    BY SMTT(60), <1>1, <1>3 DEF GateSound

\* The steps of the authority, the journal file and the backup.
LEMMA WorldKeeps ==
    ASSUME RestoreInv,
           \/ \E i \in RestoredItems : \/ DeletionRecorded(i) \/ SourceRecords(i)
                                       \/ \E s \in Stores : RestoredLate(i, s)
           \/ JournalCopied
    PROVE  RestoreInv'
<1>1. ASSUME NEW i \in RestoredItems, DeletionRecorded(i) PROVE RestoreInv'
    <2>1. UNCHANGED <<residue, gate, reconciled, leaked>>
        BY <1>1 DEF DeletionRecorded
    <2>2. Len(tombstones) \in Nat
        BY SMTT(60) DEF RestoreInv
    <2>3. \A g \in gate' : GateSound(g)'
        BY SMTT(60), <1>1, <2>1, <2>2, JournalGrows, GateKept
    <2>4. reconciled' \subseteq 0 .. Len(tombstones')
        BY SMTT(60), <1>1, <2>1, <2>2, JournalGrows DEF RestoreInv
    <2> QED
        BY <1>1, <2>1, <2>3, <2>4, JournalGrows DEF RestoreInv, NoDeletedServed
<1>2. ASSUME UNCHANGED <<tombstones, gate, reconciled, leaked>>, residue \subseteq residue'
      PROVE  RestoreInv'
    <2>1. Len(tombstones) \in Nat
        BY SMTT(60) DEF RestoreInv
    <2>2. tombstones' = tombstones
        BY <1>2
    <2>3. \A n \in 0 .. Len(tombstones) : obligations(n)' = obligations(n)
        BY <2>2 DEF obligations
    <2>4. \A g \in gate' : GateSound(g)'
        BY SMTT(60), <1>2, <2>1, <2>3, GateKept
    <2> QED
        BY <1>2, <2>4 DEF RestoreInv, NoDeletedServed
<1> QED
    BY <1>1, <1>2 DEF SourceRecords, RestoredLate, JournalCopied

\* An operation goes on, or begins.
LEMMA GateMoves ==
    ASSUME RestoreInv, tombstones' = tombstones, reconciled' \subseteq reconciled, leaked' = leaked,
           NEW h \in Operation, gate' = {h}, h.snapshot <= Len(tombstones),
           h.stage \notin {"after", "inventory"} => h.response = {},
           \A i \in h.response \cap obligations(h.snapshot) : \E s \in Stores :
              <<i, s>> \in residue' /\ (h.stage = "inventory" => <<i, s>> \in h.todo)
    PROVE  RestoreInv'
<1>1. obligations(h.snapshot)' = obligations(h.snapshot)
    BY DEF obligations
<1>2. ResponseHeld(h)'
    BY <1>1 DEF ResponseHeld
<1>3. GateSound(h)'
    BY <1>2 DEF GateSound
<1> QED
    BY <1>3 DEF RestoreInv, NoDeletedServed

\* The steps of an operation in progress.
LEMMA GateKeeps ==
    ASSUME RestoreInv, GateSteps
    PROVE  RestoreInv'
<1>0. \A g \in gate : GateSound(g)
    BY DEF RestoreInv
<1>1. CASE PurgeEntry
    <2>0. PICK g \in gate : \E e :
              g.stage = "purge" /\ residue' = residue \ {e} /\ GateAt(g, "purge", g.todo \ {e})
        BY <1>1 DEF PurgeEntry
    <2>1. PICK e : g.stage = "purge" /\ residue' = residue \ {e} /\ GateAt(g, "purge", g.todo \ {e})
        BY <2>0
    <2>2. g \in Operation /\ g.snapshot <= Len(tombstones) /\ g.response = {}
        BY <1>0, <2>1 DEF GateSound
    <2>3. g.todo \ {e} \in SUBSET (RestoredItems \X Stores)
        BY <2>2 DEF Operation
    <2> DEFINE h == [g EXCEPT !.stage = "purge", !.todo = g.todo \ {e}]
    <2>4. h \in Operation /\ h.snapshot = g.snapshot /\ h.response = {} /\ gate' = {h}
        BY <2>1, <2>2, <2>3 DEF Operation, Stages, GateAt
    <2> HIDE DEF h
    <2> QED
        BY <1>1, <2>2, <2>4, GateMoves DEF PurgeEntry
<1>2. CASE CheckBegins
    <2>1. PICK g \in gate :
              /\ g.stage = "purge" \/ g.stage \in {"before", "after"}
              /\ GateAt(g, IF g.stage = "before" THEN "inventory_before" ELSE "inventory", Todo(g.snapshot))
        BY <1>2 DEF CheckBegins
    <2>2. g \in Operation /\ g.snapshot <= Len(tombstones) /\ ResponseHeld(g)
          /\ (g.stage # "after" => g.response = {})
        BY <1>0, <2>1 DEF GateSound
    <2>3. g.snapshot \in 0 .. Len(tombstones)
        BY SMTT(60), <2>2 DEF Operation, RestoreInv
    <2>4. Todo(g.snapshot) \in SUBSET (RestoredItems \X Stores)
        BY <2>3, ObligationsTyped DEF Todo
    <2> DEFINE stage == IF g.stage = "before" THEN "inventory_before" ELSE "inventory"
    <2> DEFINE h == [g EXCEPT !.stage = stage, !.todo = Todo(g.snapshot)]
    <2>5. /\ h \in Operation /\ h.snapshot = g.snapshot /\ h.response = g.response
          /\ h.stage = stage /\ h.todo = Todo(g.snapshot) /\ gate' = {h}
        BY <2>1, <2>2, <2>4 DEF Operation, Stages, GateAt
    <2>6. stage \notin {"after", "inventory"} => h.response = {}
        BY <2>2, <2>5
    <2> HIDE DEF h, stage
    <2>7. \A i \in h.response \cap obligations(h.snapshot) : \E s \in Stores :
             <<i, s>> \in residue /\ <<i, s>> \in h.todo
        BY <2>2, <2>5 DEF ResponseHeld, Todo
    <2> QED
        BY <1>2, <2>2, <2>5, <2>6, <2>7, GateMoves DEF CheckBegins
<1>3. CASE CheckEntry
    <2>0. PICK g \in gate : \E e \in g.todo :
              /\ e \notin residue /\ g.stage \in {"inventory_before", "inventory"}
              /\ GateAt(g, g.stage, g.todo \ {e})
        BY <1>3 DEF CheckEntry
    <2>1. PICK e \in g.todo :
              /\ e \notin residue /\ g.stage \in {"inventory_before", "inventory"}
              /\ GateAt(g, g.stage, g.todo \ {e})
        BY <2>0
    <2>2. /\ g \in Operation /\ g.snapshot <= Len(tombstones) /\ ResponseHeld(g)
          /\ g.stage # "inventory" => g.response = {}
        BY <1>0, <2>1 DEF GateSound
    <2>3. g.todo \ {e} \in SUBSET (RestoredItems \X Stores) /\ g.stage \in Stages
        BY <2>1, <2>2 DEF Operation, Stages
    <2> DEFINE h == [g EXCEPT !.stage = g.stage, !.todo = g.todo \ {e}]
    <2>4. /\ h \in Operation /\ h.snapshot = g.snapshot /\ h.response = g.response
          /\ h.stage = g.stage /\ h.todo = g.todo \ {e} /\ gate' = {h}
        BY <2>1, <2>2, <2>3 DEF Operation, GateAt
    <2> HIDE DEF h
    <2>5. \A i \in h.response \cap obligations(h.snapshot) : \E s \in Stores :
             <<i, s>> \in residue /\ (h.stage = "inventory" => <<i, s>> \in h.todo)
        BY <2>1, <2>2, <2>4 DEF ResponseHeld
    <2> QED
        BY <1>3, <2>2, <2>4, <2>5, GateMoves DEF CheckEntry
<1>4. CASE CheckEnds
    <2>1. PICK g \in gate :
              /\ g.todo = {} /\ Len(tombstones) = g.snapshot
              /\ \/ /\ g.stage = "inventory_before" /\ GateAt(g, "action", {})
                    /\ UNCHANGED <<reconciled, leaked>>
                 \/ /\ g.stage = "inventory" /\ gate' = {} /\ reconciled' = {g.snapshot}
                    /\ leaked' = leaked \cup (g.response \cap Tombstoned)
        BY <1>4 DEF CheckEnds
    <2>2. g \in Operation /\ g.snapshot <= Len(tombstones) /\ ResponseHeld(g)
        BY <1>0, <2>1 DEF GateSound
    <2>3. CASE g.stage = "inventory_before"
        <3> DEFINE h == [g EXCEPT !.stage = "action", !.todo = {}]
        <3>1. h \in Operation /\ h.snapshot = g.snapshot /\ h.response = g.response /\ gate' = {h}
            BY <2>1, <2>2, <2>3 DEF Operation, Stages, GateAt
        <3>2. g.response = {}
            BY <1>0, <2>1, <2>3 DEF GateSound
        <3> HIDE DEF h
        <3> QED
            BY <1>4, <2>1, <2>2, <2>3, <3>1, <3>2, GateMoves DEF CheckEnds
    <2>4. CASE g.stage = "inventory"
        <3>1. g.response \cap Tombstoned = {}
            BY <2>1, <2>2, <2>4 DEF ResponseHeld, Tombstoned
        <3>2. leaked' = {} /\ gate' = {} /\ reconciled' = {Len(tombstones)}
            BY <2>1, <2>4, <3>1 DEF RestoreInv, NoDeletedServed
        <3>3. tombstones' = tombstones /\ Len(tombstones) \in Nat
            BY SMTT(60), <1>4 DEF CheckEnds, RestoreInv
        <3> QED
            BY SMTT(60), <3>2, <3>3 DEF RestoreInv, NoDeletedServed
    <2> QED
        BY <2>1, <2>3, <2>4
<1>5. CASE ServeAction
    <2> DEFINE held == {i \in RestoredItems : \E s \in Stores : <<i, s>> \in residue}
    <2>1. PICK g \in gate : gate' = {[g EXCEPT !.stage = "after", !.response = held]}
        BY <1>5 DEF ServeAction
    <2>2. g \in Operation /\ g.snapshot <= Len(tombstones)
        BY <1>0, <2>1 DEF GateSound
    <2> DEFINE h == [g EXCEPT !.stage = "after", !.response = held]
    <2>3. h \in Operation /\ h.snapshot = g.snapshot /\ h.response = held /\ h.stage = "after"
        BY <2>2 DEF Operation, Stages
    <2>4. gate' = {h}
        BY <2>1
    <2>5. \A i \in h.response : \E s \in Stores : <<i, s>> \in residue
        BY <2>3
    <2> HIDE DEF h, held
    <2> QED
        BY <1>5, <2>2, <2>3, <2>4, <2>5, GateMoves DEF ServeAction
<1>6. CASE GateRefuses
    BY <1>6 DEF GateRefuses, RestoreInv, NoDeletedServed
<1> QED
    BY <1>1, <1>2, <1>3, <1>4, <1>5, <1>6 DEF GateSteps

\* The steps that begin an operation, and its failure.
LEMMA GateBegins ==
    ASSUME RestoreInv, ReconcileBegins \/ ServeBegins \/ GateFails
    PROVE  RestoreInv'
<1>0. Len(tombstones) \in Nat
    BY SMTT(60) DEF RestoreInv
<1>1. CASE ReconcileBegins
    <2> DEFINE h == [stage |-> "purge", snapshot |-> copied, todo |-> Todo(copied), response |-> {}]
    <2>1. copied = Len(tombstones) /\ gate' = {h}
        BY <1>1 DEF ReconcileBegins
    <2>2. Todo(copied) \subseteq RestoredItems \X Stores
        BY SMTT(60), <1>0, <2>1, ObligationsTyped DEF Todo
    <2>3. h \in Operation /\ h.snapshot = copied /\ h.response = {}
        BY <1>0, <2>1, <2>2 DEF Operation, Stages
    <2> HIDE DEF h
    <2> QED
        BY SMTT(60), <1>0, <1>1, <2>1, <2>3, GateMoves DEF ReconcileBegins
<1>2. CASE ServeBegins
    <2>1. PICK n \in reconciled :
              gate' = {[stage |-> "before", snapshot |-> n, todo |-> {}, response |-> {}]}
        BY <1>2 DEF ServeBegins
    <2> DEFINE h == [stage |-> "before", snapshot |-> n, todo |-> {}, response |-> {}]
    <2>2. n \in Nat /\ n <= Len(tombstones)
        BY SMTT(60), <1>0 DEF RestoreInv
    <2>3. h \in Operation /\ h.snapshot = n /\ h.response = {} /\ gate' = {h}
        BY <2>1, <2>2 DEF Operation, Stages
    <2> HIDE DEF h
    <2> QED
        BY <1>2, <2>2, <2>3, GateMoves DEF ServeBegins
<1>3. CASE GateFails
    BY <1>3 DEF GateFails, RestoreInv, NoDeletedServed
<1> QED
    BY <1>1, <1>2, <1>3

\* Whatever is deleted, and restored late, while a response is put together,
\* what the gate returns holds no item that the authority has on record as
\* deleted: for any number of items, stores, failures and late restores.
THEOREM NothingDeletedServed == RestoreSpec => []NoDeletedServed
<1>1. RestoreInit => RestoreInv
    BY SMTT(60) DEF RestoreInit, RestoreInv, NoDeletedServed
<1>2. RestoreInv /\ [RestoreNext]_restoreVars => RestoreInv'
    <2> SUFFICES ASSUME RestoreInv, [RestoreNext]_restoreVars PROVE RestoreInv'
        OBVIOUS
    <2>1. CASE UNCHANGED restoreVars
        BY <2>1 DEF restoreVars, RestoreInv, GateSound, ResponseHeld, NoDeletedServed, obligations
    <2> QED
        BY <2>1, WorldKeeps, GateKeeps, GateBegins DEF RestoreNext
<1>3. RestoreInv => NoDeletedServed
    BY DEF RestoreInv
<1> QED
    BY <1>1, <1>2, <1>3, PTL DEF RestoreSpec
===============================================================================
