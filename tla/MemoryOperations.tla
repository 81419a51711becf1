---------------------------- MODULE MemoryOperations ----------------------------
(***************************************************************************)
(* MemoryOperationsService, MemoryQuotaWriter and MemoryBackupService      *)
(* (memory/operations.py) over one partition: the inventory of heads, the  *)
(* quota, the writes it admits, relief of pressure and signed backups.     *)
(*                                                                         *)
(* The version ledger and the metadata store are external here (their own  *)
(* modules: MemoryAdmission, MemoryStores, MemoryLifecycle): an append to  *)
(* the ledger, a staged row and the switch of a row are one step each; a   *)
(* lifecycle transition appends and commits one version.  A worker is one  *)
(* service: its lock serves one operation at a time.                       *)
(***************************************************************************)
EXTENDS Naturals, FiniteSets, Functions, TLC

CONSTANTS
    StoredItems,        \* numbers: the rows are read in this order
    Workers,
    Writable,           \* worker -> the items it is asked to write
    Served,             \* worker -> the other kinds of operation it is asked for
    Present,            \* the starts: item -> status, of the items committed then
    Moved,              \* <<item, status>>: the transitions of other coordinators
    MaxItems,           \* MemoryOperationsLimits.max_items
    MaxItemVersion,     \* bound on the versions of an item
    OperationFaults     \* bound on failed stores and dead workers

VARIABLES
    latest,             \* item -> latest_version in the ledger
    row,                \* item -> the newest row: "none", "PARTIAL" or "COMPLETE" (both
                        \* PENDING), or "COMMITTED"
    committed,          \* item -> head in the metadata store
    state,              \* item -> lifecycle status of the head; MOVED: in another partition
    deletions,          \* the sequence of the deletion checkpoint
    serialized,         \* the worker that holds the partition, if any
    inventory,          \* worker -> the operation in progress, if any
    manifests,          \* the last manifest signed, until another operation begins
    operationFaults,
    seen                \* history: worker -> the contents of the partition since the
                        \* backup in progress began

operationVars == <<latest, row, committed, state, deletions, serialized, inventory, manifests, operationFaults, seen>>
partitionVars == <<latest, row, committed, state, deletions>>

\* The heads in the partition, and those that count against the quota.
Heads == {i \in StoredItems : committed[i] > 0 /\ state[i] # "MOVED"}
Contents == [i \in Heads |-> committed[i]]
Retained == {i \in Heads : state[i] # "DELETED"}
Rows == {i \in StoredItems : row[i] # "none"}

OperationInit ==
    /\ \E start \in Present :
         /\ committed = [i \in StoredItems |-> IF i \in DOMAIN start THEN 1 ELSE 0]
         /\ row = [i \in StoredItems |-> IF i \in DOMAIN start THEN "COMMITTED" ELSE "none"]
         /\ state = [i \in StoredItems |-> IF i \in DOMAIN start THEN start[i] ELSE "NONE"]
    /\ latest = committed
    /\ deletions = 0 /\ serialized = {} /\ manifests = {} /\ operationFaults = 0
    /\ inventory = [w \in Workers |-> {}] /\ seen = [w \in Workers |-> {}]

-------------------------------------------------------------------------------
(* The operations *)

Serves(w, o) == inventory' = [inventory EXCEPT ![w] = {o}]
EndsWith(w) ==
    /\ inventory' = [inventory EXCEPT ![w] = {}]
    /\ serialized' = serialized \ {w}

NewOperation(kind, i) ==
    [kind |-> kind, item |-> i, stage |-> "rows", left |-> {}, heads |-> <<>>,
     listed |-> <<>>, dropped |-> FALSE, counted |-> {}, checkpoint |-> deletions, todo |-> {}]

\* The plan is authorized; a writer waits for the partition.  A write names the
\* next version, or again one that was admitted and is not committed.
BeginOperation(w, kind, i) ==
    /\ inventory[w] = {}
    /\ kind = "write" => serialized = {} /\ (latest[i] < MaxItemVersion \/ committed[i] < latest[i])
    /\ serialized' = IF kind = "write" THEN {w} ELSE serialized
    /\ Serves(w, NewOperation(kind, i)) /\ manifests' = {}
    /\ UNCHANGED <<partitionVars, operationFaults>>

NextOf(S) == {i \in S : \A j \in S : i <= j}

\* _heads: versions_in of the partition.
ReadRows(w) ==
    /\ \E o \in inventory[w] :
         /\ o.stage = "rows"
         /\ Serves(w, [o EXCEPT !.stage = IF Rows = {} THEN "again" ELSE "heads", !.left = Rows])
    /\ UNCHANGED <<partitionVars, serialized, manifests, operationFaults>>

\* Mutant: an item whose head is not committed does not count.
HeadPassedOver(i) == TRUE

\* The head is the latest version of the ledger, and it is committed.
HeadCommitted(i) == latest[i] = committed[i] /\ committed[i] > 0

ReadHead(w) ==
    /\ \E o \in inventory[w] : \E i \in NextOf(o.left) :
         /\ o.stage = "heads"
         /\ IF HeadCommitted(i)
            THEN /\ LET found == IF i \in Heads THEN (i :> committed[i]) @@ o.heads ELSE o.heads
                        last == o.left = {i}
                    IN  Serves(w, [o EXCEPT !.stage = IF last THEN "again" ELSE @,
                           !.left = IF last THEN DOMAIN found ELSE @ \ {i}, !.heads = found,
                           !.counted = IF i \in Retained THEN @ \cup {i} ELSE @])
                 /\ UNCHANGED serialized
            ELSE EndsWith(w)
    /\ UNCHANGED <<partitionVars, manifests, operationFaults>>

\* Every head is read again ...
VerifyHead(w) ==
    /\ \E o \in inventory[w] : \E i \in NextOf(o.left) :
         /\ o.stage = "again"
         /\ IF committed[i] = o.heads[i] /\ latest[i] = o.heads[i]
            THEN Serves(w, [o EXCEPT !.left = @ \ {i}]) /\ UNCHANGED serialized
            ELSE EndsWith(w)
    /\ UNCHANGED <<partitionVars, manifests, operationFaults>>

\* Mutant: what joined the partition meanwhile is not looked for.
MembersTrusted(o) == TRUE

\* ... and so is the membership: what was listed and is a head still.
MembersUnchanged(o) == o.listed = o.heads

After(kind) ==
    CASE kind = "write" -> "admit" [] kind = "pressure" -> "select" [] OTHER -> "sign"

\* _commit_locked and the ITEM check of _enforce_quota: an item that is not
\* retained yet is a new one.  INDEX is the same over the index slots, the
\* other limits are of one request.
EnforceQuota(o) == Cardinality(o.counted \cup {o.item}) <= MaxItems

\* versions_in once more.  Only a row that is the head now can be the head when
\* its turn comes: heads never go back.
ListMembers(w) ==
    /\ \E o \in inventory[w] :
         /\ o.stage = "again" /\ o.left = {}
         /\ Serves(w, [o EXCEPT !.stage = "members", !.left = Heads, !.listed = Contents])
    /\ UNCHANGED <<partitionVars, serialized, manifests, operationFaults>>

\* The head of one listed row: a row that another has replaced is historical.
ReadMember(w) ==
    /\ \E o \in inventory[w] : \E i \in NextOf(o.left) :
         /\ o.stage = "members"
         /\ Serves(w, IF committed[i] = o.listed[i] THEN [o EXCEPT !.left = @ \ {i}]
                      ELSE [o EXCEPT !.left = @ \ {i}, !.listed = Restrict(@, DOMAIN @ \ {i}),
                                     !.dropped = TRUE])
    /\ UNCHANGED <<partitionVars, serialized, manifests, operationFaults>>

CompareMembers(w) ==
    /\ \E o \in inventory[w] :
         /\ o.stage = "members" /\ o.left = {}
         /\ IF MembersUnchanged(o) /\ (o.kind = "write" => EnforceQuota(o))
            THEN Serves(w, [o EXCEPT !.stage = After(o.kind), !.listed = <<>>]) /\ UNCHANGED serialized
            ELSE EndsWith(w)
    /\ UNCHANGED <<partitionVars, manifests, operationFaults>>

-------------------------------------------------------------------------------
(* MemoryQuotaWriter *)

\* admit: the next version, or the record of the same request again.
WriterAdmits(w) ==
    /\ \E o \in inventory[w] :
         /\ o.stage = "admit"
         /\ \/ /\ committed[o.item] = latest[o.item] /\ state[o.item] \in {"NONE", "ACTIVE"}
               /\ latest[o.item] < MaxItemVersion
               /\ latest' = [latest EXCEPT ![o.item] = @ + 1]
               /\ Serves(w, [o EXCEPT !.stage = "stage"]) /\ UNCHANGED serialized
            \/ /\ committed[o.item] < latest[o.item] /\ UNCHANGED latest
               /\ Serves(w, [o EXCEPT !.stage = "stage"]) /\ UNCHANGED serialized
            \/ /\ committed[o.item] = latest[o.item] /\ UNCHANGED latest
               /\ (state[o.item] \notin {"NONE", "ACTIVE"} \/ latest[o.item] = MaxItemVersion)
               /\ EndsWith(w)
    /\ UNCHANGED <<row, committed, state, deletions, manifests, operationFaults>>

\* MemoryStoreCoordinator.commit: staged, complete, switched.
WriterStages(w) ==
    /\ \E o \in inventory[w] :
         /\ o.stage = "stage" /\ row' = [row EXCEPT ![o.item] = "PARTIAL"]
         /\ Serves(w, [o EXCEPT !.stage = "project"])
    /\ UNCHANGED <<latest, committed, state, deletions, serialized, manifests, operationFaults>>

WriterProjects(w) ==
    /\ \E o \in inventory[w] :
         /\ o.stage = "project"
         /\ row' = [row EXCEPT ![o.item] = IF @ = "PARTIAL" THEN "COMPLETE" ELSE @]
         /\ Serves(w, [o EXCEPT !.stage = "switch"])
    /\ UNCHANGED <<latest, committed, state, deletions, serialized, manifests, operationFaults>>

Switched(i) ==
    /\ row' = [row EXCEPT ![i] = "COMMITTED"]
    /\ committed' = [committed EXCEPT ![i] = latest[i]]
    /\ state' = [state EXCEPT ![i] = "ACTIVE"]

WriterCommits(w) ==
    /\ \E o \in inventory[w] :
         /\ o.stage = "switch"
         /\ IF row[o.item] = "COMPLETE" THEN Switched(o.item) ELSE UNCHANGED <<row, committed, state>>
    /\ EndsWith(w)
    /\ UNCHANGED <<latest, deletions, manifests, operationFaults>>

\* reconcile (external): a complete row is rolled forward; a partial one keeps
\* its row and loses what it had in the indexes.
StoreReconciles(i) ==
    /\ row[i] = "COMPLETE" /\ Switched(i)
    /\ UNCHANGED <<latest, deletions, serialized, inventory, manifests, operationFaults>>

-------------------------------------------------------------------------------
(* relieve_pressure and the lifecycle *)

\* Retained heads that are not held; the batch limit is one item.
SelectVictim(w) ==
    /\ \E o \in inventory[w] :
         /\ o.stage = "select"
         /\ \/ \E i \in o.counted :
                 /\ state[i] = "ACTIVE" /\ Serves(w, [o EXCEPT !.stage = "delete", !.todo = {i}])
                 /\ UNCHANGED serialized
            \/ (\A i \in o.counted : state[i] # "ACTIVE") /\ EndsWith(w)
    /\ UNCHANGED <<partitionVars, manifests, operationFaults>>

\* The lifecycle moves the head on by one version, to its new status.
Transits(i, to) ==
    /\ latest' = [latest EXCEPT ![i] = @ + 1]
    /\ committed' = [committed EXCEPT ![i] = latest[i] + 1]
    /\ row' = [row EXCEPT ![i] = "COMMITTED"]
    /\ state' = [state EXCEPT ![i] = to]
    /\ deletions' = IF to = "DELETED" THEN deletions + 1 ELSE deletions

\* The head is compared with the one selected; transition compares the version.
DeleteVictim(w) ==
    /\ \E o \in inventory[w] : \E i \in o.todo :
         /\ o.stage = "delete"
         /\ IF committed[i] = o.heads[i] /\ latest[i] = o.heads[i]
            THEN Transits(i, "DELETED") ELSE UNCHANGED partitionVars
    /\ EndsWith(w)
    /\ UNCHANGED <<manifests, operationFaults>>

\* Another coordinator transitions or reclassifies an item.
LifecycleMoves(i, to) ==
    /\ committed[i] > 0 /\ latest[i] = committed[i] /\ latest[i] <= MaxItemVersion
    /\ state[i] \in {"ACTIVE", "LEGAL_HOLD"} /\ to # state[i]
    /\ Transits(i, to)
    /\ UNCHANGED <<serialized, inventory, manifests, operationFaults>>

-------------------------------------------------------------------------------
(* MemoryBackupService.capture, and the answer of monitor *)

\* The checkpoint is the one from before the inventory.
SignManifest(w) ==
    /\ \E o \in inventory[w] :
         /\ o.stage = "sign"
         /\ manifests' = IF deletions = o.checkpoint
                         THEN {[exact |-> o.heads \in seen[w], dropped |-> o.dropped]} ELSE manifests
    /\ EndsWith(w)
    /\ UNCHANGED <<partitionVars, operationFaults>>

\* A store, the policy, the stop state or the audit fails, or the worker dies.
OperationAborts(w) ==
    /\ inventory[w] # {} /\ operationFaults < OperationFaults
    /\ operationFaults' = operationFaults + 1 /\ EndsWith(w)
    /\ UNCHANGED <<partitionVars, manifests>>

OperationSteps(w) ==
    \/ ReadRows(w) \/ ReadHead(w) \/ VerifyHead(w)
    \/ ListMembers(w) \/ ReadMember(w) \/ CompareMembers(w)
    \/ WriterAdmits(w) \/ WriterStages(w) \/ WriterProjects(w) \/ WriterCommits(w)
    \/ SelectVictim(w) \/ DeleteVictim(w) \/ SignManifest(w)

\* Of every backup in progress, what the partition has held since it began.
Witness ==
    seen' = [w \in Workers |->
               IF \A o \in inventory'[w] : o.kind # "backup" THEN {}
               ELSE {Contents'} \cup (IF inventory[w] = {} THEN {} ELSE seen[w])]

OperationNext ==
    /\ \/ \E w \in Workers :
            \/ OperationSteps(w) \/ OperationAborts(w)
            \/ \E i \in Writable[w] : BeginOperation(w, "write", i)
            \/ \E kind \in Served[w] : BeginOperation(w, kind, 0)
       \/ \E i \in StoredItems : StoreReconciles(i)
       \/ \E move \in Moved : LifecycleMoves(move[1], move[2])
    /\ Witness

-------------------------------------------------------------------------------
(* Properties *)

\* The quota holds of what is committed, whatever workers write at once, fail
\* and have rolled forward by reconciliation (_commit_locked, _heads).
QuotaHeld == Cardinality(Retained) <= MaxItems

\* A signed manifest is the contents of the partition at one moment of the
\* inventory, although the heads and the members are read one by one (_heads,
\* capture).  The exception: an item that joined after the first listing, is in
\* the second and gets a new version before its turn is taken for history.
ManifestExact == \A m \in manifests : m.exact \/ m.dropped

\* What the partition is said to hold is what it holds: the two facts above.
InventoryExact == QuotaHeld /\ ManifestExact
===============================================================================
