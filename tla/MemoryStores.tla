----------------------------- MODULE MemoryStores ------------------------------
(***************************************************************************)
(* MemoryStoreCoordinator (memory/stores.py): versions admitted to memory  *)
(* are committed across the metadata store, the content store and the      *)
(* lexical and vector indexes, with one switch of visibility in the        *)
(* metadata store; a reconciler rolls complete versions forward and sweeps *)
(* what incomplete ones left behind.                                       *)
(*                                                                         *)
(* Writers and the reconciler run in different processes: every call of a  *)
(* store is a step of its own.  Digests bind what they are taken of, so a  *)
(* pointer stands for the version and kind it names, and an entry that is  *)
(* read back binds when it is there.  What _prepare refuses (a record that *)
(* the admission ledger does not hold, a payload or an embedding that the  *)
(* item does not digest) changes nothing.                                  *)
(***************************************************************************)
EXTENDS Naturals, FiniteSets

CONSTANTS
    Records,        \* the admitted versions, <<item, number>>
    PartitionOf,    \* item -> the isolation tuple it is stored under
    PayloadOf,      \* version -> its payload
    KindsOf,        \* version -> its indexed representations
    StoreWriters,
    StoreFaults     \* bound on crashes and failed writes

VARIABLES
    metadata,       \* version -> "none", "PENDING" or "COMMITTED"
    heads,          \* item -> its head version, 0 before the first
    aged,           \* the pending versions staged before the grace period
    objects,        \* the content objects stored
    entries,        \* the entries of the indexes: <<version, kind>>
    superseded,     \* the entries that are out of every query
    writing,        \* writer -> the commit in progress, if any
    pass,           \* the reconciliation in progress, if any
    storeFaults,
    exposed         \* history: versions that a pass swept something of whose
                    \* commit ran beside it and was not in flight for it

storeVars == <<metadata, heads, aged, objects, entries, superseded, writing, pass,
               storeFaults, exposed>>

\* content_object_ref: equal payloads share an object, inside a partition.
ObjectRef(v) == <<PartitionOf[v[1]], PayloadOf[v]>>

Pointers(v) == {<<v, k>> : k \in KindsOf[v]}
Partitions == {PartitionOf[v[1]] : v \in Records}
VersionsIn(p) == {v \in Records : PartitionOf[v[1]] = p /\ metadata[v] # "none"}
Committed == {v \in Records : metadata[v] = "COMMITTED"}
Pending == {v \in Records : metadata[v] = "PENDING"}

\* The content opens and every projection is bound (_read_content and
\* _projection_bound).
Complete(v) == ObjectRef(v) \in objects /\ Pointers(v) \subseteq entries

StoreInit ==
    /\ metadata = [v \in Records |-> "none"]
    /\ heads = [i \in {v[1] : v \in Records} |-> 0]
    /\ aged = {} /\ objects = {} /\ entries = {} /\ superseded = {}
    /\ writing = [w \in StoreWriters |-> {}]
    /\ pass = {} /\ storeFaults = 0 /\ exposed = {}

Written == {x.version : x \in UNION {writing[w] : w \in StoreWriters}}

\* MemoryMetadataStore.commit: the version is the head from now on.
Switch(v) ==
    /\ heads[v[1]] = v[2] - 1
    /\ metadata' = [metadata EXCEPT ![v] = "COMMITTED"]
    /\ heads' = [heads EXCEPT ![v[1]] = v[2]]
    /\ aged' = aged \ {v}

\* _retire_predecessors: the older entries of the item leave every query.
Retired(v) == superseded \cup {e \in entries : e[1][1] = v[1] /\ e[1][2] < v[2]}

-------------------------------------------------------------------------------
(* commit *)

Proceed(w, x, stage) == writing' = [writing EXCEPT ![w] = {[x EXCEPT !.stage = stage]}]
CommitEnds(w) == writing' = [writing EXCEPT ![w] = {}]

\* _prepare and metadata.stage.  A version that was staged before keeps its
\* staging time; one that is committed only has its predecessors retired.
Stage(w, v) ==
    /\ writing[w] = {}
    /\ metadata' = [metadata EXCEPT ![v] = IF @ = "none" THEN "PENDING" ELSE @]
    /\ writing' = [writing EXCEPT ![w] =
         {[version |-> v, left |-> KindsOf[v],
           stage |-> IF metadata[v] = "COMMITTED" THEN "retire" ELSE "content"]}]
    /\ exposed' = IF v \in Pending THEN exposed \ {v} ELSE exposed
    /\ pass' = {[p EXCEPT !.late = IF v \in p.in_flight THEN @ ELSE @ \cup {v}] : p \in pass}
    /\ UNCHANGED <<heads, aged, objects, entries, superseded, storeFaults>>

\* _write_content: an object that is there is not overwritten.
WriteContent(w) ==
    /\ \E x \in writing[w] :
         /\ x.stage = "content"
         /\ objects' = objects \cup {ObjectRef(x.version)}
         /\ Proceed(w, x, IF x.left = {} THEN "commit" ELSE "project")
    /\ UNCHANGED <<metadata, heads, aged, entries, superseded, pass, storeFaults, exposed>>

\* _write_projection: one index after the other, each read back.  The entry is
\* written with the attributes of a head.
WriteProjection(w) ==
    /\ \E x \in writing[w] : \E k \in x.left :
         /\ x.stage = "project"
         /\ entries' = entries \cup {<<x.version, k>>}
         /\ superseded' = superseded \ {<<x.version, k>>}
         /\ writing' = [writing EXCEPT ![w] =
              {[x EXCEPT !.left = @ \ {k}, !.stage = IF x.left = {k} THEN "commit" ELSE "project"]}]
    /\ UNCHANGED <<metadata, heads, aged, objects, pass, storeFaults, exposed>>

\* Refused when the predecessor is not committed; the version stays PENDING.
SwitchVisible(w) ==
    /\ \E x \in writing[w] :
         /\ x.stage = "commit"
         /\ \/ /\ x.version \in Committed
               /\ Proceed(w, x, "retire") /\ UNCHANGED <<metadata, heads, aged>>
            \/ /\ x.version \in Pending /\ Switch(x.version) /\ Proceed(w, x, "retire")
            \/ /\ x.version \in Pending /\ heads[x.version[1]] # x.version[2] - 1
               /\ CommitEnds(w) /\ UNCHANGED <<metadata, heads, aged>>
    /\ UNCHANGED <<objects, entries, superseded, pass, storeFaults, exposed>>

RetirePredecessors(w) ==
    /\ \E x \in writing[w] : x.stage = "retire" /\ superseded' = Retired(x.version)
    /\ CommitEnds(w)
    /\ UNCHANGED <<metadata, heads, aged, objects, entries, pass, storeFaults, exposed>>

\* A store fails, a read-back finds nothing, or the process dies.
CommitFails(w) ==
    /\ writing[w] # {} /\ storeFaults < StoreFaults
    /\ storeFaults' = storeFaults + 1 /\ CommitEnds(w)
    /\ UNCHANGED <<metadata, heads, aged, objects, entries, superseded, pass, exposed>>

-------------------------------------------------------------------------------
(* reconcile *)

PassAt(p, stage) == pass' = {[p EXCEPT !.stage = stage]}

\* The grace period of a pending version elapses.
GraceElapses(v) ==
    /\ v \in Pending \ aged
    /\ aged' = aged \cup {v}
    /\ UNCHANGED <<metadata, heads, objects, entries, superseded, writing, pass, storeFaults, exposed>>

\* The versions of a partition are read: the young pending ones are in flight,
\* the others are looked at.  History (late): the versions whose commits run
\* beside the pass without being in flight for it.
BeginPass(p) ==
    /\ pass = {}
    /\ LET in_flight == (Pending \cap VersionsIn(p)) \ aged
       IN /\ pass' = {[stage |-> "pending", partition |-> p, in_flight |-> in_flight,
                       todo |-> Pending \cap VersionsIn(p) \cap aged, rolled |-> {},
                       keep |-> {}, listed |-> {}, late |-> Written \ in_flight]}
    /\ UNCHANGED <<metadata, heads, aged, objects, entries, superseded, writing, storeFaults, exposed>>

\* Mutant: what is retracted stays protected.
ReconcilePendingKept ==
    /\ \E p \in pass : \E v \in p.todo :
         /\ p.stage = "pending" /\ p.rolled = {}
         /\ ~\E u \in p.todo : u[1] = v[1] /\ u[2] < v[2]
         /\ pass' = {IF Complete(v) /\ heads[v[1]] = v[2] - 1
                     THEN [p EXCEPT !.todo = @ \ {v}, !.rolled = {v}]
                     ELSE [p EXCEPT !.todo = @ \ {v}, !.in_flight = @ \cup {v}]}
    /\ UNCHANGED <<metadata, heads, aged, objects, entries, superseded, writing, storeFaults, exposed>>

\* _reconcile_pending, in the order of the versions: a complete version is to
\* be rolled forward, or kept while its predecessor is not committed; a partial
\* one is left to the sweeps.
ReconcilePending ==
    /\ \E p \in pass : \E v \in p.todo :
         /\ p.stage = "pending" /\ p.rolled = {}
         /\ ~\E u \in p.todo : u[1] = v[1] /\ u[2] < v[2]
         /\ pass' = {IF Complete(v) /\ heads[v[1]] = v[2] - 1
                     THEN [p EXCEPT !.todo = @ \ {v}, !.rolled = {v}]
                     ELSE [p EXCEPT !.todo = @ \ {v},
                                    !.in_flight = IF Complete(v) THEN @ \cup {v} ELSE @]}
    /\ UNCHANGED <<metadata, heads, aged, objects, entries, superseded, writing, storeFaults, exposed>>

\* The switch of the version, unless its writer came first ...
RollForward ==
    /\ \E p \in pass : \E v \in p.rolled :
         /\ p.stage = "pending"
         /\ IF v \in Committed THEN UNCHANGED <<metadata, heads, aged>> ELSE Switch(v)
         /\ PassAt(p, "retire")
    /\ UNCHANGED <<objects, entries, superseded, writing, storeFaults, exposed>>

\* ... and what it supersedes.
RollRetires ==
    /\ \E p \in pass : \E v \in p.rolled :
         /\ p.stage = "retire" /\ superseded' = Retired(v)
         /\ pass' = {[p EXCEPT !.stage = "pending", !.rolled = {}]}
    /\ UNCHANGED <<metadata, heads, aged, objects, entries, writing, storeFaults, exposed>>

\* Mutant: the sweeps forget the versions in flight.
RefreshCommitted ==
    /\ \E p \in pass :
         /\ p.stage = "pending" /\ p.todo \cup p.rolled = {}
         /\ pass' = {[p EXCEPT !.stage = "list_entries",
                               !.keep = VersionsIn(p.partition) \cap Committed]}
    /\ UNCHANGED <<metadata, heads, aged, objects, entries, superseded, writing, storeFaults, exposed>>

\* The versions are read again for the sweeps.
Refresh ==
    /\ \E p \in pass :
         /\ p.stage = "pending" /\ p.todo \cup p.rolled = {}
         /\ LET keep == VersionsIn(p.partition) \cap (Committed \cup p.in_flight)
            IN pass' = {[p EXCEPT !.stage = "list_entries", !.keep = keep]}
    /\ UNCHANGED <<metadata, heads, aged, objects, entries, superseded, writing, storeFaults, exposed>>

\* _sweep_indexes lists the entries that no kept version points to ...
ListEntries ==
    /\ \E p \in pass :
         /\ p.stage = "list_entries"
         /\ pass' = {[p EXCEPT !.stage = "remove_entries",
                               !.listed = {e \in entries : PartitionOf[e[1][1]] = p.partition /\ e[1] \notin p.keep}]}
    /\ UNCHANGED <<metadata, heads, aged, objects, entries, superseded, writing, storeFaults, exposed>>

\* ... and removes them, one by one.
RemoveEntry ==
    /\ \E p \in pass : \E e \in p.listed :
         /\ p.stage = "remove_entries"
         /\ entries' = entries \ {e} /\ superseded' = superseded \ {e}
         /\ exposed' = exposed \cup (p.late \cap {e[1]})
         /\ pass' = {[p EXCEPT !.listed = @ \ {e}]}
    /\ UNCHANGED <<metadata, heads, aged, objects, writing, storeFaults>>

\* _sweep_content, likewise; the pass ends with it.
ListContent ==
    /\ \E p \in pass :
         /\ p.stage = "remove_entries" /\ p.listed = {}
         /\ LET listed == {o \in objects : o[1] = p.partition /\ o \notin {ObjectRef(v) : v \in p.keep}}
            IN pass' = IF listed = {} THEN {} ELSE {[p EXCEPT !.stage = "remove_content", !.listed = listed]}
    /\ UNCHANGED <<metadata, heads, aged, objects, entries, superseded, writing, storeFaults, exposed>>

RemoveContent ==
    /\ \E p \in pass : \E o \in p.listed :
         /\ p.stage = "remove_content" /\ objects' = objects \ {o}
         /\ exposed' = exposed \cup {v \in p.late : ObjectRef(v) = o}
         /\ pass' = IF p.listed = {o} THEN {} ELSE {[p EXCEPT !.listed = @ \ {o}]}
    /\ UNCHANGED <<metadata, heads, aged, entries, superseded, writing, storeFaults>>

\* A store fails: the pass ends where it is.
PassFails ==
    /\ pass # {} /\ storeFaults < StoreFaults
    /\ storeFaults' = storeFaults + 1 /\ pass' = {}
    /\ UNCHANGED <<metadata, heads, aged, objects, entries, superseded, writing, exposed>>

Commits(w) ==
    WriteContent(w) \/ WriteProjection(w) \/ SwitchVisible(w) \/ RetirePredecessors(w)

Passes ==
    \/ ReconcilePending \/ RollForward \/ RollRetires \/ Refresh
    \/ ListEntries \/ RemoveEntry \/ ListContent \/ RemoveContent

StoreNext ==
    \/ \E w \in StoreWriters : Commits(w) \/ CommitFails(w) \/ \E v \in Records : Stage(w, v)
    \/ \E v \in Records : GraceElapses(v)
    \/ \E p \in Partitions : BeginPass(p)
    \/ Passes \/ PassFails

\* Commits run to their end, time passes, and reconciliation is scheduled.
StoreFairness ==
    /\ \A w \in StoreWriters : WF_storeVars(Commits(w))
    /\ \A v \in Records : WF_storeVars(GraceElapses(v))
    /\ WF_storeVars(Passes)
    /\ \A p \in Partitions : WF_storeVars(BeginPass(p))

-------------------------------------------------------------------------------
(* Properties *)

\* A committed version can be read: its content and all its projections are
\* there, whatever failed, was retried or was reconciled beside its commit
\* (commit, _reconcile_pending and the sweeps).  The exception: the pass took
\* away what the last commit of the version was writing beside it, because the
\* version was staged after the first read of the pass, or staged longer ago
\* than the grace period.  A version that was young at the first read is never
\* lost, nor one that no commit was writing.
CommittedReadable == \A v \in Committed \ exposed : Complete(v)

\* Nothing that a failed commit left behind stays: again and again there is a
\* moment at which no pending version that nobody writes has anything in the
\* indexes, unless it is complete and waits for its predecessor (reconcile).
LeftoversSwept ==
    []<>(\A v \in Pending \ Written :
           Pointers(v) \cap entries # {} => Complete(v) /\ heads[v[1]] < v[2] - 1)
===============================================================================
