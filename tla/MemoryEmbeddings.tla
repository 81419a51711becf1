--------------------------- MODULE MemoryEmbeddings ----------------------------
(***************************************************************************)
(* EmbeddingLifecycleCoordinator (memory/embeddings.py): the parallel      *)
(* vector representation of one partition under one model pin, rebuilt and *)
(* invalidated by operators while versions change and searches run.        *)
(*                                                                         *)
(* Vectors, digests and profiles are left out: a descriptor is the version *)
(* it describes, and an entry that is read back binds when it is there.    *)
(* The representation record is swapped by its digest, which differs for   *)
(* every write: its id.  Every call that changes a store, and every page   *)
(* of a search, is a step.  _eligible lists the versions and then asks for *)
(* each head: a version that is superseded in between is not current any   *)
(* more, so the list is read in one step.                                  *)
(***************************************************************************)
EXTENDS Naturals, FiniteSets, SequencesExt

CONSTANTS
    EmbeddedItems,
    Expiring,           \* bound: the items that expire or are revoked
    Operators,          \* processes that rebuild and invalidate
    Searchers,
    Ranking,            \* the versions, as the index ranks them for the query; bounds them
    PageSize, MaxScanned, \* limits page_size and max_scanned_hits
    MaxRecords,         \* bound on the writes of the record
    EmbeddingFaults     \* bound on failures

VARIABLES
    current,            \* item -> its head version
    withdrawn,          \* the items whose head is not ACTIVE any more
    record,             \* the representation record, if any: [id, state, entries]
    written,            \* how many times the record was written
    descriptors, indexed,
    audited,            \* the records whose success receipt is held
    operation,          \* operator -> its operation, if any
    search,             \* searcher -> its search or the answer of it, if any
    usurped,            \* history: versions whose entry an operation swept that did not own the record any more
    embeddingFaults

embeddingVars == <<current, withdrawn, record, written, descriptors, indexed, audited, operation,
                   search, usurped, embeddingFaults>>
world == <<current, withdrawn>>
representation == <<record, written, descriptors, indexed, audited>>

\* _eligible: the heads that are active and not expired.
Eligible == {<<i, current[i]>> : i \in {j \in EmbeddedItems \ withdrawn : current[j] > 0}}

EmbeddingInit ==
    /\ current = [i \in EmbeddedItems |-> 1] /\ withdrawn = {}
    /\ record = {} /\ written = 0 /\ descriptors = {} /\ indexed = {} /\ audited = {}
    /\ operation = [o \in Operators |-> {}]
    /\ search = [s \in Searchers |-> {}]
    /\ usurped = {} /\ embeddingFaults = 0

\* Versions are committed, and items expire or are revoked.
VersionChanges(i) ==
    /\ \/ <<i, current[i] + 1>> \in Range(Ranking) /\ current' = [current EXCEPT ![i] = @ + 1] /\ UNCHANGED withdrawn
       \/ i \in Expiring \ withdrawn /\ withdrawn' = withdrawn \cup {i} /\ UNCHANGED current
    /\ UNCHANGED <<representation, operation, search, usurped, embeddingFaults>>

-------------------------------------------------------------------------------
(* rebuild and invalidate *)

put_record(state, entries) ==
    /\ written < MaxRecords /\ written' = written + 1
    /\ record' = {[id |-> written + 1, state |-> state, entries |-> entries]}

Entries == UNION {r.entries : r \in record}
OperationAt(o, x) == operation' = [operation EXCEPT ![o] = {x}]
OperationEnds(o) == operation' = [operation EXCEPT ![o] = {}]

\* _rebuild marks the record BUILDING before anything else.
Rebuild(o) ==
    /\ operation[o] = {}
    /\ put_record("BUILDING", Entries)
    /\ OperationAt(o, [stage |-> "eligible", base |-> written + 1, todo |-> {}, keep |-> {}, listed |-> {}])
    /\ UNCHANGED <<world, descriptors, indexed, audited, search, usurped, embeddingFaults>>

ReadEligible(o) ==
    /\ \E x \in operation[o] :
         x.stage = "eligible" /\ OperationAt(o, [x EXCEPT !.stage = "embed", !.todo = Eligible])
    /\ UNCHANGED <<world, representation, search, usurped, embeddingFaults>>

\* _embed_version, in the order of the items: the index entry first, read
\* back, then the descriptor.
EmbedEntry(o) ==
    /\ \E x \in operation[o] : \E v \in x.todo :
         /\ x.stage = "embed" /\ \A w \in x.todo : v[1] <= w[1]
         /\ indexed' = indexed \cup {v} /\ usurped' = usurped \ {v}
         /\ OperationAt(o, [x EXCEPT !.stage = "describe", !.listed = {v}])
    /\ UNCHANGED <<world, record, written, descriptors, audited, search, embeddingFaults>>

EmbedDescriptor(o) ==
    /\ \E x \in operation[o] : \E v \in x.listed :
         /\ x.stage = "describe"
         /\ descriptors' = descriptors \cup {v}
         /\ OperationAt(o, [x EXCEPT !.stage = "embed", !.todo = @ \ {v}, !.keep = @ \cup {v}, !.listed = {}])
    /\ UNCHANGED <<world, record, written, indexed, audited, search, usurped, embeddingFaults>>

\* _invalidate works on a record that is served, and keeps what is current.
Invalidate(o) ==
    /\ operation[o] = {}
    /\ \E r \in record :
         /\ r.state = "ACTIVE" /\ r.id \in audited /\ r.entries \subseteq descriptors
         /\ OperationAt(o, [stage |-> "embed", base |-> r.id, todo |-> {},
                            keep |-> r.entries \cap Eligible, listed |-> {}])
    /\ UNCHANGED <<world, representation, search, usurped, embeddingFaults>>

\* The entries in the order of their scores.
RankedIn(entries) == SelectSeq(Ranking, LAMBDA v : v \in entries)

\* An entry leaves the index.  What the searches in progress lose by it: a
\* place in the pages they have read, or the entry itself.
Owns(x) == \E r \in record : r.id = x.base
ReadBy(z, v) == \E k \in DOMAIN RankedIn(indexed) : k <= z.offset /\ RankedIn(indexed)[k] = v

RemoveEntry(x, v) ==
    /\ indexed' = indexed \ {v}
    /\ usurped' = IF Owns(x) THEN usurped ELSE usurped \cup {v}
    /\ search' = [s \in Searchers |->
         {[z EXCEPT !.shifts = IF ReadBy(z, v) THEN @ + 1 ELSE @,
                    !.lost = IF Owns(x) \/ z.stage = "answered" THEN @ ELSE @ \cup {v}] : z \in search[s]}]

\* _sweep: the descriptors that are not kept, each after its entry ...
ListDescriptors(o) ==
    /\ \E x \in operation[o] :
         /\ x.stage = "embed" /\ x.todo = {}
         /\ OperationAt(o, [x EXCEPT !.stage = "sweep", !.listed = descriptors \ x.keep])
    /\ UNCHANGED <<world, representation, search, usurped, embeddingFaults>>

SweepDescriptor(o) ==
    /\ \E x \in operation[o] : \E v \in x.listed :
         /\ x.stage = "sweep"
         /\ \/ v \in indexed /\ RemoveEntry(x, v) /\ UNCHANGED <<descriptors, operation>>
            \/ /\ v \notin indexed /\ descriptors' = descriptors \ {v}
               /\ OperationAt(o, [x EXCEPT !.listed = @ \ {v}])
               /\ UNCHANGED <<indexed, usurped, search>>
    /\ UNCHANGED <<world, record, written, audited, embeddingFaults>>

\* ... then the entries that are left.
SweepListEntries(o) ==
    /\ \E x \in operation[o] :
         /\ x.stage = "sweep" /\ x.listed = {}
         /\ OperationAt(o, [x EXCEPT !.stage = "entries", !.listed = indexed \ x.keep])
    /\ UNCHANGED <<world, representation, search, usurped, embeddingFaults>>

SweepEntry(o) ==
    /\ \E x \in operation[o] : \E v \in x.listed :
         /\ x.stage = "entries"
         /\ RemoveEntry(x, v)
         /\ OperationAt(o, [x EXCEPT !.listed = @ \ {v}])
    /\ UNCHANGED <<world, record, written, descriptors, audited, embeddingFaults>>

\* _activate: the record is swapped if nobody wrote it since ...
Activate(o) ==
    /\ \E x \in operation[o] :
         /\ x.stage = "entries" /\ x.listed = {}
         /\ IF \E r \in record : r.id = x.base
            THEN put_record("ACTIVE", x.keep) /\ OperationAt(o, [x EXCEPT !.stage = "audit", !.base = written + 1])
            ELSE OperationEnds(o) /\ UNCHANGED <<record, written>>
    /\ UNCHANGED <<world, descriptors, indexed, audited, search, usurped, embeddingFaults>>

\* ... and serves once its receipt is in the audit.
AuditReceipt(o) ==
    /\ \E x \in operation[o] : x.stage = "audit" /\ audited' = audited \cup {x.base}
    /\ OperationEnds(o)
    /\ UNCHANGED <<world, record, written, descriptors, indexed, search, usurped, embeddingFaults>>

\* _withdraw: the audit failed; the record is put back, unless another
\* operation owns it or it cannot be written.
Withdraw(o) ==
    /\ embeddingFaults < EmbeddingFaults /\ embeddingFaults' = embeddingFaults + 1
    /\ \E x \in operation[o] :
         /\ x.stage = "audit"
         /\ \/ (\E r \in record : r.id = x.base) /\ put_record("BUILDING", Entries)
            \/ UNCHANGED <<record, written>>
    /\ OperationEnds(o)
    /\ UNCHANGED <<world, descriptors, indexed, audited, search, usurped>>

\* A store or the model fails, or the process dies.
OperationFails(o) ==
    /\ operation[o] # {} /\ embeddingFaults < EmbeddingFaults /\ embeddingFaults' = embeddingFaults + 1
    /\ OperationEnds(o)
    /\ UNCHANGED <<world, representation, search, usurped>>

-------------------------------------------------------------------------------
(* vector_candidates *)

SearchAt(s, x) == search' = [search EXCEPT ![s] = {x}]

\* The record is served: ACTIVE, and its receipt is held.
SearchRecord(s) ==
    /\ \A x \in search[s] : x.stage = "answered"
    /\ \E r \in record :
         /\ r.state = "ACTIVE" /\ r.id \in audited
         /\ SearchAt(s, [stage |-> "eligible", entries |-> r.entries, eligible |-> {}, offset |-> 0,
                        hits |-> {}, page |-> << >>, shifts |-> 0, lost |-> usurped])
    /\ UNCHANGED <<world, representation, operation, usurped, embeddingFaults>>

SearchEligible(s) ==
    /\ \E x \in search[s] :
         /\ x.stage = "eligible"
         /\ SearchAt(s, [x EXCEPT !.stage = "check", !.eligible = Eligible, !.entries = @ \cap Eligible])
    /\ UNCHANGED <<world, representation, operation, usurped, embeddingFaults>>

\* Mutant: what the representation does not hold is passed over.
SearchUnchecked(s) ==
    /\ \E x \in search[s] : x.stage = "check" /\ SearchAt(s, [x EXCEPT !.stage = "scan"])
    /\ UNCHANGED <<world, representation, operation, usurped, embeddingFaults>>

\* Every eligible version has a descriptor in the manifest, or the search is
\* refused.
SearchCheck(s) ==
    /\ \E x \in search[s] :
         /\ x.stage = "check"
         /\ IF x.eligible \subseteq x.entries \cap descriptors
            THEN SearchAt(s, [x EXCEPT !.stage = "scan"])
            ELSE search' = [search EXCEPT ![s] = {}]
    /\ UNCHANGED <<world, representation, operation, usurped, embeddingFaults>>

SearchRefused(s) == search' = [search EXCEPT ![s] = {}]

\* The pages are read by offset; the short one is the last.
SearchPage(s) ==
    /\ \E x \in search[s] :
         LET ranked == RankedIn(indexed)
         IN /\ x.stage = "scan" /\ x.page = << >>
            /\ IF x.offset >= MaxScanned THEN SearchRefused(s)
               ELSE LET page == SubSeq(ranked, x.offset + 1, Min({x.offset + PageSize, Len(ranked)}))
                    IN SearchAt(s, [x EXCEPT !.stage = IF Len(page) < PageSize THEN "last" ELSE "scan",
                                             !.page = page, !.offset = @ + Len(page)])
    /\ UNCHANGED <<world, representation, operation, usurped, embeddingFaults>>

\* _bound: a hit of the manifest that is current is a candidate; one whose
\* descriptor or entry is gone by now refuses the search.
SearchBound(s) ==
    /\ \E x \in search[s] :
         /\ x.stage \in {"scan", "last"} /\ x.page # << >>
         /\ IF Head(x.page) \notin x.entries THEN SearchAt(s, [x EXCEPT !.page = Tail(@)])
            ELSE IF Head(x.page) \notin descriptors \cap indexed THEN SearchRefused(s)
            ELSE SearchAt(s, [x EXCEPT !.page = Tail(@), !.hits = @ \cup {Head(x.page)}])
    /\ UNCHANGED <<world, representation, operation, usurped, embeddingFaults>>

SearchAnswers(s) ==
    /\ \E x \in search[s] :
         /\ x.stage = "last" /\ x.page = << >>
         /\ SearchAt(s, [x EXCEPT !.stage = "answered", !.offset = 0, !.entries = {}, !.eligible = @ \cap Eligible])
    /\ UNCHANGED <<world, representation, operation, usurped, embeddingFaults>>

EmbeddingNext ==
    \/ \E i \in EmbeddedItems : VersionChanges(i)
    \/ \E o \in Operators :
         \/ Rebuild(o) \/ ReadEligible(o) \/ EmbedEntry(o) \/ EmbedDescriptor(o) \/ Invalidate(o)
         \/ ListDescriptors(o) \/ SweepDescriptor(o) \/ SweepListEntries(o) \/ SweepEntry(o)
         \/ Activate(o) \/ AuditReceipt(o) \/ Withdraw(o) \/ OperationFails(o)
    \/ \E s \in Searchers :
         \/ SearchRecord(s) \/ SearchEligible(s) \/ SearchCheck(s)
         \/ SearchPage(s) \/ SearchBound(s) \/ SearchAnswers(s)

-------------------------------------------------------------------------------
(* Properties *)

\* A search is refused rather than incomplete: every version that was eligible
\* when it was asked for, and still is, is among the candidates, whatever was
\* rebuilt, invalidated or failed meanwhile (_vector_candidates).  Two races
\* of the code are excepted, each by what it did to this search: a sweep took
\* entries out of the pages already read, and at most that many were skipped
\* at the next offset; an operation that had lost the record to another went
\* on sweeping and took the very entry.
SearchComplete ==
    \A s \in Searchers : \A x \in search[s] :
        x.stage = "answered" => Cardinality(x.eligible \ (x.hits \cup x.lost)) <= x.shifts
===============================================================================
