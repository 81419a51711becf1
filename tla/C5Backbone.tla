------------------------------ MODULE C5Backbone ------------------------------
(***************************************************************************)
(* The canonical event backbone of C5 (c5/backbone.py).  Threads publish   *)
(* envelopes through one CanonicalEventBackbone to a Kafka topic.  The     *)
(* topic is the durable journal; dedup keys and per-aggregate watermarks   *)
(* in memory are a cache of it, rebuilt before the first publish of an     *)
(* instance and after a write that failed.                                 *)
(*                                                                         *)
(* A write has three outcomes: it returns; the producer command fails      *)
(* (KafkaBackboneError); it exceeds its timeout                            *)
(* (subprocess.TimeoutExpired).  In the last two its record is durable, or *)
(* it is not, or it becomes durable later: the producer runs in a          *)
(* container and outlives its caller.  The process may restart at any      *)
(* point.                                                                  *)
(***************************************************************************)
EXTENDS Naturals, Sequences, FiniteSets

CONSTANTS
    Contexts,       \* governed_context_digest values
    NoContext,      \* a missing or empty governed_context_digest
    Refs,           \* aggregate_ref values
    Keys,           \* idempotency_key values
    Ids,            \* event_id values
    MaxSequence,    \* bound: the largest sequence, counted from 1 (the code's 0)
    Envelopes,      \* the envelopes callers publish
    Threads,        \* threads sharing the instance
    NoThread,       \* the instance's lock is free
    MaxFaults       \* bound: failed commands, timeouts and restarts

\* wellFormed: from_mapping accepts the envelope's mapping.  publish does not
\* ask for it, publish_from_mapping and the journal's reader do.
Envelope == [id : Ids, wellFormed : BOOLEAN, registered : BOOLEAN,
             context : Contexts \cup {NoContext}, ref : Refs, key : Keys, sequence : 1..MaxSequence]

ASSUME EnvelopesAssumption == Envelopes \subseteq Envelope
ASSUME ContextAssumption == NoContext \notin Contexts
ASSUME ThreadAssumption == NoThread \notin Threads
ASSUME BoundsAssumption ==
    MaxSequence \in Nat /\ MaxFaults \in Nat

Rejections == {"UNKNOWN_SCHEMA", "MISSING_CONTEXT", "OUT_OF_ORDER"}
Steps == {"idle", "waiting", "recovering", "checking", "writing", "returned"}

VARIABLES
    journal,        \* the topic: records in the order they became durable
    seen,           \* _seen_idempotency_keys
    last,           \* _last_sequence; 0 where the dictionary has no entry
    recovered,      \* _recovered
    quarantine,     \* the reason codes in _quarantine
    lock,           \* the thread inside "with self._lock"
    step,           \* where each thread is in publish
    envelope,       \* the envelope each thread publishes
    result,         \* how each thread's publish ended
    acked,          \* history: envelopes a publish returned normally for
    late,           \* writes given up whose record may still become durable
    stray,          \* history: records the cache has not learned of since they landed
    missed,         \* history: <<i, j>> when record i was not known where j was written
    faults          \* faults so far

cache == <<seen, last, recovered>>
strays == <<late, stray, missed>>
vars == <<journal, cache, quarantine, lock, step, envelope, result, acked, strays, faults>>

KeyOf(e) == <<e.context, e.key>>
StreamOf(e) == <<e.context, e.ref>>
Streams == (Contexts \cup {NoContext}) \X Refs

\* initialize creates the topic, so the journal is empty and known to be.
Init ==
    /\ journal = <<>>
    /\ seen = {} /\ last = [s \in Streams |-> 0] /\ recovered = TRUE
    /\ quarantine = {}
    /\ lock = NoThread
    /\ step = [t \in Threads |-> "idle"]
    /\ envelope = [t \in Threads |-> {}]
    /\ result = [t \in Threads |-> "none"]
    /\ acked = {}
    /\ late = {} /\ stray = {} /\ missed = {}
    /\ faults = 0

Goto(t, s) == step' = [step EXCEPT ![t] = s]

\* publish ends for the thread: outcome is its return or the exception.
Return(t, outcome) ==
    /\ Goto(t, "returned")
    /\ result' = [result EXCEPT ![t] = outcome]

Quarantine(reason) == quarantine' = quarantine \cup {reason}

-------------------------------------------------------------------------------
(* publish *)

\* Entry of publish: the schema and context checks run before the lock.
Call(t, e) ==
    /\ step[t] = "idle"
    /\ envelope' = [envelope EXCEPT ![t] = {e}]
    /\ \/ /\ ~e.registered
          /\ Quarantine("UNKNOWN_SCHEMA")
          /\ Return(t, "UNKNOWN_SCHEMA")
       \/ /\ e.registered /\ e.context = NoContext
          /\ Quarantine("MISSING_CONTEXT")
          /\ Return(t, "MISSING_CONTEXT")
       \/ /\ e.registered /\ e.context # NoContext
          /\ Goto(t, "waiting")
          /\ UNCHANGED <<quarantine, result>>
    /\ UNCHANGED <<journal, cache, lock, acked, faults, strays>>

\* publish_from_mapping: a mapping from_mapping refuses is quarantined; any
\* other is published.
CallFromMapping(t, e) ==
    \/ e.wellFormed /\ Call(t, e)
    \/ /\ ~e.wellFormed
       /\ step[t] = "idle"
       /\ envelope' = [envelope EXCEPT ![t] = {e}]
       /\ Quarantine("MISSING_CONTEXT")
       /\ Return(t, "MISSING_CONTEXT")
       /\ UNCHANGED <<journal, cache, lock, acked, faults, strays>>

Acquire(t) ==
    /\ step[t] = "waiting"
    /\ lock = NoThread
    /\ lock' = t
    /\ Goto(t, IF recovered THEN "checking" ELSE "recovering")
    /\ UNCHANGED <<journal, cache, quarantine, envelope, result, acked, faults, strays>>

Records == {journal[i] : i \in 1..Len(journal)}

\* Mutant: recovery rebuilds the dedup keys and forgets the watermarks.
RebuildKeysOnly ==
    /\ seen' = {KeyOf(r) : r \in Records}
    /\ last' = [s \in Streams |-> 0]
    /\ recovered' = TRUE

\* _recover_from_journal: every key, and the highest sequence of every stream.
Rebuild ==
    /\ seen' = {KeyOf(r) : r \in Records}
    /\ last' = [s \in Streams |->
                  CHOOSE n \in 0..MaxSequence :
                    /\ n = 0 \/ \E r \in Records : StreamOf(r) = s /\ r.sequence = n
                    /\ \A r \in Records : StreamOf(r) = s => r.sequence <= n]
    /\ recovered' = TRUE

Readable == \A r \in Records : r.wellFormed

Recover(t) ==
    /\ step[t] = "recovering"
    /\ Readable
    /\ Rebuild
    /\ Goto(t, "checking")
    /\ stray' = {}
    /\ UNCHANGED <<journal, quarantine, lock, envelope, result, acked, faults, late, missed>>

\* Mutant: a recovery that cannot read the journal tries again inside the lock.
RecoverFailsRetries(t) ==
    /\ step[t] = "recovering"
    /\ ~Readable
    /\ UNCHANGED vars

\* The broker does not answer, or a record cannot be read: publish fails
\* closed and rebuilds nothing.
RecoverFails(t) ==
    /\ step[t] = "recovering"
    /\ IF Readable THEN faults < MaxFaults /\ faults' = faults + 1 ELSE UNCHANGED faults
    /\ Return(t, "KafkaBackboneError")
    /\ lock' = NoThread
    /\ UNCHANGED <<journal, cache, quarantine, envelope, acked, strays>>

Duplicate(e) == KeyOf(e) \in seen
OutOfOrder(e) == last[StreamOf(e)] # 0 /\ e.sequence <= last[StreamOf(e)]

\* The dedup and ordering checks, in this order.
Check(t) ==
    /\ step[t] = "checking"
    /\ \E e \in envelope[t] :
         \/ /\ Duplicate(e)
            /\ Return(t, "ok")
            /\ acked' = acked \cup {e}
            /\ lock' = NoThread
            /\ UNCHANGED quarantine
         \/ /\ ~Duplicate(e) /\ OutOfOrder(e)
            /\ Quarantine("OUT_OF_ORDER")
            /\ Return(t, "OUT_OF_ORDER")
            /\ lock' = NoThread
            /\ UNCHANGED acked
         \/ /\ ~Duplicate(e) /\ ~OutOfOrder(e)
            /\ Goto(t, "writing")
            /\ UNCHANGED <<quarantine, result, acked, lock>>
    /\ UNCHANGED <<journal, cache, envelope, faults, strays>>

\* A record lands that its publish has just checked against the cache, or one
\* that nothing was checked for.
Lands(e) ==
    /\ journal' = Append(journal, e)
    /\ missed' = missed \cup (stray \X {Len(journal) + 1})
LandsUnchecked(e) ==
    /\ journal' = Append(journal, e)
    /\ missed' = missed \cup ((1..Len(journal)) \X {Len(journal) + 1})
    /\ stray' = stray \cup {Len(journal) + 1}

\* The producer command returns: the record is durable and cached.
Write(t) ==
    /\ step[t] = "writing"
    /\ \E e \in envelope[t] :
         /\ Lands(e)
         /\ last' = [last EXCEPT ![StreamOf(e)] = e.sequence]
         /\ seen' = seen \cup {KeyOf(e)}
         /\ acked' = acked \cup {e}
    /\ Return(t, "ok")
    /\ lock' = NoThread
    /\ UNCHANGED <<recovered, quarantine, envelope, faults, late, stray>>

\* A write whose outcome its caller does not learn: its record is durable, never
\* will be, or may become so once the caller is gone.
MaybeDurable(t) ==
    \E e \in envelope[t] :
       \/ Lands(e) /\ UNCHANGED late
       \/ UNCHANGED <<journal, late, missed>>
       \/ late' = late \cup {[envelope |-> e, fault |-> faults]} /\ UNCHANGED <<journal, missed>>

\* The producer that outlived its caller delivers after all.
LateLanding ==
    /\ \E w \in late : LandsUnchecked(w.envelope) /\ late' = late \ {w}
    /\ UNCHANGED <<cache, quarantine, lock, step, envelope, result, acked, faults>>

\* Mutant: a failed write leaves the cache as it is.
WriteFailsKeepsCache(t) ==
    /\ faults < MaxFaults
    /\ step[t] = "writing"
    /\ MaybeDurable(t)
    /\ Return(t, "KafkaBackboneError")
    /\ lock' = NoThread
    /\ faults' = faults + 1
    /\ UNCHANGED <<cache, quarantine, envelope, acked, stray>>

\* Mutant: a failed write is cached as if it were durable.
WriteFailsCached(t) ==
    /\ faults < MaxFaults
    /\ step[t] = "writing"
    /\ MaybeDurable(t)
    /\ seen' = seen \cup {KeyOf(e) : e \in envelope[t]}
    /\ Return(t, "KafkaBackboneError")
    /\ lock' = NoThread
    /\ faults' = faults + 1
    /\ UNCHANGED <<last, recovered, quarantine, envelope, acked, stray>>

\* The producer command fails: the cache is dropped.
WriteFails(t) ==
    /\ faults < MaxFaults
    /\ step[t] = "writing"
    /\ MaybeDurable(t)
    /\ recovered' = FALSE
    /\ Return(t, "KafkaBackboneError")
    /\ lock' = NoThread
    /\ faults' = faults + 1
    /\ UNCHANGED <<seen, last, quarantine, envelope, acked, stray>>

\* The producer command exceeds its timeout: "except KafkaBackboneError" does
\* not catch subprocess.TimeoutExpired and the cache stays as it is.
WriteTimesOut(t) ==
    /\ faults < MaxFaults
    /\ step[t] = "writing"
    /\ MaybeDurable(t)
    /\ stray' = stray \cup ((Len(journal) + 1)..Len(journal'))
    /\ Return(t, "TimeoutExpired")
    /\ lock' = NoThread
    /\ faults' = faults + 1
    /\ UNCHANGED <<cache, quarantine, envelope, acked>>

\* The process dies and a new instance starts on the same topic.
RestartWith ==
    /\ faults < MaxFaults
    /\ seen' = {} /\ last' = [s \in Streams |-> 0] /\ recovered' = FALSE
    /\ quarantine' = {}
    /\ lock' = NoThread
    /\ step' = [t \in Threads |-> "idle"]
    /\ envelope' = [t \in Threads |-> {}]
    /\ result' = [t \in Threads |-> "none"]
    /\ faults' = faults + 1
    /\ UNCHANGED <<acked, stray>>

\* If a thread was writing, its record is durable, is not, or becomes so.
Restart ==
    /\ RestartWith
    /\ \/ (\A t \in Threads : step[t] # "writing") /\ UNCHANGED <<journal, late, missed>>
       \/ \E t \in Threads : step[t] = "writing" /\ MaybeDurable(t)

\* The caller takes the result and may publish again.
Collect(t) ==
    /\ step[t] = "returned"
    /\ Goto(t, "idle")
    /\ envelope' = [envelope EXCEPT ![t] = {}]
    /\ result' = [result EXCEPT ![t] = "none"]
    /\ UNCHANGED <<journal, cache, quarantine, lock, acked, faults, strays>>

\* What a thread inside the lock does next: a command ends one way or another.
Holding(t) ==
    \/ Recover(t) \/ RecoverFails(t) \/ Check(t)
    \/ Write(t) \/ WriteFails(t) \/ WriteTimesOut(t)

Next ==
    \/ \E t \in Threads : \/ \E e \in Envelopes : Call(t, e) \/ CallFromMapping(t, e)
                          \/ Acquire(t) \/ Holding(t) \/ Collect(t)
    \/ LateLanding \/ Restart

Spec == Init /\ [][Next]_vars

\* Every command ends (it has a timeout), and a thread that keeps asking for
\* the lock is granted it.
FairSpec ==
    /\ Spec
    /\ \A t \in Threads : SF_vars(Acquire(t)) /\ WF_vars(Holding(t))

-------------------------------------------------------------------------------
(* Properties *)

\* The topic never holds two records of one idempotency key of one context,
\* through concurrent publishes, failed writes, timeouts and restarts ("deduplica
\* durable", the class's dedup contract), unless the second was written when the
\* cache could not know of the first: one of them landed late, after its publish
\* was given up, or was written by a command that timed out, and no recovery read
\* it in between.
NoDuplicateRecord ==
    \A i, j \in 1..Len(journal) :
       i < j /\ KeyOf(journal[i]) = KeyOf(journal[j]) => <<i, j>> \in missed

\* The records of an aggregate in a context carry increasing sequences
\* ("watermark monotono"), with the same exception.
WatermarkMonotone ==
    \A i, j \in 1..Len(journal) :
       i < j /\ StreamOf(journal[i]) = StreamOf(journal[j]) =>
         journal[i].sequence < journal[j].sequence \/ <<i, j>> \in missed

\* A publish that returned normally, as a first write or as a replay, has a
\* durable record of its key.
AckedDurable == \A e \in acked : \E r \in Records : KeyOf(r) = KeyOf(e)

\* The journal is exact: the three facts above, whatever threads, faults and
\* restarts interleave.
JournalExact == NoDuplicateRecord /\ WatermarkMonotone /\ AckedDurable

\* Every publish ends, in a return or an exception: the lock is always given
\* back (no fault leaves it taken).
PublishEnds == \A t \in Threads : []<>(step[t] \in {"returned", "idle"})
===============================================================================
