---------------------------- MODULE MemoryLifecycle ----------------------------
(***************************************************************************)
(* MemoryLifecycleCoordinator (memory/lifecycle.py): lifecycle transitions *)
(* of memory items, legal hold, and the deletion saga with its tombstone   *)
(* journal, beside the writers that admit versions and commit them through *)
(* the store coordinator.                                                  *)
(*                                                                         *)
(* A version is appended to the ledger, then committed in the metadata     *)
(* store; the ledger, the metadata store, the journal, the content store   *)
(* and the indexes fail and are reached one after the other, and a process *)
(* may die between any two.  A coordinator serves one operation at a time  *)
(* (its lock).  A refusal that changes nothing (an invisible item, policy, *)
(* stop epoch, deadline, an unreadable registry) is no step.               *)
(***************************************************************************)
EXTENDS Naturals, FiniteSets, SequencesExt

CONSTANTS
    Items,
    ObjectOf,       \* item -> the content object of its payload; equal payloads share it
    Coordinators, Writers,
    Requests,       \* transition and deletion requests: [id, kind, item, version, target]
    Sweeps,         \* the sweeps that may be ordered: [id, kind]
    Admitted,       \* the statuses in which versions are admitted
    MaxVersion,     \* item -> bound on its versions
    MaxAdmitted,    \* item -> bound on the versions on which one is admitted
    MaxJournal,     \* bound on the tombstones with which a saga is begun
    MaxFaults       \* bound on crashes and failed purges

Processes == Coordinators \cup Writers

TRANSITIONS ==
    [PROPOSED |-> {"ACTIVE", "QUARANTINED"},
     ACTIVE |-> {"SUPERSEDED", "REVOKED", "EXPIRED", "LEGAL_HOLD", "DELETION_PENDING"},
     QUARANTINED |-> {"ACTIVE", "REVOKED", "DELETION_PENDING"},
     SUPERSEDED |-> {"LEGAL_HOLD", "DELETION_PENDING"},
     REVOKED |-> {"LEGAL_HOLD", "DELETION_PENDING"},
     EXPIRED |-> {"LEGAL_HOLD", "DELETION_PENDING"},
     LEGAL_HOLD |-> {"ACTIVE", "SUPERSEDED", "REVOKED", "EXPIRED", "DELETION_PENDING"},
     DELETION_PENDING |-> {"DELETED", "DELETION_INCOMPLETE"},
     DELETION_INCOMPLETE |-> {"DELETION_PENDING"},
     DELETED |-> {}]

SAGA_ONLY == {"DELETED", "DELETION_INCOMPLETE"}
DELETION_STATUSES == SAGA_ONLY \cup {"DELETION_PENDING"}
ADMITTABLE_HEADS == {"PROPOSED", "ACTIVE", "QUARANTINED"}

VARIABLES
    ledger,         \* item -> its versions, appended once
    head,           \* item -> its committed version in the metadata store
    stored,         \* the items with a version, committed or pending, in that store
    journal,        \* the tombstone journal: [item, epoch, phase]
    content,        \* the content objects present
    projected,      \* the items with entries in the lexical or vector indexes
    hold,           \* the legal hold is active
    op,             \* process -> its operation in progress, if any
    faults,
    overtaken,      \* history: items stored while a purge held an older list of
                    \* the objects it may delete
    stranded        \* history: items whose saga died where no replay takes it up

stores == <<ledger, head, stored, journal, content, projected>>
vars == <<stores, hold, op, faults, overtaken, stranded>>

Latest(i) == Len(ledger[i])
Status(i) == IF head[i] = 0 THEN "NONE" ELSE ledger[i][head[i]].status
Versions == UNION {Range(ledger[i]) : i \in Items}
Recorded(id, steps) == {v \in Versions : v.req.id = id /\ v.step \in steps}

\* Mutant: only finished sagas keep their epoch.
latest_epoch_finished == Max({0} \cup {e.epoch : e \in {t \in Range(journal) : t.phase = "COMPLETED"}})

latest_epoch == Max({0} \cup {e.epoch : e \in Range(journal)})

\* Bound: the item has room for n more versions, and the journal for a saga.
Room(i, n) == Latest(i) + n <= MaxVersion[i] /\ Len(journal) < MaxJournal

Init ==
    /\ ledger = [i \in Items |-> <<>>]
    /\ head = [i \in Items |-> 0]
    /\ stored = {} /\ journal = <<>> /\ content = {} /\ projected = {}
    /\ hold = TRUE
    /\ op = [p \in Processes |-> {}]
    /\ faults = 0 /\ overtaken = {} /\ stranded = {}

-------------------------------------------------------------------------------
(* Operations in progress *)

\* An operation on one item: the version it works on, and what a saga found.
Operation(stage, req, step, base, target, epoch, prior, queue) ==
    [stage |-> stage, req |-> req, step |-> step, base |-> base, target |-> target,
     epoch |-> epoch, prior |-> prior, queue |-> queue, listed |-> {}, residue |-> FALSE]

Goto(p, o, stage) == op' = [op EXCEPT ![p] = {[o EXCEPT !.stage = stage]}]
Refused(p) == op' = [op EXCEPT ![p] = {}]

\* The operation is answered; a sweep goes on with its next candidate.
Answered(p, o) == IF o.queue = <<>> THEN Refused(p) ELSE Goto(p, o, "next")

-------------------------------------------------------------------------------
(* transition and request_deletion *)

\* _check_fsm of a transition, and the content it re-derives.
Transitions(r, h) ==
    /\ r.target \notin SAGA_ONLY /\ r.target \in TRANSITIONS[h.status]
    /\ r.target = "LEGAL_HOLD" => hold
    /\ h.status = "LEGAL_HOLD" => ~hold /\ r.target \in {"DELETION_PENDING", h.prior}
    /\ r.target # "DELETION_PENDING" => ObjectOf[r.item] \in content

\* _check_forgettable, and no deletion in progress.
Forgettable(h) ==
    /\ h.status # "DELETION_PENDING"
    /\ IF h.status = "LEGAL_HOLD" THEN ~hold ELSE "DELETION_PENDING" \in TRANSITIONS[h.status]

\* _apply or _forget, from the head h that the plan was made on.
Plan(r, h, queue) ==
    IF r.target = "DELETION_PENDING"
    THEN Operation("tombstone", r, "PENDING", h.version, r.target,
                   IF h.status = "DELETION_INCOMPLETE" THEN h.epoch ELSE latest_epoch + 1,
                   "NONE", queue)
    ELSE Operation("append", r, "TRANSITION", h.version, r.target, 0,
                   IF r.target = "LEGAL_HOLD" THEN h.status ELSE "NONE", queue)

\* A new request: the head of the item is committed and allows it.
Request(c, r) ==
    /\ op[c] = {} /\ Recorded(r.id, {"TRANSITION", "PENDING"}) = {}
    /\ Latest(r.item) > 0 /\ head[r.item] = Latest(r.item) /\ Room(r.item, 2)
    /\ LET h == ledger[r.item][Latest(r.item)]
       IN /\ r.kind = "transition" => r.version = h.version /\ Transitions(r, h)
          /\ r.target = "DELETION_PENDING" => Forgettable(h)
          /\ op' = [op EXCEPT ![c] = {Plan(r, h, <<>>)}]
    /\ UNCHANGED <<stores, hold, faults, overtaken, stranded>>

\* Mutant: a recorded saga is taken for a finished one.
ReplayReceipt(c, r) ==
    /\ op[c] = {}
    /\ \E v \in Recorded(r.id, {"TRANSITION"}) :
         /\ v.req = r /\ head[r.item] = v.version - 1 /\ ObjectOf[r.item] \in content
         /\ op' = [op EXCEPT ![c] =
              {Operation("write", r, v.step, v.version - 1, v.status, 0, v.prior, <<>>)}]
    /\ UNCHANGED <<stores, hold, faults, overtaken, stranded>>

\* A request that was recorded before: its commit, with the content of the
\* predecessor, or its saga is completed.  (When its outcome is recorded the
\* receipt is returned, and when the id belongs to another request or the
\* predecessor cannot be read it is refused: no step.)
Replay(c, r) ==
    /\ op[c] = {}
    /\ \E v \in Recorded(r.id, {"TRANSITION", "PENDING"}) :
         /\ v.req = r
         /\ \/ /\ v.step = "TRANSITION" /\ head[r.item] = v.version - 1 /\ ObjectOf[r.item] \in content
               /\ op' = [op EXCEPT ![c] =
                    {Operation("write", r, v.step, v.version - 1, v.status, 0, v.prior, <<>>)}]
            \/ /\ v.step = "PENDING" /\ Recorded(r.id, {"OUTCOME"}) = {}
               /\ op' = [op EXCEPT ![c] =
                    {Operation("commit", r, v.step, v.version - 1, v.status, v.epoch, v.prior, <<>>)}]
    /\ UNCHANGED <<stores, hold, faults, overtaken, stranded>>

-------------------------------------------------------------------------------
(* enforce_expiry and enforce_retention *)

\* The candidates of a sweep; held items and those that cannot enter the target
\* are only reported.
Candidates(kind) ==
    {i \in Items :
       IF kind = "expiry" THEN Status(i) = "ACTIVE"
       ELSE /\ Status(i) \notin {"NONE", "DELETED", "DELETION_PENDING", "LEGAL_HOLD"}
            /\ "DELETION_PENDING" \in TRANSITIONS[Status(i)]}

\* Which candidates are due, their order and the limit are open: any sequence
\* of distinct candidates, with the heads they had.
EnforceSweep(c, s) ==
    /\ op[c] = {}
    /\ \E q \in SetToAllKPermutations(Candidates(s.kind)) :
         /\ q # <<>> /\ \A n \in DOMAIN q : Room(q[n], 2)
         /\ LET target == IF s.kind = "expiry" THEN "EXPIRED" ELSE "DELETION_PENDING"
                queue == [n \in DOMAIN q |->
                  [req |-> [id |-> <<s.id, q[n]>>, kind |-> s.kind, item |-> q[n],
                            version |-> head[q[n]], target |-> target],
                   h |-> ledger[q[n]][head[q[n]]]]]
            IN op' = [op EXCEPT ![c] =
                 {Operation("next", queue[1].req, "NONE", 0, target, 0, "NONE", queue)}]
    /\ UNCHANGED <<stores, hold, faults, overtaken, stranded>>

\* The next candidate; one that fails ends the sweep.
NextCandidate(c) ==
    /\ \E o \in op[c] :
         /\ o.stage = "next"
         /\ LET n == Head(o.queue)
            IN IF n.req.target = "DELETION_PENDING" \/ ObjectOf[n.req.item] \in content
               THEN op' = [op EXCEPT ![c] = {Plan(n.req, n.h, Tail(o.queue))}]
               ELSE Refused(c)
    /\ UNCHANGED <<stores, hold, faults, overtaken, stranded>>

-------------------------------------------------------------------------------
(* Steps of an operation *)

\* epoch_conflict: a new saga reserves the next epoch, an outcome has its
\* STARTED entry, and a COMPLETED entry is the last of its item.
epoch_conflict(e) ==
    LET history == {t \in Range(journal) : t.item = e.item}
    IN \/ /\ e.phase = "STARTED" /\ e.epoch # latest_epoch + 1
          /\ ~\E t \in history : t.epoch = e.epoch
       \/ /\ e.phase # "STARTED"
          /\ ~\E t \in history : t.epoch = e.epoch /\ t.phase = "STARTED"
       \/ \E t \in history : t.phase = "COMPLETED"

Phase(o) ==
    CASE o.target = "DELETION_PENDING" -> "STARTED"
      [] o.target = "DELETION_INCOMPLETE" -> "INCOMPLETE"
      [] o.target = "DELETED" -> "COMPLETED"

\* _tombstone: the journal is written before the version it announces.
Tombstone(c) ==
    /\ \E o \in op[c] :
         /\ o.stage = "tombstone"
         /\ LET e == [item |-> o.req.item, epoch |-> o.epoch, phase |-> Phase(o)]
            IN IF epoch_conflict(e)
               THEN Refused(c) /\ UNCHANGED journal
               ELSE journal' = Append(journal, e) /\ Goto(c, o, "append")
    /\ UNCHANGED <<ledger, head, stored, content, projected, hold, faults, overtaken, stranded>>

\* Mutant: a version goes where the ledger ends, not where it was planned.
AppendAnywhere(p) ==
    /\ \E o \in op[p] :
         /\ o.stage = "append"
         /\ LET i == o.req.item
                v == [status |-> o.target, version |-> Latest(i) + 1, step |-> o.step,
                      epoch |-> o.epoch, prior |-> o.prior, req |-> o.req]
            IN ledger' = [ledger EXCEPT ![i] = Append(@, v)]
               /\ Goto(p, o, IF o.target \in DELETION_STATUSES THEN "commit" ELSE "write")
    /\ UNCHANGED <<head, stored, journal, content, projected, hold, faults, overtaken, stranded>>

\* The ledger takes a version whose slot and idempotency key are free.
AppendVersion(p) ==
    /\ \E o \in op[p] :
         /\ o.stage = "append"
         /\ LET i == o.req.item
                v == [status |-> o.target, version |-> o.base + 1, step |-> o.step,
                      epoch |-> o.epoch, prior |-> o.prior, req |-> o.req]
            IN IF Latest(i) = o.base /\ Recorded(o.req.id, {o.step}) = {}
               THEN /\ ledger' = [ledger EXCEPT ![i] = Append(@, v)]
                    /\ Goto(p, o, IF o.target \in DELETION_STATUSES THEN "commit" ELSE "write")
               ELSE Refused(p) /\ UNCHANGED ledger
    /\ UNCHANGED <<head, stored, journal, content, projected, hold, faults, overtaken, stranded>>

\* MemoryStoreCoordinator.commit: the version is staged, its content put and
\* read back, and its projections written.
Write(p) ==
    /\ \E o \in op[p] :
         LET i == o.req.item
         IN /\ o.stage = "write"
            /\ stored' = stored \cup {i}
            /\ content' = content \cup {ObjectOf[i]}
            /\ projected' = projected \cup {i}
            /\ overtaken' = IF i \notin stored /\ \E c \in Coordinators : \E x \in op[c] :
                                                   ObjectOf[i] \in x.listed
                            THEN overtaken \cup {i} ELSE overtaken
            /\ Goto(p, o, "commit")
    /\ UNCHANGED <<ledger, head, journal, hold, faults, stranded>>

\* The version becomes the head, in order; a deletion version has no content
\* to write and starts the purge once it is the head.
CommitVersion(p) ==
    /\ \E o \in op[p] :
         LET i == o.req.item
         IN /\ o.stage = "commit"
            /\ \/ /\ head[i] < o.base /\ Refused(p) /\ UNCHANGED <<head, stored>>
               \/ /\ head[i] >= o.base
                  /\ head' = [head EXCEPT ![i] = IF @ = o.base THEN o.base + 1 ELSE @]
                  /\ stored' = stored \cup {i}
                  /\ IF o.step = "PENDING" THEN Goto(p, o, "purge") ELSE Answered(p, o)
    /\ UNCHANGED <<ledger, journal, content, projected, hold, faults, overtaken, stranded>>

-------------------------------------------------------------------------------
(* The participants of the deletion saga *)

\* A participant fails to purge, or cannot be read: residue is assumed.
Fails(up) == faults' = (IF up THEN faults ELSE faults + 1) /\ faults' <= MaxFaults

\* The indexes and the parallel embedding representations.
PurgeProjections(c, up) ==
    /\ \E o \in op[c] :
         /\ o.stage = "purge"
         /\ projected' = IF up THEN projected \ {o.req.item} ELSE projected
         /\ op' = [op EXCEPT ![c] = {[o EXCEPT !.stage = "list", !.residue = ~up]}]
    /\ Fails(up)
    /\ UNCHANGED <<ledger, head, stored, journal, content, hold, overtaken, stranded>>

\* Mutant: what another item shares is deleted with the first of them.
ObjectsUnshared(i) == {ObjectOf[i]}

\* ContentParticipant._objects: not what a version of an undeleted item shares.
Objects(i) ==
    {x \in {ObjectOf[i]} :
       ~\E j \in stored \ {i} : ObjectOf[j] = x /\ Status(j) # "DELETED"}

\* The content store: the objects to delete are listed ...
ListObjects(c) ==
    /\ \E o \in op[c] :
         /\ o.stage = "list"
         /\ op' = [op EXCEPT ![c] = {[o EXCEPT !.stage = "erase", !.listed = Objects(o.req.item)]}]
    /\ UNCHANGED <<stores, hold, faults, overtaken, stranded>>

\* Mutant: a failed purge is not looked for again.
EraseBlind(c, up) ==
    /\ \E o \in op[c] :
         /\ o.stage = "erase"
         /\ content' = IF up THEN content \ o.listed ELSE content
         /\ op' = [op EXCEPT ![c] = {[o EXCEPT !.stage = "tombstone", !.step = "OUTCOME", !.base = @ + 1,
                                       !.target = IF o.residue THEN "DELETION_INCOMPLETE" ELSE "DELETED",
                                       !.listed = {}, !.residue = FALSE]}]
    /\ Fails(up)
    /\ UNCHANGED <<ledger, head, stored, journal, projected, hold, overtaken, stranded>>

\* ... then deleted, and the residue looked for; it decides the outcome.
EraseObjects(c, up) ==
    /\ \E o \in op[c] :
         /\ o.stage = "erase"
         /\ content' = IF up THEN content \ o.listed ELSE content
         /\ LET left == o.residue \/ ~up \/ Objects(o.req.item) \cap content' # {}
            IN op' = [op EXCEPT ![c] = {[o EXCEPT !.stage = "tombstone", !.step = "OUTCOME", !.base = @ + 1,
                                          !.target = IF left THEN "DELETION_INCOMPLETE" ELSE "DELETED",
                                          !.listed = {}, !.residue = FALSE]}]
    /\ Fails(up)
    /\ UNCHANGED <<ledger, head, stored, journal, projected, hold, overtaken, stranded>>

-------------------------------------------------------------------------------
(* Admission beside the lifecycle *)

\* LifecycleGuardPolicy: only on an admittable head.
Admit(w, i, status) ==
    /\ op[w] = {} /\ Latest(i) < MaxAdmitted[i]
    /\ Latest(i) > 0 => ledger[i][Latest(i)].status \in ADMITTABLE_HEADS
    /\ op' = [op EXCEPT ![w] =
         {Operation("append", [id |-> <<"admit", i, Latest(i)>>, kind |-> "admit", item |-> i,
                               version |-> Latest(i), target |-> status],
                    "ADMIT", Latest(i), status, 0, "NONE", <<>>)}]
    /\ UNCHANGED <<stores, hold, faults, overtaken, stranded>>

\* The writer commits again an admitted version that was not committed.
CommitAgain(w, i) ==
    /\ op[w] = {} /\ head[i] < Latest(i)
    /\ LET v == ledger[i][head[i] + 1]
       IN /\ v.step = "ADMIT"
          /\ op' = [op EXCEPT ![w] =
               {Operation("write", v.req, "ADMIT", head[i], v.status, 0, "NONE", <<>>)}]
    /\ UNCHANGED <<stores, hold, faults, overtaken, stranded>>

ReleaseHold ==
    /\ hold /\ hold' = FALSE
    /\ UNCHANGED <<stores, op, faults, overtaken, stranded>>

\* The journal takes no second COMPLETED entry, and an outcome in the ledger is
\* taken for a committed one.
Unresumable(o) == o.step = "OUTCOME" /\ (o.stage = "commit" \/ (o.stage = "append" /\ o.target = "DELETED"))

\* A process dies: what it was doing is forgotten.
Crash(p) ==
    /\ op[p] # {} /\ Refused(p) /\ Fails(FALSE)
    /\ stranded' = stranded \cup {o.req.item : o \in {x \in op[p] : Unresumable(x)}}
    /\ UNCHANGED <<stores, hold, overtaken>>

Works(p) ==
    \/ NextCandidate(p) \/ Tombstone(p) \/ AppendVersion(p) \/ Write(p) \/ CommitVersion(p)
    \/ ListObjects(p)
    \/ \E up \in BOOLEAN : PurgeProjections(p, up) \/ EraseObjects(p, up)

Next ==
    \/ \E p \in Processes : Works(p) \/ Crash(p)
    \/ \E c \in Coordinators :
         \/ \E r \in Requests : Request(c, r) \/ Replay(c, r)
         \/ \E s \in Sweeps : EnforceSweep(c, s)
    \/ \E w \in Writers, i \in Items :
         CommitAgain(w, i) \/ \E status \in Admitted : Admit(w, i, status)
    \/ ReleaseHold

Spec == Init /\ [][Next]_vars

Deletions == {r \in Requests : r.kind = "delete"}

\* Processes run, and the client of a deletion asks again until it is answered.
Fairness ==
    /\ \A p \in Processes : WF_vars(Works(p))
    /\ \A r \in Deletions : SF_vars(\E c \in Coordinators : Replay(c, r))

-------------------------------------------------------------------------------
(* Properties *)

\* No interleaving of transitions, sagas, sweeps and admissions takes an item
\* off the lifecycle: every version follows its predecessor by a declared
\* transition, a hold is left only to where it was entered from or into
\* deletion, and a version is admitted only on an admittable one (_check_fsm,
\* LifecycleGuardPolicy and the slot check of the ledger).
OnLifecycle ==
    \A i \in Items : \A n \in 2..Latest(i) :
       LET v == ledger[i][n]
           u == ledger[i][n - 1]
       IN IF v.step = "ADMIT" THEN u.status \in ADMITTABLE_HEADS
          ELSE /\ v.status \in TRANSITIONS[u.status]
               /\ u.status = "LEGAL_HOLD" => v.status \in {u.prior, "DELETION_PENDING"}

\* A deleted item is gone: nothing of it is left in the indexes, and its
\* content only while an undeleted item shares it (the residue check of
\* _run_saga).
DeletedIsGone ==
    \A i \in Items : Status(i) = "DELETED" =>
       /\ i \notin projected
       /\ ObjectOf[i] \in content =>
            \E j \in stored \ {i} : ObjectOf[j] = ObjectOf[i] /\ Status(j) # "DELETED"

\* Deleting an item never takes the content of another one that is not being
\* deleted, an item under legal hold included (ContentParticipant), unless
\* that one was stored after the purge had listed what it may delete.
SharedContentKept ==
    \A i \in Items \ overtaken :
       Status(i) \notin DELETION_STATUSES \cup {"NONE"} => ObjectOf[i] \in content

\* The journal knows every deletion before the ledger: a version of a saga has
\* its STARTED entry under an epoch that is no other item's, and a DELETED one
\* its COMPLETED entry (restored stores are purged from the journal alone).
DeletionsJournalled ==
    \A i \in Items : \A v \in Range(ledger[i]) : v.status \in DELETION_STATUSES =>
       /\ [item |-> i, epoch |-> v.epoch, phase |-> "STARTED"] \in Range(journal)
       /\ v.status = "DELETED" => [item |-> i, epoch |-> v.epoch, phase |-> "COMPLETED"] \in Range(journal)
       /\ \A j \in Items \ {i}, e \in Range(journal) : e.item = j => e.epoch # v.epoch

\* Items keep to their lifecycle, and a deletion takes what it must, nothing
\* else, and is on record: the four facts above.
LifecycleSound == OnLifecycle /\ DeletedIsGone /\ SharedContentKept /\ DeletionsJournalled

\* A deletion that was begun ends, with or without residue, however often it is
\* interrupted: its outcome becomes the head of the item (_run_saga,
\* _resume_saga).  The exceptions are the two places where the code does not
\* take it up again: after the COMPLETED entry, before the outcome is in the
\* ledger; and after that, before the metadata store has committed it.
SagaEnds ==
    \A r \in Deletions :
       []<>(\A v \in Recorded(r.id, {"PENDING"}) :
              r.item \in stranded \/ \E u \in Recorded(r.id, {"OUTCOME"}) : head[r.item] >= u.version)

\* An interrupted saga can be completed: as long as an item is not deleted and
\* nobody works on it, the journal accepts the outcome of its saga, and the
\* ledger has none that is not committed.
SagaResumable ==
    \A i \in Items : Status(i) = "DELETION_PENDING" =>
       \/ \E c \in Coordinators : \E o \in op[c] : o.req.item = i
       \/ /\ ~\E e \in Range(journal) : e.item = i /\ e.phase = "COMPLETED"
          /\ ~\E v \in Range(ledger[i]) : v.step = "OUTCOME" /\ v.version > head[i]
===============================================================================
