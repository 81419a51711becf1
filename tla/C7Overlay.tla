------------------------------- MODULE C7Overlay ------------------------------
(***************************************************************************)
(* The scenario overlays of C7 on TerminusDB branches                      *)
(* (c7/adapters/terminusdb_overlay.py, the port of c7/scenario_overlay.py)  *)
(* and the sealed results on an object-locked bucket                       *)
(* (c7/adapters/seaweedfs.py).                                             *)
(*                                                                         *)
(* A run's overlay is one TerminusDB branch: created from a commit of      *)
(* main, given a schema, then a run record, in three requests.  A delta is *)
(* appended by one conditional transaction after a read of the whole       *)
(* chain.  A chain digest is an injective function of the deltas it covers, *)
(* so a delta document holds the sequence of deltas that ends with it.     *)
(*                                                                         *)
(* A sealed object is the list of versions of its key, oldest first; a     *)
(* version holds the digest of its content, so it is intact when that is   *)
(* the key.  Others may write versions and delete markers under a key.     *)
(***************************************************************************)
EXTENDS Naturals, Sequences, FiniteSets

CONSTANTS
    Runs,           \* run tokens: (scenario_id, run_id, compartments)
    Hypotheses,     \* the overlay deltas each caller may append
    Scenarists,     \* callers of the overlay store
    Results,        \* reproducibility digests
    Sealers,        \* callers of seal_result
    MaxMain,        \* bound: commits of main
    MaxDeltas,      \* bound: deltas of an overlay
    MaxForks,       \* bound: branches created
    ConditionalAttempts,    \* bound: MAX_CONDITIONAL_ATTEMPTS
    MaxVersions,    \* bound: foreign versions and delete markers of a key
    OverlayFaults   \* bound: lost requests

VARIABLES
    mainHead,       \* number of commits of main
    overlays,       \* the scenario branches
    caller,         \* what each caller is doing
    forks,          \* branches created so far
    appended,       \* history: acknowledged appends
    objects,        \* versions and delete markers of each sealed-result key
    sealer,         \* what each seal_result call is doing
    sealed,         \* digests a seal_result call returned
    overlayFaults

overlayVars == <<mainHead, overlays, caller, forks, appended>>
sealVars == <<objects, sealer, sealed>>
c7Vars == <<overlayVars, sealVars, overlayFaults>>

NoCall == [at |-> "idle"]

\* exists: the branch; record: the base commit its run record names, or none.
NoBranch == [fork |-> 0, schema |-> FALSE, record |-> {}, deltas |-> {}]

OverlayInit ==
    /\ mainHead = 1
    /\ overlays = [r \in Runs |-> NoBranch]
    /\ caller = [c \in Scenarists |-> NoCall]
    /\ forks = 0 /\ appended = {}
    /\ objects = [d \in Results |-> <<>>]
    /\ sealer = [s \in Sealers |-> NoCall]
    /\ sealed = {}
    /\ overlayFaults = 0

Exists(r) == overlays[r].fork # 0
Returns(c) == caller' = [caller EXCEPT ![c] = NoCall]
Goes(c, call) == caller' = [caller EXCEPT ![c] = call]

-------------------------------------------------------------------------------
(* Scenario branches *)

\* C3 commits on main; the store itself never writes there.
MainAdvances ==
    /\ mainHead < MaxMain
    /\ mainHead' = mainHead + 1
    /\ UNCHANGED <<overlays, caller, forks, appended, sealVars, overlayFaults>>

\* fork_scenario: the branch is created from a commit in the history of main, or
\* SCENARIO_EXISTS.
CreateBranch(c, r, base) ==
    /\ caller[c] = NoCall
    /\ forks < MaxForks
    /\ ~Exists(r)
    /\ overlays' = [overlays EXCEPT ![r] = [NoBranch EXCEPT !.fork = forks + 1]]
    /\ forks' = forks + 1
    /\ Goes(c, [at |-> "schema", run |-> r, base |-> base])
    /\ UNCHANGED <<mainHead, appended, sealVars, overlayFaults>>

WriteSchema(c) ==
    /\ caller[c].at = "schema"
    /\ IF Exists(caller[c].run)
       THEN /\ overlays' = [overlays EXCEPT ![caller[c].run].schema = TRUE]
            /\ Goes(c, [caller[c] EXCEPT !.at = "record"])
       ELSE Returns(c) /\ UNCHANGED overlays
    /\ UNCHANGED <<mainHead, forks, appended, sealVars, overlayFaults>>

WriteRun(c) ==
    LET r == caller[c].run IN
    /\ caller[c].at = "record"
    /\ IF overlays[r].schema /\ overlays[r].record = {}
       THEN overlays' = [overlays EXCEPT ![r].record = {caller[c].base}]
       ELSE UNCHANGED overlays
    /\ Returns(c)
    /\ UNCHANGED <<mainHead, forks, appended, sealVars, overlayFaults>>

Numbered(r, n) == {d \in overlays[r].deltas : Len(d) = n}
Chain(r) == [n \in 1..Cardinality(overlays[r].deltas) |-> Numbered(r, n)]

\* _read_overlay: the run record and every delta, read at one commit of the
\* branch; the handle and the whole chain are verified.
Verified(r, base) ==
    /\ Exists(r)
    /\ overlays[r].record = {base}
    /\ \A n \in DOMAIN Chain(r) :
         /\ Cardinality(Chain(r)[n]) = 1
         /\ n > 1 => \A d \in Chain(r)[n] : SubSeq(d, 1, n - 1) \in Chain(r)[n - 1]

Tip(r) == IF overlays[r].deltas = {} THEN <<>>
          ELSE CHOOSE d \in overlays[r].deltas : Len(d) = Cardinality(overlays[r].deltas)

\* append_overlay (and read_at) read and verify; a failed check ends the call.
ReadOverlay(c, r, base, delta, tries) ==
    /\ IF Verified(r, base)
       THEN Goes(c, [at |-> "append", run |-> r, base |-> base, tip |-> Tip(r), delta |-> delta,
                     tries |-> tries])
       ELSE Returns(c)
    /\ UNCHANGED <<mainHead, overlays, forks, appended, sealVars, overlayFaults>>

BeginAppend(c, r, base, delta) ==
    /\ caller[c] = NoCall
    /\ Cardinality(overlays[r].deltas) < MaxDeltas
    /\ ReadOverlay(c, r, base, delta, 0)

ReadAgain(c) ==
    /\ caller[c].at = "again"
    /\ ReadOverlay(c, caller[c].run, caller[c].base, caller[c].delta, caller[c].tries)

\* Mutant: the transaction does not name the previous delta's digest.
AppendUnchained(r, tip) == overlays[r].record # {} /\ Numbered(r, Len(tip) + 1) = {}

\* The conditions of the append: the run record is there, the revision is free,
\* and the delta before it is the one that was read.
AppendConditions(r, tip) ==
    /\ overlays[r].record # {}
    /\ Numbered(r, Len(tip) + 1) = {}
    /\ tip # <<>> => Numbered(r, Len(tip)) = {tip}

append_overlay(c) ==
    LET r == caller[c].run
        tip == caller[c].tip
        delta == Append(tip, caller[c].delta)
    IN
    /\ caller[c].at = "append"
    /\ IF Exists(r) /\ AppendConditions(r, tip)
       THEN /\ overlays' = [overlays EXCEPT ![r].deltas = @ \cup {delta}]
            /\ Goes(c, [at |-> "appended", run |-> r, fork |-> overlays[r].fork, delta |-> delta])
       ELSE /\ UNCHANGED overlays
            /\ IF Exists(r) /\ caller[c].tries + 1 < ConditionalAttempts
               THEN Goes(c, [at |-> "again", run |-> r, base |-> caller[c].base,
                             delta |-> caller[c].delta, tries |-> caller[c].tries + 1])
               ELSE Returns(c)
    /\ UNCHANGED <<mainHead, forks, appended, sealVars, overlayFaults>>

Acknowledged(c) ==
    /\ caller[c].at = "appended"
    /\ appended' = appended \cup {<<caller[c].run, caller[c].fork, caller[c].delta>>}
    /\ Returns(c)
    /\ UNCHANGED <<mainHead, overlays, forks, sealVars, overlayFaults>>

discard(c, r) ==
    /\ caller[c] = NoCall
    /\ overlays' = [overlays EXCEPT ![r] = NoBranch]
    /\ UNCHANGED <<mainHead, caller, forks, appended, sealVars, overlayFaults>>

\* STORE_UNAVAILABLE, BACKEND_ERROR, or the caller dies: before or after the
\* request took effect.
CallFails(c) ==
    /\ caller[c] # NoCall
    /\ overlayFaults < OverlayFaults
    /\ overlayFaults' = overlayFaults + 1
    /\ Returns(c)
    /\ UNCHANGED <<mainHead, overlays, forks, appended, sealVars>>

OverlayNext ==
    \/ MainAdvances
    \/ \E c \in Scenarists :
         \/ \E r \in Runs, base \in 1..mainHead : CreateBranch(c, r, base)
         \/ WriteSchema(c) \/ WriteRun(c)
         \/ \E r \in Runs, base \in 1..mainHead, delta \in Hypotheses[c] : BeginAppend(c, r, base, delta)
         \/ ReadAgain(c) \/ append_overlay(c) \/ Acknowledged(c)
         \/ \E r \in Runs : discard(c, r)
         \/ CallFails(c)

-------------------------------------------------------------------------------
(* Sealed results *)

\* The versions of the key: what was written, without the delete markers.
Written(d) == SelectSeq(objects[d], LAMBDA v : v # "marker")

\* Mutant: the newest version of the key.
NewestVersion(d) == Written(d)[Len(Written(d))]

\* _sealed_version: the oldest version of the key, ignoring delete markers.
_sealed_version(d) == Written(d)[1]

SealEnds(s) == sealer' = [sealer EXCEPT ![s] = NoCall]

\* The look-up, when the call starts and again after a refused write: an intact
\* sealed version settles it, another content is SEALED_RESULT_CONFLICT.
_settle(s, d, otherwise) ==
    /\ IF Written(d) = <<>>
       THEN sealer' = [sealer EXCEPT ![s] = otherwise] /\ UNCHANGED sealed
       ELSE /\ sealed' = IF _sealed_version(d) = d THEN sealed \cup {d} ELSE sealed
            /\ SealEnds(s)
    /\ UNCHANGED <<overlayVars, objects, overlayFaults>>

seal_result(s, d) ==
    /\ sealer[s] = NoCall
    /\ _settle(s, d, [at |-> "put", digest |-> d])

\* PUT with If-None-Match: * and the COMPLIANCE retention: refused while the key's
\* latest entry is a version.
PutSealed(s) ==
    LET d == sealer[s].digest IN
    /\ sealer[s].at = "put"
    /\ IF objects[d] = <<>> \/ objects[d][Len(objects[d])] = "marker"
       THEN /\ objects' = [objects EXCEPT ![d] = Append(@, d)]
            /\ sealer' = [sealer EXCEPT ![s].at = "retention"]
       ELSE /\ sealer' = [sealer EXCEPT ![s].at = "refused"]
            /\ UNCHANGED objects
    /\ UNCHANGED <<overlayVars, sealed, overlayFaults>>

SealRefused(s) ==
    /\ sealer[s].at = "refused"
    /\ _settle(s, sealer[s].digest, NoCall)

\* The applied retention is read back.
ConfirmRetention(s) ==
    /\ sealer[s].at = "retention"
    /\ sealed' = sealed \cup {sealer[s].digest}
    /\ SealEnds(s)
    /\ UNCHANGED <<overlayVars, objects, overlayFaults>>

SealFails(s) ==
    /\ sealer[s] # NoCall
    /\ overlayFaults < OverlayFaults
    /\ overlayFaults' = overlayFaults + 1
    /\ SealEnds(s)
    /\ UNCHANGED <<overlayVars, objects, sealed>>

\* Another principal writes a version or a delete marker under the key.  A
\* retained version is never removed (S3 Object Lock).
ForeignVersion(d) ==
    /\ Len(objects[d]) < MaxVersions
    /\ \E v \in {"foreign", "marker"} : objects' = [objects EXCEPT ![d] = Append(@, v)]
    /\ UNCHANGED <<overlayVars, sealer, sealed, overlayFaults>>

SealNext ==
    \/ \E s \in Sealers :
         \/ \E d \in Results : seal_result(s, d)
         \/ PutSealed(s) \/ SealRefused(s) \/ ConfirmRetention(s) \/ SealFails(s)
    \/ \E d \in Results : ForeignVersion(d)

-------------------------------------------------------------------------------
(* What the stores promise *)

\* Whatever appends, discards and re-forks of one run interleave, the deltas of an
\* overlay form one gap-free chain that verifies, and an acknowledged append stays
\* at its revision for as long as that overlay lives (append_overlay; the port:
\* "concurrent appends get distinct, gap-free revisions").
OverlayChained ==
    /\ \A r \in Runs : \A base \in overlays[r].record : Verified(r, base)
    /\ \A a \in appended : overlays[a[1]].fork = a[2] => a[3] \in overlays[a[1]].deltas

\* The one case that seal_result does not see: a foreign version was written and
\* then hidden by a delete marker before its PUT, which If-None-Match accepts.
HiddenBefore(d) ==
    \E i \in DOMAIN objects[d] :
        objects[d][i] = d /\ i > 1 /\ objects[d][i - 1] = "marker" /\ Written(d)[1] # d

\* A result that seal_result reported sealed is what read_sealed_result returns
\* from then on, whoever writes versions and delete markers under its key
\* (_sealed_version; "A later version (an overwrite) or a delete marker never
\* replaces or hides it").
SealedReadable ==
    \A d \in sealed : Written(d) # <<>> /\ (_sealed_version(d) = d \/ HiddenBefore(d))

\* What a scenario wrote stays readable as it was acknowledged, in the overlay and
\* among the sealed results: the two facts above.
OverlaySound == OverlayChained /\ SealedReadable
===============================================================================
