---------------------------- MODULE C6EmergencyStop ----------------------------
(***************************************************************************)
(* EmergencyStopController (c6/safety.py): NORMAL -> STOPPING -> STOPPED   *)
(* -> RESET_PENDING -> NORMAL under one lock, with an epoch that a stop    *)
(* and a confirmed reset each increment.  Every operation is one section   *)
(* of the lock and so one action; an operation called in the wrong status  *)
(* raises and changes nothing.                                             *)
(*                                                                         *)
(* The identity registry is read afresh inside request_reset: the set of   *)
(* principals it resolves as active humans is an input of that operation.  *)
(***************************************************************************)
EXTENDS Integers, Sequences

CONSTANTS
    Principals,
    MaxEpoch,       \* bound: the epoch a stop may still be accepted at
    MaxTime,        \* bound: instants are 1..MaxTime
    StopTimes       \* the instants the stop's operations are called with

ASSUME StopBounds == MaxEpoch \in Nat /\ MaxTime \in Nat \ {0} /\ StopTimes \subseteq 1..MaxTime

VARIABLES status, epoch, history

stop == <<status, epoch, history>>

Times == 1..MaxTime
StopStatus == {"NORMAL", "STOPPING", "STOPPED", "RESET_PENDING"}
StopInit == status = "NORMAL" /\ epoch = 0 /\ history = <<>>

\* The controller's single way to move: status, epoch and event together.
Accept(e, s, at) ==
    /\ epoch' = e /\ status' = s
    /\ history' = Append(history, [epoch |-> e, status |-> s, at |-> at])

\* The bound on the epoch is the model's.
activate(at) ==
    /\ status = "NORMAL"
    /\ epoch < MaxEpoch
    /\ Accept(epoch + 1, "STOPPING", at)

finish_draining(at) == status = "STOPPING" /\ Accept(epoch, "STOPPED", at)

\* Two distinct active humans, neither of them the requester.
request_reset(requester, approvers, humans, at) ==
    /\ approvers[1] # approvers[2] /\ requester \notin {approvers[1], approvers[2]}
    /\ status = "STOPPED"
    /\ {approvers[1], approvers[2]} \subseteq humans
    /\ Accept(epoch, "RESET_PENDING", at)

\* Mutant: a confirmed reset goes back to the epoch before the stop.
ConfirmResetBack(at) == status = "RESET_PENDING" /\ Accept(epoch - 1, "NORMAL", at)

confirm_reset(at) == status = "RESET_PENDING" /\ Accept(epoch + 1, "NORMAL", at)

\* Mutant: the guard asks the status and not the epoch.
GuardStatusOnly(fenced_epoch) == status = "NORMAL"

\* guard_dispatch returns normally.
guard_dispatch(fenced_epoch) == status = "NORMAL" /\ fenced_epoch = epoch

StopNext ==
    \E at \in StopTimes :
       \/ activate(at) \/ finish_draining(at) \/ confirm_reset(at)
       \/ \E r \in Principals, a \in Principals \X Principals, humans \in SUBSET Principals :
            request_reset(r, a, humans, at)

StopSpec == StopInit /\ [][StopNext]_stop

-------------------------------------------------------------------------------
(* Properties *)

\* A reset never re-enables the past: NORMAL after a stop carries an epoch
\* later than every event up to that stop, so nothing fenced before or during
\* the stop passes guard_dispatch again.
EpochNeverReenabled ==
    \A i, j \in 1..Len(history) :
       i < j /\ history[i].status = "STOPPING" /\ history[j].status = "NORMAL" =>
         \A k \in 1..i : history[k].epoch < history[j].epoch

===============================================================================
