----------------------------- MODULE C3Canonical ------------------------------
(***************************************************************************)
(* What the C3 ports promise (GovernedCommitPort and OutboxRelayPort of    *)
(* c3/ports.py): each aggregate is an append-only log of commands, appended *)
(* to only by a command that expects its current length; a caller holds a  *)
(* receipt, and the outside world an event, only for an entry of the log.  *)
(* Nothing is said of transactions, locks, rows, crashes or repairs.       *)
(***************************************************************************)
EXTENDS Naturals, Sequences

CONSTANTS Aggregates, Commands

VARIABLES log, receipted, published

InLog(a, n) == n \in 1..Len(log[a])

Init ==
    /\ log = [a \in Aggregates |-> <<>>]
    /\ receipted = {}
    /\ published = {}

Append1(cmd) ==
    /\ cmd.expected = Len(log[cmd.ref])
    /\ log' = [log EXCEPT ![cmd.ref] = Append(@, cmd)]
    /\ UNCHANGED <<receipted, published>>

Receipt(a, n) ==
    /\ InLog(a, n)
    /\ receipted' = receipted \cup {<<a, n>>}
    /\ UNCHANGED <<log, published>>

Publish(a, n) ==
    /\ InLog(a, n)
    /\ published' = published \cup {<<a, n>>}
    /\ UNCHANGED <<log, receipted>>

Next ==
    \/ \E cmd \in Commands : Append1(cmd)
    \/ \E a \in Aggregates : \E n \in DOMAIN log[a] : Receipt(a, n) \/ Publish(a, n)

Spec == Init /\ [][Next]_<<log, receipted, published>>
===============================================================================
