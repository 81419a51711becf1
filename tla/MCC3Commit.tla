------------------------------ MODULE MCC3Commit ------------------------------
(* The stores of C3 for TLC: commits on PostgreSQL and on TerminusDB and the  *)
(* fallback outbox; and the marking lattice of C4.  They share no state, so a *)
(* behaviour follows one of them.                                             *)
EXTENDS C3Postgres, TLC, C3Terminus, C3FallbackOutbox, C4Marking

CONSTANTS a, b, k, l, m

VARIABLE focus

CommandOf(ref, key, expected) == [ref |-> ref, key |-> key, expected |-> expected]
MCSent ==
    "w1" :> {CommandOf("a", "k", 0)}
      @@ "w2" :> {CommandOf("a", "k", 0), CommandOf("a", "l", 0), CommandOf("b", "k", 0)}
\* One adapter for both threads, or one for each.
MCLayouts == {("w1" :> "x" @@ "w2" :> z) : z \in Adapters}
MCOffered ==
    "w1" :> {"acquire", "commit"} @@ "w2" :> {"acquire", "commit", "acknowledge", "reconcile"}

WriteOf(ref, key, expected, document) ==
    [ref |-> ref, key |-> key, expected |-> expected, document |-> document]
MCWrites == {WriteOf(a, k, 0, 1), WriteOf(a, l, 0, 2), WriteOf(a, l, 1, 2),
             WriteOf(b, k, 0, 2), WriteOf(a, m, 1, 1)}

\* Two labels below two others, between a bottom and a top: all eight relations
\* make the smallest bounded order that is no lattice; the last three add chains
\* and a cycle.
MCLabels == <<"c", "top", "a", "d", "bottom", "b">>
MCRelations == ({"bottom"} \X {"a", "b"}) \cup ({"a", "b"} \X {"c", "d"}) \cup ({"c", "d"} \X {"top"})
                 \cup {<<"a", "b">>, <<"c", "d">>, <<"c", "a">>}

\* The components use the same model values, so that few permutations cover the
\* interchangeable elements of all of them.
Interchangeable ==
    Permutations(Clients) \cup Permutations(Keys) \cup Permutations(Fields)
ASSUME Clients = OutboxWriters /\ Keys = Reconcilers

MCInit ==
    /\ focus \in {"postgres", "terminus", "outbox", "marking"}
    /\ Init /\ TerminusInit /\ OutboxInit /\ MarkingInit
    /\ focus # "terminus" => \A w \in Writers : adapter[w] = "x"
    /\ focus # "marking" => scheme.relations = {}

MCNext ==
    /\ UNCHANGED focus
    /\ \/ focus = "postgres" /\ Next /\ UNCHANGED <<terminusVars, outboxVars, scheme>>
       \/ focus = "terminus" /\ TerminusNext /\ UNCHANGED <<vars, outboxVars, scheme>>
       \/ focus = "outbox" /\ OutboxNext /\ UNCHANGED <<vars, terminusVars, scheme>>
       \/ focus = "marking" /\ MarkingNext /\ UNCHANGED <<vars, terminusVars, outboxVars>>

MCSpec == MCInit /\ [][MCNext]_<<focus, vars, terminusVars, outboxVars, scheme>>
===============================================================================
