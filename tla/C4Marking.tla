----------------------------- MODULE C4Marking ------------------------------
(* C4: the marking lattice (c4_marking.py).  A scheme is built from labels    *)
(* and (lower, upper) relations: its closure is computed by sweeps until one  *)
(* changes nothing, the order is then validated, and joins, meets and the     *)
(* disclosure decision are answered from the closure.  A marking set is one   *)
(* label per scheme, or none; the model has one scheme.                       *)
EXTENDS Naturals, FiniteSets, SequencesExt

CONSTANTS Labels,     \* the labels, in the order of the definition (a sequence)
          Relations   \* the relations a definition may give (a set of pairs)

VARIABLE scheme   \* [relations, closure, at]

Members == ToSet(Labels)

MarkingInit == \E given \in SUBSET Relations :
  scheme = [relations |-> given, at |-> "closing",
            closure |-> [l \in Members |-> {l} \cup {u \in Members : <<l, u>> \in given}]]

\* for lower in members: one sweep expands every label through the labels it
\* already reaches, later labels through what earlier ones just gained.
Expand(closure, lower) ==
  [closure EXCEPT ![lower] = UNION {closure[i] : i \in closure[lower]}]

Swept(closure) == FoldLeft(Expand, closure, Labels)

\* Mutant: one sweep and no more.
SweepOnce == /\ scheme.at = "closing"
             /\ scheme' = [scheme EXCEPT !.closure = Swept(@), !.at = "validating"]

Sweep == /\ scheme.at = "closing"
         /\ LET next == Swept(scheme.closure) IN
            scheme' = [scheme EXCEPT !.closure = next,
                         !.at = IF next = scheme.closure THEN "validating" ELSE "closing"]

-----------------------------------------------------------------------------
leq(lower, upper) == upper \in scheme.closure[lower]

Minimal(labels) == {c \in labels : ~\E o \in labels : o # c /\ leq(o, c)}

Maximal(labels) == {c \in labels : ~\E o \in labels : o # c /\ leq(c, o)}

UpperBounds(labels) == {u \in Members : \A l \in labels : leq(l, u)}

LowerBounds(labels) == {d \in Members : \A l \in labels : leq(d, l)}

Bottoms == {l \in Members : \A o \in Members : leq(l, o)}

Tops == {l \in Members : \A o \in Members : leq(o, l)}

\* Mutant: antisymmetry and unique bounds alone.
ValidBounded ==
  /\ \A a, b \in Members : a # b => ~(leq(a, b) /\ leq(b, a))
  /\ Cardinality(Bottoms) = 1 /\ Cardinality(Tops) = 1

Valid ==
  /\ \A a, b \in Members : a # b => ~(leq(a, b) /\ leq(b, a))
  /\ Cardinality(Bottoms) = 1 /\ Cardinality(Tops) = 1
  /\ \A a, b \in Members : /\ Cardinality(Minimal(UpperBounds({a, b}))) = 1
                           /\ Cardinality(Maximal(LowerBounds({a, b}))) = 1

Validate == /\ scheme.at = "validating"
            /\ scheme' = [scheme EXCEPT !.at = IF Valid THEN "accepted" ELSE "refused"]

bottom == CHOOSE l \in Bottoms : TRUE

\* None where the join or the meet of the labels is not unique.
None == "no unique label"

Unique(labels) == IF Cardinality(labels) = 1 THEN CHOOSE l \in labels : TRUE ELSE None

join(labels) == IF labels = {} THEN bottom ELSE Unique(Minimal(UpperBounds(labels)))

meet(labels) == Unique(Maximal(LowerBounds(labels)))

\* MarkingEngine over marking sets that may name no label of the scheme.
Unmarked == "unmarked"

MarkingSets == Members \cup {Unmarked}

EngineJoin(sets) == join({IF m = Unmarked THEN bottom ELSE m : m \in sets})

is_authorized(marking, clearance) ==
  marking # Unmarked => clearance # Unmarked /\ leq(marking, clearance)

-----------------------------------------------------------------------------
MarkingNext == Sweep \/ Validate

-----------------------------------------------------------------------------
\* The order the definition means: upper is in every set of labels that has
\* lower and is closed under the relations.
UpClosed == {s \in SUBSET Members :
               \A p \in scheme.relations : p[1] \in s => p[2] \in s}

Meant == LET closed == UpClosed IN
         [a, b \in Members |-> \A s \in closed : a \in s => b \in s]

LeastAbove(order, l, labels) ==
  /\ \A x \in labels : order[x, l]
  /\ \A u \in Members : (\A x \in labels : order[x, u]) => order[l, u]

GreatestBelow(order, l, labels) ==
  /\ \A x \in labels : order[l, x]
  /\ \A d \in Members : (\A x \in labels : order[d, x]) => order[d, l]

IsLattice(order) ==
  /\ \A a, b \in Members : order[a, b] /\ order[b, a] => a = b
  /\ \A s \in SUBSET Members :
       /\ \E l \in Members : LeastAbove(order, l, s)
       /\ \E l \in Members : GreatestBelow(order, l, s)

\* A definition is accepted exactly when the order it means is a lattice; join
\* and meet of any labels, not just of two, are then its least upper and its
\* greatest lower bound; and content joined from several sources is disclosed
\* only to a clearance that dominates every source
\* (MarkingSchemeDefinition.__init__, join, meet, MarkingEngine.is_authorized).
MarkingLattice ==
  LET order == Meant IN
  /\ scheme.at = "refused" => ~IsLattice(order)
  /\ scheme.at = "accepted" =>
       /\ IsLattice(order)
       /\ \A s \in SUBSET Members : /\ LeastAbove(order, join(s), s)
                                    /\ GreatestBelow(order, meet(s), s)
       /\ \A s \in SUBSET MarkingSets, c \in MarkingSets :
            s # {} /\ is_authorized(EngineJoin(s), c) => \A m \in s : is_authorized(m, c)
=============================================================================
