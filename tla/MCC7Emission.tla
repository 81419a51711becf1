----------------------------- MODULE MCC7Emission -----------------------------
(* C7 for TLC: effect emission (two actions on one aggregate), the scenario  *)
(* overlays and the sealed results.  The three share no state, so a          *)
(* behaviour follows one of them.                                            *)
EXTENDS C7Emission, C7Overlay, TLC

VARIABLE focus

OneAggregate == [a \in Actions |-> CHOOSE g \in Aggregates : TRUE]

MCHypotheses == "c1" :> {"g"} @@ "c2" :> {"h"}

MCInit ==
    /\ focus \in {"emission", "overlay", "seal"}
    /\ Init /\ OverlayInit

MCNext ==
    /\ UNCHANGED focus
    /\ \/ focus = "emission" /\ Next /\ UNCHANGED c7Vars
       \/ focus = "overlay" /\ OverlayNext /\ UNCHANGED vars
       \/ focus = "seal" /\ SealNext /\ UNCHANGED vars

MCFairSpec == MCInit /\ [][MCNext]_<<focus, vars, c7Vars>> /\ Fairness
===============================================================================
