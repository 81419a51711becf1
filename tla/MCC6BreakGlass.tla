---------------------------- MODULE MCC6BreakGlass ----------------------------
(* Who may do what, for TLC: break-glass, the identity and policy adapters of *)
(* the control plane, the identity registry with the Human Gate, and the      *)
(* named queries over the projection.  They share no state but the registry   *)
(* of the third, so a behaviour follows one of them.                          *)
EXTENDS C6BreakGlass, SecurityControlPlane, C6HumanGate, C4Projection, TLC

CONSTANTS alice, bob, carol, use

P(human, active, roles) == [human |-> human, active |-> active, roles |-> roles]

\* bob and carol are the quorum; in the second content bob holds both roles
\* and carol none, in the third carol is suspended.
Sound == (alice :> P(FALSE, TRUE, {}) @@ bob :> P(TRUE, TRUE, {"SDO"}) @@ carol :> P(TRUE, TRUE, {"OWNER"}))
Both == (alice :> P(FALSE, TRUE, {}) @@ bob :> P(TRUE, TRUE, {"SDO", "OWNER"}) @@ carol :> P(TRUE, TRUE, {}))
Suspended == [Sound EXCEPT ![carol].active = FALSE]
Contents == {Sound, Both, Suspended}

Asked == {[id |-> "g", requester |-> alice, approvers |-> {bob, carol}, caps |-> {use}, ttl |-> 1]}

\* Two bundles of which one is signed, and three grants, two under one nonce.
MCRules == [b1 |-> {"allow1", "r"}, b2 |-> {"allow2", "r"}]
MCBundleEnd == [b1 |-> 2, b2 |-> 2]
GrantFrom(from, to, parent, nonce, end, depth) ==
    [grantor |-> from, grantee |-> to, parent |-> parent, nonce |-> nonce, end |-> end,
     depth |-> depth, redelegation |-> depth > 1, domains |-> {"d"}, ceiling |-> depth, pin |-> "b1"]
MCGrants == [g1 |-> GrantFrom("a", "b", "none", 1, 3, 2), g2 |-> GrantFrom("b", "c", "g1", 2, 2, 1),
             g3 |-> GrantFrom("a", "c", "none", 1, 2, 1)]
\* An undelegated request, two sound chains and one without its root.
MCGrantChains == {<< >>, <<"g1", "g2">>, <<"g3">>, <<"g2">>}
MCRequested == [domain |-> "d", effect |-> 1]
MCMethods == [c1 |-> {"authenticate", "evaluate", "lease"}, c2 |-> {"install_policy", "evaluate"}]

\* Records whose names and aliases collide once normalised, and four humans.
RecordOf(id, also, reserved, roles) ==
    [canonical_id |-> id, aliases |-> also, reserved |-> reserved, roles |-> roles]
MCCandidates == {RecordOf("a", {"n"}, TRUE, {}), RecordOf("b", {"N"}, TRUE, {}),
                 RecordOf("c", {}, FALSE, {}), RecordOf("A", {}, FALSE, {})}
MCHumans == {RecordOf("a", {}, TRUE, {"X", "Y", "Z"}), RecordOf("b", {}, TRUE, {"X", "Y"}),
             RecordOf("c", {}, TRUE, {"X", "Z"}), RecordOf("p", {}, TRUE, {"Y"})}
MCNormal == "A" :> "a" @@ "N" :> "n" @@ [i \in {"a", "b", "c", "n", "p", "w"} |-> i]
MCChains == {<<"w">>, <<"c", "w">>, <<"a">>}
MCEvidence == {"a" :> 85 @@ "b" :> 70, "a" :> 85, "a" :> 85 @@ "b" :> 85, "c" :> 70}

SignatureOf(p, r, f, t) == [principal |-> p, role |-> r, fitting |-> f, signed_at |-> t]
MCSignatures ==
    {SignatureOf("a", r, TRUE, 0) : r \in {"X", "Y", "Z"}}
    \cup {SignatureOf("b", r, TRUE, 0) : r \in {"X", "Y"}}
    \cup {SignatureOf("c", "X", TRUE, 1), SignatureOf("c", "Z", TRUE, 0),
          SignatureOf("c", "Y", TRUE, 0), SignatureOf("p", "Y", TRUE, 0),
          SignatureOf("b", "Z", FALSE, 0)}
MCPrincipals == <<"a", "b", "c", "p">>
MCRoles == <<"X", "Y", "Z">>

\* One fact committed twice, or two facts.
CommitOf(f, d) == [fact |-> f, digest |-> d]
MCHistories == {<<CommitOf("f", "p"), c>> : c \in {CommitOf("f", "q"), CommitOf("g", "q")}}

VARIABLE focus

\* One evaluation at a time meets every two drifts; two evaluations meet one
\* change of policy or one revocation, in one login and one install.
Evaluating == {"fresh", "chain", "ask", "answered", "revalidated", "timed", "decided"}
OneSession ==
    /\ drift' <= 1 /\ UNCHANGED <<kid, mount>>
    /\ inflight'["c1"].at # "mounted"
    /\ principal # 0 => inflight'["c1"].at \notin {"keys", "token"}
    /\ snapshot # NoBundle => inflight'["c2"].at \notin {"put", "source"}

MCInit ==
    /\ focus \in {"break-glass", "control plane", "evaluations", "identity", "gate", "projection"}
    /\ Init /\ ControlInit /\ ProjectionInit /\ GateInit
    /\ focus # "break-glass" => clock = 1
    /\ focus # "gate" => gate.signatures = {}

MCNext ==
    /\ UNCHANGED focus
    /\ \/ focus = "break-glass" /\ Next /\ UNCHANGED <<controlVars, gateVars, projectionVars>>
       \/ focus = "control plane" /\ ControlNext /\ inflight'["c2"].at \notin Evaluating
            /\ UNCHANGED <<vars, gateVars, projectionVars>>
       \/ focus = "evaluations" /\ ControlNext /\ OneSession /\ UNCHANGED <<vars, gateVars, projectionVars>>
       \/ focus = "identity" /\ IdentityNext
            /\ UNCHANGED <<vars, controlVars, gate, instant, projectionVars>>
       \/ focus = "gate" /\ GateNext /\ UNCHANGED <<vars, controlVars, projectionVars>>
       \/ focus = "projection" /\ ProjectionNext /\ UNCHANGED <<vars, controlVars, gateVars>>

MCSpec == MCInit /\ [][MCNext]_<<focus, vars, controlVars, gateVars, projectionVars>>
===============================================================================
