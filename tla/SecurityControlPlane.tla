------------------------ MODULE SecurityControlPlane ------------------------
(* The control-plane providers of security/control_plane.py: Keycloak        *)
(* authentication, the OPA policy decision point with its signed bundle      *)
(* snapshot and delegation grants, and OpenBao secret leases.  Every call to *)
(* a backend is a step of its own: between two of them the clock advances, a *)
(* policy module is replaced or added in OPA, a grant is revoked, a signing  *)
(* key is rotated, a secret mount is re-created.  Signatures are abstracted  *)
(* to the membership of a record in the set its authority signed.            *)
EXTENDS Naturals, FiniteSets, Sequences, TLC, FiniteSetsExt, SequencesExt

CONSTANTS
    Clients,        \* threads calling the providers
    Methods,        \* client -> the provider methods it calls
    Bundles,        \* policy sources; RulesOf and BundleEnd describe them
    SignedBundles,  \* those carrying a signature of the pinned signer
    RulesOf,        \* bundle -> fingerprints of its compiled rules
    AllowRules,     \* fingerprints of the rules named "allow"
    BundleEnd,      \* bundle -> expires_at
    SignedGrant,    \* grant -> its signed record (see _require_narrowing)
    GrantChains,    \* the chains requests carry; << >> is an undelegated one
    Requested,      \* the governed request: [domain, effect]
    TokenLife,      \* seconds a Keycloak access token lives
    MtlsEnd,        \* end of the SVID window of the mTLS context
    MaxClock, MaxDrift

ASSUME ControlPlaneAssumption ==
    /\ SignedBundles \subseteq Bundles
    /\ \A b \in Bundles : RulesOf[b] # {}
    /\ {MtlsEnd, TokenLife, MaxClock, MaxDrift} \subseteq Nat

VARIABLES
    now,        \* _now()
    kid,        \* the key Keycloak signs with
    module,     \* the source OPA holds under policy_id ("none": nothing)
    injected,   \* another module sits in the governed or an enclosing package
    snapshot,   \* OpaPolicyDecisionProvider._snapshot
    revocations,\* _delegation_revocations
    nonces,     \* _grant_nonces: nonce -> the grant allowed to carry it
    mount,      \* generation of the kv mount OpenBao serves
    mountDigest,\* OpenBaoSecretProvider._mount_digest
    inflight,   \* the call each client has in progress, or its result
    principal,  \* the AuthenticatedPrincipal the clients use: its expires_at (0: none)
    relied,     \* history: the grants decisions have rested on
    drift       \* changes and revocations so far

controlVars == <<now, kid, module, injected, snapshot, revocations, nonces,
                 mount, mountDigest, inflight, principal, relied, drift>>
worldVars == <<kid, module, injected, mount, drift>>

NoBundle == "none"
Resting == [at |-> "idle"]

ControlInit ==
    /\ now = 0 /\ kid = 0
    /\ module = NoBundle /\ injected = FALSE /\ snapshot = NoBundle
    /\ revocations = {} /\ nonces = << >>
    /\ mount = 0 /\ mountDigest = NoBundle
    /\ inflight = [c \in Clients |-> Resting]
    /\ principal = 0
    /\ relied = {} /\ drift = 0

-----------------------------------------------------------------------------
(* The world behind the providers.                                           *)

TimePasses ==
    /\ now < MaxClock
    /\ now' = now + 1
    /\ UNCHANGED <<worldVars, snapshot, revocations, nonces, mountDigest, inflight, principal, relied>>

Drifts ==
    /\ drift < MaxDrift
    /\ drift' = drift + 1
    /\ \/ module' \in Bundles \ {module} /\ UNCHANGED <<kid, injected, mount>>
       \/ injected' = ~injected /\ UNCHANGED <<kid, module, mount>>
       \/ kid' = kid + 1 /\ UNCHANGED <<module, injected, mount>>
       \/ mount' = mount + 1 /\ UNCHANGED <<kid, module, injected>>
    /\ UNCHANGED <<now, snapshot, revocations, nonces, mountDigest, inflight, principal, relied>>

Grants == DOMAIN SignedGrant
GrantsOf(ch) == {ch[i] : i \in DOMAIN ch}

apply_revocation(g) ==
    /\ g \notin revocations /\ drift < MaxDrift
    /\ drift' = drift + 1
    /\ revocations' = revocations \cup {g}
    /\ UNCHANGED <<now, kid, module, injected, mount, snapshot, nonces, mountDigest, inflight, principal, relied>>

-----------------------------------------------------------------------------
(* Calls: a client is at one step of one provider method.                    *)

(* Every backend request first requires the SVID window to be current.       *)
_mtls_deadline == now < MtlsEnd
require_valid(expires_at) == now < expires_at

Move(c, record) == inflight' = [inflight EXCEPT ![c] = record]
Calls(c, method) == inflight[c].at = "idle" /\ method \in Methods[c]

(* Any refusal, transport error or non-200 answer raises out of the method;  *)
(* a result is handed to the caller.                                         *)
CallEnds(c) ==
    /\ inflight[c].at # "idle"
    /\ Move(c, Resting)
    /\ UNCHANGED <<now, worldVars, snapshot, revocations, nonces, mountDigest, principal, relied>>

(* authenticate: discovery and keys, then the token, then its verification.  *)
FetchKeys(c) ==
    /\ Calls(c, "authenticate") /\ _mtls_deadline
    /\ Move(c, [at |-> "keys", kid |-> kid])
    /\ UNCHANGED <<now, worldVars, snapshot, revocations, nonces, mountDigest, principal, relied>>

PasswordGrant(c) ==
    /\ inflight[c].at = "keys" /\ _mtls_deadline
    /\ Move(c, [at |-> "token", kid |-> inflight[c].kid, signed |-> kid, exp |-> now + TokenLife])
    /\ UNCHANGED <<now, worldVars, snapshot, revocations, nonces, mountDigest, principal, relied>>

_verify_access_token(t) == t.kid = t.signed /\ now < t.exp

Authenticated(c) ==
    /\ inflight[c].at = "token"
    /\ _verify_access_token(inflight[c]) /\ _mtls_deadline
    /\ principal' = Min({inflight[c].exp, MtlsEnd})
    /\ Move(c, Resting)
    /\ UNCHANGED <<now, worldVars, snapshot, revocations, nonces, mountDigest, relied>>

-----------------------------------------------------------------------------
(* install_policy: verify, PUT, read back the source, read back the modules. *)

PutPolicy(c, b) ==
    /\ Calls(c, "install_policy") /\ _mtls_deadline
    /\ b \in SignedBundles /\ now < BundleEnd[b]
    /\ module' = b
    /\ Move(c, [at |-> "put", bundle |-> b])
    /\ UNCHANGED <<now, kid, injected, mount, drift, snapshot, revocations, nonces,
                   mountDigest, principal, relied>>

FetchSource(c) ==
    /\ inflight[c].at = "put" /\ _mtls_deadline
    /\ module = inflight[c].bundle
    /\ Move(c, [at |-> "source", bundle |-> inflight[c].bundle])
    /\ UNCHANGED <<now, worldVars, snapshot, revocations, nonces, mountDigest, principal, relied>>

_installed_module(b) == module = b

InstallSnapshot(c) ==
    /\ inflight[c].at = "source" /\ _mtls_deadline
    /\ _installed_module(inflight[c].bundle)
    /\ now < BundleEnd[inflight[c].bundle]
    /\ snapshot' = inflight[c].bundle
    /\ Move(c, Resting)
    /\ UNCHANGED <<now, worldVars, revocations, nonces, mountDigest, principal, relied>>

-----------------------------------------------------------------------------
(* evaluate: one snapshot for the decision, checked before and after OPA.    *)
(* The window of the bundle, the GET of the live modules, the check of the   *)
(* chain and the POST to OPA are steps of their own, and so are the GET, the *)
(* clock reading and the chain check that follow OPA's answer.               *)

_require_bundle_window(b) == now < BundleEnd[b]

(* What the GET of /v1/policies must show: the signed module and nothing     *)
(* else.  Equal digests compile to equal rules.                              *)
_require_fresh_bundle(b) == _mtls_deadline /\ _installed_module(b) /\ ~injected

(* A child grant links to its parent, which allowed it, and never widens it. *)
_require_narrowing(p, g) ==
    LET parent == SignedGrant[p]
        child == SignedGrant[g]
    IN /\ child.parent = p /\ parent.redelegation
       /\ child.grantor = parent.grantee
       /\ child.domains \subseteq parent.domains
       /\ child.ceiling <= parent.ceiling
       /\ child.depth < parent.depth
       /\ child.pin = parent.pin
       /\ child.end <= parent.end

_require_grant_covers(g, b) ==
    /\ Requested.domain \in SignedGrant[g].domains
    /\ Requested.effect <= SignedGrant[g].ceiling
    /\ SignedGrant[g].pin = b

InForce(ch, b) ==
    /\ GrantsOf(ch) \cap revocations = {}
    /\ \A i \in DOMAIN ch :
         /\ IF i = 1 THEN SignedGrant[ch[i]].parent = NoBundle ELSE _require_narrowing(ch[i-1], ch[i])
         /\ Len(ch) - i < SignedGrant[ch[i]].depth
         /\ now < SignedGrant[ch[i]].end
         /\ _require_grant_covers(ch[i], b)

NonceOf(g) == SignedGrant[g].nonce

NonceUnread(ch, b) == InForce(ch, b)

(* The boundary checks of a chain.                                           *)
_verify_grant_chain(ch, b) ==
    /\ InForce(ch, b)
    /\ \A g \in GrantsOf(ch) : NonceOf(g) \in DOMAIN nonces => nonces[NonceOf(g)] = g
    /\ \A i, j \in DOMAIN ch : NonceOf(ch[i]) = NonceOf(ch[j]) => i = j

BindNonces(ch) ==
    nonces' = [n \in DOMAIN nonces \cup {NonceOf(g) : g \in GrantsOf(ch)} |->
                 IF \E g \in GrantsOf(ch) : NonceOf(g) = n
                   THEN CHOOSE g \in GrantsOf(ch) : NonceOf(g) = n ELSE nonces[n]]

(* The request carries the principal, so a later login does not change it.   *)
BeginEvaluate(c, ch) ==
    /\ Calls(c, "evaluate") /\ require_valid(principal) /\ _mtls_deadline
    /\ snapshot # NoBundle /\ _require_bundle_window(snapshot)
    /\ Move(c, [at |-> "fresh", pin |-> snapshot, chain |-> ch, session |-> principal])
    /\ UNCHANGED <<now, worldVars, snapshot, revocations, nonces, mountDigest, principal, relied>>

FreshBundle(c) ==
    /\ inflight[c].at = "fresh" /\ _require_fresh_bundle(inflight[c].pin)
    /\ Move(c, [inflight[c] EXCEPT !.at = "chain"])
    /\ UNCHANGED <<now, worldVars, snapshot, revocations, nonces, mountDigest, principal, relied>>

VerifyChain(c) ==
    /\ inflight[c].at = "chain"
    /\ _verify_grant_chain(inflight[c].chain, inflight[c].pin) /\ BindNonces(inflight[c].chain)
    /\ Move(c, [inflight[c] EXCEPT !.at = "ask"])
    /\ UNCHANGED <<now, worldVars, snapshot, revocations, mountDigest, principal, relied>>

(* OPA answers from the modules it holds now.  Its trace names the rules it  *)
(* entered; one that names another rule, or no allow rule, is refused.       *)
LiveRules == (IF module = NoBundle THEN {} ELSE RulesOf[module])
               \cup (IF injected THEN {"unsolicited"} ELSE {})

_require_evaluation_provenance(trace, b) ==
    trace \subseteq RulesOf[b] /\ trace \cap AllowRules # {}

Evaluated(c) ==
    /\ inflight[c].at = "ask" /\ _mtls_deadline
    /\ \E trace \in SUBSET LiveRules : _require_evaluation_provenance(trace, inflight[c].pin)
    /\ Move(c, [inflight[c] EXCEPT !.at = "answered"])
    /\ UNCHANGED <<now, worldVars, snapshot, revocations, nonces, mountDigest, principal, relied>>

(* The second reading of the live modules, with what held at that moment.    *)
RevalidateBundle(c) ==
    /\ inflight[c].at = "answered"
    /\ LET d == inflight[c]
       IN /\ _require_bundle_window(d.pin) /\ _require_fresh_bundle(d.pin)
          /\ Move(c, [d EXCEPT !.at = "revalidated"]
                      @@ ("moment" :> [module |-> module, injected |-> injected,
                                       revoked |-> revocations, at |-> now]))
    /\ UNCHANGED <<now, worldVars, snapshot, revocations, nonces, mountDigest, principal, relied>>

EndsOf(d) == {d.session, BundleEnd[d.pin], MtlsEnd} \cup {SignedGrant[g].end : g \in GrantsOf(d.chain)}

(* now = _now(): the instant the decision bears.                             *)
DecisionInstant(c) ==
    /\ inflight[c].at = "revalidated"
    /\ require_valid(inflight[c].session) /\ _require_bundle_window(inflight[c].pin) /\ _mtls_deadline
    /\ Move(c, [inflight[c] EXCEPT !.at = "timed"] @@ ("made" :> now))
    /\ UNCHANGED <<now, worldVars, snapshot, revocations, nonces, mountDigest, principal, relied>>

DecideUnrevoked(c) ==
    /\ inflight[c].at = "timed"
    /\ LET d == inflight[c]
       IN /\ relied' = relied \cup GrantsOf(d.chain)
          /\ Move(c, [d EXCEPT !.at = "decided"] @@ ("until" :> Min(EndsOf(d))))
    /\ UNCHANGED <<now, worldVars, snapshot, revocations, nonces, mountDigest, principal>>

Decide(c) ==
    /\ inflight[c].at = "timed"
    /\ LET d == inflight[c]
       IN /\ _verify_grant_chain(d.chain, d.pin) /\ BindNonces(d.chain)
          /\ relied' = relied \cup GrantsOf(d.chain)
          /\ Move(c, [d EXCEPT !.at = "decided"] @@ ("until" :> Min(EndsOf(d))))
    /\ UNCHANGED <<now, worldVars, snapshot, revocations, mountDigest, principal>>

-----------------------------------------------------------------------------
(* lease: the mount's accessor once, the secret, the token's deadline.       *)

ReadMount(c) ==
    /\ Calls(c, "lease") /\ _mtls_deadline /\ require_valid(principal)
    /\ mountDigest' = IF mountDigest = NoBundle THEN <<mount>> ELSE mountDigest
    /\ Move(c, [at |-> "mounted", digest |-> mountDigest', session |-> principal])
    /\ UNCHANGED <<now, worldVars, snapshot, revocations, nonces, principal, relied>>

ReadSecret(c) ==
    /\ inflight[c].at = "mounted" /\ _mtls_deadline
    /\ \E deletion \in 1..MaxClock :
         Move(c, [inflight[c] EXCEPT !.at = "secret"] @@ ("deletion" :> deletion))
    /\ UNCHANGED <<now, worldVars, snapshot, revocations, nonces, mountDigest, principal, relied>>

LeaseEnds(d) == {d.session, MtlsEnd, d.deletion}

Lease(c) ==
    /\ inflight[c].at = "secret" /\ _mtls_deadline
    /\ LET d == inflight[c]
       IN /\ require_valid(d.session) /\ now < Min(LeaseEnds(d))
          /\ Move(c, [d EXCEPT !.at = "leased"] @@ ("made" :> now @@ "until" :> Min(LeaseEnds(d))))
    /\ UNCHANGED <<now, worldVars, snapshot, revocations, nonces, mountDigest, principal, relied>>

ControlNext ==
    \/ TimePasses \/ Drifts
    \/ \E g \in Grants : apply_revocation(g)
    \/ \E c \in Clients :
         \/ CallEnds(c)
         \/ FetchKeys(c) \/ PasswordGrant(c) \/ Authenticated(c)
         \/ \E b \in Bundles : PutPolicy(c, b)
         \/ FetchSource(c) \/ InstallSnapshot(c)
         \/ \E ch \in GrantChains : BeginEvaluate(c, ch)
         \/ FreshBundle(c) \/ VerifyChain(c) \/ Evaluated(c)
         \/ RevalidateBundle(c) \/ DecisionInstant(c) \/ Decide(c)
         \/ ReadMount(c) \/ ReadSecret(c) \/ Lease(c)

-----------------------------------------------------------------------------
(* A decision has a moment, after OPA answered and before it was returned,   *)
(* at which all its backing held at once, although evaluate reads the        *)
(* modules, the clock and the revocations at different times: OPA held the   *)
(* bundle it names and no other governed module, no grant of its chain was   *)
(* revoked (apply_revocation: "every decision whose policy evaluation is     *)
(* still in flight, rejects a chain containing the revoked grant"), and no   *)
(* authority had expired.  It outlives none of them, whichever login,        *)
(* install or revocation came while it was made.                             *)
DecisionBacked ==
    \A c \in Clients : inflight[c].at = "decided" =>
        LET d == inflight[c] IN
        /\ d.moment.module = d.pin /\ ~d.moment.injected
        /\ GrantsOf(d.chain) \cap d.moment.revoked = {}
        /\ \A end \in EndsOf(d) : d.moment.at <= d.made /\ d.made < end /\ d.until <= end

(* One nonce, one grant: two decisions never rest on different grants that   *)
(* carry the same nonce, however their evaluations interleave.               *)
NonceBound ==
    \A g, h \in relied : NonceOf(g) = NonceOf(h) => g = h

(* What the control plane decides is backed when it is returned: the two     *)
(* facts above.                                                              *)
DecisionsSound == DecisionBacked /\ NonceBound
=============================================================================
