----------------------------- MODULE C2Identity -----------------------------
(* C2: the identity registry and the boundary that provisions it             *)
(* (c2_identity.py, c2/provisioning.py), and the identity half of the named   *)
(* query gateway (c2/gateway.py).                                            *)
(*                                                                           *)
(* Records are immutable; aliases only accumulate, and an alias two records   *)
(* share is kept as evidence of ambiguity.  A provisioning call checks the    *)
(* registry, waits for the policy decision without the registry's lock, and   *)
(* checks again under the lock before it writes.  Normal maps an identifier   *)
(* to its NFKC, stripped and casefolded form.  Evidence scores are            *)
(* hundredths; the code compares floats, so an instance uses scores whose     *)
(* differences are never exactly the margin.                                  *)
EXTENDS Naturals, FiniteSets, Sequences, Functions

CONSTANTS Candidates,   \* records: [canonical_id, aliases, reserved, roles]
          Normal,       \* identifier -> normalised identifier
          AddedAliases, \* the identifiers add_alias is called with
          Writing,      \* provisioning calls that run at once
          Chains,       \* the actor chains writers authenticate with
          Evidence      \* identity -> score, the evidence a resolution may bring

VARIABLES records,      \* the records stored
          aliases,      \* normalised identifier -> canonical ids
          provisioning, \* the state of each provisioning call
          receipts      \* the provisioning receipts, in order

identityVars == <<records, aliases, provisioning, receipts>>

Identifiers == DOMAIN Normal

Waiting == [at |-> "idle"]

IdentityInit == /\ records = {}
                /\ aliases = [n \in Range(Normal) |-> {}]
                /\ provisioning = [p \in Writing |-> Waiting]
                /\ receipts = <<>>

-----------------------------------------------------------------------------
identifiers(r) == {Normal[i] : i \in r.aliases \cup {r.canonical_id}}

get(id) == {r \in records : r.canonical_id = id}

candidates(n) == aliases[n]

StoreRebinding(r) ==
  /\ records' = records \cup {r}
  /\ aliases' = [n \in DOMAIN aliases |->
                   IF n \in identifiers(r) THEN {r.canonical_id} ELSE aliases[n]]

\* An identical record is a no-op, another one under a known id is refused.
_store(r) ==
  /\ get(r.canonical_id) \subseteq {r}
  /\ records' = records \cup {r}
  /\ aliases' = [n \in DOMAIN aliases |->
                   IF n \in identifiers(r) /\ r \notin records
                   THEN aliases[n] \cup {r.canonical_id} ELSE aliases[n]]

register == \E r \in Candidates :
  /\ get(r.canonical_id) = {} => ~r.reserved
  /\ _store(r)
  /\ UNCHANGED <<provisioning, receipts>>

add_alias == \E r \in records, i \in AddedAliases :
  /\ aliases' = [aliases EXCEPT ![Normal[i]] = @ \cup {r.canonical_id}]
  /\ UNCHANGED <<records, provisioning, receipts>>

-----------------------------------------------------------------------------
\* IdentityProvisioningBoundary.provision.
_require_unregistered_writer(actors) == \A a \in actors : candidates(a) = {}

_require_new_identifiers(r) == /\ get(r.canonical_id) = {}
                               /\ \A n \in identifiers(r) : candidates(n) = {}

\* The writer has authenticated; checks 3 to 5.
Provision(p) == \E r \in Candidates, chain \in Chains :
  LET actors == {Normal[a] : a \in Range(chain)} IN
  /\ provisioning[p] = Waiting
  /\ actors \cap identifiers(r) = {}
  /\ _require_unregistered_writer(actors)
  /\ _require_new_identifiers(r)
  /\ provisioning' = [provisioning EXCEPT ![p] =
                        [at |-> "decide", record |-> r, actors |-> actors]]
  /\ UNCHANGED <<records, aliases, receipts>>

\* Any other effect, and any failure of the authority, is a denial.
_decide(p) ==
  /\ provisioning[p].at = "decide"
  /\ \E permit \in BOOLEAN :
       provisioning' = [provisioning EXCEPT ![p] =
                          IF permit THEN [@ EXCEPT !.at = "write"] ELSE Waiting]
  /\ UNCHANGED <<records, aliases, receipts>>

Written(p) ==
  /\ _store(provisioning[p].record)
  /\ receipts' = Append(receipts, [record |-> provisioning[p].record,
                                   actors |-> provisioning[p].actors])

AdmitUnchecked(p) ==
  /\ provisioning[p].at = "write"
  /\ Written(p)
  /\ provisioning' = [provisioning EXCEPT ![p] = Waiting]

\* Checks 4 and 5 again, and the write, under the registry's lock.
_admit_provisioned(p) ==
  /\ provisioning[p].at = "write"
  /\ IF /\ _require_unregistered_writer(provisioning[p].actors)
        /\ _require_new_identifiers(provisioning[p].record)
     THEN Written(p)
     ELSE UNCHANGED <<records, aliases, receipts>>
  /\ provisioning' = [provisioning EXCEPT ![p] = Waiting]

-----------------------------------------------------------------------------
\* resolve, of a normalised identifier: without evidence every candidate scores 1.
ABSTAIN == "ABSTAIN"

resolve(n, evidence) ==
  LET held == candidates(n)
      score == [c \in held |-> IF c \in DOMAIN evidence THEN evidence[c] ELSE 0]
      ranked == {c \in held : \A d \in held : score[d] <= score[c]}
      runners(c) == {score[d] : d \in held \ {c}} IN
  IF held = {} \/ ~(DOMAIN evidence \subseteq held) THEN ABSTAIN
  ELSE LET best == CHOOSE c \in ranked : TRUE IN
       IF score[best] >= 80 /\ \A s \in runners(best) : score[best] - s >= 10
       THEN best ELSE ABSTAIN

\* IdentityBackedAuthority.resolve: the requester of a named query.
Requester(n) == resolve(n, [c \in candidates(n) |-> 100])

-----------------------------------------------------------------------------
IdentityNext == \/ register \/ add_alias
                \/ \E p \in Writing :
                     Provision(p) \/ _decide(p) \/ _admit_provisioned(p)

-----------------------------------------------------------------------------
\* Provisioning never chains: the actors of a receipt are named neither by its
\* own record nor by any record provisioned before it, and no two receipts bind
\* one identifier, although each call waits for its policy decision without
\* the lock (provision, checks 3 to 5 and 7).
NoProvisioningChain == \A j \in DOMAIN receipts :
  /\ receipts[j].actors \cap identifiers(receipts[j].record) = {}
  /\ \A i \in 1..(j - 1) :
       /\ receipts[j].actors \cap identifiers(receipts[i].record) = {}
       /\ identifiers(receipts[j].record) \cap identifiers(receipts[i].record) = {}

\* An identity once resolved is never reassigned: later registrations and
\* aliases can make it ambiguous, never somebody else's, and what has become
\* ambiguous stays so, without evidence and for evidence that still selects
\* (IdentityRegistry._store, add_alias, resolve); and provisioning never chains.
IdentitySound ==
  [][/\ NoProvisioningChain'
     /\ \A n \in {m \in DOMAIN aliases : aliases[m] # aliases'[m]} :
          LET selected == {e \in Evidence : resolve(n, e) # ABSTAIN} IN
          /\ candidates(n) # {} => Requester(n)' \in {Requester(n), ABSTAIN}
          /\ \A e \in selected : resolve(n, e)' \in {resolve(n, e), ABSTAIN}
    ]_<<aliases, receipts>>
=============================================================================
