---------------------------- MODULE C6HumanGate -----------------------------
(* C6: the Human Gate (c6/human_gate.py) over the identity registry of C2.    *)
(* validate filters the signatures, requires the quorum and assigns a         *)
(* distinct human to every required role by augmenting paths.  With a         *)
(* control check (policy I/O, a stop check) the whole validation runs again   *)
(* after it; time passes and records are provisioned in between.              *)
EXTENDS C2Identity, SequencesExt

CONSTANTS Humans,         \* the records that may be provisioned
          PrincipalOrder, \* the principals in the order sorted() lists them
          RoleOrder,      \* the required roles, sorted
          Signatures,     \* [principal, role, fitting, signed_at] that may be brought
          Proposer,       \* never counted
          Minimum,        \* minimum_signatories
          Ttl, MaxInstant

VARIABLES gate, instant

gateVars == <<identityVars, gate, instant>>

\* The signatures of an action, and where its validation is.
GateInit == /\ IdentityInit /\ instant = 0
            /\ gate \in [at : {"idle"}, signatures : SUBSET Signatures]

-----------------------------------------------------------------------------
\* An active human's roles, read from the registry; none otherwise.
_active_human_roles(p) == UNION {r.roles : r \in get(p)}

\* fitting: the signature names this action and this scope.
Counts(s) == /\ s.fitting
             /\ s.principal # Proposer
             /\ s.role \in _active_human_roles(s.principal)
             /\ s.signed_at <= instant /\ instant - s.signed_at < Ttl

role_candidates(signatures, role) ==
  {p \in ToSet(PrincipalOrder) :
     \E s \in signatures : Counts(s) /\ s.principal = p /\ s.role = role}

valid_principals(signatures) == {s.principal : s \in {t \in signatures : Counts(t)}}

NoRole == "none"

\* One candidate after the other; a candidate who holds another role is free
\* when that role can move to a candidate nobody on this path has tried.
RECURSIVE assign(_, _, _)
assign(signatures, role, start) ==
  LET try(acc, p) ==
        IF acc.ok \/ p \in acc.visited \/ p \notin role_candidates(signatures, role)
        THEN acc
        ELSE LET here == [acc EXCEPT !.visited = @ \cup {p}]
                 moved == IF here.held[p] = NoRole THEN [here EXCEPT !.ok = TRUE]
                          ELSE assign(signatures, here.held[p], here)
             IN  IF moved.ok THEN [moved EXCEPT !.held[p] = role] ELSE moved
  IN  FoldLeft(try, start, PrincipalOrder)

FirstFit(signatures) ==
  FoldLeft(LAMBDA held, role :
             LET free == SelectSeq(PrincipalOrder, LAMBDA p :
                           held[p] = NoRole /\ p \in role_candidates(signatures, role))
             IN  IF free = <<>> THEN held ELSE [held EXCEPT ![Head(free)] = role],
           [p \in ToSet(PrincipalOrder) |-> NoRole], RoleOrder)

role_by_principal(signatures) ==
  FoldLeft(LAMBDA held, role :
             assign(signatures, role, [ok |-> FALSE, visited |-> {}, held |-> held]).held,
           [p \in ToSet(PrincipalOrder) |-> NoRole], RoleOrder)

Approves(signatures) ==
  /\ Cardinality(valid_principals(signatures)) >= Minimum
  /\ ToSet(RoleOrder) \subseteq Range(role_by_principal(signatures))

-----------------------------------------------------------------------------
Answers(at) == /\ gate' = [gate EXCEPT !.at = at]
               /\ UNCHANGED <<identityVars, instant>>

Validated(control_check) ==
  IF ~Approves(gate.signatures) THEN "refused"
  ELSE IF control_check THEN "control" ELSE "approved"

validate == /\ gate.at \in {"idle", "refused"}
            /\ \E control_check \in BOOLEAN : Answers(Validated(control_check))

ApprovedBefore == /\ gate.at = "control"
                  /\ Answers("approved")

\* The check refuses, or the fresh validation decides.
ControlCheck == /\ gate.at = "control"
                /\ Answers("idle") \/ Answers(Validated(FALSE))

ClockAdvances == /\ instant < MaxInstant
                 /\ instant' = instant + 1
                 /\ UNCHANGED <<identityVars, gate>>

\* The identity authority changes: provisioned records appear.
Provisioned == /\ \E r \in Humans : r \notin records /\ _store(r)
               /\ UNCHANGED <<provisioning, receipts, gate, instant>>

GateNext == validate \/ ControlCheck \/ ClockAdvances \/ Provisioned

-----------------------------------------------------------------------------
\* What the policy asks for: enough valid signatories, and a way to give every
\* required role to a valid signatory of its own.
DualControl(signatures) ==
  LET roles == ToSet(RoleOrder)
      valid == valid_principals(signatures) IN
  /\ Cardinality(valid) >= Minimum
  /\ \E f \in [roles -> valid] :
       /\ \A r \in roles : f[r] \in role_candidates(signatures, r)
       /\ \A r, q \in roles : f[r] = f[q] => r = q

\* An approval is published exactly when, at the instant and with the records
\* of that very step, every required role can have a distinct valid human: no
\* quorum is falsely rejected by the order of the signatures, and none that
\* lapsed during the control check is approved (validate, assign).
GateExact ==
  [][gate' # gate => /\ gate'.at = "approved" => DualControl(gate.signatures)
                     /\ gate'.at = "refused" => ~DualControl(gate.signatures)]_gateVars
=============================================================================
