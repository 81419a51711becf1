----------------------------- MODULE C6BreakGlass -----------------------------
(***************************************************************************)
(* BreakGlassController (c6/safety.py) next to the emergency stop: grants  *)
(* are issued, used and revoked by threads under the controller's lock,    *)
(* with an audit sink and an alert sink that may fail at every call, a     *)
(* trusted clock that may be rewound, and a registry that changes.         *)
(*                                                                         *)
(* Every operation reads the clock before it takes the lock.  authorize    *)
(* asks the stop inside its own lock; the stop may move before the use is  *)
(* recorded, so the two are separate actions.                              *)
(***************************************************************************)
EXTENDS C6EmergencyStop, FiniteSets, Functions

CONSTANTS
    Requests,       \* [id, requester, approvers, caps, ttl] callers ask for
    Capabilities,
    Forbidden,      \* FORBIDDEN_BREAK_GLASS_CAPABILITIES
    Registries,     \* contents of the identity registry
    Threads,
    MaxTtl,         \* MAX_BREAK_GLASS_TTL
    MaxCalls        \* bound: calls of the controller

ASSUME RegistriesAssumption ==
    Registries \subseteq
      [Principals -> [human : BOOLEAN, active : BOOLEAN, roles : SUBSET {"SDO", "OWNER"}]]
ASSUME ForbiddenAssumption == Forbidden \subseteq Capabilities

VARIABLES
    clock,          \* what TrustedClock.now() returns
    issued,         \* _issued
    revoked,        \* _revoked_grant_ids
    audit,          \* what the audit sink holds, in order
    alerts,         \* what the alert sink delivered
    call,           \* per thread: the call in progress, if any
    uses,           \* history: the BreakGlassUses returned
    calls           \* calls so far

control == <<issued, revoked, audit, alerts>>
vars == <<stop, clock, control, call, uses, calls>>

\* The events about a grant; entry says which of them.
Entry(kind, id, at) == [event |-> kind, id |-> id, at |-> at]

Init ==
    /\ StopInit
    /\ clock \in Times
    /\ issued = {} /\ revoked = {} /\ audit = <<>> /\ alerts = {}
    /\ call = [t \in Threads |-> {}]
    /\ uses = {} /\ calls = 0

Unlocked == \A t \in Threads : \A c \in call[t] : ~c.locked

\* The last events a call appends; up tells whether the audit sink accepts.
Logs(up, events) == audit' = IF up THEN audit \o events ELSE audit

End(t) == call' = [call EXCEPT ![t] = {}]

-------------------------------------------------------------------------------
(* The principals *)

\* _validate_principals returns normally.
validate_principals(reg, requester, approvers) ==
    /\ Cardinality(approvers) = 2 /\ requester \notin approvers
    /\ reg[requester].active
    /\ \A a \in approvers : reg[a].human /\ reg[a].active
    /\ \E a, b \in approvers : a # b /\ "SDO" \in reg[a].roles /\ "OWNER" \in reg[b].roles

-------------------------------------------------------------------------------
(* Operations *)

\* A call of op begins: it reads the clock and waits for the lock.  normal
\* and mark record where the stop stood.
Begin(t, op, g, cap) ==
    /\ call[t] = {}
    /\ calls < MaxCalls
    /\ calls' = calls + 1
    /\ call' = [call EXCEPT ![t] =
         {[op |-> op, grant |-> g, cap |-> cap, at |-> clock, locked |-> FALSE,
           normal |-> status = "NORMAL", mark |-> Len(history)]}]
    /\ UNCHANGED <<stop, clock, control, uses>>

GrantOf(r, at) ==
    [id |-> r.id, requester |-> r.requester, approvers |-> r.approvers, caps |-> r.caps,
     at |-> at, until |-> at + r.ttl]

\* Mutant: a grant id may be issued again (a renewal).
AcceptableAgain(r, reg) ==
    /\ r.caps \cap Forbidden = {}
    /\ validate_principals(reg, r.requester, r.approvers)
    /\ r.ttl \in 1..MaxTtl

Acceptable(r, reg) ==
    /\ \A g \in issued : g.id # r.id
    /\ r.caps \cap Forbidden = {}
    /\ validate_principals(reg, r.requester, r.approvers)
    /\ r.ttl \in 1..MaxTtl

\* grant, from the lock to the end.  A refusal is audited; a sound request is
\* audited, alerted and only then registered, and withdrawn if the alert
\* fails.  up, alert and up2 are the answers of the sinks.
grant(t, reg, up, alert, up2) ==
    /\ Unlocked
    /\ \E c \in call[t] : c.op = "grant" /\
         LET g == GrantOf(c.grant, c.at)
             made == <<Entry("GRANTED", g.id, c.at)>>
             gone == <<Entry("GRANT_WITHDRAWN", g.id, c.at)>> IN
         IF ~Acceptable(c.grant, reg)
         THEN Logs(up, <<Entry("GRANT_DENIED", g.id, c.at)>>) /\ UNCHANGED <<issued, alerts>>
         ELSE IF ~up THEN UNCHANGED <<issued, audit, alerts>>
         ELSE IF alert
         THEN issued' = issued \cup {g} /\ alerts' = alerts \cup Range(made) /\ audit' = audit \o made
         ELSE UNCHANGED <<issued, alerts>> /\ audit' = audit \o made \o (IF up2 THEN gone ELSE <<>>)
    /\ End(t)
    /\ UNCHANGED <<stop, clock, revoked, uses, calls>>

\* Mutant: a revocation does not wait for the lock.
RevokeUnlocked(t, up) ==
    /\ \E c \in call[t] : c.op = "revoke" /\
         IF c.grant \in issued
         THEN /\ revoked' = revoked \cup {c.grant.id}
              /\ Logs(up, <<Entry("REVOKED", c.grant.id, c.at)>>)
         ELSE UNCHANGED <<revoked, audit>>
    /\ End(t)
    /\ UNCHANGED <<stop, clock, issued, alerts, uses, calls>>

\* revoke: it takes effect whatever the audit sink answers.
revoke(t, up) ==
    /\ Unlocked
    /\ \E c \in call[t] : c.op = "revoke" /\
         IF c.grant \in issued
         THEN /\ revoked' = revoked \cup {c.grant.id}
              /\ Logs(up, <<Entry("REVOKED", c.grant.id, c.at)>>)
         ELSE UNCHANGED <<revoked, audit>>
    /\ End(t)
    /\ UNCHANGED <<stop, clock, issued, alerts, uses, calls>>

Live(c) == c.grant \in issued /\ c.grant.id \notin revoked

\* Mutant: authorize does not ask the stop.
UsableAnytime(c, reg) ==
    /\ Live(c) /\ c.at < c.grant.until /\ c.at >= c.grant.at
    /\ c.cap \notin Forbidden /\ c.cap \in c.grant.caps
    /\ validate_principals(reg, c.grant.requester, c.grant.approvers)

Usable(c, reg) ==
    /\ Live(c) /\ c.at < c.grant.until /\ c.at >= c.grant.at
    /\ c.cap \notin Forbidden /\ c.cap \in c.grant.caps
    /\ status = "NORMAL"
    /\ validate_principals(reg, c.grant.requester, c.grant.approvers)

\* authorize takes the lock and finds the use in order.
AuthorizeChecks(t, reg) ==
    /\ Unlocked
    /\ \E c \in call[t] :
         /\ c.op = "authorize" /\ Usable(c, reg)
         /\ call' = [call EXCEPT ![t] = {[c EXCEPT !.locked = TRUE]}]
    /\ UNCHANGED <<stop, clock, control, uses, calls>>

\* authorize refuses; a grant found past its end is revoked for good.
AuthorizeRefuses(t, reg, up) ==
    /\ Unlocked
    /\ \E c \in call[t] :
         /\ c.op = "authorize" /\ ~c.locked /\ ~Usable(c, reg)
         /\ LET expired == Live(c) /\ c.at >= c.grant.until
                denied == <<Entry("USE_DENIED", c.grant.id, c.at)>>
            IN IF expired
               THEN /\ revoked' = revoked \cup {c.grant.id}
                    /\ Logs(up, <<Entry("EXPIRED", c.grant.id, c.at)>> \o denied)
               ELSE UNCHANGED revoked /\ Logs(up, denied)
    /\ End(t)
    /\ UNCHANGED <<stop, clock, issued, alerts, uses, calls>>

\* Mutant: a use whose alert failed is returned all the same.
RecordUnalerted(t, up, alert, up2) ==
    /\ \E c \in call[t] : c.locked /\
         LET used == <<Entry("USE_AUTHORIZED", c.grant.id, c.at)>> IN
         IF ~up THEN UNCHANGED <<audit, alerts, uses>>
         ELSE /\ uses' = uses \cup {[id |-> c.grant.id, cap |-> c.cap, at |-> c.at]}
              /\ alerts' = IF alert THEN alerts \cup Range(used) ELSE alerts
              /\ audit' = audit \o used
    /\ End(t)
    /\ UNCHANGED <<stop, clock, issued, revoked, calls>>

\* The rest of authorize: audit, alert, return; withdrawn if the alert fails.
AuthorizeRecords(t, up, alert, up2) ==
    /\ \E c \in call[t] : c.locked /\
         LET used == <<Entry("USE_AUTHORIZED", c.grant.id, c.at)>>
             gone == <<Entry("USE_WITHDRAWN", c.grant.id, c.at)>> IN
         IF ~up THEN UNCHANGED <<audit, alerts, uses>>
         ELSE IF alert
         THEN /\ uses' = uses \cup {[id |-> c.grant.id, cap |-> c.cap, at |-> c.at]}
              /\ alerts' = alerts \cup Range(used) /\ audit' = audit \o used
         ELSE UNCHANGED <<alerts, uses>> /\ audit' = audit \o used \o (IF up2 THEN gone ELSE <<>>)
    /\ End(t)
    /\ UNCHANGED <<stop, clock, issued, revoked, calls>>

-------------------------------------------------------------------------------

\* The trusted clock moves, backwards too.
ClockMoves == clock' \in Times \ {clock} /\ UNCHANGED <<stop, control, call, uses, calls>>

StopMoves == StopNext /\ UNCHANGED <<clock, control, call, uses, calls>>

\* A caller presents a grant it was given, or one altered since.
Presented == issued \cup {[g EXCEPT !.until = @ + 1] : g \in issued}

Next ==
    \/ StopMoves \/ ClockMoves
    \/ \E t \in Threads :
         \/ \E r \in Requests : Begin(t, "grant", r, {})
         \/ \E g \in Presented : Begin(t, "revoke", g, {})
         \/ \E g \in Presented, cap \in Capabilities : Begin(t, "authorize", g, cap)
         \/ \E reg \in Registries, up, alert, up2 \in BOOLEAN :
              \/ grant(t, reg, up, alert, up2)
              \/ revoke(t, up)
              \/ AuthorizeChecks(t, reg)
              \/ AuthorizeRefuses(t, reg, up)
              \/ AuthorizeRecords(t, up, alert, up2)

Spec == Init /\ [][Next]_vars

-------------------------------------------------------------------------------
(* Properties *)

\* Nothing takes effect off the record: every grant in force and every use
\* returned has its audit entry and its alert, however the sinks failed.
OnRecord ==
    /\ \A g \in issued : Entry("GRANTED", g.id, g.at) \in Range(audit) \cap alerts
    /\ \A u \in uses : Entry("USE_AUTHORIZED", u.id, u.at) \in Range(audit) \cap alerts

\* A grant is never renewed: an id has one grant for good, and every use falls
\* in that grant's window and among its capabilities, whatever the clock did.
OneWindow ==
    /\ \A g, h \in issued : g.id = h.id => g = h
    /\ \A u \in uses : \E g \in issued :
         g.id = u.id /\ g.at <= u.at /\ u.at < g.until /\ u.cap \in g.caps

\* Every use is accounted for and inside its one window: the two facts above.
UsesAccounted == OnRecord /\ OneWindow

\* A revocation, by call or at expiry, precedes no use, and break-glass never
\* overrides a stop: a use returns only while its grant is not revoked, and only
\* if the system was NORMAL at some moment of its call.
UsesPermitted ==
    [][\A u \in uses' \ uses :
         /\ u.id \notin revoked
         /\ \E t \in Threads : \E c \in call[t] :
              /\ c.locked /\ c.grant.id = u.id
              /\ c.normal \/ \E n \in (c.mark + 1)..Len(history) : history[n].status = "NORMAL"]_vars
===============================================================================
