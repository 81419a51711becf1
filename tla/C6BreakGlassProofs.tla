-------------------------- MODULE C6BreakGlassProofs --------------------------
(* Theorems about BreakGlassController (C6BreakGlass): every use it returns  *)
(* is on record, inside the one window of its grant, and permitted by the    *)
(* revocations and by the emergency stop at the moment it counts.            *)
EXTENDS C6BreakGlass, SequenceTheorems, TLAPS

Ids == {r.id : r \in Requests}
Kinds == {"GRANTED", "GRANT_WITHDRAWN", "GRANT_DENIED", "REVOKED", "EXPIRED", "USE_DENIED",
          "USE_AUTHORIZED", "USE_WITHDRAWN"}
Entries == [event : Kinds, id : Ids, at : Times]
Moves == [epoch : Int, status : StopStatus, at : Times]

-------------------------------------------------------------------------------
(* The inductive invariant *)

IsCall(c) ==
    c = [op |-> c.op, grant |-> c.grant, cap |-> c.cap, at |-> c.at, locked |-> c.locked,
         normal |-> c.normal, mark |-> c.mark]

\* The sinks hold sequences and sets of events about requested grants, and a
\* call carries a grant that was requested and an instant the clock showed.
RecordsTyped ==
    /\ clock \in Times
    /\ audit \in Seq(Entries)
    /\ \A g \in issued : g.id \in Ids
    /\ call = [t \in Threads |-> call[t]]
    /\ \A t \in Threads : \A c \in call[t] :
         IsCall(c) /\ c.grant.id \in Ids /\ c.at \in Times

StopTyped == epoch \in Int /\ status \in StopStatus /\ history \in Seq(Moves)

\* The stop was NORMAL when the call began or has become so since.
SeenNormal(c) ==
    c.normal \/ \E n \in (c.mark + 1)..Len(history) : history[n].status = "NORMAL"

\* A call of authorize that holds the lock stays in order until it has recorded
\* its use: no revocation can come between, the stop can.
LockedInOrder(c) ==
    /\ c.grant \in issued /\ c.grant.id \notin revoked
    /\ c.grant.at <= c.at /\ c.at < c.grant.until /\ c.cap \in c.grant.caps
    /\ SeenNormal(c)

CallsInOrder ==
    \A t \in Threads : \A c \in call[t] :
      /\ c.locked \in BOOLEAN /\ c.mark \in 0..Len(history)
      /\ status = "NORMAL" => SeenNormal(c)
      /\ c.locked => LockedInOrder(c)

GlassInv == RecordsTyped /\ StopTyped /\ CallsInOrder /\ UsesAccounted


-------------------------------------------------------------------------------
(* Lemmas *)

\* First-order leaves are for Zenon, arithmetic and sequences for the SMT solver.
USE ZenonT(30), SMTT(60)

\* What is on the audit stays there when events are appended, and what is
\* appended is on it.
LEMMA AuditGrows ==
    ASSUME NEW a \in Seq(Entries), NEW b \in Seq(Entries)
    PROVE  a \o b \in Seq(Entries) /\ Range(a \o b) = Range(a) \cup Range(b)
<1>1. a \o b \in Seq(Entries) /\ Len(a \o b) = Len(a) + Len(b)
      /\ Len(a) \in Nat /\ Len(b) \in Nat
  BY SMTT(60)
<1>2. \A i \in 1..Len(a) : (a \o b)[i] = a[i]
  BY SMTT(60)
<1>3. \A i \in 1..Len(b) : (a \o b)[Len(a) + i] = b[i]
  BY SMTT(60)
<1>4. \A i \in 1..Len(a \o b) :
        i \in 1..Len(a) \/ (i - Len(a) \in 1..Len(b) /\ i = Len(a) + (i - Len(a)))
  BY SMTT(60), <1>1
<1>5. Range(a \o b) \subseteq Range(a) \cup Range(b)
  BY SMTT(60), <1>1, <1>2, <1>3, <1>4 DEF Range
<1>6. Range(a) \subseteq Range(a \o b)
  BY SMTT(60), <1>1, <1>2 DEF Range
<1>7. Range(b) \subseteq Range(a \o b)
  <2> SUFFICES ASSUME NEW i \in DOMAIN b PROVE b[i] \in Range(a \o b)
    BY DEF Range
  <2>1. Len(a) + i \in DOMAIN (a \o b)
    BY SMTT(60), <1>1
  <2> QED
    BY SMTT(60), <1>3, <2>1 DEF Range
<1> QED
  BY <1>1, <1>5, <1>6, <1>7

\* One event on its own, in a sequence and as a set.
LEMMA OneEntry ==
    ASSUME NEW kind \in Kinds, NEW id \in Ids, NEW at \in Times
    PROVE  /\ <<Entry(kind, id, at)>> \in Seq(Entries)
           /\ Range(<<Entry(kind, id, at)>>) = {Entry(kind, id, at)}
<1>1. Entry(kind, id, at) \in Entries
  BY DEF Entry, Entries
<1> QED
  BY SMTT(60), <1>1 DEF Range

\* A move of the stop keeps its events, appends one, and reaches NORMAL only
\* with an event that says so.
LEMMA StopStep ==
    ASSUME StopTyped, StopNext
    PROVE  /\ StopTyped'
           /\ Len(history') = Len(history) + 1 /\ Len(history) \in Nat
           /\ \A n \in 1..Len(history) : history'[n] = history[n]
           /\ history'[Len(history) + 1].status = status'
<1>1. PICK at \in StopTimes :
        \E e \in {epoch, epoch + 1}, s \in StopStatus : Accept(e, s, at)
  BY DEF StopNext, StopTyped, activate, finish_draining, confirm_reset, request_reset, StopStatus
<1>2. PICK e \in {epoch, epoch + 1}, s \in StopStatus : Accept(e, s, at)
  BY <1>1
<1>3. [epoch |-> e, status |-> s, at |-> at] \in Moves
  BY SMTT(60), <1>2, StopBounds DEF Moves, Times, StopTyped
<1> QED
  BY SMTT(60), <1>2, <1>3 DEF Accept, StopTyped, Moves

\* Whatever a call has seen of the stop it keeps, and a stop that is NORMAL
\* again is seen by every call that began before.
LEMMA SeenStep ==
    ASSUME StopTyped, StopNext \/ UNCHANGED stop, NEW c, c.mark \in 0..Len(history)
    PROVE  /\ SeenNormal(c) => SeenNormal(c)'
           /\ c.mark \in 0..Len(history')
           /\ (status = "NORMAL" => SeenNormal(c)) => (status' = "NORMAL" => SeenNormal(c)')
<1>1. CASE UNCHANGED stop
  BY <1>1 DEF SeenNormal, stop
<1>2. CASE StopNext
  BY SMTT(60), <1>2, StopStep DEF SeenNormal
<1> QED
  BY <1>1, <1>2

\* When a call ends, the calls still open stay in order: grants are only added,
\* and a grant is revoked only while nobody holds the lock.
LEMMA CallEndsInOrder ==
    ASSUME RecordsTyped, StopTyped, CallsInOrder, NEW t \in Threads, End(t),
           UNCHANGED stop, issued \subseteq issued', Unlocked \/ revoked' = revoked
    PROVE  /\ CallsInOrder'
           /\ call' = [u \in Threads |-> call'[u]]
           /\ \A u \in Threads : \A c \in call'[u] : IsCall(c) /\ c.grant.id \in Ids /\ c.at \in Times
<1>1. call' = [u \in Threads |-> call'[u]] /\ \A u \in Threads : call'[u] \subseteq call[u]
  BY DEF RecordsTyped, End
<1>2. ASSUME NEW u \in Threads, NEW c \in call'[u]
      PROVE  /\ c.locked \in BOOLEAN /\ c.mark \in 0..Len(history')
             /\ status' = "NORMAL" => SeenNormal(c)'
             /\ c.locked => LockedInOrder(c)'
  <2>1. c \in call[u]
    BY <1>1, <1>2
  <2>2. c.locked \in BOOLEAN /\ c.mark \in 0..Len(history)
    BY <2>1 DEF CallsInOrder
  <2>3. c.mark \in 0..Len(history') /\ (status' = "NORMAL" => SeenNormal(c)')
        /\ (SeenNormal(c) => SeenNormal(c)')
    BY <2>1, <2>2, SeenStep DEF CallsInOrder
  <2>4. c.locked => revoked' = revoked
    BY <2>1, <2>2 DEF Unlocked
  <2> QED
    BY <2>1, <2>2, <2>3, <2>4 DEF CallsInOrder, LockedInOrder
<1> QED
  BY <1>1, <1>2 DEF CallsInOrder, RecordsTyped

\* Events appended to the audit, whichever sinks answered, leave every grant and
\* every use that was on record there.
LEMMA OnRecordGrows ==
    ASSUME audit \in Seq(Entries), NEW b \in Seq(Entries), UsesAccounted,
           audit' = audit \/ audit' = audit \o b, alerts \subseteq alerts',
           issued' = issued, uses' = uses
    PROVE  audit' \in Seq(Entries) /\ UsesAccounted'
<1>1. audit' \in Seq(Entries) /\ Range(audit) \subseteq Range(audit')
  BY AuditGrows
<1> QED
  BY <1>1 DEF UsesAccounted, OnRecord, OneWindow

\* No grant, no call and nothing to account for at the start.
LEMMA GlassInit == Init => GlassInv
<1> SUFFICES ASSUME Init PROVE GlassInv
  OBVIOUS
<1>1. RecordsTyped /\ StopTyped /\ CallsInOrder
  BY SMTT(60) DEF Init, StopInit, RecordsTyped, StopTyped, CallsInOrder, StopStatus
<1>2. UsesAccounted
  BY DEF Init, UsesAccounted, OnRecord, OneWindow
<1> QED
  BY <1>1, <1>2 DEF GlassInv

-------------------------------------------------------------------------------
(* The steps *)

\* A call that begins carries the clock's instant and what it saw of the stop.
LEMMA BeginStep ==
    ASSUME GlassInv, NEW t \in Threads, NEW op, NEW g, NEW cap, g.id \in Ids,
           Begin(t, op, g, cap)
    PROVE  GlassInv'
<1> DEFINE new == [op |-> op, grant |-> g, cap |-> cap, at |-> clock, locked |-> FALSE,
                   normal |-> status = "NORMAL", mark |-> Len(history)]
<1>1. /\ call' = [call EXCEPT ![t] = {new}]
      /\ UNCHANGED <<status, epoch, history, clock, issued, revoked, audit, alerts, uses>>
  BY DEF Begin, stop, control
<1>2. \A u \in Threads : \A c \in call'[u] : c \in call[u] \/ c = new
  BY <1>1 DEF GlassInv, RecordsTyped
<1>3. RecordsTyped'
  <2>1. call' = [u \in Threads |-> call'[u]]
    BY <1>1 DEF GlassInv, RecordsTyped
  <2>2. IsCall(new) /\ new.grant.id \in Ids /\ new.at \in Times
    BY DEF GlassInv, RecordsTyped, IsCall
  <2>3. \A u \in Threads : \A c \in call'[u] : IsCall(c) /\ c.grant.id \in Ids /\ c.at \in Times
    BY <1>2, <2>2 DEF GlassInv, RecordsTyped
  <2> QED
    BY <1>1, <2>1, <2>3 DEF GlassInv, RecordsTyped
<1>4. StopTyped' /\ UsesAccounted'
  BY <1>1 DEF GlassInv, StopTyped, UsesAccounted, OnRecord, OneWindow
<1>5. CallsInOrder'
  <2> SUFFICES ASSUME NEW u \in Threads, NEW c \in call'[u]
               PROVE  /\ c.locked \in BOOLEAN /\ c.mark \in 0..Len(history')
                      /\ status' = "NORMAL" => SeenNormal(c)'
                      /\ c.locked => LockedInOrder(c)'
    BY DEF CallsInOrder
  <2>1. CASE c \in call[u]
    BY <1>1, <2>1 DEF GlassInv, CallsInOrder, SeenNormal, LockedInOrder
  <2>2. CASE c = new
    <3>1. c.locked = FALSE /\ c.mark = Len(history) /\ c.normal = (status = "NORMAL")
      BY <2>2
    <3>2. Len(history) \in Nat
      BY SMTT(60) DEF GlassInv, StopTyped
    <3>3. status = "NORMAL" => SeenNormal(c)'
      BY <3>1, Zenon DEF SeenNormal
    <3>4. c.mark \in 0..Len(history')
      BY SMTT(60), <1>1, <3>1, <3>2
    <3>5. c.locked \in BOOLEAN /\ ~c.locked /\ status' = status
      BY <1>1, <3>1
    <3> QED
      BY <3>3, <3>4, <3>5, Zenon
  <2> QED
    BY <1>2, <2>1, <2>2
<1> QED
  BY <1>3, <1>4, <1>5 DEF GlassInv

\* The stop and the clock move under the calls.
LEMMA WorldStep ==
    ASSUME GlassInv, ClockMoves \/ StopMoves
    PROVE  GlassInv'
<1>1. /\ UNCHANGED <<issued, revoked, audit, alerts, call, uses>>
      /\ StopNext \/ UNCHANGED stop
      /\ clock' \in Times
  BY DEF ClockMoves, StopMoves, control, GlassInv, RecordsTyped
<1>2. RecordsTyped' /\ UsesAccounted'
  BY <1>1 DEF GlassInv, RecordsTyped, UsesAccounted, OnRecord, OneWindow
<1>3. StopTyped'
  BY <1>1, StopStep DEF GlassInv, StopTyped, stop
<1>4. ASSUME NEW u \in Threads, NEW c \in call'[u]
      PROVE  /\ c.locked \in BOOLEAN /\ c.mark \in 0..Len(history')
             /\ status' = "NORMAL" => SeenNormal(c)'
             /\ c.locked => LockedInOrder(c)'
  <2>1. c \in call[u]
    BY <1>1, <1>4
  <2>2. /\ c.locked \in BOOLEAN /\ c.mark \in 0..Len(history)
        /\ status = "NORMAL" => SeenNormal(c)
        /\ c.locked => LockedInOrder(c)
    BY <2>1 DEF GlassInv, CallsInOrder
  <2>3. StopTyped
    BY DEF GlassInv
  <2>4. /\ SeenNormal(c) => SeenNormal(c)'
        /\ c.mark \in 0..Len(history')
        /\ status' = "NORMAL" => SeenNormal(c)'
    BY <1>1, <2>2, <2>3, SeenStep
  <2> QED
    BY <1>1, <2>2, <2>4 DEF LockedInOrder
<1> QED
  BY <1>2, <1>3, <1>4 DEF GlassInv, CallsInOrder

\* A call that ends without a use or a grant: it may revoke, and append to the
\* audit what its sink accepts.
LEMMA EndStep ==
    ASSUME GlassInv, NEW t \in Threads, NEW b \in Seq(Entries), End(t),
           UNCHANGED <<status, epoch, history, clock, issued, uses, alerts>>,
           Unlocked \/ revoked' = revoked, audit' = audit \/ audit' = audit \o b
    PROVE  GlassInv'
<1>1. StopTyped' /\ UNCHANGED stop
  BY DEF GlassInv, StopTyped, stop
<1>2. /\ CallsInOrder'
      /\ call' = [u \in Threads |-> call'[u]]
      /\ \A u \in Threads : \A c \in call'[u] : IsCall(c) /\ c.grant.id \in Ids /\ c.at \in Times
  BY <1>1, CallEndsInOrder DEF GlassInv
<1>3. audit' \in Seq(Entries) /\ UsesAccounted'
  BY OnRecordGrows DEF GlassInv, RecordsTyped
<1> QED
  BY <1>1, <1>2, <1>3 DEF GlassInv, RecordsTyped

\* grant registers a grant that is new, audited and alerted, or leaves nothing
\* but audit entries.
LEMMA GrantStep ==
    ASSUME GlassInv, NEW t \in Threads, NEW reg \in Registries, NEW up \in BOOLEAN,
           NEW alert \in BOOLEAN, NEW up2 \in BOOLEAN, grant(t, reg, up, alert, up2)
    PROVE  GlassInv'
<1>1. PICK c \in call[t] : c.op = "grant" /\
         LET g == GrantOf(c.grant, c.at)
             made == <<Entry("GRANTED", g.id, c.at)>>
             gone == <<Entry("GRANT_WITHDRAWN", g.id, c.at)>> IN
         IF ~Acceptable(c.grant, reg)
         THEN Logs(up, <<Entry("GRANT_DENIED", g.id, c.at)>>) /\ UNCHANGED <<issued, alerts>>
         ELSE IF ~up THEN UNCHANGED <<issued, audit, alerts>>
         ELSE IF alert
         THEN issued' = issued \cup {g} /\ alerts' = alerts \cup Range(made) /\ audit' = audit \o made
         ELSE UNCHANGED <<issued, alerts>> /\ audit' = audit \o made \o (IF up2 THEN gone ELSE <<>>)
  BY DEF grant
<1> DEFINE g == GrantOf(c.grant, c.at)
           made == <<Entry("GRANTED", g.id, c.at)>>
           gone == <<Entry("GRANT_WITHDRAWN", g.id, c.at)>>
           denied == <<Entry("GRANT_DENIED", g.id, c.at)>>
<1>2. /\ Unlocked /\ End(t)
      /\ UNCHANGED <<status, epoch, history, clock, revoked, uses>>
  BY DEF grant, stop
<1>3. g.id = c.grant.id /\ g.at = c.at /\ g.id \in Ids /\ c.at \in Times
  BY DEF GrantOf, GlassInv, RecordsTyped
<1>4. /\ made \in Seq(Entries) /\ gone \in Seq(Entries) /\ denied \in Seq(Entries)
      /\ Range(made) = {Entry("GRANTED", g.id, c.at)}
  <2>1. "GRANTED" \in Kinds /\ "GRANT_WITHDRAWN" \in Kinds /\ "GRANT_DENIED" \in Kinds
    BY DEF Kinds
  <2> QED
    BY <1>3, <2>1, OneEntry, Zenon
<1>5. audit \in Seq(Entries)
  BY DEF GlassInv, RecordsTyped
<1>6. CASE ~Acceptable(c.grant, reg)
  BY <1>1, <1>2, <1>4, <1>6, EndStep DEF Logs
<1>7. CASE Acceptable(c.grant, reg) /\ ~up
  BY <1>1, <1>2, <1>4, <1>7, EndStep
<1>8. CASE Acceptable(c.grant, reg) /\ up /\ ~alert
  <2>1. audit' = audit \o made \o (IF up2 THEN gone ELSE <<>>) /\ UNCHANGED <<issued, alerts>>
    BY <1>1, <1>8
  <2>2. PICK rest \in {gone, <<>>} : audit' = (audit \o made) \o rest
    BY <2>1
  <2>3. rest \in Seq(Entries)
    <3>1. <<>> \in Seq(Entries)
      BY SMTT(60)
    <3> QED
      BY <1>4, <3>1, Zenon
  <2>4. (audit \o made) \o rest = audit \o (made \o rest) /\ made \o rest \in Seq(Entries)
    BY SMTT(60), <1>4, <1>5, <2>3, ConcatAssociative
  <2> QED
    BY <1>2, <2>1, <2>2, <2>4, EndStep
<1>9. CASE Acceptable(c.grant, reg) /\ up /\ alert
  <2>1. /\ issued' = issued \cup {g} /\ alerts' = alerts \cup Range(made)
        /\ audit' = audit \o made
    BY <1>1, <1>9
  <2>2. audit' \in Seq(Entries) /\ Range(audit') = Range(audit) \cup Range(made)
    BY <1>4, <1>5, <2>1, AuditGrows
  <2>3. \A h \in issued : h.id # g.id
    BY <1>3, <1>9 DEF Acceptable
  <2>4. OnRecord'
    BY <1>2, <1>3, <1>4, <2>1, <2>2 DEF GlassInv, UsesAccounted, OnRecord
  <2>5. OneWindow'
    BY <1>2, <2>1, <2>3 DEF GlassInv, UsesAccounted, OneWindow
  <2>6. StopTyped' /\ UNCHANGED stop
    BY <1>2 DEF GlassInv, StopTyped, stop
  <2>7. /\ CallsInOrder'
        /\ call' = [u \in Threads |-> call'[u]]
        /\ \A u \in Threads : \A d \in call'[u] : IsCall(d) /\ d.grant.id \in Ids /\ d.at \in Times
    BY <1>2, <2>1, <2>6, CallEndsInOrder DEF GlassInv
  <2>8. RecordsTyped'
    BY <1>2, <1>3, <2>1, <2>2, <2>7 DEF GlassInv, RecordsTyped
  <2> QED
    BY <2>4, <2>5, <2>6, <2>7, <2>8 DEF GlassInv, UsesAccounted
<1> QED
  BY <1>6, <1>7, <1>8, <1>9

\* A revocation, by call or at expiry, and a refusal wait for the lock.
LEMMA RevokeStep ==
    ASSUME GlassInv, NEW t \in Threads, NEW up \in BOOLEAN, revoke(t, up)
    PROVE  GlassInv'
<1>1. PICK c \in call[t] : c.op = "revoke" /\
         IF c.grant \in issued
         THEN /\ revoked' = revoked \cup {c.grant.id}
              /\ Logs(up, <<Entry("REVOKED", c.grant.id, c.at)>>)
         ELSE UNCHANGED <<revoked, audit>>
  BY DEF revoke
<1> DEFINE log == <<Entry("REVOKED", c.grant.id, c.at)>>
<1>2. /\ Unlocked /\ End(t)
      /\ UNCHANGED <<status, epoch, history, clock, issued, uses, alerts>>
  BY DEF revoke, stop
<1>3. c.grant.id \in Ids /\ c.at \in Times /\ "REVOKED" \in Kinds
  BY DEF GlassInv, RecordsTyped, Kinds
<1>4. log \in Seq(Entries)
  BY <1>3, OneEntry
<1>5. audit' = audit \/ audit' = audit \o log
  BY <1>1 DEF Logs
<1> QED
  BY <1>2, <1>4, <1>5, EndStep

\* A refusal alerts the use that was denied, and revokes a grant that expired.
LEMMA RefuseStep ==
    ASSUME GlassInv, NEW t \in Threads, NEW reg \in Registries, NEW up \in BOOLEAN,
           AuthorizeRefuses(t, reg, up)
    PROVE  GlassInv'
<1>1. PICK c \in call[t] :
         LET expired == Live(c) /\ c.at >= c.grant.until
             denied == <<Entry("USE_DENIED", c.grant.id, c.at)>>
         IN IF expired
            THEN /\ revoked' = revoked \cup {c.grant.id}
                 /\ Logs(up, <<Entry("EXPIRED", c.grant.id, c.at)>> \o denied)
            ELSE UNCHANGED revoked /\ Logs(up, denied)
  BY DEF AuthorizeRefuses
<1> DEFINE denied == <<Entry("USE_DENIED", c.grant.id, c.at)>>
           ended == <<Entry("EXPIRED", c.grant.id, c.at)>>
<1>2. /\ Unlocked /\ End(t)
      /\ UNCHANGED <<status, epoch, history, clock, issued, uses, alerts>>
  BY DEF AuthorizeRefuses, stop
<1>3. c.grant.id \in Ids /\ c.at \in Times /\ "USE_DENIED" \in Kinds /\ "EXPIRED" \in Kinds
  BY DEF GlassInv, RecordsTyped, Kinds
<1>4. denied \in Seq(Entries) /\ ended \in Seq(Entries)
  BY <1>3, OneEntry, Zenon
<1>5. ended \o denied \in Seq(Entries)
  BY SMTT(60), <1>4
<1>6. \/ audit' = audit \/ audit' = audit \o denied
      \/ audit' = audit \o (ended \o denied)
  BY <1>1 DEF Logs
<1> HIDE DEF denied, ended
<1> QED
  BY <1>2, <1>4, <1>5, <1>6, EndStep

\* What a call is once a value is set in its locked field.
LEMMA LockedCall ==
    ASSUME NEW c, IsCall(c), NEW held
    PROVE  [c EXCEPT !.locked = held] =
             [op |-> c.op, grant |-> c.grant, cap |-> c.cap, at |-> c.at, locked |-> held,
              normal |-> c.normal, mark |-> c.mark]
<1>1. PICK o, g, cap, at, l, n, m :
        /\ o = c.op /\ g = c.grant /\ cap = c.cap /\ at = c.at /\ n = c.normal /\ m = c.mark
        /\ c = [op |-> o, grant |-> g, cap |-> cap, at |-> at, locked |-> l,
                normal |-> n, mark |-> m]
  BY Zenon DEF IsCall
<1>2. [c EXCEPT !.locked = held] =
        [op |-> o, grant |-> g, cap |-> cap, at |-> at, locked |-> held, normal |-> n, mark |-> m]
  BY SMTT(60), <1>1
<1> QED
  BY <1>1, <1>2, Zenon

\* The lock is taken by a use that is in order while the stop is NORMAL.
LEMMA CheckStep ==
    ASSUME GlassInv, NEW t \in Threads, NEW reg \in Registries, AuthorizeChecks(t, reg)
    PROVE  GlassInv'
<1>1. PICK c \in call[t] :
         Usable(c, reg) /\ call' = [call EXCEPT ![t] = {[c EXCEPT !.locked = TRUE]}]
  BY DEF AuthorizeChecks
<1>2. UNCHANGED <<status, epoch, history, clock, issued, revoked, audit, alerts, uses>>
  BY DEF AuthorizeChecks, stop, control
<1>3. IsCall(c) /\ c.grant.id \in Ids /\ c.at \in Times
  BY DEF GlassInv, RecordsTyped
<1>4. PICK d : d = [op |-> c.op, grant |-> c.grant, cap |-> c.cap, at |-> c.at, locked |-> TRUE,
                    normal |-> c.normal, mark |-> c.mark]
  OBVIOUS
<1>5. call' = [call EXCEPT ![t] = {d}]
  <2>1. [c EXCEPT !.locked = TRUE] = d
    BY <1>3, <1>4, LockedCall
  <2> QED
    BY <1>1, <2>1
<1>6. /\ d.grant = c.grant /\ d.cap = c.cap /\ d.at = c.at /\ d.locked = TRUE
      /\ d.normal = c.normal /\ d.mark = c.mark /\ IsCall(d)
  BY <1>4 DEF IsCall
<1>7. \A u \in Threads : \A x \in call'[u] : x \in call[u] \/ x = d
  BY <1>5 DEF GlassInv, RecordsTyped
<1>8. RecordsTyped'
  <2>1. call' = [u \in Threads |-> call'[u]]
    BY <1>5 DEF GlassInv, RecordsTyped
  <2>2. \A u \in Threads : \A x \in call'[u] : IsCall(x) /\ x.grant.id \in Ids /\ x.at \in Times
    BY <1>3, <1>6, <1>7 DEF GlassInv, RecordsTyped
  <2> QED
    BY <1>2, <2>1, <2>2 DEF GlassInv, RecordsTyped
<1>9. StopTyped' /\ UsesAccounted'
  BY <1>2 DEF GlassInv, StopTyped, UsesAccounted, OnRecord, OneWindow
<1>10. CallsInOrder'
  <2> SUFFICES ASSUME NEW u \in Threads, NEW x \in call'[u]
               PROVE  /\ x.locked \in BOOLEAN /\ x.mark \in 0..Len(history')
                      /\ status' = "NORMAL" => SeenNormal(x)'
                      /\ x.locked => LockedInOrder(x)'
    BY DEF CallsInOrder
  <2>1. CASE x \in call[u]
    BY <1>2, <2>1 DEF GlassInv, CallsInOrder, SeenNormal, LockedInOrder
  <2>2. CASE x = d
    <3>1. c.mark \in 0..Len(history) /\ SeenNormal(c)
      BY <1>1 DEF GlassInv, CallsInOrder, Usable
    <3>2. SeenNormal(d)'
      BY <1>2, <1>6, <3>1, Zenon DEF SeenNormal
    <3>3. /\ c.grant \in issued /\ c.grant.id \notin revoked
          /\ c.grant.at <= c.at /\ c.at < c.grant.until /\ c.cap \in c.grant.caps
      BY <1>1, <1>3 DEF Usable, Live
    <3>4. LockedInOrder(d)'
      BY <1>2, <1>6, <3>2, <3>3 DEF LockedInOrder
    <3>5. d.mark \in 0..Len(history')
      BY <1>2, <1>6, <3>1
    <3> QED
      BY <1>6, <2>2, <3>2, <3>4, <3>5, Zenon
  <2> QED
    BY <1>7, <2>1, <2>2
<1> QED
  BY <1>8, <1>9, <1>10 DEF GlassInv

\* The use that a call returns is audited, alerted and inside its grant.
LEMMA RecordStep ==
    ASSUME GlassInv, NEW t \in Threads, NEW up \in BOOLEAN, NEW alert \in BOOLEAN,
           NEW up2 \in BOOLEAN, AuthorizeRecords(t, up, alert, up2)
    PROVE  GlassInv'
<1>1. PICK c \in call[t] : c.locked /\
         LET used == <<Entry("USE_AUTHORIZED", c.grant.id, c.at)>>
             gone == <<Entry("USE_WITHDRAWN", c.grant.id, c.at)>> IN
         IF ~up THEN UNCHANGED <<audit, alerts, uses>>
         ELSE IF alert
         THEN /\ uses' = uses \cup {[id |-> c.grant.id, cap |-> c.cap, at |-> c.at]}
              /\ alerts' = alerts \cup Range(used) /\ audit' = audit \o used
         ELSE UNCHANGED <<alerts, uses>> /\ audit' = audit \o used \o (IF up2 THEN gone ELSE <<>>)
  BY DEF AuthorizeRecords
<1> DEFINE used == <<Entry("USE_AUTHORIZED", c.grant.id, c.at)>>
           gone == <<Entry("USE_WITHDRAWN", c.grant.id, c.at)>>
<1>2. End(t) /\ UNCHANGED <<status, epoch, history, clock, issued, revoked>>
  BY DEF AuthorizeRecords, stop
<1>3. /\ c.grant.id \in Ids /\ c.at \in Times
      /\ "USE_AUTHORIZED" \in Kinds /\ "USE_WITHDRAWN" \in Kinds
  BY DEF GlassInv, RecordsTyped, Kinds
<1>4. /\ used \in Seq(Entries) /\ gone \in Seq(Entries)
      /\ Range(used) = {Entry("USE_AUTHORIZED", c.grant.id, c.at)}
  BY <1>3, OneEntry, Zenon
<1>5. audit \in Seq(Entries) /\ <<>> \in Seq(Entries)
  BY SMTT(60) DEF GlassInv, RecordsTyped
<1>6. CASE ~up
  BY <1>1, <1>2, <1>4, <1>6, EndStep
<1>7. CASE up /\ ~alert
  <2>1. audit' = audit \o used \o (IF up2 THEN gone ELSE <<>>) /\ UNCHANGED <<alerts, uses>>
    BY <1>1, <1>7
  <2>2. PICK rest \in {gone, <<>>} : audit' = (audit \o used) \o rest
    BY <2>1
  <2>3. rest \in Seq(Entries)
    BY <1>4, <1>5, Zenon
  <2>4. (audit \o used) \o rest = audit \o (used \o rest) /\ used \o rest \in Seq(Entries)
    BY SMTT(60), <1>4, <1>5, <2>3, ConcatAssociative
  <2> QED
    BY <1>2, <2>1, <2>2, <2>4, EndStep
<1>8. CASE up /\ alert
  <2>1. PICK u : u = [id |-> c.grant.id, cap |-> c.cap, at |-> c.at]
    OBVIOUS
  <2>2. uses' = uses \cup {u} /\ alerts' = alerts \cup Range(used) /\ audit' = audit \o used
    BY <1>1, <1>8, <2>1
  <2>3. audit' \in Seq(Entries) /\ Range(audit') = Range(audit) \cup Range(used)
    BY <1>4, <1>5, <2>2, AuditGrows
  <2>4. u.id = c.grant.id /\ u.cap = c.cap /\ u.at = c.at
    BY <2>1
  <2>5. LockedInOrder(c)
    BY <1>1 DEF GlassInv, CallsInOrder
  <2>6. OnRecord'
    BY <1>2, <1>4, <2>2, <2>3, <2>4 DEF GlassInv, UsesAccounted, OnRecord
  <2>7. OneWindow'
    BY <1>2, <2>2, <2>4, <2>5 DEF GlassInv, UsesAccounted, OneWindow, LockedInOrder
  <2>8. StopTyped' /\ UNCHANGED stop
    BY <1>2 DEF GlassInv, StopTyped, stop
  <2>9. /\ CallsInOrder'
        /\ call' = [v \in Threads |-> call'[v]]
        /\ \A v \in Threads : \A d \in call'[v] : IsCall(d) /\ d.grant.id \in Ids /\ d.at \in Times
    BY <1>2, <2>8, CallEndsInOrder DEF GlassInv
  <2>10. RecordsTyped'
    BY <1>2, <2>3, <2>9 DEF GlassInv, RecordsTyped
  <2> QED
    BY <2>6, <2>7, <2>8, <2>9, <2>10 DEF GlassInv, UsesAccounted
<1> QED
  BY <1>6, <1>7, <1>8

\* Every step of the controller and of its surroundings keeps the invariant.
LEMMA GlassStep == GlassInv /\ [Next]_vars => GlassInv'
<1> SUFFICES ASSUME GlassInv, [Next]_vars PROVE GlassInv'
  OBVIOUS
<1>1. CASE UNCHANGED vars
  BY <1>1 DEF vars, stop, control, GlassInv, RecordsTyped, StopTyped, CallsInOrder, SeenNormal,
              LockedInOrder, UsesAccounted, OnRecord, OneWindow, IsCall
<1>2. CASE StopMoves \/ ClockMoves
  BY <1>2, WorldStep
<1>3. ASSUME NEW t \in Threads, NEW r \in Requests, Begin(t, "grant", r, {})
      PROVE  GlassInv'
  BY <1>3, BeginStep DEF Ids
<1>4. \A g \in Presented : g.id \in Ids
  <2> SUFFICES ASSUME NEW g \in issued
               PROVE  g.id \in Ids /\ [g EXCEPT !.until = @ + 1].id \in Ids
    BY DEF Presented
  <2> QED
    BY SMTT(60) DEF GlassInv, RecordsTyped
<1>5. ASSUME NEW t \in Threads, NEW g \in Presented, NEW op, NEW cap, Begin(t, op, g, cap)
      PROVE  GlassInv'
  BY <1>4, <1>5, BeginStep
<1>6. ASSUME NEW t \in Threads, NEW reg \in Registries, NEW up \in BOOLEAN, NEW alert \in BOOLEAN,
             NEW up2 \in BOOLEAN,
             \/ grant(t, reg, up, alert, up2) \/ revoke(t, up) \/ AuthorizeChecks(t, reg)
             \/ AuthorizeRefuses(t, reg, up) \/ AuthorizeRecords(t, up, alert, up2)
      PROVE  GlassInv'
  BY <1>6, GrantStep, RevokeStep, CheckStep, RefuseStep, RecordStep
<1> QED
  BY SMTT(60), <1>1, <1>2, <1>3, <1>5, <1>6 DEF Next

-------------------------------------------------------------------------------
(* Theorems *)

\* The inductive invariant holds throughout.
LEMMA GlassAlways == Spec => []GlassInv
  BY GlassInit, GlassStep, PTL DEF Spec

\* Whatever sinks fail and however the clock is rewound, every grant in force and
\* every use returned is audited and alerted, a grant id has one window for good,
\* and every use lies in it (grant, authorize).
THEOREM GlassUsesAccounted == Spec => []UsesAccounted
<1>1. GlassInv => UsesAccounted
  BY DEF GlassInv
<1> QED
  BY <1>1, GlassAlways, PTL

\* A use returns only while its grant is not revoked, and only if the stop was
\* NORMAL at some moment of its call: a revocation waits for the lock that
\* authorize keeps until it has recorded the use.
LEMMA UseStep ==
    ASSUME GlassInv, [Next]_vars, NEW u \in uses' \ uses
    PROVE  /\ u.id \notin revoked
           /\ \E t \in Threads : \E c \in call[t] :
                c.locked /\ c.grant.id = u.id /\ SeenNormal(c)
<1>1. PICK t \in Threads, up \in BOOLEAN, alert \in BOOLEAN, up2 \in BOOLEAN :
        AuthorizeRecords(t, up, alert, up2)
  <2>1. uses' # uses
    OBVIOUS
  <2>2. Next /\ ~StopMoves /\ ~ClockMoves
    BY <2>1 DEF vars, StopMoves, ClockMoves
  <2>3. ASSUME NEW t \in Threads, NEW op, NEW g, NEW cap PROVE ~Begin(t, op, g, cap)
    BY <2>1 DEF Begin
  <2>4. ASSUME NEW t \in Threads, NEW reg \in Registries, NEW up \in BOOLEAN, NEW alert \in BOOLEAN,
               NEW up2 \in BOOLEAN
        PROVE  /\ ~grant(t, reg, up, alert, up2) /\ ~revoke(t, up)
               /\ ~AuthorizeChecks(t, reg) /\ ~AuthorizeRefuses(t, reg, up)
    BY <2>1 DEF grant, revoke, AuthorizeChecks, AuthorizeRefuses
  <2>5. PICK t \in Threads, reg \in Registries, up \in BOOLEAN, alert \in BOOLEAN, up2 \in BOOLEAN :
          \/ grant(t, reg, up, alert, up2) \/ revoke(t, up) \/ AuthorizeChecks(t, reg)
          \/ AuthorizeRefuses(t, reg, up) \/ AuthorizeRecords(t, up, alert, up2)
    BY SMTT(60), <2>2, <2>3 DEF Next
  <2> QED
    BY <2>4, <2>5
<1>2. PICK c \in call[t] : c.locked /\
        (uses' = uses \/ uses' = uses \cup {[id |-> c.grant.id, cap |-> c.cap, at |-> c.at]})
  BY <1>1 DEF AuthorizeRecords
<1>3. u.id = c.grant.id
  BY SMTT(60), <1>2
<1>4. LockedInOrder(c)
  BY <1>2 DEF GlassInv, CallsInOrder
<1> QED
  BY <1>2, <1>3, <1>4 DEF LockedInOrder

\* Revocation and stop bind every use: what UsesPermitted says of each step.
THEOREM GlassUsesPermitted == Spec => UsesPermitted
<1>1. GlassInv /\ [Next]_vars =>
        [\A u \in uses' \ uses :
           /\ u.id \notin revoked
           /\ \E t \in Threads : \E c \in call[t] :
                /\ c.locked /\ c.grant.id = u.id
                /\ c.normal \/ \E n \in (c.mark + 1)..Len(history) : history[n].status = "NORMAL"]_vars
  BY UseStep, Zenon DEF SeenNormal
<1> QED
  BY <1>1, GlassAlways, PTL DEF Spec, UsesPermitted

===============================================================================
