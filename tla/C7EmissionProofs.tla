--------------------------- MODULE C7EmissionProofs ---------------------------
(***************************************************************************)
(* Machine-checked proofs about C7Emission, for any number of actions,     *)
(* aggregates, threads, uses of the lease, crashes and failures of the     *)
(* sink.                                                                   *)
(***************************************************************************)
EXTENDS C7Emission, Integers, FiniteSetTheorems, TLAPS

-------------------------------------------------------------------------------
(* The inductive invariant *)

Event == [action : Actions, aggregate : Aggregates, version : Nat, at : Nat, emitted : Nat]

Stages == {"write", "emit", "sink", "finish", "read", "register"}

Call == [stage : Stages, at : Nat, todo : Seq(Actions), toRegister : Int, read : SUBSET Event]

Done == Range(effects)

\* The store holds one event per action, which passed the gates; the versions
\* of an aggregate do not exceed the number of its events, and what is marked
\* as emitted had its effect.
StoreInv ==
    /\ events \subseteq Event /\ IsFiniteSet(events)
    /\ \A e \in events : e.action \in gated
    /\ \A e, f \in events : e.action = f.action => e = f
    /\ \A e \in events : e.version <= Version(e.aggregate)
    /\ \A e \in events : e.emitted # 0 => e.action \in Done

\* The earlier events of e's aggregate had their effect.
EarlierDone(e) ==
    \A f \in events : f.aggregate = e.aggregate /\ f.version < e.version => f.action \in Done

\* What a call of thread t knows.  Inside the fence it holds the lock; while
\* the sink works on an event, no receipt for it appears and everything before
\* it in its aggregate is done.
CallSound(t, c) ==
    /\ c.todo # <<>>
    /\ c.stage = "write" => \A i \in DOMAIN c.todo : c.todo[i] = Head(c.todo) /\ c.todo[i] \in gated
    /\ c.stage # "write" => \A i \in DOMAIN c.todo : Durable(c.todo[i]) # {}
    /\ c.stage \in {"sink", "finish"} => fence = t
    /\ c.stage = "sink" => /\ Head(c.todo) \notin receipts
                           /\ \A e \in Durable(Head(c.todo)) : EarlierDone(e)
    /\ c.stage = "finish" => Head(c.todo) \in Done
    /\ \A e \in c.read : e.emitted # 0 => e.action \in Done

CallInv ==
    /\ call \in [Threads -> SUBSET Call]
    /\ \A t \in Threads : \A c, d \in call[t] : c = d
    /\ \A t \in Threads : \A c \in call[t] : CallSound(t, c)

\* Thread t is between the effect of a and its receipt.
Finishing(a) == \E t \in Threads : \E c \in call[t] : c.stage = "finish" /\ Head(c.todo) = a

\* A receipt stands for an effect.  An effect beyond one per crash and per failure
\* after the effect is one of this life of the process, and the fence knows of it.
OnceInv ==
    /\ last_version \in [Aggregates -> Nat]
    /\ crashes \in Nat /\ raised \in [Actions -> Nat]
    /\ receipts \subseteq Done
    /\ EffectOnce
    /\ \A a \in Actions : EffectCount(a) > Unknown(a) => a \in receipts \/ Finishing(a)

\* Before an effect, the earlier events of its aggregate had theirs.
OrderInv ==
    \A i \in 1..Len(effects) : \A e \in Durable(effects[i]), f \in events :
       f.aggregate = e.aggregate /\ f.version < e.version =>
         \E k \in 1..(i - 1) : effects[k] = f.action

EffectInv ==
    /\ effects \in Seq(Actions)
    /\ EffectsGated
    /\ OrderInv

Inv == StoreInv /\ CallInv /\ OnceInv /\ EffectInv

\* First-order leaves are for Zenon, arithmetic and sequences for the SMT solver.
USE ZenonT(30), SMTT(60)

-------------------------------------------------------------------------------
(* Operators *)

\* The range of a sequence after an append.
LEMMA AppendRange ==
    ASSUME NEW S, NEW s \in Seq(S), NEW b \in S
    PROVE  /\ Range(s) \subseteq S
           /\ Range(Append(s, b)) = Range(s) \cup {b}
<1>1. Range(s) \subseteq S
    BY SMTT(60) DEF Range
<1>2. DOMAIN Append(s, b) = DOMAIN s \cup {Len(s) + 1}
    BY SMTT(60)
<1>3. /\ Append(s, b)[Len(s) + 1] = b
      /\ \A i \in DOMAIN s : Append(s, b)[i] = s[i]
    BY SMTT(60)
<1> QED
    BY <1>1, <1>2, <1>3 DEF Range

\* How often a value occurs in a sequence after an append.
LEMMA AppendCount ==
    ASSUME NEW s \in Seq(Actions), NEW b \in Actions, NEW a \in Actions
    PROVE  LET t == Append(s, b)
               n == Cardinality({i \in 1..Len(s) : s[i] = a}) IN
           /\ n \in Nat
           /\ Cardinality({i \in 1..Len(t) : t[i] = a}) = IF a = b THEN n + 1 ELSE n
<1> DEFINE t == Append(s, b)
           I == {i \in 1..Len(s) : s[i] = a}
           J == {i \in 1..Len(t) : t[i] = a}
<1>1. Len(s) \in Nat /\ 1..Len(t) = (1..Len(s)) \cup {Len(s) + 1} /\ Len(s) + 1 \notin 1..Len(s)
    BY SMTT(60)
<1>2. t[Len(s) + 1] = b /\ \A i \in 1..Len(s) : t[i] = s[i]
    BY SMTT(60)
<1>3. IsFiniteSet(I)
  <2>1. IsFiniteSet(1..Len(s))
      BY <1>1, FS_Interval, SMTT(60)
  <2> QED
      BY <2>1, FS_Subset
<1>4. Cardinality(I) \in Nat
    BY <1>3, FS_CardinalityType
<1>5. ASSUME a = b PROVE Cardinality(J) = Cardinality(I) + 1
  <2>1. J = I \cup {Len(s) + 1} /\ Len(s) + 1 \notin I
      BY <1>1, <1>2, <1>5
  <2> HIDE DEF I, J
  <2> QED
      BY <1>3, <2>1, FS_AddElement
<1>6. a # b => J = I
    BY <1>1, <1>2
<1>7. Cardinality(J) = IF a = b THEN Cardinality(I) + 1 ELSE Cardinality(I)
  <2> HIDE DEF I, J
  <2> QED
      BY <1>5, <1>6
<1> QED
    BY <1>4, <1>7

\* Replacing an element of a finite set by one that is not in the rest of it.
LEMMA ReplaceElement ==
    ASSUME NEW S, IsFiniteSet(S), NEW e \in S, NEW d, d \notin S \ {e}
    PROVE  /\ IsFiniteSet((S \ {e}) \cup {d})
           /\ Cardinality((S \ {e}) \cup {d}) = Cardinality(S)
<1>1. IsFiniteSet(S \ {e}) /\ Cardinality(S \ {e}) = Cardinality(S) - 1
    BY FS_RemoveElement
<1>2. /\ IsFiniteSet((S \ {e}) \cup {d})
      /\ Cardinality((S \ {e}) \cup {d}) = Cardinality(S \ {e}) + 1
    BY <1>1, FS_AddElement
<1>3. Cardinality(S) \in Nat
    BY FS_CardinalityType
<1> QED
    BY SMTT(60), <1>1, <1>2, <1>3

\* The tail of a list of actions.
LEMMA TailOf ==
    ASSUME NEW S, NEW s \in Seq(S), s # <<>>
    PROVE  /\ Head(s) \in S /\ 1 \in DOMAIN s /\ s[1] = Head(s)
           /\ Tail(s) \in Seq(S)
           /\ \A i \in DOMAIN Tail(s) : i + 1 \in DOMAIN s /\ Tail(s)[i] = s[i + 1]
BY SMTT(60)
-------------------------------------------------------------------------------
(* What a step leaves alone *)

\* The store is empty, nothing runs and nothing happened.
LEMMA InvInit == Init => Inv
<1> SUFFICES ASSUME Init PROVE Inv
    OBVIOUS
<1>1. StoreInv
    BY FS_EmptySet DEF Init, StoreInv
<1>2. CallInv
    BY DEF Init, CallInv
<1>3. effects = <<>> /\ Len(effects) = 0 /\ 1..Len(effects) = {} /\ effects \in Seq(Actions)
    BY SMTT(60) DEF Init
<1>4. \A a : EffectCount(a) = 0
    BY <1>3, FS_EmptySet DEF EffectCount
<1>5. OnceInv
    BY SMTT(60), <1>4 DEF Init, OnceInv, EffectOnce, Unknown
<1>6. Range(effects) = {}
    BY SMTT(60), <1>3 DEF Range
<1>7. EffectInv
    BY <1>3, <1>6 DEF EffectInv, EffectsGated, OrderInv
<1> QED
    BY <1>1, <1>2, <1>5, <1>7 DEF Inv

\* A call that does not move stays sound when nothing it knows is undone.
LEMMA CallKept ==
    ASSUME NEW u \in Threads, NEW c, CallSound(u, c),
           gated \subseteq gated', Done \subseteq Done',
           \A a : Durable(a) # {} => Durable(a)' # {},
           c.stage \in {"sink", "finish"} => fence' = fence,
           c.stage = "sink" => /\ receipts' = receipts
                               /\ (\A e \in Durable(Head(c.todo)) : EarlierDone(e))'
    PROVE  CallSound(u, c)'
BY DEF CallSound

\* One thread's call is replaced.
LEMMA CallsMove ==
    ASSUME CallInv, NEW t \in Threads, NEW N \in SUBSET Call, call' = [call EXCEPT ![t] = N],
           \A c, d \in N : c = d, \A c \in N : CallSound(t, c)',
           \A u \in Threads \ {t} : \A c \in call[u] : CallSound(u, c)'
    PROVE  CallInv'
<1>1. call'[t] = N /\ \A u \in Threads \ {t} : call'[u] = call[u]
    BY DEF CallInv
<1>2. call' \in [Threads -> SUBSET Call]
    BY SMTT(60) DEF CallInv
<1> QED
    BY SMTT(60), <1>1, <1>2 DEF CallInv

\* A thread that does not finish leaves the finishing ones where they are.
LEMMA FinishingKept ==
    ASSUME CallInv, NEW t \in Threads, NEW N, call' = [call EXCEPT ![t] = N],
           \A c \in call[t] : c.stage # "finish", NEW a, Finishing(a)
    PROVE  Finishing(a)'
BY DEF Finishing, CallInv

\* A step of one thread that neither writes the store nor has an effect, and
\* that changes the fence only where nobody else is inside.
LEMMA QuietStep ==
    ASSUME Inv, NEW t \in Threads, NEW N \in SUBSET Call, call' = [call EXCEPT ![t] = N],
           \A c, d \in N : c = d, \A c \in N : CallSound(t, c)',
           \A c \in call[t] : c.stage # "finish",
           UNCHANGED <<events, effects, crashes, raised>>, gated \subseteq gated',
           receipts \subseteq receipts', receipts' \subseteq Done,
           last_version' \in [Aggregates -> Nat],
           fence \in {NoThread, t} \/ UNCHANGED <<fence, receipts>>
    PROVE  Inv'
<1>1. Done' = Done /\ \A a : Durable(a)' = Durable(a)
    BY DEF Done, Durable
<1>2. StoreInv'
    BY <1>1 DEF Inv, StoreInv, Version, Of
<1>3. \A u \in Threads \ {t} : \A c \in call[u] : CallSound(u, c)'
  <2> SUFFICES ASSUME NEW u \in Threads \ {t}, NEW c \in call[u] PROVE CallSound(u, c)'
      OBVIOUS
  <2>1. CallSound(u, c)
      BY DEF Inv, CallInv
  <2>2. c.stage \in {"sink", "finish"} => fence' = fence /\ receipts' = receipts
      BY SMTT(60), <2>1, ThreadAssumption DEF CallSound
  <2>3. c.stage = "sink" => (\A e \in Durable(Head(c.todo)) : EarlierDone(e))'
      BY <1>1, <2>1 DEF CallSound, EarlierDone
  <2> QED
      BY <1>1, <2>1, <2>2, <2>3, CallKept
<1>4. CallInv'
    BY <1>3, CallsMove DEF Inv
<1>5. OnceInv'
  <2>1. \A a \in Actions : Finishing(a) => Finishing(a)'
      BY FinishingKept DEF Inv
  <2>2. \A a : EffectCount(a)' = EffectCount(a)
      BY DEF EffectCount
  <2> QED
      BY <1>1, <2>1, <2>2 DEF Inv, OnceInv, EffectOnce, Unknown
<1>6. EffectInv'
    BY <1>1 DEF Inv, EffectInv, EffectsGated, OrderInv, Done
<1> QED
    BY <1>2, <1>4, <1>5, <1>6 DEF Inv
-------------------------------------------------------------------------------
(* The steps *)

\* A record with the fields of a call, whatever their values.
LEMMA RecordMade ==
    ASSUME NEW S, NEW A, NEW Q, NEW K, NEW R,
           NEW s \in S, NEW x \in A, NEW q \in Q, NEW k \in K, NEW r \in R
    PROVE  [stage |-> s, at |-> x, todo |-> q, toRegister |-> k, read |-> r]
             \in [stage : S, at : A, todo : Q, toRegister : K, read : R]
OBVIOUS

\* Setting fields of such a record keeps it one and changes no other field.
LEMMA RecordSet ==
    ASSUME NEW S, NEW A, NEW Q, NEW K, NEW R,
           NEW c \in [stage : S, at : A, todo : Q, toRegister : K, read : R], NEW s \in S
    PROVE  LET Type == [stage : S, at : A, todo : Q, toRegister : K, read : R] IN
           /\ LET d == [c EXCEPT !.stage = s] IN
              d \in Type /\ d.stage = s /\ d.todo = c.todo /\ d.read = c.read
           /\ \A q \in Q : LET d == [c EXCEPT !.stage = s, !.todo = q] IN
              d \in Type /\ d.stage = s /\ d.todo = q /\ d.read = c.read
           /\ \A r \in R : LET d == [c EXCEPT !.stage = s, !.read = r] IN
              d \in Type /\ d.stage = s /\ d.todo = c.todo /\ d.read = r
           /\ \A k \in K : LET d == [c EXCEPT !.toRegister = k] IN
              d \in Type /\ d.stage = c.stage /\ d.todo = c.todo
           /\ \A r \in R : LET d == [c EXCEPT !.read = r] IN
              d \in Type /\ d.stage = c.stage /\ d.todo = c.todo /\ d.read = r
OBVIOUS

\* A new call is one.
LEMMA NewCall ==
    ASSUME NEW s \in Stages, NEW x \in Times, NEW q \in Seq(Actions), NEW k \in Nat
    PROVE  [stage |-> s, at |-> x, todo |-> q, toRegister |-> k, read |-> {}] \in Call
<1>1. x \in Nat
    BY SMTT(60), BoundsAssumption DEF Times
<1>2. k \in Int
    BY SMTT(60)
<1>3. {} \in SUBSET Event
    OBVIOUS
<1> QED
    BY Zenon, <1>1, <1>2, <1>3, RecordMade DEF Call

\* A call whose stage is set is one.
LEMMA SetStage ==
    ASSUME NEW c \in Call, NEW s \in Stages
    PROVE  LET d == [c EXCEPT !.stage = s] IN
           d \in Call /\ d.stage = s /\ d.todo = c.todo /\ d.read = c.read
BY Zenon, RecordSet DEF Call

\* A call whose stage and list are set is one.
LEMMA SetTodo ==
    ASSUME NEW c \in Call, NEW s \in Stages, NEW q \in Seq(Actions)
    PROVE  LET d == [c EXCEPT !.stage = s, !.todo = q] IN
           d \in Call /\ d.stage = s /\ d.todo = q /\ d.read = c.read
BY Zenon, RecordSet DEF Call

\* A call whose stage and reading are set is one.
LEMMA SetRead ==
    ASSUME NEW c \in Call, NEW s \in Stages, NEW r \in SUBSET Event
    PROVE  LET d == [c EXCEPT !.stage = s, !.read = r] IN
           d \in Call /\ d.stage = s /\ d.todo = c.todo /\ d.read = r
BY Zenon, RecordSet DEF Call

\* A call whose count is set is one.
LEMMA SetRegistered ==
    ASSUME NEW c \in Call, NEW k \in Int
    PROVE  LET d == [c EXCEPT !.toRegister = k] IN
           d \in Call /\ d.stage = c.stage /\ d.todo = c.todo
BY Zenon, RecordSet DEF Call

\* A call that forgets what it read is one.
LEMMA ReadNothing ==
    ASSUME NEW c \in Call
    PROVE  LET d == [c EXCEPT !.read = {}] IN
           d \in Call /\ d.stage = c.stage /\ d.todo = c.todo /\ d.read = {}
<1>1. {} \in SUBSET Event
    OBVIOUS
<1> QED
    BY Zenon, <1>1, RecordSet DEF Call

\* The engine's gates pass or refuse an action.
LEMMA ExecuteStep ==
    ASSUME Inv, NEW t \in Threads, NEW a \in Actions, NEW at \in Times,
           NEW approved \in BOOLEAN, NEW accepted \in BOOLEAN,
           Execute(t, a, at, approved, accepted)
    PROVE  Inv'
<1> DEFINE n == [stage |-> "write", at |-> at, todo |-> <<a>>, toRegister |-> 0, read |-> {}]
<1>1. PICK N \in {{}, {n}} : /\ call' = [call EXCEPT ![t] = N]
                             /\ N = {n} => a \in gated'
  <2>1. CASE UNCHANGED call
    <3>1. call[t] = {} /\ call \in [Threads -> SUBSET Call]
        BY DEF Execute, Inv, CallInv
    <3>2. call' = [call EXCEPT ![t] = {}]
        BY SMTT(60), <2>1, <3>1
    <3> QED
        BY <3>2
  <2>2. CASE Begin(t, "write", at, <<a>>, 0) /\ a \in gated'
      BY <2>2 DEF Begin
  <2> QED
      BY <2>1, <2>2 DEF Execute, Gates
<1>2. n \in Call /\ n.todo # <<>> /\ Head(n.todo) = a /\ \A i \in DOMAIN n.todo : n.todo[i] = a
  <2>1. /\ <<a>> \in Seq(Actions) /\ <<a>> # <<>> /\ Head(<<a>>) = a /\ 0 \in Nat
        /\ \A i \in DOMAIN <<a>> : <<a>>[i] = a
      BY SMTT(60)
  <2>2. n \in Call
      BY <2>1, NewCall DEF Stages
  <2>3. n.todo = <<a>>
      OBVIOUS
  <2> QED
      BY <2>1, <2>2, <2>3
<1>3. \A c \in N : CallSound(t, c)'
  <2>1. n.stage = "write" /\ n.read = {}
      OBVIOUS
  <2> HIDE DEF n
  <2>2. a \in gated' => CallSound(t, n)'
      BY <1>2, <2>1 DEF CallSound
  <2> QED
      BY <1>1, <2>2
<1>4. /\ UNCHANGED <<events, effects, crashes, raised, fence, receipts, last_version>>
      /\ gated \subseteq gated' /\ call[t] = {}
    BY DEF Execute, store, fenced, failures
<1>5. N \in SUBSET Call /\ \A c, d \in N : c = d
    BY <1>1, <1>2
<1> HIDE DEF n
<1> QED
    BY <1>1, <1>3, <1>4, <1>5, QuietStep DEF Inv, OnceInv

\* What a thread does after a call that returned: the next of its list, or nothing.
LEMMA EmittedNext ==
    ASSUME Inv, NEW t \in Threads, NEW c \in call[t], c.stage # "write", Emitted(t, c)
    PROVE  \E N \in SUBSET Call :
              /\ call' = [call EXCEPT ![t] = N]
              /\ \A d, e \in N : d = e
              /\ \A d \in N : /\ d.stage = "emit" /\ d.todo # <<>> /\ d.read = c.read
                              /\ \A i \in DOMAIN d.todo : Durable(d.todo[i]) # {}
<1>1. c \in Call /\ CallSound(t, c)
    BY DEF Inv, CallInv
<1>2. c.todo \in Seq(Actions) /\ c.todo # <<>>
    BY <1>1 DEF Call, CallSound
<1>3. CASE Tail(c.todo) = <<>>
    BY <1>3 DEF Emitted, End
<1>4. CASE Tail(c.todo) # <<>>
  <2> DEFINE n == [c EXCEPT !.stage = "emit", !.todo = Tail(c.todo)]
  <2>1. n \in Call /\ n.stage = "emit" /\ n.todo = Tail(c.todo) /\ n.read = c.read
    <3>1. Tail(c.todo) \in Seq(Actions)
        BY <1>2, TailOf
    <3>2. \A q \in Seq(Actions) : LET d == [c EXCEPT !.stage = "emit", !.todo = q] IN
             d \in Call /\ d.stage = "emit" /\ d.todo = q /\ d.read = c.read
        BY <1>1, SetTodo DEF Stages
    <3> QED
        BY <3>1, <3>2
  <2>2. call' = [call EXCEPT ![t] = {n}]
      BY <1>4 DEF Emitted
  <2>3. \A i \in DOMAIN Tail(c.todo) : Durable(Tail(c.todo)[i]) # {}
      BY SMTT(60), <1>1, <1>2, TailOf DEF CallSound
  <2> HIDE DEF n
  <2> QED
      BY <1>4, <2>1, <2>2, <2>3
<1> QED
    BY <1>3, <1>4
\* A thread's call, taken alone.
LEMMA CallOf ==
    ASSUME Inv, NEW t \in Threads, NEW c \in call[t]
    PROVE  /\ c \in Call /\ CallSound(t, c) /\ \A d \in call[t] : d = c
           /\ c.todo \in Seq(Actions) /\ Head(c.todo) \in Actions
           /\ c.stage = "write" => Head(c.todo) \in gated
           /\ c.stage # "write" => Durable(Head(c.todo)) # {}
<1>1. c \in Call /\ CallSound(t, c) /\ \A d \in call[t] : d = c
    BY DEF Inv, CallInv
<1>2. c.todo \in Seq(Actions) /\ c.todo # <<>>
    BY <1>1 DEF Call, CallSound
<1>3. Head(c.todo) \in Actions /\ 1 \in DOMAIN c.todo /\ c.todo[1] = Head(c.todo)
    BY <1>2, TailOf
<1> QED
    BY <1>1, <1>2, <1>3 DEF CallSound

\* A call returns or raises without a trace in store and sink.
LEMMA EndStep ==
    ASSUME Inv, NEW t \in Threads, End(t), \A c \in call[t] : c.stage # "finish",
           UNCHANGED <<events, effects, crashes, raised, gated>>,
           receipts \subseteq receipts', receipts' \subseteq Done,
           last_version' \in [Aggregates -> Nat],
           fence \in {NoThread, t} \/ UNCHANGED <<fence, receipts>>
    PROVE  Inv'
<1>1. {} \in SUBSET Call /\ call' = [call EXCEPT ![t] = {}]
    BY DEF End
<1> QED
    BY <1>1, QuietStep

\* A new event is the latest of its aggregate.
LEMMA NewEvent ==
    ASSUME StoreInv, NEW a \in Actions, NEW at \in Nat, Durable(a) = {}, a \in gated,
           events' = events \cup {[action |-> a, aggregate |-> AggregateOf[a],
                                   version |-> Version(AggregateOf[a]) + 1, at |-> at, emitted |-> 0]},
           UNCHANGED <<effects, gated>>
    PROVE  /\ StoreInv'
           /\ Durable(a)' # {}
           /\ \A b : Durable(b) # {} => Durable(b)' = Durable(b)
           /\ \A e, f \in events' : e.aggregate = f.aggregate /\ f.version < e.version => f \in events
<1> DEFINE g == AggregateOf[a]
           v == Version(g)
           n == [action |-> a, aggregate |-> g, version |-> v + 1, at |-> at, emitted |-> 0]
<1>1. g \in Aggregates
    BY AggregateAssumption
<1>2. \A h : IsFiniteSet(Of(h)) /\ Version(h) \in Nat
  <2> TAKE h
  <2>1. IsFiniteSet(Of(h))
      BY FS_Subset DEF StoreInv, Of
  <2> QED
      BY <2>1, FS_CardinalityType DEF Version
<1>3. n \in Event /\ n \notin events
    BY SMTT(60), <1>1, <1>2 DEF Event, Durable
<1>4. n.action = a /\ n.aggregate = g /\ n.version = v + 1 /\ n.emitted = 0
    OBVIOUS
<1>5. events' = events \cup {n}
    OBVIOUS
<1>6. ASSUME NEW h
      PROVE  Version(h)' = IF h = g THEN Version(h) + 1 ELSE Version(h)
  <2> HIDE DEF n
  <2>1. h = g => Of(h)' = Of(h) \cup {n} /\ n \notin Of(h)
      BY <1>3, <1>4, <1>5 DEF Of
  <2>2. h # g => Of(h)' = Of(h)
      BY <1>4, <1>5 DEF Of
  <2> QED
      BY <1>2, <2>1, <2>2, FS_AddElement DEF Version
<1>7. Version(g)' = v + 1 /\ \A h : h # g => Version(h)' = Version(h)
    BY <1>6
<1>8. IsFiniteSet(events')
  <2> HIDE DEF n
  <2> QED
      BY SMTT(60), <1>5, FS_AddElement DEF StoreInv
<1>9. \A e \in events : e.action # a /\ e.version \in Nat
    BY DEF StoreInv, Durable, Event
<1>10. Done' = Done
    BY DEF Done
<1>11. \A e \in events : e.aggregate = g => e.version <= v
    BY DEF StoreInv
<1>12. v \in Nat
    BY <1>2
<1> HIDE DEF n, v, g
<1>13. \A e \in events' : e.version <= Version(e.aggregate)'
  <2> SUFFICES ASSUME NEW e \in events' PROVE e.version <= Version(e.aggregate)'
      OBVIOUS
  <2>1. CASE e = n
      BY SMTT(60), <2>1, <1>4, <1>7, <1>12
  <2>2. CASE e \in events /\ e.aggregate = g
      BY SMTT(60), <2>2, <1>7, <1>9, <1>11, <1>12
  <2>3. CASE e \in events /\ e.aggregate # g
      BY <2>3, <1>7 DEF StoreInv
  <2> QED
      BY <1>5, <2>1, <2>2, <2>3
<1>14. StoreInv'
    BY <1>3, <1>4, <1>5, <1>8, <1>9, <1>10, <1>13 DEF StoreInv
<1>15. \A e, f \in events' : e.aggregate = f.aggregate /\ f.version < e.version => f \in events
  <2> SUFFICES ASSUME NEW e \in events, e.aggregate = g, v + 1 < e.version PROVE FALSE
      BY SMTT(60), <1>4, <1>5, <1>12
  <2> QED
      BY SMTT(60), <1>9, <1>11, <1>12
<1>16. Durable(a)' # {} /\ \A b : Durable(b) # {} => Durable(b)' = Durable(b)
    BY <1>4, <1>5 DEF Durable
<1> QED
    BY <1>14, <1>15, <1>16
\* The store writes, replays or refuses.
LEMMA WriteStep ==
    ASSUME Inv, NEW t \in Threads, Write(t)
    PROVE  Inv'
<1>1. PICK c \in call[t] :
        /\ c.stage = "write"
        /\ LET a == Head(c.todo)
               g == AggregateOf[a] IN
           \/ Durable(a) # {} /\ Goto(t, c, "emit") /\ UNCHANGED events
           \/ /\ Durable(a) = {} /\ Goto(t, c, "emit")
              /\ events' = events \cup
                   {[action |-> a, aggregate |-> g, version |-> Version(g) + 1, at |-> c.at, emitted |-> 0]}
           \/ End(t) /\ UNCHANGED events
    BY DEF Write
<1>2. UNCHANGED <<fence, receipts, last_version, effects, gated, crashes, raised>>
    BY DEF Write, fenced, failures
<1>3. /\ c \in Call /\ CallSound(t, c) /\ c.todo \in Seq(Actions) /\ Head(c.todo) \in Actions
      /\ \A d \in call[t] : d = c
    BY CallOf
<1>4. Done' = Done /\ receipts \subseteq Done /\ last_version \in [Aggregates -> Nat]
    BY <1>2 DEF Done, Inv, OnceInv
<1>5. CASE End(t) /\ UNCHANGED events
    BY <1>1, <1>2, <1>3, <1>4, <1>5, EndStep
<1> DEFINE n == [c EXCEPT !.stage = "emit"]
<1>6. n \in Call /\ n.stage = "emit" /\ n.todo = c.todo /\ n.read = c.read
    BY <1>3, SetStage DEF Stages
<1>7. Head(c.todo) \in gated
    BY <1>1, CallOf
<1>8. ASSUME Durable(Head(c.todo))' # {}
      PROVE  CallSound(t, n)'
    BY <1>1, <1>3, <1>4, <1>6, <1>8 DEF CallSound
<1>9. CASE Goto(t, c, "emit") /\ Durable(Head(c.todo)) # {} /\ UNCHANGED events
  <2>1. call' = [call EXCEPT ![t] = {n}] /\ CallSound(t, n)'
      BY <1>8, <1>9 DEF Goto, Durable
  <2> HIDE DEF n
  <2>2. {n} \in SUBSET Call /\ (\A d, e \in {n} : d = e) /\ (\A d \in {n} : CallSound(t, d)')
      BY <1>6, <2>1
  <2> QED
      BY <1>1, <1>2, <1>3, <1>4, <1>9, <2>1, <2>2, QuietStep
<1>10. CASE /\ Goto(t, c, "emit") /\ Durable(Head(c.todo)) = {}
            /\ events' = events \cup
                   {[action |-> Head(c.todo), aggregate |-> AggregateOf[Head(c.todo)],
                     version |-> Version(AggregateOf[Head(c.todo)]) + 1, at |-> c.at, emitted |-> 0]}
  <2>1. c.at \in Nat
      BY <1>3 DEF Call
  <2>2. /\ StoreInv' /\ Durable(Head(c.todo))' # {}
        /\ \A b : Durable(b) # {} => Durable(b)' = Durable(b)
        /\ \A e, f \in events' : e.aggregate = f.aggregate /\ f.version < e.version => f \in events
      BY <1>2, <1>3, <1>7, <1>10, <2>1, NewEvent DEF Inv
  <2>3. call' = [call EXCEPT ![t] = {n}]
      BY <1>10 DEF Goto
  <2>5. CallSound(t, n)'
      BY <1>8, <2>2
  <2> HIDE DEF n
  <2>6. \A u \in Threads \ {t} : \A d \in call[u] : CallSound(u, d)'
    <3> SUFFICES ASSUME NEW u \in Threads \ {t}, NEW d \in call[u] PROVE CallSound(u, d)'
        OBVIOUS
    <3>1. CallSound(u, d) /\ (d.stage = "sink" => Durable(Head(d.todo)) # {})
        BY CallOf
    <3>2. d.stage = "sink" => (\A e \in Durable(Head(d.todo)) : EarlierDone(e))'
        BY <1>4, <2>2, <3>1 DEF CallSound, EarlierDone, Durable
    <3> QED
        BY <1>2, <1>4, <2>2, <3>1, <3>2, CallKept
  <2>7. CallInv'
    <3>1. {n} \in SUBSET Call /\ (\A d, e \in {n} : d = e) /\ (\A d \in {n} : CallSound(t, d)')
        BY <1>6, <2>5
    <3> QED
        BY <2>3, <2>6, <3>1, CallsMove DEF Inv
  <2>8. OnceInv'
    <3>1. \A a \in Actions : Finishing(a) => Finishing(a)'
        BY <1>1, <1>3, <2>3, FinishingKept DEF Inv
    <3>2. \A a : EffectCount(a)' = EffectCount(a)
        BY <1>2 DEF EffectCount
    <3> QED
        BY <1>2, <1>4, <3>1, <3>2 DEF Inv, OnceInv, EffectOnce, Unknown
  <2>9. EffectInv'
    <3>1. \A i \in 1..Len(effects) : effects[i] \in Done
        BY SMTT(60) DEF Done, Range, Inv, EffectInv
    <3>2. \A a \in Done : Durable(a) # {} /\ Durable(a)' = Durable(a)
        BY <2>2 DEF Inv, EffectInv, EffectsGated, Done
    <3>3. EffectsGated'
        BY <1>2, <1>4, <3>2 DEF Inv, EffectInv, EffectsGated, Done
    <3>4. OrderInv'
      <4> SUFFICES ASSUME NEW i \in 1..Len(effects), NEW e \in Durable(effects[i])', NEW f \in events',
                          f.aggregate = e.aggregate, f.version < e.version
                   PROVE  \E k \in 1..(i - 1) : effects[k] = f.action
          BY <1>2 DEF OrderInv
      <4>1. e \in Durable(effects[i]) /\ e \in events'
          BY <1>2, <3>1, <3>2 DEF Durable
      <4>2. f \in events
          BY <2>2, <4>1
      <4> QED
          BY <4>1, <4>2 DEF Inv, EffectInv, OrderInv
    <3> QED
        BY <1>2, <3>3, <3>4 DEF Inv, EffectInv
  <2> QED
      BY <2>2, <2>7, <2>8, <2>9 DEF Inv
<1> QED
    BY <1>1, <1>5, <1>9, <1>10

\* A registration leaves receipts for effects only, and the last version of an
\* emitted event's aggregate not below it.
LEMMA RegisterKeeps ==
    ASSUME OnceInv, NEW e \in Event, Register(e), e.emitted # 0 => e.action \in Done
    PROVE  /\ receipts \subseteq receipts' /\ receipts' \subseteq Done
           /\ last_version' \in [Aggregates -> Nat]
           /\ e.action \notin receipts /\ e.emitted # 0 => e.version <= last_version'[e.aggregate]
<1>1. receipts \subseteq receipts' /\ receipts' \subseteq Done
    BY DEF Register, OnceInv
<1>2. e.aggregate \in Aggregates /\ e.version \in Nat /\ last_version \in [Aggregates -> Nat]
    BY DEF OnceInv, Event
<1>3. last_version' \in [Aggregates -> Nat]
    BY SMTT(60), <1>2 DEF Register
<1>4. e.action \notin receipts /\ e.emitted # 0 => e.version <= last_version'[e.aggregate]
    BY SMTT(60), <1>2 DEF Register
<1> QED
    BY <1>1, <1>3, <1>4

\* emit returns a receipt, raises, or enters the sink with the order checked.
LEMMA EmitEnterStep ==
    ASSUME Inv, NEW t \in Threads, NEW cleared \in BOOLEAN, EmitEnter(t, cleared)
    PROVE  Inv'
<1>0. PICK c \in call[t] : \E e \in Durable(Head(c.todo)) :
        /\ c.stage = "emit"
        /\ \/ Emitted(t, c) /\ UNCHANGED fenced
           \/ End(t) /\ UNCHANGED fenced
           \/ /\ e.action \notin receipts /\ Register(e)
              /\ \/ InOrder(e) /\ fence' = t /\ Goto(t, c, "sink")
                 \/ UNCHANGED fence /\ End(t)
    BY DEF EmitEnter
<1>1. PICK e \in Durable(Head(c.todo)) :
        /\ c.stage = "emit"
        /\ \/ Emitted(t, c) /\ UNCHANGED fenced
           \/ End(t) /\ UNCHANGED fenced
           \/ /\ e.action \notin receipts /\ Register(e)
              /\ \/ InOrder(e) /\ fence' = t /\ Goto(t, c, "sink")
                 \/ UNCHANGED fence /\ End(t)
    BY <1>0
<1>2. fence = NoThread /\ UNCHANGED <<events, effects, gated, crashes, raised>>
    BY DEF EmitEnter, FenceFree, store, failures
<1>3. /\ c \in Call /\ CallSound(t, c) /\ c.todo \in Seq(Actions) /\ Head(c.todo) \in Actions
      /\ \A d \in call[t] : d = c
    BY CallOf
<1>4. /\ Done' = Done /\ \A a : Durable(a)' = Durable(a)
      /\ receipts \subseteq Done /\ last_version \in [Aggregates -> Nat]
    BY <1>2 DEF Done, Durable, Inv, OnceInv
<1>5. /\ e \in Event /\ e \in events /\ e.action = Head(c.todo)
      /\ e.emitted # 0 => e.action \in Done
      /\ \A d \in Durable(Head(c.todo)) : d = e
    BY DEF Durable, Inv, StoreInv
<1>6. CASE Emitted(t, c) /\ UNCHANGED fenced
  <2>1. PICK N \in SUBSET Call :
          /\ call' = [call EXCEPT ![t] = N]
          /\ \A d, f \in N : d = f
          /\ \A d \in N : /\ d.stage = "emit" /\ d.todo # <<>> /\ d.read = c.read
                          /\ \A i \in DOMAIN d.todo : Durable(d.todo[i]) # {}
      BY <1>1, <1>6, EmittedNext
  <2>2. \A d \in N : CallSound(t, d)'
      BY <1>3, <1>4, <2>1 DEF CallSound
  <2>3. UNCHANGED <<receipts, last_version, fence>>
      BY <1>6 DEF fenced
  <2> QED
      BY <1>1, <1>2, <1>3, <1>4, <2>1, <2>2, <2>3, QuietStep
<1>7. CASE End(t) /\ UNCHANGED fenced
    BY <1>1, <1>2, <1>3, <1>4, <1>7, EndStep DEF fenced
<1>8. ASSUME e.action \notin receipts, Register(e)
      PROVE  /\ receipts \subseteq receipts' /\ receipts' \subseteq Done
             /\ last_version' \in [Aggregates -> Nat]
             /\ e.emitted # 0 => e.version <= last_version'[e.aggregate]
    BY <1>5, <1>8, RegisterKeeps DEF Inv
<1>9. CASE e.action \notin receipts /\ Register(e) /\ End(t)
    BY <1>1, <1>2, <1>3, <1>8, <1>9, EndStep
<1>10. CASE /\ e.action \notin receipts /\ Register(e)
            /\ InOrder(e) /\ fence' = t /\ Goto(t, c, "sink")
  <2> DEFINE n == [c EXCEPT !.stage = "sink"]
  <2>1. n \in Call /\ n.stage = "sink" /\ n.todo = c.todo /\ n.read = c.read
      BY <1>3, SetStage DEF Stages
  <2>2. call' = [call EXCEPT ![t] = {n}]
      BY <1>10 DEF Goto
  <2> HIDE DEF n
  <2>3. e.emitted = 0
    <3>1. e.version > last_version'[e.aggregate]
        BY <1>10 DEF InOrder
    <3>2. e.aggregate \in Aggregates /\ e.version \in Nat
        BY <1>5 DEF Event
    <3>3. last_version'[e.aggregate] \in Nat
        BY <1>8, <1>10, <3>2
    <3> QED
        BY SMTT(60), <1>8, <1>10, <3>1, <3>2, <3>3
  <2>4. Head(n.todo) \notin receipts'
      BY <1>5, <1>10, <2>1, <2>3 DEF Register
  <2>5. EarlierDone(e)
      BY <1>8, <1>10 DEF InOrder, EarlierDone, Inv, StoreInv
  <2>6. (\A d \in Durable(Head(n.todo)) : EarlierDone(d))'
      BY <1>2, <1>4, <1>5, <2>1, <2>5 DEF EarlierDone
  <2>7. CallSound(t, n)'
      BY <1>1, <1>3, <1>4, <1>10, <2>1, <2>4, <2>6 DEF CallSound
  <2>8. {n} \in SUBSET Call /\ (\A d, f \in {n} : d = f) /\ (\A d \in {n} : CallSound(t, d)')
      BY <2>1, <2>7
  <2> QED
      BY <1>1, <1>2, <1>3, <1>8, <1>10, <2>2, <2>8, QuietStep
<1> QED
    BY <1>1, <1>6, <1>7, <1>9, <1>10

\* What the fence cannot know of is counted.
LEMMA UnknownType ==
    ASSUME OnceInv, NEW a \in Actions
    PROVE  Unknown(a) \in Nat
<1>1. crashes \in Nat /\ raised[a] \in Nat
    BY DEF OnceInv
<1> QED
    BY SMTT(60), <1>1 DEF Unknown

\* Whoever is inside the fence is alone there.
LEMMA AloneInFence ==
    ASSUME Inv, NEW t \in Threads, fence = t, NEW u \in Threads \ {t}, NEW c \in call[u]
    PROVE  c.stage \notin {"sink", "finish"}
BY CallOf DEF CallSound

\* The sink does the effect: the first that the fence could know of, after all
\* the earlier ones of its aggregate.
LEMMA SinkActsStep ==
    ASSUME Inv, NEW t \in Threads, SinkActs(t)
    PROVE  Inv'
<1>1. PICK c \in call[t] :
        c.stage = "sink" /\ effects' = Append(effects, Head(c.todo)) /\ Goto(t, c, "finish")
    BY DEF SinkActs
<1> DEFINE h == Head(c.todo)
           n == [c EXCEPT !.stage = "finish"]
<1>2. UNCHANGED <<events, fence, receipts, last_version, gated, crashes, raised>>
    BY DEF SinkActs, store, fenced, failures
<1>3. /\ c \in Call /\ CallSound(t, c) /\ h \in Actions /\ Durable(h) # {}
      /\ \A d \in call[t] : d = c
    BY <1>1, CallOf
<1>4. /\ fence = t /\ h \notin receipts /\ \A e \in Durable(h) : EarlierDone(e)
    BY <1>1, <1>3 DEF CallSound
<1>5. effects \in Seq(Actions) /\ Done' = Done \cup {h} /\ \A a : Durable(a)' = Durable(a)
    BY SMTT(60), <1>1, <1>2, <1>3, AppendRange DEF Inv, EffectInv, Done, Durable
<1>6. n \in Call /\ n.stage = "finish" /\ n.todo = c.todo /\ n.read = c.read
    BY <1>3, SetStage DEF Stages
<1>7. call' = [call EXCEPT ![t] = {n}]
    BY <1>1 DEF Goto
<1> HIDE DEF n
<1>8. StoreInv'
    BY <1>2, <1>5 DEF Inv, StoreInv, Version, Of
<1>9. CallInv'
  <2>1. CallSound(t, n)'
      BY <1>1, <1>2, <1>3, <1>4, <1>5, <1>6 DEF CallSound
  <2>2. {n} \in SUBSET Call /\ (\A d, e \in {n} : d = e) /\ (\A d \in {n} : CallSound(t, d)')
      BY <1>6, <2>1
  <2>3. \A u \in Threads \ {t} : \A d \in call[u] : CallSound(u, d)'
    <3> SUFFICES ASSUME NEW u \in Threads \ {t}, NEW d \in call[u] PROVE CallSound(u, d)'
        OBVIOUS
    <3>1. CallSound(u, d) /\ d.stage \notin {"sink", "finish"}
        BY <1>4, AloneInFence, CallOf
    <3> QED
        BY <1>2, <1>5, <3>1, CallKept
  <2> QED
      BY <1>7, <2>2, <2>3, CallsMove DEF Inv
<1>10. OnceInv'
  <2>1. \A a \in Actions : /\ EffectCount(a) \in Nat
                           /\ EffectCount(a)' = IF a = h THEN EffectCount(a) + 1 ELSE EffectCount(a)
    <3> TAKE a \in Actions
    <3> DEFINE q == Append(effects, h)
               I == {i \in 1..Len(effects) : effects[i] = a}
               J == {i \in 1..Len(q) : q[i] = a}
    <3> HIDE DEF h
    <3>1. Cardinality(I) \in Nat /\ Cardinality(J) = IF a = h THEN Cardinality(I) + 1 ELSE Cardinality(I)
        BY Zenon, <1>3, <1>5, AppendCount
    <3>2. EffectCount(a) = Cardinality(I) /\ EffectCount(a)' = Cardinality(J)
        BY <1>1 DEF EffectCount, h
    <3> HIDE DEF I, J
    <3> QED
        BY <3>1, <3>2
  <2>2. ~Finishing(h)
    <3> SUFFICES ASSUME NEW u \in Threads, NEW d \in call[u], d.stage = "finish" PROVE FALSE
        BY DEF Finishing
    <3>1. u = t
        BY <1>4, AloneInFence
    <3> QED
        BY <1>1, <1>3, <3>1
  <2>3. \A a \in Actions : Unknown(a) \in Nat /\ Unknown(a)' = Unknown(a)
      BY <1>2, UnknownType DEF Inv, Unknown
  <2>8. EffectCount(h) <= Unknown(h)
      BY SMTT(60), <1>3, <1>4, <2>1, <2>2, <2>3 DEF Inv, OnceInv
  <2>4. Finishing(h)'
    <3>1. n \in call'[t]
        BY <1>7 DEF Inv, CallInv
    <3> QED
        BY <1>6, <3>1 DEF Finishing
  <2>5. \A a \in Actions : Finishing(a) => Finishing(a)'
      BY <1>1, <1>3, <1>7, FinishingKept DEF Inv
  <2>6. EffectOnce'
      BY SMTT(60), <2>1, <2>3, <2>8 DEF Inv, OnceInv, EffectOnce
  <2>7. (\A a \in Actions : EffectCount(a) > Unknown(a) => a \in receipts \/ Finishing(a))'
      BY <1>2, <2>1, <2>3, <2>4, <2>5 DEF Inv, OnceInv
  <2> QED
      BY <1>2, <1>5, <2>6, <2>7 DEF Inv, OnceInv
<1>11. EffectInv'
  <2>1. effects' \in Seq(Actions)
      BY SMTT(60), <1>1, <1>3, <1>5
  <2>2. EffectsGated'
    <3>1. h \in gated
        BY <1>3 DEF Inv, StoreInv, Durable
    <3> QED
        BY <1>2, <1>3, <1>5, <3>1 DEF Inv, EffectInv, EffectsGated, Done
  <2>3. /\ Len(effects) \in Nat /\ Len(effects') = Len(effects) + 1 /\ effects'[Len(effects) + 1] = h
        /\ \A i \in 1..Len(effects) : effects'[i] = effects[i]
      BY SMTT(60), <1>1, <1>3, <1>5
  <2>4. OrderInv'
    <3> SUFFICES ASSUME NEW i \in 1..Len(effects'), NEW e \in Durable(effects'[i]), NEW f \in events,
                        f.aggregate = e.aggregate, f.version < e.version
                 PROVE  \E k \in 1..(i - 1) : effects'[k] = f.action
        BY <1>2, <1>5 DEF OrderInv
    <3>1. CASE i \in 1..Len(effects)
      <4>1. PICK k \in 1..(i - 1) : effects[k] = f.action
          BY <2>3, <3>1 DEF Inv, EffectInv, OrderInv
      <4>2. k \in 1..Len(effects)
          BY SMTT(60), <2>3, <3>1
      <4> QED
          BY <2>3, <4>1, <4>2
    <3>2. CASE i = Len(effects) + 1
      <4>1. f.action \in Done
          BY <1>4, <2>3, <3>2 DEF EarlierDone
      <4>2. PICK k \in 1..Len(effects) : effects[k] = f.action
          BY SMTT(60), <1>5, <4>1 DEF Done, Range
      <4>3. k \in 1..(i - 1)
          BY SMTT(60), <2>3, <3>2
      <4> QED
          BY <2>3, <4>2, <4>3
    <3> QED
        BY SMTT(60), <2>3, <3>1, <3>2
  <2> QED
      BY <2>1, <2>2, <2>4 DEF EffectInv
<1> QED
    BY <1>8, <1>9, <1>10, <1>11 DEF Inv

\* The sink raises: the event stays pending.
LEMMA SinkFailsStep ==
    ASSUME Inv, NEW t \in Threads, SinkFails(t)
    PROVE  Inv'
<1>1. PICK c \in call[t] : c.stage = "sink"
    BY DEF SinkFails
<1>2. CallSound(t, c) /\ \A d \in call[t] : d = c
    BY CallOf
<1>3. fence = t /\ receipts \subseteq Done /\ last_version \in [Aggregates -> Nat]
    BY <1>1, <1>2 DEF CallSound, Inv, OnceInv
<1>4. End(t) /\ UNCHANGED <<events, effects, crashes, raised, gated, receipts, last_version>>
    BY DEF SinkFails, store, failures
<1> QED
    BY <1>1, <1>2, <1>3, <1>4, EndStep

\* The sink raises after the effect: no receipt, and one effect more that the
\* fence does not know of.
LEMMA SinkRaisesStep ==
    ASSUME Inv, NEW t \in Threads, SinkRaises(t)
    PROVE  Inv'
<1>1. PICK c \in call[t] :
        c.stage = "finish" /\ raised' = [raised EXCEPT ![Head(c.todo)] = @ + 1]
    BY DEF SinkRaises
<1> DEFINE h == Head(c.todo)
<1>2. /\ call' = [call EXCEPT ![t] = {}]
      /\ UNCHANGED <<events, effects, crashes, gated, receipts, last_version>>
    BY DEF SinkRaises, End, store
<1>3. CallSound(t, c) /\ h \in Actions /\ \A d \in call[t] : d = c
    BY CallOf
<1>4. fence = t
    BY <1>1, <1>3 DEF CallSound
<1>5. Done' = Done /\ \A a : Durable(a)' = Durable(a) /\ EffectCount(a)' = EffectCount(a)
    BY <1>2 DEF Done, Durable, EffectCount
<1>6. StoreInv' /\ EffectInv'
    BY SMTT(60), <1>2
    DEF Inv, StoreInv, Version, Of, EffectInv, EffectsGated, OrderInv, Durable, Done
<1>7. CallInv'
  <2>1. \A u \in Threads \ {t} : \A d \in call[u] : CallSound(u, d)'
    <3> SUFFICES ASSUME NEW u \in Threads \ {t}, NEW d \in call[u] PROVE CallSound(u, d)'
        OBVIOUS
    <3>1. CallSound(u, d) /\ d.stage \notin {"sink", "finish"}
        BY <1>4, AloneInFence, CallOf
    <3> QED
        BY <1>2, <1>5, <3>1, CallKept
  <2>2. {} \in SUBSET Call
      OBVIOUS
  <2> QED
      BY <1>2, <2>1, <2>2, CallsMove DEF Inv
<1>8. OnceInv'
  <2>1. raised \in [Actions -> Nat] /\ crashes \in Nat /\ \A a \in Actions : EffectCount(a) \in Nat
    <3>1. effects \in Seq(Actions)
        BY DEF Inv, EffectInv
    <3>2. \A a \in Actions : EffectCount(a) \in Nat
        BY Zenon, <3>1, AppendCount DEF EffectCount
    <3> QED
        BY <3>2 DEF Inv, OnceInv
  <2>2. raised' \in [Actions -> Nat]
    <3>1. raised[h] + 1 \in Nat
        BY SMTT(60), <1>3, <2>1
    <3> HIDE DEF h
    <3>2. raised' = [raised EXCEPT ![h] = raised[h] + 1]
        BY <1>1 DEF h
    <3> QED
        BY SMTT(60), <1>3, <2>1, <3>1, <3>2
  <2>3. raised'[h] = raised[h] + 1 /\ \A a \in Actions \ {h} : raised'[a] = raised[a]
      BY SMTT(60), <1>1, <1>3, <2>1
  <2>4. \A a \in Actions : Unknown(a) \in Nat
      BY UnknownType DEF Inv
  <2>5. Unknown(h)' = Unknown(h) + 1
    <3>1. raised[h] \in Nat
        BY <1>3, <2>1
    <3> QED
        BY SMTT(60), <1>2, <2>1, <2>3, <3>1 DEF Unknown
  <2>6. \A a \in Actions \ {h} : Unknown(a)' = Unknown(a)
      BY <1>2, <2>3 DEF Unknown
  <2>7. \A a : Finishing(a) => a = h
      BY <1>3, <1>4, AloneInFence DEF Finishing
  <2>8. EffectOnce
      BY DEF Inv, OnceInv
  <2> HIDE DEF h
  <2>9. EffectOnce' /\ ~(EffectCount(h)' > Unknown(h)')
      BY SMTT(60), <1>3, <1>5, <2>1, <2>4, <2>5, <2>6, <2>8 DEF EffectOnce
  <2>10. \A a \in Actions \ {h} : EffectCount(a)' > Unknown(a)' => a \in receipts'
      BY <1>2, <1>5, <2>6, <2>7 DEF Inv, OnceInv
  <2> QED
      BY <1>2, <1>5, <2>1, <2>2, <2>9, <2>10 DEF Inv, OnceInv
<1> QED
    BY <1>6, <1>7, <1>8 DEF Inv

\* Marking an event as emitted changes nothing else of it.
LEMMA MarkedEvent ==
    ASSUME StoreInv, NEW e \in events, NEW at \in Nat, e.action \in Done,
           mark_emitted(e, at), UNCHANGED <<effects, gated>>
    PROVE  /\ StoreInv'
           /\ \A a : Durable(a) # {} => Durable(a)' # {}
           /\ \A f \in events' : \E g \in events :
                g.action = f.action /\ g.aggregate = f.aggregate /\ g.version = f.version
<1> DEFINE x == IF e.emitted = 0 THEN at ELSE e.emitted
           n == [e EXCEPT !.emitted = x]
<1>1. e \in Event
    BY DEF StoreInv
<1>2. x \in Nat
    BY <1>1 DEF Event
<1>3. /\ n \in Event
      /\ n.action = e.action /\ n.aggregate = e.aggregate /\ n.version = e.version
  <2> HIDE DEF x
  <2> QED
      BY SMTT(60), <1>1, <1>2 DEF Event
<1>4. events' = (events \ {e}) \cup {n}
    BY DEF mark_emitted
<1> HIDE DEF n
<1>5. n \notin events \ {e}
    BY <1>3 DEF StoreInv
<1>6. IsFiniteSet(events')
    BY <1>4, <1>5, ReplaceElement DEF StoreInv
<1>7. ASSUME NEW h PROVE Version(h)' = Version(h)
  <2>1. IsFiniteSet(Of(h))
      BY FS_Subset DEF StoreInv, Of
  <2>2. CASE h = e.aggregate
    <3>1. e \in Of(h) /\ Of(h)' = (Of(h) \ {e}) \cup {n} /\ n \notin Of(h) \ {e}
        BY <1>3, <1>4, <1>5, <2>2 DEF Of
    <3> QED
        BY SMTT(60), <2>1, <3>1, ReplaceElement DEF Version
  <2>3. CASE h # e.aggregate
    <3>1. Of(h)' = Of(h)
        BY <1>3, <1>4, <2>3 DEF Of
    <3> QED
        BY <3>1 DEF Version
  <2> QED
      BY <2>2, <2>3
<1>8. Done' = Done
    BY DEF Done
<1>9. StoreInv'
    BY <1>3, <1>4, <1>6, <1>7, <1>8 DEF StoreInv
<1>10. \A a : Durable(a) # {} => Durable(a)' # {}
    BY <1>3, <1>4 DEF Durable
<1>11. \A f \in events' : \E g \in events :
          g.action = f.action /\ g.aggregate = f.aggregate /\ g.version = f.version
    BY <1>3, <1>4
<1> QED
    BY <1>9, <1>10, <1>11

\* After the effect: the event is marked, the receipt appears and the lock is free.
LEMMA EmitFinishStep ==
    ASSUME Inv, NEW t \in Threads, EmitFinish(t)
    PROVE  Inv'
<1>1. PICK c \in call[t] : \E e \in Durable(Head(c.todo)) :
        /\ c.stage = "finish"
        /\ mark_emitted(e, c.at)
        /\ receipts' = receipts \cup {e.action}
        /\ last_version' = [last_version EXCEPT ![e.aggregate] = e.version]
        /\ Emitted(t, c)
    BY DEF EmitFinish
<1>2. PICK e \in Durable(Head(c.todo)) :
        /\ c.stage = "finish"
        /\ mark_emitted(e, c.at)
        /\ receipts' = receipts \cup {e.action}
        /\ last_version' = [last_version EXCEPT ![e.aggregate] = e.version]
        /\ Emitted(t, c)
    BY <1>1
<1>3. fence' = NoThread /\ UNCHANGED <<effects, gated, crashes, raised>>
    BY DEF EmitFinish, failures
<1>4. c \in Call /\ CallSound(t, c) /\ \A d \in call[t] : d = c
    BY CallOf
<1>5. fence = t /\ Head(c.todo) \in Done /\ Done' = Done
    BY <1>2, <1>3, <1>4 DEF CallSound, Done
<1>6. e \in events /\ e \in Event /\ e.action = Head(c.todo) /\ c.at \in Nat
    BY <1>4 DEF Durable, Inv, StoreInv, Call
<1>7. /\ StoreInv'
      /\ \A a : Durable(a) # {} => Durable(a)' # {}
      /\ \A f \in events' : \E g \in events :
           g.action = f.action /\ g.aggregate = f.aggregate /\ g.version = f.version
    BY <1>2, <1>3, <1>5, <1>6, MarkedEvent DEF Inv
<1>8. CallInv'
  <2>1. PICK N \in SUBSET Call :
          /\ call' = [call EXCEPT ![t] = N]
          /\ \A d, f \in N : d = f
          /\ \A d \in N : /\ d.stage = "emit" /\ d.todo # <<>> /\ d.read = c.read
                          /\ \A i \in DOMAIN d.todo : Durable(d.todo[i]) # {}
      BY <1>2, EmittedNext
  <2>2. \A d \in N : CallSound(t, d)'
      BY <1>4, <1>5, <1>7, <2>1 DEF CallSound
  <2>3. \A u \in Threads \ {t} : \A d \in call[u] : CallSound(u, d)'
    <3> SUFFICES ASSUME NEW u \in Threads \ {t}, NEW d \in call[u] PROVE CallSound(u, d)'
        OBVIOUS
    <3>1. CallSound(u, d) /\ d.stage \notin {"sink", "finish"}
        BY <1>5, AloneInFence, CallOf
    <3> QED
        BY <1>3, <1>5, <1>7, <3>1, CallKept
  <2> QED
      BY <2>1, <2>2, <2>3, CallsMove DEF Inv
<1>9. OnceInv'
  <2>1. last_version' \in [Aggregates -> Nat]
      BY SMTT(60), <1>2, <1>6 DEF Inv, OnceInv, Event
  <2>2. receipts' \subseteq Done
      BY <1>2, <1>5, <1>6 DEF Inv, OnceInv
  <2>3. \A a : Finishing(a) => a = Head(c.todo)
      BY <1>4, <1>5, AloneInFence DEF Finishing
  <2>4. \A a : EffectCount(a)' = EffectCount(a)
      BY <1>3 DEF EffectCount
  <2> QED
      BY <1>2, <1>3, <1>5, <1>6, <2>1, <2>2, <2>3, <2>4 DEF Inv, OnceInv, EffectOnce, Unknown
<1>10. EffectInv'
  <2>1. EffectsGated'
      BY <1>3, <1>5, <1>7 DEF Inv, EffectInv, EffectsGated, Done
  <2>2. OrderInv'
    <3> SUFFICES ASSUME NEW i \in 1..Len(effects), NEW d \in events', d.action = effects[i],
                        NEW f \in events', f.aggregate = d.aggregate, f.version < d.version
                 PROVE  \E k \in 1..(i - 1) : effects[k] = f.action
        BY <1>3 DEF OrderInv, Durable
    <3>1. PICK d0 \in events :
            d0.action = d.action /\ d0.aggregate = d.aggregate /\ d0.version = d.version
        BY <1>7
    <3>2. PICK f0 \in events :
            f0.action = f.action /\ f0.aggregate = f.aggregate /\ f0.version = f.version
        BY <1>7
    <3> QED
        BY SMTT(60), <3>1, <3>2 DEF Inv, EffectInv, OrderInv, Durable
  <2> QED
      BY <1>3, <2>1, <2>2 DEF Inv, EffectInv
<1> QED
    BY <1>7, <1>8, <1>9, <1>10 DEF Inv

\* drain's snapshot lists durable events.
LEMMA DrainStep ==
    ASSUME Inv, NEW t \in Threads, NEW at \in Times, Drain(t, at)
    PROVE  Inv'
<1> DEFINE P == {e \in events : e.emitted = 0}
           m == Cardinality(P)
<1>1. PICK order \in Injection(1..m, P) :
        Begin(t, "read", at, [i \in 1..Len(order) |-> order[i].action], Len(order))
    BY DEF Drain
<1>2. /\ P # {} /\ call[t] = {}
      /\ UNCHANGED <<events, fence, receipts, last_version, effects, gated, crashes, raised>>
    BY DEF Drain, store, fenced, failures
<1>3. m \in Nat /\ m # 0
  <2>1. IsFiniteSet(P)
      BY FS_Subset DEF Inv, StoreInv
  <2> HIDE DEF P
  <2> QED
      BY <1>2, <2>1, FS_EmptySet, FS_CardinalityType
<1>4. order \in [1..m -> P]
    BY DEF Injection
<1>5. P \subseteq events /\ P \subseteq Event
    BY DEF Inv, StoreInv
<1> DEFINE todo == [i \in 1..Len(order) |-> order[i].action]
           n == [stage |-> "read", at |-> at, todo |-> todo, toRegister |-> Len(order), read |-> {}]
<1> HIDE DEF m, P
<1>6. Len(order) = m
    BY SMTT(60), <1>3, <1>4
<1>7. \A i \in 1..m : order[i].action \in Actions /\ Durable(order[i].action) # {}
    BY SMTT(60), <1>4, <1>5 DEF Event, Durable
<1>8. todo \in Seq(Actions) /\ DOMAIN todo = 1..m /\ Len(todo) = m
    BY SMTT(60), <1>3, <1>6, <1>7
<1>9. todo # <<>>
    BY SMTT(60), <1>3, <1>8
<1>10. \A i \in DOMAIN todo : Durable(todo[i]) # {}
    BY <1>6, <1>7, <1>8
<1>11. call' = [call EXCEPT ![t] = {n}]
    BY <1>1 DEF Begin
<1> HIDE DEF todo
<1>12. n \in Call /\ n.stage = "read" /\ n.todo = todo /\ n.read = {}
  <2>1. n \in Call
      BY <1>3, <1>6, <1>8, NewCall DEF Stages
  <2> QED
      BY <2>1
<1> HIDE DEF n
<1>13. CallSound(t, n)'
    BY <1>2, <1>9, <1>10, <1>12 DEF CallSound, Durable
<1>14. {n} \in SUBSET Call /\ (\A d, e \in {n} : d = e) /\ (\A d \in {n} : CallSound(t, d)')
    BY <1>12, <1>13
<1>15. receipts \subseteq Done /\ last_version \in [Aggregates -> Nat]
    BY DEF Inv, OnceInv
<1> QED
    BY <1>2, <1>11, <1>14, <1>15, QuietStep

\* drain reads an event again before it registers it.
LEMMA DrainReadStep ==
    ASSUME Inv, NEW t \in Threads, DrainRead(t)
    PROVE  Inv'
<1>1. PICK c \in call[t] : c.stage = "read" /\ \E a :
         call' = [call EXCEPT ![t] = {[c EXCEPT !.stage = "register", !.read = Durable(a)]}]
    BY DEF DrainRead
<1>2. PICK r : /\ \E a : r = Durable(a)
               /\ call' = [call EXCEPT ![t] = {[c EXCEPT !.stage = "register", !.read = r]}]
    BY <1>1
<1>3. UNCHANGED <<events, fence, receipts, last_version, effects, gated, crashes, raised>>
    BY DEF DrainRead, store, fenced, failures
<1>4. c \in Call /\ CallSound(t, c) /\ \A d \in call[t] : d = c
    BY CallOf
<1>5. r \in SUBSET Event /\ \A e \in r : e.emitted # 0 => e.action \in Done
    BY <1>2 DEF Durable, Inv, StoreInv
<1>6. Done' = Done /\ receipts \subseteq Done /\ last_version \in [Aggregates -> Nat]
    BY <1>3 DEF Done, Inv, OnceInv
<1> DEFINE n == [c EXCEPT !.stage = "register", !.read = r]
<1>7. n \in Call /\ n.stage = "register" /\ n.todo = c.todo /\ n.read = r
    BY <1>4, <1>5, SetRead DEF Stages
<1>8. call' = [call EXCEPT ![t] = {n}]
    BY <1>2
<1> HIDE DEF n
<1>9. CallSound(t, n)'
  <2>1. \A b : Durable(b)' = Durable(b)
      BY <1>3 DEF Durable
  <2> QED
      BY <1>1, <1>4, <1>5, <1>6, <1>7, <2>1 DEF CallSound
<1>10. {n} \in SUBSET Call /\ (\A d, e \in {n} : d = e) /\ (\A d \in {n} : CallSound(t, d)')
    BY <1>7, <1>9
<1> QED
    BY <1>1, <1>3, <1>4, <1>6, <1>8, <1>10, QuietStep

\* ... and registers what it read, maybe stale by now.
LEMMA DrainRegisterStep ==
    ASSUME Inv, NEW t \in Threads, DrainRegister(t)
    PROVE  Inv'
<1>1. PICK c \in call[t] : \E e \in c.read :
        /\ c.stage = "register"
        /\ \/ UNCHANGED <<registered, receipts, last_version>> /\ End(t)
           \/ /\ Register(e)
              /\ call' = [call EXCEPT ![t] =
                   {[c EXCEPT !.stage = IF c.toRegister = 1 THEN "emit" ELSE "read",
                              !.toRegister = @ - 1, !.read = {}]}]
    BY DEF DrainRegister
<1>2. PICK e \in c.read :
        /\ c.stage = "register"
        /\ \/ UNCHANGED <<registered, receipts, last_version>> /\ End(t)
           \/ /\ Register(e)
              /\ call' = [call EXCEPT ![t] =
                   {[c EXCEPT !.stage = IF c.toRegister = 1 THEN "emit" ELSE "read",
                              !.toRegister = @ - 1, !.read = {}]}]
    BY <1>1
<1>3. fence = NoThread /\ UNCHANGED <<events, fence, effects, gated, crashes, raised>>
    BY DEF DrainRegister, FenceFree, store, failures
<1>4. c \in Call /\ CallSound(t, c) /\ \A d \in call[t] : d = c
    BY CallOf
<1>5. /\ Done' = Done /\ \A a : Durable(a)' = Durable(a)
      /\ receipts \subseteq Done /\ last_version \in [Aggregates -> Nat]
    BY <1>3 DEF Done, Durable, Inv, OnceInv
<1>6. CASE UNCHANGED <<registered, receipts, last_version>> /\ End(t)
    BY <1>2, <1>3, <1>4, <1>5, <1>6, EndStep
<1> DEFINE s == IF c.toRegister = 1 THEN "emit" ELSE "read"
           k == c.toRegister - 1
           n == [c EXCEPT !.stage = s, !.toRegister = k, !.read = {}]
<1>7. CASE Register(e) /\ call' = [call EXCEPT ![t] = {n}]
  <2>1. e \in Event /\ (e.emitted # 0 => e.action \in Done)
      BY <1>4 DEF CallSound, Call
  <2>2. /\ receipts \subseteq receipts' /\ receipts' \subseteq Done
        /\ last_version' \in [Aggregates -> Nat]
      BY <1>7, <2>1, RegisterKeeps DEF Inv
  <2>3. k \in Int
    <3>1. c.toRegister \in Int
        BY <1>4 DEF Call
    <3> QED
        BY SMTT(60), <3>1
  <2>4. s \in Stages /\ s \notin {"write", "sink", "finish"} /\ {} \in SUBSET Event
      BY DEF Stages
  <2> HIDE DEF s, k
  <2>5. n \in Call /\ n.stage = s /\ n.todo = c.todo /\ n.read = {}
    <3> DEFINE c1 == [c EXCEPT !.stage = s]
               c2 == [c1 EXCEPT !.toRegister = k]
    <3>1. n = [c2 EXCEPT !.read = {}]
        OBVIOUS
    <3>2. c1 \in Call /\ c1.stage = s /\ c1.todo = c.todo
        BY <1>4, <2>4, SetStage
    <3> HIDE DEF n, c1
    <3>3. c2 \in Call /\ c2.stage = s /\ c2.todo = c.todo
        BY <2>3, <3>2, SetRegistered
    <3> HIDE DEF c2
    <3> QED
        BY <3>1, <3>3, ReadNothing
  <2> HIDE DEF n
  <2>6. CallSound(t, n)'
      BY <1>2, <1>4, <1>5, <2>4, <2>5 DEF CallSound
  <2>7. {n} \in SUBSET Call /\ (\A d, f \in {n} : d = f) /\ (\A d \in {n} : CallSound(t, d)')
      BY <2>5, <2>6
  <2> QED
      BY <1>2, <1>3, <1>4, <1>7, <2>2, <2>7, QuietStep
<1> QED
    BY <1>2, <1>6, <1>7

\* The process dies: what the fence knew is gone, what the sink did is one
\* effect more per action that a later life may repeat.
LEMMA CrashStep ==
    ASSUME Inv, Crash
    PROVE  Inv'
<1>1. /\ crashes' = crashes + 1 /\ receipts' = {} /\ last_version' = [g \in Aggregates |-> 0]
      /\ call' = [t \in Threads |-> {}]
      /\ UNCHANGED <<events, effects, gated, raised>>
    BY DEF Crash, store
<1>2. StoreInv' /\ EffectInv'
    BY SMTT(60), <1>1
    DEF Inv, StoreInv, Version, Of, EffectInv, EffectsGated, OrderInv, Durable, Done
<1>3. CallInv'
    BY <1>1 DEF CallInv
<1>4. OnceInv'
  <2>1. /\ crashes \in Nat /\ raised \in [Actions -> Nat] /\ EffectOnce
        /\ \A a \in Actions : Unknown(a) \in Nat
      BY UnknownType DEF Inv, OnceInv
  <2>7. \A a \in Actions : Unknown(a)' = Unknown(a) + 1
    <3> TAKE a \in Actions
    <3>1. raised[a] \in Nat
        BY <2>1
    <3> QED
        BY SMTT(60), <1>1, <2>1, <3>1 DEF Unknown
  <2>2. \A a \in Actions : EffectCount(a) \in Nat
    <3> TAKE a \in Actions
    <3>1. effects \in Seq(Actions)
        BY DEF Inv, EffectInv
    <3> QED
        BY Zenon, <3>1, AppendCount DEF EffectCount
  <2>3. \A a : EffectCount(a)' = EffectCount(a)
      BY <1>1 DEF EffectCount
  <2>4. last_version' \in [Aggregates -> Nat]
      BY SMTT(60), <1>1
  <2>5. EffectOnce' /\ \A a \in Actions : ~(EffectCount(a)' > Unknown(a)')
      BY SMTT(60), <2>1, <2>2, <2>3, <2>7 DEF EffectOnce
  <2>6. crashes' \in Nat
      BY SMTT(60), <1>1, <2>1
  <2> QED
      BY <1>1, <2>1, <2>4, <2>5, <2>6 DEF OnceInv
<1> QED
    BY <1>2, <1>3, <1>4 DEF Inv

\* A step that changes nothing.
LEMMA StutterStep ==
    ASSUME Inv, UNCHANGED vars
    PROVE  Inv'
<1>1. UNCHANGED <<events, receipts, last_version, fence, call, effects, gated, crashes, raised>>
    BY DEF vars, fenced, failures
<1>2. StoreInv' /\ EffectInv'
    BY SMTT(60), <1>1
    DEF Inv, StoreInv, Version, Of, EffectInv, EffectsGated, OrderInv, Durable, Done
<1>3. CallInv'
    BY SMTT(60), <1>1 DEF Inv, CallInv, CallSound, EarlierDone, Durable, Done
<1>4. OnceInv'
    BY <1>1 DEF Inv, OnceInv, EffectOnce, Unknown, EffectCount, Finishing, Done
<1> QED
    BY <1>2, <1>3, <1>4 DEF Inv

\* Every step of the engine, the store, the fence and the sink keeps the invariant.
LEMMA InvStep == Inv /\ [Next]_vars => Inv'
<1> SUFFICES ASSUME Inv, [Next]_vars PROVE Inv'
    OBVIOUS
<1>1. ASSUME NEW cleared \in Clearances PROVE cleared \in BOOLEAN
    BY <1>1, BoundsAssumption
<1> QED
    BY <1>1, ExecuteStep, WriteStep, EmitEnterStep, SinkActsStep, SinkFailsStep, SinkRaisesStep,
       EmitFinishStep, DrainStep, DrainReadStep, DrainRegisterStep, CrashStep, StutterStep DEF Next

\* The invariant gives the order of effects.
LEMMA InvExact == Inv => EffectsExact
<1> SUFFICES ASSUME Inv PROVE EffectsExact
    OBVIOUS
<1>1. EffectsGated /\ EffectOnce
    BY DEF Inv, EffectInv, OnceInv
<1>2. EffectsInOrder
  <2> SUFFICES ASSUME NEW i \in 1..Len(effects), NEW j \in 1..Len(effects),
                      NEW e \in Durable(effects[i]), NEW f \in Durable(effects[j]),
                      e.aggregate = f.aggregate, e.version > f.version
               PROVE  \E k \in 1..i : effects[k] = effects[j]
      BY DEF EffectsInOrder
  <2>1. e \in events /\ f \in events /\ f.action = effects[j] /\ e.version \in Nat /\ f.version \in Nat
      BY DEF Durable, Inv, StoreInv, Event
  <2>2. f.version < e.version
      BY SMTT(60), <2>1
  <2>3. PICK k \in 1..(i - 1) : effects[k] = f.action
      BY <2>1, <2>2 DEF Inv, EffectInv, OrderInv
  <2>4. k \in 1..i
      BY SMTT(60)
  <2> QED
      BY <2>1, <2>3, <2>4
<1> QED
    BY <1>1, <1>2 DEF EffectsExact

-------------------------------------------------------------------------------
(* What is proved *)

\* Whatever the threads, the crashes and the order in which execute, drain and
\* the sink run and fail: every effect passed the gates and is committed, happens
\* once but for one repetition per crash and per failure of the sink after it
\* acted, and follows the versions of its aggregate.
THEOREM EffectsAreExact == Spec => []EffectsExact
BY InvInit, InvStep, InvExact, PTL DEF Spec
===============================================================================
