----------------------------- MODULE C8ToolProofs -----------------------------
(* A theorem about ToolCallRuntime (C8ToolRuntime): every tool that was       *)
(* started is accounted for when its call is answered.                        *)
EXTENDS C8ToolRuntime, TLAPS

Stages == {"gates", "dispatch", "start", "supervise", "grace", "reconcile"}
CallRecords ==
    [stage : Stages, plan : Seq(Tools), made : SUBSET Dispatches, current : SUBSET Dispatches]
WorkerRecords ==
    [tool : Tools, state : {"running", "returned", "raised"}, effect : BOOLEAN,
     cancelled : BOOLEAN, preempted : BOOLEAN]

-------------------------------------------------------------------------------
(* The inductive invariant *)

ToolsTyped ==
    /\ call \in [Threads -> SUBSET CallRecords]
    /\ workers \in [Dispatches -> SUBSET WorkerRecords]
    /\ told = [d \in Dispatches |-> told[d]]
    /\ records = [d \in Dispatches |-> records[d]]
    /\ \A d \in Dispatches : \A v, w \in workers[d] : v = w

\* A tool that returned and was never disturbed.
Clean(d) == \A w \in workers[d] : w.state = "returned" /\ ~w.cancelled /\ ~w.preempted

Untouched(d) == \A w \in workers[d] : ~w.cancelled /\ ~w.preempted

\* The tools a call has made are its own and unanswered; all but the current one
\* are done and clean, and so is the current one until it is supervised.
CallSound(c) ==
    /\ \A d \in c.made : workers[d] # {} /\ told[d] = "nothing"
    /\ c.current \subseteq c.made
    /\ \A d, e \in c.current : d = e
    /\ \A d \in c.made \ c.current : Clean(d)
    /\ c.stage \in {"gates", "dispatch", "start"} =>
         c.plan # <<>> /\ \A d \in c.current : Clean(d)
    /\ c.stage = "supervise" => \A d \in c.current : Untouched(d)

CallsSound ==
    /\ \A t \in Threads : \A c \in call[t] : CallSound(c)
    /\ \A t, u \in Threads : \A c \in call[t], e \in call[u] : t # u => c.made \cap e.made = {}

\* Only a tool that was started is answered for.
ToldStarted == \A d \in Dispatches : told[d] # "nothing" => workers[d] # {}

ToolInv == ToolsTyped /\ CallsSound /\ ToldStarted /\ ToolsAccounted


-------------------------------------------------------------------------------
(* Lemmas: the ways in which a step touches a call or a worker *)

\* First-order leaves are for Zenon, arithmetic and sequences for the SMT solver.
USE ZenonT(30), SMTT(60)

\* A call at another stage is the same call.
LEMMA Staged ==
    ASSUME NEW c \in CallRecords, NEW stage \in Stages
    PROVE  LET n == [c EXCEPT !.stage = stage] IN
           /\ n \in CallRecords
           /\ n.stage = stage /\ n.made = c.made /\ n.current = c.current /\ n.plan = c.plan
  BY DEF CallRecords

\* A call moves on, or begins, and no worker changes.
LEMMA MoveStep ==
    ASSUME ToolInv, NEW t \in Threads, NEW d \in CallRecords,
           call' = [call EXCEPT ![t] = {d}], UNCHANGED <<workers, told, records>>,
           CallSound(d), d.made = {} \/ \E c \in call[t] : d.made = c.made
    PROVE  ToolInv'
<1>1. \A u \in Threads : \A e \in call'[u] : (u = t /\ e = d) \/ (u # t /\ e \in call[u])
  BY DEF ToolInv, ToolsTyped
<1>2. ToolsTyped'
  BY DEF ToolInv, ToolsTyped
<1>3. \A e : CallSound(e) => CallSound(e)'
  BY DEF CallSound, Clean, Untouched
<1>4. CallsSound'
  <2>1. \A u \in Threads : \A e \in call'[u] : CallSound(e)'
    BY <1>1, <1>3 DEF ToolInv, CallsSound
  <2>2. ASSUME NEW u \in Threads, NEW v \in Threads, NEW e \in call'[u], NEW f \in call'[v], u # v
        PROVE  e.made \cap f.made = {}
    BY SMTT(60), <1>1, <2>2 DEF ToolInv, CallsSound
  <2> QED
    BY <2>1, <2>2 DEF CallsSound
<1>5. ToldStarted' /\ ToolsAccounted'
  BY DEF ToolInv, ToldStarted, ToolsAccounted, ReceiptClean, NoOrphan
<1> QED
  BY <1>2, <1>4, <1>5 DEF ToolInv

\* A call ends: with a receipt only when its tools are clean, and with a record
\* or a warning for the one that still runs.
LEMMA EndsStep ==
    ASSUME ToolInv, NEW t \in Threads, NEW c \in call[t], NEW answer, Ends(t, c, answer),
           answer # "nothing", UNCHANGED workers,
           records' = [d \in Dispatches |-> records'[d]],
           \A d \in Dispatches : records[d] # {} => records'[d] # {},
           answer = "receipt" => \A d \in c.made : Clean(d),
           \A d \in c.made : \A w \in workers[d] : w.state = "running" =>
              answer = "unrecorded" \/ (answer = "unknown" /\ records'[d] # {})
    PROVE  ToolInv'
<1>1. /\ call' = [call EXCEPT ![t] = {}]
      /\ told' = [d \in Dispatches |-> IF d \in c.made THEN answer ELSE told[d]]
  BY DEF Ends
<1>2. \A u \in Threads : \A e \in call'[u] : u # t /\ e \in call[u]
  BY <1>1 DEF ToolInv, ToolsTyped
<1>3. ToolsTyped'
  BY <1>1 DEF ToolInv, ToolsTyped
<1>4. c.made \subseteq Dispatches /\ CallSound(c)
  BY SMTT(60) DEF ToolInv, ToolsTyped, CallRecords, CallsSound
<1>5. CallsSound'
  <2>1. ASSUME NEW u \in Threads, NEW e \in call'[u]
        PROVE  CallSound(e)'
    <3>1. CallSound(e) /\ e.made \cap c.made = {} /\ e.made \subseteq Dispatches
      BY SMTT(60), <1>2, <2>1 DEF ToolInv, CallsSound, ToolsTyped, CallRecords
    <3>2. \A d \in e.made : told'[d] = told[d]
      BY <1>1, <3>1
    <3> QED
      BY <3>1, <3>2 DEF CallSound, Clean, Untouched
  <2>2. ASSUME NEW u \in Threads, NEW v \in Threads, NEW e \in call'[u], NEW f \in call'[v], u # v
        PROVE  e.made \cap f.made = {}
    BY <1>2, <2>2 DEF ToolInv, CallsSound
  <2> QED
    BY <2>1, <2>2 DEF CallsSound
<1>6. ToldStarted'
  BY <1>1, <1>4 DEF ToolInv, ToldStarted, CallSound
<1>7. ReceiptClean'
  BY <1>1 DEF ToolInv, ToolsAccounted, ReceiptClean, Clean
<1>8. NoOrphan'
  BY <1>1 DEF ToolInv, ToolsAccounted, NoOrphan
<1> QED
  BY <1>3, <1>5, <1>6, <1>7, <1>8 DEF ToolInv, ToolsAccounted

\* A worker advances on its own.
LEMMA WorkerStep ==
    ASSUME ToolInv, NEW d \in Dispatches, NEW w \in workers[d], NEW v \in WorkerRecords,
           workers' = [workers EXCEPT ![d] = {v}], UNCHANGED <<call, told, records>>,
           w.state = "running", v.cancelled = w.cancelled, v.preempted = w.preempted
    PROVE  ToolInv'
<1>1. ToolsTyped'
  BY SMTT(60) DEF ToolInv, ToolsTyped
<1>2. /\ workers[d] = {w} /\ workers'[d] = {v}
      /\ \A e \in Dispatches : e # d => workers'[e] = workers[e]
  BY SMTT(60) DEF ToolInv, ToolsTyped
<1>3. ~Clean(d) /\ (Untouched(d) => Untouched(d)')
  BY <1>2 DEF Clean, Untouched
<1>4. \A e \in Dispatches : (Clean(e) => Clean(e)') /\ (Untouched(e) => Untouched(e)')
  BY <1>2, <1>3 DEF Clean, Untouched
<1>5. ASSUME NEW c \in CallRecords, CallSound(c) PROVE CallSound(c)'
  BY <1>2, <1>4, <1>5 DEF CallSound, CallRecords
<1>6. CallsSound'
  BY SMTT(60), <1>5 DEF ToolInv, CallsSound, ToolsTyped
<1>7. ToldStarted'
  BY <1>2 DEF ToolInv, ToldStarted
<1>8. ReceiptClean'
  BY <1>2, <1>4 DEF ToolInv, ToolsAccounted, ReceiptClean, Clean
<1>9. NoOrphan'
  BY <1>2 DEF ToolInv, ToolsAccounted, NoOrphan
<1> QED
  BY <1>1, <1>6, <1>7, <1>8, <1>9 DEF ToolInv, ToolsAccounted

\* The supervisor disturbs the current worker of its call, and moves on.
LEMMA DisturbStep ==
    ASSUME ToolInv, NEW t \in Threads, NEW c \in call[t], NEW d \in c.current, NEW w \in workers[d],
           NEW v \in WorkerRecords, NEW stage \in {"grace", "reconcile"},
           workers' = [workers EXCEPT ![d] = {v}], Goto(t, c, stage), v.state = w.state,
           UNCHANGED <<told, records>>
    PROVE  ToolInv'
<1>1. c \in CallRecords /\ CallSound(c) /\ d \in c.made /\ d \in Dispatches
  <2>1. c \in CallRecords /\ CallSound(c)
    BY DEF ToolInv, ToolsTyped, CallsSound
  <2> QED
    BY <2>1 DEF CallSound, CallRecords
<1>2. PICK n \in CallRecords : /\ call' = [call EXCEPT ![t] = {n}]
                               /\ n.stage = stage /\ n.made = c.made /\ n.current = c.current
  <2>1. stage \in Stages
    BY DEF Stages
  <2> QED
    BY <1>1, <2>1, Staged DEF Goto
<1>3. \A u \in Threads : \A e \in call'[u] : (u = t /\ e = n) \/ (u # t /\ e \in call[u])
  BY SMTT(60), <1>2 DEF ToolInv, ToolsTyped
<1>4. ToolsTyped'
  BY SMTT(60), <1>1, <1>2 DEF ToolInv, ToolsTyped
<1>5. /\ workers[d] = {w} /\ workers'[d] = {v} /\ told[d] = "nothing"
      /\ \A e \in Dispatches : e # d => workers'[e] = workers[e]
  <2>1. workers[d] = {w} /\ workers'[d] = {v}
    BY SMTT(60), <1>1 DEF ToolInv, ToolsTyped
  <2>2. told[d] = "nothing"
    BY <1>1 DEF CallSound
  <2>3. \A e \in Dispatches : e # d => workers'[e] = workers[e]
    BY DEF ToolInv, ToolsTyped
  <2> QED
    BY <2>1, <2>2, <2>3
<1>6. CallSound(n)'
  <2>1. \A e \in c.made \ c.current : e # d /\ e \in Dispatches /\ Clean(e)
    BY SMTT(60), <1>1 DEF CallSound, CallRecords
  <2>2. \A e \in c.made \ c.current : Clean(e)'
    BY <1>5, <2>1 DEF Clean
  <2>3. \A e \in c.made : workers'[e] # {} /\ told'[e] = "nothing"
    BY <1>1, <1>5 DEF CallSound, CallRecords
  <2> QED
    BY <1>1, <1>2, <2>2, <2>3 DEF CallSound
<1>7. ASSUME NEW u \in Threads, NEW e \in call[u], u # t PROVE CallSound(e)'
  <2>1. e \in CallRecords /\ CallSound(e) /\ d \notin e.made
    BY <1>1, <1>7 DEF ToolInv, ToolsTyped, CallsSound
  <2> QED
    BY SMTT(60), <1>5, <2>1 DEF CallSound, CallRecords, Clean, Untouched
<1>8. CallsSound'
  <2>1. \A u \in Threads : \A e \in call'[u] : CallSound(e)'
    BY <1>3, <1>6, <1>7
  <2>2. ASSUME NEW u \in Threads, NEW x \in Threads, NEW e \in call'[u], NEW f \in call'[x], u # x
        PROVE  e.made \cap f.made = {}
    BY SMTT(60), <1>2, <1>3, <2>2 DEF ToolInv, CallsSound
  <2> QED
    BY <2>1, <2>2 DEF CallsSound
<1>9. ToldStarted' /\ ToolsAccounted'
  BY <1>5 DEF ToolInv, ToldStarted, ToolsAccounted, ReceiptClean, NoOrphan
<1> QED
  BY <1>4, <1>8, <1>9 DEF ToolInv

-------------------------------------------------------------------------------
(* The steps *)

\* No call, no worker and no record at the start.
LEMMA ToolsInit == Init => ToolInv
  BY DEF Init, ReconcilerInit, ToolInv, ToolsTyped, CallsSound, ToldStarted, ToolsAccounted,
         ReceiptClean, NoOrphan, Dispatches

\* A call begins before the gates, with no dispatch made.
LEMMA InvokeStep ==
    ASSUME ToolInv, NEW t \in Threads, NEW plan \in Plans, Invoke(t, plan)
    PROVE  ToolInv'
<1>1. plan \in Seq(Tools) /\ plan # <<>>
  BY PlansAssumption
<1>2. PICK d \in CallRecords : d = [stage |-> "gates", plan |-> plan, made |-> {}, current |-> {}]
  BY <1>1 DEF CallRecords, Stages
<1>3. call' = [call EXCEPT ![t] = {d}] /\ UNCHANGED <<workers, told, records>>
  BY <1>2 DEF Invoke, reconciler
<1>4. CallSound(d) /\ d.made = {}
  BY <1>1, <1>2 DEF CallSound
<1> QED
  BY <1>3, <1>4, MoveStep

\* The gates and _dispatch let the call go on to its next stage, or end it while
\* every tool it made so far is clean.
LEMMA GateStep ==
    ASSUME ToolInv, NEW t \in Threads, NEW c \in call[t],
           c.stage \in {"gates", "dispatch"}, NEW stage \in {"dispatch", "start"},
           (Goto(t, c, stage) /\ UNCHANGED told) \/ Ends(t, c, "refused"),
           UNCHANGED <<workers, records>>
    PROVE  ToolInv'
<1>1. c \in CallRecords /\ CallSound(c)
  BY DEF ToolInv, ToolsTyped, CallsSound
<1>2. CASE Goto(t, c, stage) /\ UNCHANGED told
  <2>1. stage \in Stages
    BY DEF Stages
  <2>2. PICK d \in CallRecords :
          /\ call' = [call EXCEPT ![t] = {d}] /\ d.stage = stage
          /\ d.made = c.made /\ d.current = c.current /\ d.plan = c.plan
    BY <1>1, <1>2, <2>1, Staged DEF Goto
  <2>3. CallSound(d)
    BY <1>1, <2>2 DEF CallSound
  <2> QED
    BY <1>2, <2>2, <2>3, MoveStep
<1>3. CASE Ends(t, c, "refused")
  <2>1. \A d \in c.made : Clean(d)
    BY <1>1 DEF CallSound
  <2>2. records' = [d \in Dispatches |-> records'[d]]
    BY DEF ToolInv, ToolsTyped
  <2> QED
    BY <1>3, <2>1, <2>2, EndsStep DEF Clean
<1> QED
  BY <1>2, <1>3

\* A worker is started for a dispatch that nobody has made.
LEMMA StartStep ==
    ASSUME ToolInv, NEW t \in Threads, Start(t)
    PROVE  ToolInv'
<1>1. PICK c \in call[t], d \in Dispatches :
         /\ c.stage = "start" /\ workers[d] = {}
         /\ workers' = [workers EXCEPT ![d] =
              {[tool |-> Head(c.plan), state |-> "running", effect |-> FALSE,
                cancelled |-> FALSE, preempted |-> FALSE]}]
         /\ call' = [call EXCEPT ![t] =
              {[c EXCEPT !.stage = "supervise", !.plan = Tail(@), !.made = @ \cup {d}, !.current = {d}]}]
  BY DEF Start
<1>2. UNCHANGED <<told, records>>
  BY DEF Start, reconciler
<1>3. c \in CallRecords /\ CallSound(c)
  BY DEF ToolInv, ToolsTyped, CallsSound
<1>4. c.plan \in Seq(Tools) /\ c.plan # <<>> /\ c.made \subseteq Dispatches
  BY <1>1, <1>3 DEF CallSound, CallRecords
<1>5. Head(c.plan) \in Tools /\ Tail(c.plan) \in Seq(Tools)
  BY SMTT(60), <1>4
<1>6. PICK w \in WorkerRecords : workers' = [workers EXCEPT ![d] = {w}] /\ ~w.cancelled /\ ~w.preempted
  <2> DEFINE rec == [tool |-> Head(c.plan), state |-> "running", effect |-> FALSE,
                     cancelled |-> FALSE, preempted |-> FALSE]
  <2>1. rec \in WorkerRecords
    BY <1>5 DEF WorkerRecords
  <2>2. ~rec.cancelled /\ ~rec.preempted
    OBVIOUS
  <2>3. workers' = [workers EXCEPT ![d] = {rec}]
    BY <1>1
  <2> HIDE DEF rec
  <2> QED
    BY <2>1, <2>2, <2>3
<1>7. PICK n \in CallRecords :
        /\ call' = [call EXCEPT ![t] = {n}]
        /\ n.stage = "supervise" /\ n.made = c.made \cup {d} /\ n.current = {d}
  <2> DEFINE n == [c EXCEPT !.stage = "supervise", !.plan = Tail(c.plan), !.made = c.made \cup {d},
                            !.current = {d}]
  <2>1. "supervise" \in Stages /\ c.made \cup {d} \in SUBSET Dispatches /\ {d} \in SUBSET Dispatches
    BY <1>4 DEF Stages
  <2>2. n \in CallRecords /\ n.stage = "supervise" /\ n.made = c.made \cup {d} /\ n.current = {d}
    BY <1>3, <1>5, <2>1 DEF CallRecords
  <2> QED
    BY <1>1, <2>2
<1>8. /\ workers'[d] = {w} /\ told[d] = "nothing"
      /\ \A e \in Dispatches : e # d => workers'[e] = workers[e]
  BY <1>1, <1>6 DEF ToolInv, ToolsTyped, ToldStarted
<1>9. ToolsTyped'
  BY SMTT(60), <1>2, <1>6, <1>7 DEF ToolInv, ToolsTyped
<1>10. \A u \in Threads : \A e \in call[u] : e \in CallRecords /\ CallSound(e) /\ d \notin e.made
  BY <1>1 DEF ToolInv, ToolsTyped, CallsSound, CallSound
<1>11. \A u \in Threads : \A e \in call'[u] : (u = t /\ e = n) \/ (u # t /\ e \in call[u])
  BY SMTT(60), <1>7 DEF ToolInv, ToolsTyped
<1>12. CallSound(n)'
  <2>1. \A e \in c.made : Clean(e) /\ e # d /\ workers[e] # {} /\ told[e] = "nothing"
    BY <1>1, <1>3, <1>10 DEF CallSound
  <2>2. \A e \in c.made : Clean(e)' /\ workers'[e] # {} /\ told'[e] = "nothing"
    BY <1>2, <1>4, <1>8, <2>1 DEF Clean
  <2>3. Untouched(d)' /\ workers'[d] # {} /\ told'[d] = "nothing"
    BY <1>2, <1>6, <1>8 DEF Untouched
  <2> QED
    BY <1>7, <2>2, <2>3 DEF CallSound
<1>13. ASSUME NEW u \in Threads, NEW e \in call[u] PROVE CallSound(e)'
  <2>1. e \in CallRecords /\ CallSound(e) /\ d \notin e.made
    BY <1>10, <1>13
  <2>2. \A x \in e.made : workers'[x] = workers[x] /\ told'[x] = told[x]
    BY <1>2, <1>8, <2>1 DEF CallRecords
  <2> QED
    BY <2>1, <2>2 DEF CallSound, Clean, Untouched
<1>14. CallsSound'
  <2>1. \A u \in Threads : \A e \in call'[u] : CallSound(e)'
    BY <1>11, <1>12, <1>13
  <2>2. ASSUME NEW u \in Threads, NEW x \in Threads, NEW e \in call'[u], NEW f \in call'[x], u # x
        PROVE  e.made \cap f.made = {}
    BY SMTT(60), <1>7, <1>10, <1>11, <2>2 DEF ToolInv, CallsSound
  <2> QED
    BY <2>1, <2>2 DEF CallsSound
<1>15. ToldStarted' /\ ToolsAccounted'
  BY <1>2, <1>8 DEF ToolInv, ToldStarted, ToolsAccounted, ReceiptClean, NoOrphan
<1> QED
  BY <1>9, <1>14, <1>15 DEF ToolInv

\* The worker that is done leaves its call with a receipt, an error, a next tool
\* or an outcome to reconcile.
LEMMA CollectStep ==
    ASSUME ToolInv, NEW t \in Threads, Collect(t)
    PROVE  ToolInv'
<1>1. PICK c \in call[t] : \E d \in c.current : \E w \in workers[d] :
         /\ c.stage = "supervise" /\ w.state # "running"
         /\ \/ Goto(t, c, "reconcile") /\ UNCHANGED told
            \/ w.state = "raised" /\ Ends(t, c, "error")
            \/ /\ w.state = "returned"
               /\ IF c.plan = <<>> THEN Ends(t, c, "receipt") ELSE Goto(t, c, "dispatch") /\ UNCHANGED told
  BY DEF Collect
<1>2. PICK d \in c.current : \E w \in workers[d] :
         /\ c.stage = "supervise" /\ w.state # "running"
         /\ \/ Goto(t, c, "reconcile") /\ UNCHANGED told
            \/ w.state = "raised" /\ Ends(t, c, "error")
            \/ /\ w.state = "returned"
               /\ IF c.plan = <<>> THEN Ends(t, c, "receipt") ELSE Goto(t, c, "dispatch") /\ UNCHANGED told
  BY <1>1
<1>3. PICK w \in workers[d] :
         /\ c.stage = "supervise" /\ w.state # "running"
         /\ \/ Goto(t, c, "reconcile") /\ UNCHANGED told
            \/ w.state = "raised" /\ Ends(t, c, "error")
            \/ /\ w.state = "returned"
               /\ IF c.plan = <<>> THEN Ends(t, c, "receipt") ELSE Goto(t, c, "dispatch") /\ UNCHANGED told
  BY <1>2
<1>4. UNCHANGED <<workers, records>> /\ records' = [e \in Dispatches |-> records'[e]]
  BY DEF Collect, reconciler, ToolInv, ToolsTyped
<1>5. c \in CallRecords /\ CallSound(c)
  BY DEF ToolInv, ToolsTyped, CallsSound
<1>6. workers[d] = {w} /\ c.current = {d} /\ d \in c.made
  <2>1. d \in Dispatches
    BY <1>5 DEF CallRecords
  <2>2. workers[d] = {w}
    BY <2>1 DEF ToolInv, ToolsTyped
  <2> QED
    BY <1>5, <2>2 DEF CallSound
<1>7. w.state = "returned" => \A e \in c.made : Clean(e)
  <2>1. Untouched(d) /\ \A e \in c.made \ c.current : Clean(e)
    BY <1>3, <1>5 DEF CallSound
  <2>2. w.state = "returned" => Clean(d)
    BY <1>6, <2>1 DEF Clean, Untouched
  <2> QED
    BY <1>6, <2>1, <2>2
<1>8. \A e \in c.made : \A v \in workers[e] : v.state # "running"
  <2>1. \A e \in c.made \ {d} : Clean(e)
    BY <1>5, <1>6 DEF CallSound
  <2> QED
    BY <1>3, <1>6, <2>1 DEF Clean
<1>9. "reconcile" \in Stages /\ "dispatch" \in Stages
  BY DEF Stages
<1>10. CASE Goto(t, c, "reconcile") /\ UNCHANGED told
  <2>1. PICK n \in CallRecords :
          /\ call' = [call EXCEPT ![t] = {n}] /\ n.stage = "reconcile"
          /\ n.made = c.made /\ n.current = c.current /\ n.plan = c.plan
    BY <1>5, <1>9, <1>10, Staged DEF Goto
  <2>2. CallSound(n)
    BY <1>5, <2>1 DEF CallSound
  <2> QED
    BY <1>4, <1>10, <2>1, <2>2, MoveStep
<1>11. CASE Ends(t, c, "error")
  BY <1>4, <1>8, <1>11, EndsStep
<1>12. CASE Ends(t, c, "receipt") /\ w.state = "returned"
  BY <1>4, <1>7, <1>8, <1>12, EndsStep
<1>13. CASE Goto(t, c, "dispatch") /\ UNCHANGED told /\ c.plan # <<>> /\ w.state = "returned"
  <2>1. PICK n \in CallRecords :
          /\ call' = [call EXCEPT ![t] = {n}] /\ n.stage = "dispatch"
          /\ n.made = c.made /\ n.current = c.current /\ n.plan = c.plan
    BY <1>5, <1>9, <1>13, Staged DEF Goto
  <2>2. CallSound(n)
    BY <1>5, <1>6, <1>7, <1>13, <2>1 DEF CallSound
  <2> QED
    BY <1>4, <1>13, <2>1, <2>2, MoveStep
<1> QED
  BY <1>3, <1>10, <1>11, <1>12, <1>13

\* A worker is cancelled or preempted while it runs or as it returns.
LEMMA CancelStep ==
    ASSUME ToolInv, NEW t \in Threads, Cancel(t) \/ Preempt(t)
    PROVE  ToolInv'
<1>1. UNCHANGED <<told, records>>
  BY DEF Cancel, Preempt, reconciler
<1>2. PICK c \in call[t] : \E d \in c.current : \E w \in workers[d] :
        \/ /\ workers' = [workers EXCEPT ![d] = {[w EXCEPT !.cancelled = TRUE]}]
           /\ Goto(t, c, "grace")
        \/ /\ workers' = [workers EXCEPT ![d] = {[w EXCEPT !.preempted = (w.state = "running")]}]
           /\ Goto(t, c, "reconcile")
  BY DEF Cancel, Preempt
<1>3. PICK d \in c.current : \E w \in workers[d] :
        \/ /\ workers' = [workers EXCEPT ![d] = {[w EXCEPT !.cancelled = TRUE]}]
           /\ Goto(t, c, "grace")
        \/ /\ workers' = [workers EXCEPT ![d] = {[w EXCEPT !.preempted = (w.state = "running")]}]
           /\ Goto(t, c, "reconcile")
  BY <1>2
<1>4. PICK w \in workers[d] :
        \/ /\ workers' = [workers EXCEPT ![d] = {[w EXCEPT !.cancelled = TRUE]}]
           /\ Goto(t, c, "grace")
        \/ /\ workers' = [workers EXCEPT ![d] = {[w EXCEPT !.preempted = (w.state = "running")]}]
           /\ Goto(t, c, "reconcile")
  BY <1>3
<1>5. w \in WorkerRecords
  <2>1. c \in CallRecords
    BY DEF ToolInv, ToolsTyped
  <2>2. d \in Dispatches
    BY <2>1 DEF CallRecords
  <2> QED
    BY <2>2 DEF ToolInv, ToolsTyped
<1>6. \A yes \in BOOLEAN :
        /\ [w EXCEPT !.cancelled = yes] \in WorkerRecords
        /\ [w EXCEPT !.preempted = yes] \in WorkerRecords
        /\ [w EXCEPT !.cancelled = yes].state = w.state
        /\ [w EXCEPT !.preempted = yes].state = w.state
  BY <1>5 DEF WorkerRecords
<1>7. PICK v \in WorkerRecords, stage \in {"grace", "reconcile"} :
        workers' = [workers EXCEPT ![d] = {v}] /\ v.state = w.state /\ Goto(t, c, stage)
  <2>1. TRUE \in BOOLEAN /\ (w.state = "running") \in BOOLEAN
    OBVIOUS
  <2> QED
    BY <1>4, <1>6, <2>1, Zenon
<1> QED
  BY <1>1, <1>7, DisturbStep

\* The outcome is on record before the refusal, or the refusal says it is not.
LEMMA ReconcileStep ==
    ASSUME ToolInv, NEW t \in Threads, NEW up \in BOOLEAN, Reconcile(t, up)
    PROVE  ToolInv'
<1>1. PICK c \in call[t] : \E d \in c.current :
        /\ c.stage = "reconcile"
        /\ IF up THEN mark_ambiguous(d, FALSE) /\ Ends(t, c, "unknown")
                 ELSE UNCHANGED reconciler /\ Ends(t, c, "unrecorded")
  BY DEF Reconcile
<1>2. PICK d \in c.current :
        IF up THEN mark_ambiguous(d, FALSE) /\ Ends(t, c, "unknown")
              ELSE UNCHANGED reconciler /\ Ends(t, c, "unrecorded")
  BY <1>1
<1>3. UNCHANGED workers
  BY DEF Reconcile
<1>4. c \in CallRecords /\ CallSound(c)
  BY DEF ToolInv, ToolsTyped, CallsSound
<1>5. d \in Dispatches /\ \A e \in c.made \ {d} : Clean(e)
  BY <1>4 DEF CallSound, CallRecords
<1>6. CASE ~up
  BY <1>2, <1>3, <1>6, EndsStep DEF reconciler, ToolInv, ToolsTyped
<1>7. CASE up
  <2>1. PICK r : records' = [records EXCEPT ![d] = {r}]
    BY <1>2, <1>7 DEF mark_ambiguous, Record
  <2>2. /\ records' = [e \in Dispatches |-> records'[e]]
        /\ \A e \in Dispatches : records[e] # {} => records'[e] # {}
        /\ records'[d] # {}
    BY <1>5, <2>1 DEF ToolInv, ToolsTyped
  <2>3. \A e \in c.made : \A w \in workers[e] : w.state = "running" => records'[e] # {}
    BY <1>5, <2>2 DEF Clean
  <2> QED
    BY <1>2, <1>3, <1>7, <2>2, <2>3, EndsStep
<1> QED
  BY <1>6, <1>7

\* The tool acts or ends on its worker.
LEMMA ToolStep ==
    ASSUME ToolInv, NEW d \in Dispatches,
           ToolActs(d) \/ \E state \in {"returned", "raised"} : ToolEnds(d, state)
    PROVE  ToolInv'
<1>1. UNCHANGED <<call, told, records>>
  BY DEF ToolActs, ToolEnds, reconciler
<1>2. PICK w \in workers[d] : w.state = "running" /\
        \/ workers' = [workers EXCEPT ![d] = {[w EXCEPT !.effect = TRUE]}]
        \/ \E state \in {"returned", "raised"} :
             workers' = [workers EXCEPT ![d] = {[w EXCEPT !.state = state]}]
  BY DEF ToolActs, ToolEnds
<1>3. w \in WorkerRecords
  BY DEF ToolInv, ToolsTyped
<1>4. \A yes \in BOOLEAN :
        /\ [w EXCEPT !.effect = yes] \in WorkerRecords
        /\ [w EXCEPT !.effect = yes].cancelled = w.cancelled
        /\ [w EXCEPT !.effect = yes].preempted = w.preempted
  BY <1>3 DEF WorkerRecords
<1>5. \A state \in {"returned", "raised"} :
        /\ [w EXCEPT !.state = state] \in WorkerRecords
        /\ [w EXCEPT !.state = state].cancelled = w.cancelled
        /\ [w EXCEPT !.state = state].preempted = w.preempted
  BY <1>3 DEF WorkerRecords
<1>6. PICK v \in WorkerRecords :
        /\ workers' = [workers EXCEPT ![d] = {v}]
        /\ v.cancelled = w.cancelled /\ v.preempted = w.preempted
  <2>1. TRUE \in BOOLEAN
    OBVIOUS
  <2> QED
    BY <1>2, <1>4, <1>5, <2>1, Zenon
<1> QED
  BY <1>1, <1>2, <1>6, WorkerStep

\* The reconciler settles a record; it never removes one.
LEMMA SettleStep ==
    ASSUME ToolInv, NEW d \in Dispatches, Reconciled(d)
    PROVE  ToolInv'
<1>1. UNCHANGED <<call, workers, told>>
  BY DEF Reconciled
<1>2. PICK r : records' = [records EXCEPT ![d] = {r}]
  BY DEF Reconciled, Reconciles, resolve_with_evidence, escalate_if_deadline_passed, Record
<1>3. /\ records' = [e \in Dispatches |-> records'[e]]
      /\ \A e \in Dispatches : records[e] # {} => records'[e] # {}
  BY <1>2 DEF ToolInv, ToolsTyped
<1>4. ToolsTyped' /\ ToldStarted'
  BY <1>1, <1>3 DEF ToolInv, ToolsTyped, ToldStarted
<1>5. CallsSound'
  BY SMTT(60), <1>1 DEF ToolInv, CallsSound, CallSound, Clean, Untouched
<1>6. ToolsAccounted'
  BY <1>1, <1>3 DEF ToolInv, ToolsAccounted, ReceiptClean, NoOrphan
<1> QED
  BY <1>4, <1>5, <1>6 DEF ToolInv

\* Every step of the runtime, its tools, the stop, the lease and the reconciler
\* keeps the invariant.
LEMMA ToolsStep == ToolInv /\ [Next]_vars => ToolInv'
<1> SUFFICES ASSUME ToolInv, [Next]_vars PROVE ToolInv'
  OBVIOUS
<1>1. CASE UNCHANGED <<call, workers, told, records>>
  BY SMTT(60), <1>1 DEF ToolInv, ToolsTyped, CallsSound, CallSound, Clean, Untouched, ToldStarted,
              ToolsAccounted, ReceiptClean, NoOrphan
<1>2. ASSUME NEW t \in Threads, NEW plan \in Plans, Invoke(t, plan) PROVE ToolInv'
  BY <1>2, InvokeStep
<1>3. ASSUME NEW t \in Threads, NEW allowed \in BOOLEAN, Gates(t, allowed) PROVE ToolInv'
  <2>1. PICK c \in call[t] : c.stage = "gates" /\
          ((Goto(t, c, "dispatch") /\ UNCHANGED told) \/ Ends(t, c, "refused"))
    BY <1>3 DEF Gates
  <2>2. UNCHANGED <<workers, records>>
    BY <1>3 DEF Gates, reconciler
  <2> QED
    BY <2>1, <2>2, GateStep
<1>4. ASSUME NEW t \in Threads, Dispatch(t) PROVE ToolInv'
  <2>1. PICK c \in call[t] : c.stage = "dispatch" /\
          ((Goto(t, c, "start") /\ UNCHANGED told) \/ Ends(t, c, "refused"))
    BY <1>4 DEF Dispatch
  <2>2. UNCHANGED <<workers, records>>
    BY <1>4 DEF Dispatch, reconciler
  <2> QED
    BY <2>1, <2>2, GateStep
<1>5. ASSUME NEW t \in Threads, Start(t) \/ Collect(t) \/ Cancel(t) \/ Preempt(t) PROVE ToolInv'
  BY <1>5, StartStep, CollectStep, CancelStep
<1>6. ASSUME NEW t \in Threads, NEW up \in BOOLEAN, Reconcile(t, up) PROVE ToolInv'
  BY <1>6, ReconcileStep
<1>7. ASSUME NEW d \in Dispatches,
             \/ ToolActs(d) \/ Reconciled(d)
             \/ \E state \in {"returned", "raised"} : ToolEnds(d, state)
      PROVE  ToolInv'
  BY <1>7, ToolStep, SettleStep
<1>8. CASE StopMoves \/ RevokeLease \/ UNCHANGED vars
  BY <1>1, <1>8 DEF StopMoves, RevokeLease, vars, reconciler
<1> QED
  BY <1>2, <1>3, <1>4, <1>5, <1>6, <1>7, <1>8 DEF Next

\* Every tool that was started is accounted for when its call is answered, for
\* any number of threads, plans and dispatches and wherever the stop, the
\* deadline or a revocation falls: a receipt is for tools that all returned
\* undisturbed, and one that still runs is on record or its caller was told that
\* it is not (_dispatch, _cancel, _reconcile).
THEOREM ToolsAreAccounted == Spec => []ToolsAccounted
<1>1. ToolInv => ToolsAccounted
  BY DEF ToolInv
<1> QED
  BY <1>1, ToolsInit, ToolsStep, PTL DEF Spec

===============================================================================
