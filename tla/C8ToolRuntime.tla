----------------------------- MODULE C8ToolRuntime -----------------------------
(***************************************************************************)
(* ToolCallRuntime (c8/tool_runtime.py): a call passes five gates, then    *)
(* runs the tools of its expression one after the other, each on a worker  *)
(* thread that the calling thread supervises against the emergency stop    *)
(* and a deadline.                                                         *)
(*                                                                         *)
(* The stop is C6EmergencyStop's and moves at any time.  The lease is one  *)
(* lease of CapabilityAuthority: authorize asks that it is not revoked and *)
(* that the stop is at its epoch (C6Capabilities is the authority itself). *)
(* A tool is cooperative (it asks a checkpoint before its effect),         *)
(* governed (it asks authorize_effect) or native (it asks nobody and       *)
(* cannot be preempted); it may run for ever.                              *)
(***************************************************************************)
EXTENDS C6EmergencyStop, C6Reconciler, FiniteSetsExt, Sequences

CONSTANTS
    Threads,
    Plans,          \* the expressions: the sequences of tools they call
    MaxUses,        \* max_uses of the lease
    Cost, Limit     \* estimated tokens of a call; the budget

ASSUME Budgeted == Cost \in Nat /\ Limit \in Nat /\ MaxUses \in Nat

Tools == {"cooperative", "governed", "native"}

\* An expression without a tool call never reaches _dispatch.
ASSUME PlansAssumption == Plans \subseteq Seq(Tools) \ {<<>>}

Dispatches == Commands      \* a dispatch's number is also its command id

VARIABLES
    revoked, uses,  \* the lease, issued at epoch 0
    used,           \* tokens charged
    call,           \* thread -> its call in progress, if any
    workers,        \* dispatch -> its worker, if it was started
    told            \* dispatch -> how the call that made it ended

lease == <<revoked, uses>>
vars == <<stop, reconciler, lease, used, call, workers, told>>

LeaseEpoch == 0

Init ==
    /\ StopInit /\ ReconcilerInit
    /\ revoked = FALSE /\ uses = 0 /\ used = 0
    /\ call = [t \in Threads |-> {}]
    /\ workers = [d \in Dispatches |-> {}]
    /\ told = [d \in Dispatches |-> "nothing"]

Authorized == ~revoked /\ guard_dispatch(LeaseEpoch)
StopAccepted == ~guard_dispatch(LeaseEpoch)

Goto(t, c, stage) == call' = [call EXCEPT ![t] = {[c EXCEPT !.stage = stage]}]

\* The call ends: every dispatch it made is answered for with it.
Ends(t, c, answer) ==
    /\ call' = [call EXCEPT ![t] = {}]
    /\ told' = [d \in Dispatches |-> IF d \in c.made THEN answer ELSE told[d]]

-------------------------------------------------------------------------------
(* invoke *)

\* The bound on dispatches: a call begins only when enough of them are left for
\* its tools and for those of the calls in progress.
Owed(t) == IF call[t] = {} THEN 0 ELSE Len((CHOOSE c \in call[t] : TRUE).plan)
Affordable(plan) ==
    Len(plan) + MapThenSumSet(Owed, Threads) <= Cardinality({d \in Dispatches : workers[d] = {}})

\* The lease is authorized and a use of it consumed; a refusal changes nothing.
Invoke(t, plan) ==
    /\ call[t] = {} /\ Affordable(plan)
    /\ Authorized /\ uses < MaxUses
    /\ uses' = uses + 1
    /\ call' = [call EXCEPT ![t] = {[stage |-> "gates", plan |-> plan, made |-> {}, current |-> {}]}]
    /\ UNCHANGED <<stop, reconciler, revoked, used, workers, told>>

\* The lease covers every tool of the expression, purpose and marking allow it,
\* the stop is fenced and the budget charged, in this order.
Gates(t, allowed) ==
    /\ \E c \in call[t] :
         /\ c.stage = "gates"
         /\ IF Authorized /\ allowed /\ used + Cost <= Limit
            THEN used' = used + Cost /\ Goto(t, c, "dispatch") /\ UNCHANGED told
            ELSE Ends(t, c, "refused") /\ UNCHANGED used
    /\ UNCHANGED <<stop, reconciler, lease, workers>>

\* _dispatch: the lease and the stop are asked again ...
Dispatch(t) ==
    /\ \E c \in call[t] :
         /\ c.stage = "dispatch"
         /\ IF Authorized
            THEN Goto(t, c, "start") /\ UNCHANGED told
            ELSE Ends(t, c, "refused")
    /\ UNCHANGED <<stop, reconciler, lease, used, workers>>

\* ... and then the worker is started.
Start(t) ==
    /\ \E c \in call[t], d \in Dispatches :
         /\ c.stage = "start"
         /\ workers[d] = {} /\ \A e \in Dispatches : e < d => workers[e] # {}
         /\ workers' = [workers EXCEPT ![d] =
              {[tool |-> Head(c.plan), state |-> "running", effect |-> FALSE,
                cancelled |-> FALSE, preempted |-> FALSE]}]
         /\ call' = [call EXCEPT ![t] =
              {[c EXCEPT !.stage = "supervise", !.plan = Tail(@), !.made = @ \cup {d}, !.current = {d}]}]
    /\ UNCHANGED <<stop, reconciler, lease, used, told>>

-------------------------------------------------------------------------------
(* The tool, on its worker *)

\* cancellation_checkpoint, authorize_effect, or nothing.
MayEffect(w) ==
    CASE w.tool = "cooperative" -> ~w.cancelled /\ ~StopAccepted
      [] w.tool = "governed" -> Authorized
      [] w.tool = "native" -> TRUE

ToolActs(d) ==
    /\ \E w \in workers[d] :
         /\ w.state = "running" /\ ~w.effect /\ MayEffect(w)
         /\ workers' = [workers EXCEPT ![d] = {[w EXCEPT !.effect = TRUE]}]
    /\ UNCHANGED <<stop, reconciler, lease, used, call, told>>

\* The worker retires: the tool returned, or raised because of its checkpoint,
\* its refused effect, a preemption or a failure of its own.
ToolEnds(d, state) ==
    /\ \E w \in workers[d] :
         /\ w.state = "running"
         /\ workers' = [workers EXCEPT ![d] = {[w EXCEPT !.state = state]}]
    /\ UNCHANGED <<stop, reconciler, lease, used, call, told>>

-------------------------------------------------------------------------------
(* The supervision, on the calling thread *)

\* Mutant: a tool that ended during its cancellation counts as done.
CollectCancelled(t) ==
    /\ \E c \in call[t] : \E d \in c.current : \E w \in workers[d] :
         /\ c.stage \in {"supervise", "grace"} /\ w.state # "running"
         /\ \/ c.stage = "supervise" /\ StopAccepted /\ Goto(t, c, "reconcile") /\ UNCHANGED told
            \/ (c.stage = "grace" \/ ~StopAccepted) /\ w.state = "raised" /\ Ends(t, c, "error")
            \/ /\ c.stage = "grace" \/ ~StopAccepted
               /\ w.state = "returned"
               /\ IF c.plan = <<>> THEN Ends(t, c, "receipt") ELSE Goto(t, c, "dispatch") /\ UNCHANGED told
    /\ UNCHANGED <<stop, reconciler, lease, used, workers>>

\* The worker is done: a stop makes its outcome unknown, its error ends the
\* call, its result is followed by the next tool or by the receipt.
Collect(t) ==
    /\ \E c \in call[t] : \E d \in c.current : \E w \in workers[d] :
         /\ c.stage = "supervise" /\ w.state # "running"
         /\ \/ StopAccepted /\ Goto(t, c, "reconcile") /\ UNCHANGED told
            \/ ~StopAccepted /\ w.state = "raised" /\ Ends(t, c, "error")
            \/ /\ ~StopAccepted /\ w.state = "returned"
               /\ IF c.plan = <<>> THEN Ends(t, c, "receipt") ELSE Goto(t, c, "dispatch") /\ UNCHANGED told
    /\ UNCHANGED <<stop, reconciler, lease, used, workers>>

\* Mutant: only a stop cancels a tool that runs.
CancelOnStop(t) ==
    /\ \E c \in call[t] : \E d \in c.current : \E w \in workers[d] :
         /\ c.stage = "supervise" /\ StopAccepted
         /\ workers' = [workers EXCEPT ![d] = {[w EXCEPT !.cancelled = TRUE]}]
         /\ Goto(t, c, "grace")
    /\ UNCHANGED <<stop, reconciler, lease, used, told>>

\* A stop or the deadline, seen while waiting: cancelled is set.  The worker
\* may retire between the wait and this.
Cancel(t) ==
    /\ \E c \in call[t] : \E d \in c.current : \E w \in workers[d] :
         /\ c.stage = "supervise"
         /\ workers' = [workers EXCEPT ![d] = {[w EXCEPT !.cancelled = TRUE]}]
         /\ Goto(t, c, "grace")
    /\ UNCHANGED <<stop, reconciler, lease, used, told>>

\* The grace is over or the worker done: what still runs is preempted.
Preempt(t) ==
    /\ \E c \in call[t] : \E d \in c.current : \E w \in workers[d] :
         /\ c.stage = "grace"
         /\ workers' = [workers EXCEPT ![d] = {[w EXCEPT !.preempted = (w.state = "running")]}]
         /\ Goto(t, c, "reconcile")
    /\ UNCHANGED <<stop, reconciler, lease, used, told>>

\* Mutant: the refusal is raised without a record.
ReconcileUnrecorded(t, up) ==
    /\ \E c \in call[t] : \E d \in c.current :
         c.stage = "reconcile" /\ Ends(t, c, "unknown")
    /\ UNCHANGED <<stop, reconciler, lease, used, workers>>

\* _reconcile: the outcome is recorded before the refusal is raised; when the
\* reconciler fails the refusal says so.
Reconcile(t, up) ==
    /\ \E c \in call[t] : \E d \in c.current :
         /\ c.stage = "reconcile"
         /\ IF up THEN mark_ambiguous(d, FALSE) /\ Ends(t, c, "unknown")
                  ELSE UNCHANGED reconciler /\ Ends(t, c, "unrecorded")
    /\ UNCHANGED <<stop, lease, used, workers>>

-------------------------------------------------------------------------------

StopMoves == StopNext /\ UNCHANGED <<reconciler, lease, used, call, workers, told>>

RevokeLease ==
    /\ ~revoked /\ revoked' = TRUE
    /\ UNCHANGED <<stop, reconciler, uses, used, call, workers, told>>

Reconciled(d) == Reconciles(d) /\ UNCHANGED <<stop, lease, used, call, workers, told>>

Next ==
    \/ StopMoves \/ RevokeLease
    \/ \E t \in Threads :
         \/ \E plan \in Plans : Invoke(t, plan)
         \/ \E allowed \in BOOLEAN : Gates(t, allowed)
         \/ Dispatch(t) \/ Start(t) \/ Collect(t) \/ Cancel(t) \/ Preempt(t)
         \/ \E up \in BOOLEAN : Reconcile(t, up)
    \/ \E d \in Dispatches :
         \/ ToolActs(d) \/ Reconciled(d)
         \/ \E state \in {"returned", "raised"} : ToolEnds(d, state)

Spec == Init /\ [][Next]_vars

\* The calling threads run.  Nothing is assumed of the tools.
Advances(t) ==
    \/ Gates(t, TRUE) \/ Dispatch(t) \/ Start(t) \/ Collect(t) \/ Cancel(t)
    \/ Preempt(t) \/ Reconcile(t, TRUE)
Fairness == \A t \in Threads : WF_vars(Advances(t))

FairSpec == Spec /\ Fairness

-------------------------------------------------------------------------------
(* Properties *)

\* A receipt is for tools that all ran to their end undisturbed: none of them
\* was cancelled or preempted, however the cancellation raced its return.
ReceiptClean ==
    \A d \in Dispatches : told[d] = "receipt" =>
       \A w \in workers[d] : w.state = "returned" /\ ~w.cancelled /\ ~w.preempted

\* No orphan: a tool that still runs after its call was answered, and may yet
\* act, has a record with the reconciler, or its caller was told that the
\* record failed.
NoOrphan ==
    \A d \in Dispatches : \A w \in workers[d] :
       w.state = "running" /\ told[d] # "nothing" =>
          told[d] = "unrecorded" \/ (told[d] = "unknown" /\ records[d] # {})

\* Every tool is accounted for when its call is answered: with a receipt it ended
\* clean, without one it is on record (the two facts above).
ToolsAccounted == ReceiptClean /\ NoOrphan

\* A call ends though its tools never do: stop or deadline refuse it.
CallEnds == \A t \in Threads : []<>(call[t] = {})

===============================================================================
