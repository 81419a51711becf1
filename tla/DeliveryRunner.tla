--------------------------- MODULE DeliveryRunner ---------------------------
(* The resumable delivery dispatcher, scripts/ocor_autonomous_delivery.py.   *)
(* A process loads the state file and then either runs one command on its    *)
(* copy or dispatches one ready task in the task's own Git worktree; it      *)
(* saves its in-memory copy of the whole state between steps, over whatever  *)
(* other processes have saved since it loaded.  A process may die or raise   *)
(* between any two steps.  A commit is the number of merges main contains;   *)
(* file areas are sets.                                                      *)
EXTENDS Naturals, FiniteSets, Sequences, TLC

CONSTANTS
    Tasks, Hard, Gate, Areas,   \* the backlog: hard_dependencies, delivery_gate,
                                \* expected_file_areas of each task
    Waited,                     \* bound: the tasks an external wait is recorded for
    Runners,                    \* dispatcher processes
    RetryBudgets,               \* the values of config max_retries considered
    MaxStarts                   \* bound: processes started

ASSUME RunnerAssumption ==
    /\ RetryBudgets \subseteq 0..3 /\ MaxStarts \in Nat
    /\ \A task \in Tasks : Hard[task] \subseteq Tasks \ {task} /\ Gate[task] \in Nat

VARIABLES
    file,       \* the saved state.json
    proc,       \* each process: its step, task and in-memory state
    worktree,   \* task -> its worktree's branch: merges it is based on, its commits
    main,       \* the integration branch at the remote: tasks merged, in order
    tracking,   \* how many of main's merges the local tracking ref contains
    head,       \* how many of them the coordinator checkout contains
    max_retries,\* config max_retries
    starts

deliveryVars == <<file, proc, worktree, main, tracking, head, max_retries, starts>>
gitVars == <<worktree, main, tracking, head>>

ACTIVE == {"PREPARED", "RUNNING", "VALIDATING"}
FAILURE == {"FAILED_IMPLEMENTATION", "BLOCKED_INFRASTRUCTURE"}
EXTERNAL_WAITING == {"WAITING_EXTERNAL_SERVICE"}
NoWorktree == [base |-> 0, work |-> "absent"]
Exited == [at |-> "exited"]

new_state ==
    [status |-> [task \in Tasks |-> "PENDING"], retries |-> [task \in Tasks |-> 0],
     ownership_locks |-> {}, emergency_stop |-> FALSE, integration_commit |-> 0]

DeliveryInit ==
    /\ file = new_state
    /\ proc = [r \in Runners |-> Exited]
    /\ worktree = [task \in Tasks |-> NoWorktree]
    /\ main = << >> /\ tracking = 0 /\ head = 0
    /\ max_retries \in RetryBudgets /\ starts = 0

-----------------------------------------------------------------------------
Merged(n) == {main[i] : i \in 1..n}
MainLen == Len(main)

path_overlap(a, b) == Areas[a] \cap Areas[b] # {}

WithinBudget(st, budget) == \A task \in Tasks : st.retries[task] <= budget

validate_state(st) ==
    /\ WithinBudget(st, max_retries)
    /\ \A a, b \in st.ownership_locks : a # b => ~path_overlap(a, b)

Release(st, recovered) ==
    [st EXCEPT !.status = [task \in Tasks |-> IF task \in recovered THEN "PENDING" ELSE @[task]],
               !.ownership_locks = @ \ recovered]

(* Recovery with the budget check off by one.                                *)
RecoverOnceMore(st) ==
    Release(st, {task \in Tasks : \/ st.status[task] \in ACTIVE
                                  \/ st.status[task] \in FAILURE /\ st.retries[task] <= max_retries})

recover_interrupted(st) ==
    Release(st, {task \in Tasks : \/ st.status[task] \in ACTIVE
                                  \/ st.status[task] \in FAILURE /\ st.retries[task] < max_retries})

(* Readiness by gate alone.                                                  *)
ReadyByGate(st) ==
    {task \in Tasks : ~st.emergency_stop /\ st.status[task] = "PENDING"
       /\ \A other \in Tasks : Gate[other] < Gate[task] => st.status[other] = "ACCEPTED"}

ready_tasks(st) ==
    {task \in Tasks :
       /\ ~st.emergency_stop /\ st.status[task] = "PENDING"
       /\ \A other \in Tasks : Gate[other] < Gate[task] => st.status[other] = "ACCEPTED"
       /\ \A dep \in Hard[task] : st.status[dep] = "ACCEPTED"
       /\ \A owner \in st.ownership_locks :
            st.status[owner] \in ACTIVE => ~path_overlap(task, owner)}

(* Clean governed branch, HEAD equal to the tracking ref (nothing is         *)
(* fetched), inputs unchanged.                                               *)
execution_preflight == head = tracking

-----------------------------------------------------------------------------
(* One process, from load to exit.                                           *)

Save(st) == file' = st
Becomes(r, record) == proc' = [proc EXCEPT ![r] = record]
At(r, step) == proc[r].at = step
With(st, task, status) == [st EXCEPT !.status[task] = status]
Failed(st, task, status) == [st EXCEPT !.status[task] = status, !.retries[task] = @ + 1]

(* main: load and validate.                                                  *)
Load(r) ==
    /\ At(r, "exited") /\ starts < MaxStarts /\ starts' = starts + 1
    /\ validate_state(file)
    /\ Becomes(r, [at |-> "loaded", st |-> file])
    /\ UNCHANGED <<file, gitVars, max_retries>>

(* --resume, choose a ready task, preflight.                                 *)
Dispatch(r, resume, task) ==
    LET st == IF resume THEN recover_interrupted(proc[r].st) ELSE proc[r].st IN
    /\ At(r, "loaded")
    /\ IF resume THEN Save(st) ELSE UNCHANGED file
    /\ Becomes(r, IF task \in ready_tasks(st) /\ execution_preflight
                    THEN [at |-> "selected", task |-> task, st |-> st] ELSE Exited)
    /\ UNCHANGED <<gitVars, max_retries, starts>>

acquire_ownership(st, task) ==
    \A owner \in st.ownership_locks \ {task} : ~path_overlap(task, owner)

(* An existing worktree is resumed, fast-forwarded, or refused as diverged.  *)
prepare_worktree(task) ==
    LET w == worktree[task]
        merged == task \in Merged(head)
    IN CASE w.work = "absent" -> [base |-> head, work |-> "clean"]
         [] w.work = "clean" \/ merged -> [base |-> head, work |-> "clean"]
         [] OTHER -> w

Prepare(r) ==
    LET p == proc[r]
        st == [With(p.st, p.task, "PREPARED") EXCEPT !.ownership_locks = @ \cup {p.task}]
        w == prepare_worktree(p.task)
    IN /\ At(r, "selected")
       /\ ~p.st.emergency_stop /\ acquire_ownership(p.st, p.task)
       /\ w.work # "dirty" /\ w.base = head
       /\ worktree' = [worktree EXCEPT ![p.task] = w]
       /\ Save(st)
       /\ Becomes(r, [at |-> "prepared", task |-> p.task, st |-> st])
       /\ UNCHANGED <<main, tracking, head, max_retries, starts>>

StartAgent(r) ==
    LET p == proc[r]
        st == With(p.st, p.task, "RUNNING")
    IN /\ At(r, "prepared")
       /\ Save(st)
       /\ Becomes(r, [at |-> "agent", task |-> p.task, st |-> st])
       /\ UNCHANGED <<gitVars, max_retries, starts>>

(* The agent leaves edits behind, whether it then succeeds or fails.         *)
AgentEnds(r) ==
    LET p == proc[r] IN
    /\ At(r, "agent")
    /\ worktree' = [worktree EXCEPT ![p.task].work = "dirty"]
    /\ \/ /\ Becomes(r, [p EXCEPT !.at = "edited"])
          /\ UNCHANGED file
       \/ \E status \in FAILURE :
            /\ Save(Failed(p.st, p.task, status))
            /\ Becomes(r, Exited)
    /\ UNCHANGED <<main, tracking, head, max_retries, starts>>

(* commit_implementation seals the bytes before they are validated; every    *)
(* commit since the integration commit must lie in the task's own areas.     *)
commit_implementation(r) ==
    LET p == proc[r]
        st == With(p.st, p.task, "VALIDATING")
        since == {main[i] : i \in (p.st.integration_commit + 1)..worktree[p.task].base}
    IN /\ At(r, "edited")
       /\ since \subseteq {p.task}
       /\ worktree' = [worktree EXCEPT ![p.task].work = "sealed"]
       /\ Save(st)
       /\ Becomes(r, [at |-> "validating", task |-> p.task, st |-> st])
       /\ UNCHANGED <<main, tracking, head, max_retries, starts>>

(* A validation command fails, before or after the evidence is written.      *)
ValidationFails(r) ==
    LET p == proc[r] IN
    /\ At(r, "validating")
    /\ Save(Failed(p.st, p.task, "FAILED_IMPLEMENTATION"))
    /\ Becomes(r, Exited)
    /\ UNCHANGED <<gitVars, max_retries, starts>>

(* Every command passes; the evidence is written, validated and committed.   *)
Validate(r) ==
    LET p == proc[r] IN
    /\ At(r, "validating")
    /\ worktree' = [worktree EXCEPT ![p.task].work = "evidence"]
    /\ Becomes(r, [p EXCEPT !.at = "push"])
    /\ UNCHANGED <<file, main, tracking, head, max_retries, starts>>

(* remote_delivery: push, pull request, CI, merge of exactly this head.      *)
MergeTask(r) ==
    LET p == proc[r] IN
    /\ At(r, "push")
    /\ main' = Append(main, p.task)
    /\ Becomes(r, [p EXCEPT !.at = "merged"])
    /\ UNCHANGED <<file, worktree, tracking, head, max_retries, starts>>

(* fetch; the fetched main must contain the head.                            *)
FetchMain(r) ==
    /\ At(r, "merged") /\ proc[r].task \in Merged(MainLen)
    /\ tracking' = MainLen
    /\ Becomes(r, [proc[r] EXCEPT !.at = "fetched"] @@ [merged |-> MainLen])
    /\ UNCHANGED <<file, worktree, main, head, max_retries, starts>>

(* merge --ff-only; HEAD must then be the fetched commit.                    *)
FastForward(r) ==
    /\ At(r, "fetched") /\ head <= proc[r].merged
    /\ head' = proc[r].merged
    /\ Becomes(r, [proc[r] EXCEPT !.at = "advanced"])
    /\ UNCHANGED <<file, worktree, main, tracking, max_retries, starts>>

Accept(r) ==
    LET p == proc[r]
        st == [With(p.st, p.task, "ACCEPTED") EXCEPT
                 !.ownership_locks = @ \ {p.task}, !.integration_commit = p.merged]
    IN /\ At(r, "advanced")
       /\ Save(st)
       /\ Becomes(r, Exited)
       /\ UNCHANGED <<gitVars, max_retries, starts>>

(* A DeliveryError, a signal or a power cut: the saved file stays as it is.  *)
RunnerDies(r) ==
    /\ ~At(r, "exited")
    /\ Becomes(r, Exited)
    /\ UNCHANGED <<file, gitVars, max_retries, starts>>

-----------------------------------------------------------------------------
(* One-shot commands, on the state the process loaded, and the operator's    *)
(* Git.                                                                      *)

Command(r, st) ==
    /\ At(r, "loaded") /\ Save(st) /\ Becomes(r, Exited)
    /\ UNCHANGED <<gitVars, max_retries, starts>>

EmergencyStop(r) == Command(r, [proc[r].st EXCEPT !.emergency_stop = TRUE])

Fenced(st) == execution_preflight /\ st.integration_commit = tracking

(* The blocker record checks out against the task, its code and main.        *)
external_blocker_record(task) == task \in Waited

record_external_waiting(r, task) ==
    /\ At(r, "loaded") /\ Fenced(proc[r].st)
    /\ external_blocker_record(task)
    /\ task \in ready_tasks(proc[r].st)
    /\ \E code \in EXTERNAL_WAITING : Command(r, With(proc[r].st, task, code))

clear_external_waiting(r, task) ==
    /\ At(r, "loaded") /\ Fenced(proc[r].st)
    /\ proc[r].st.status[task] \in EXTERNAL_WAITING
    /\ Command(r, With(proc[r].st, task, "PENDING"))

(* The evidence is read from the checkout, its commit looked up in the       *)
(* tracking ref.                                                             *)
evidence_qualifies(task) == task \in Merged(head) \cap Merged(tracking)

AcceptEvidence(r, task) ==
    /\ At(r, "loaded")
    /\ proc[r].st.status[task] \notin EXTERNAL_WAITING
    /\ \A dep \in Hard[task] : proc[r].st.status[dep] = "ACCEPTED"
    /\ evidence_qualifies(task)
    /\ Command(r, With(proc[r].st, task, "ACCEPTED"))

(* The operator pulls main, or discards a dead task's worktree and branch.   *)
Pull ==
    /\ head < MainLen /\ head' = MainLen /\ tracking' = MainLen
    /\ UNCHANGED <<file, proc, worktree, main, max_retries, starts>>

DiscardWorktree(task) ==
    /\ worktree[task].work # "absent"
    /\ \A r \in Runners : proc[r].at \notin {"exited", "loaded"} => proc[r].task # task
    /\ worktree' = [worktree EXCEPT ![task] = NoWorktree]
    /\ UNCHANGED <<file, proc, main, tracking, head, max_retries, starts>>

DeliveryNext ==
    \/ \E r \in Runners :
         \/ Load(r) \/ EmergencyStop(r)
         \/ \E task \in Tasks, resume \in BOOLEAN : Dispatch(r, resume, task)
         \/ Prepare(r) \/ StartAgent(r) \/ AgentEnds(r) \/ commit_implementation(r)
         \/ Validate(r) \/ ValidationFails(r) \/ MergeTask(r)
         \/ FetchMain(r) \/ FastForward(r) \/ Accept(r) \/ RunnerDies(r)
         \/ \E task \in Tasks :
              \/ record_external_waiting(r, task) \/ clear_external_waiting(r, task)
              \/ AcceptEvidence(r, task)
    \/ Pull
    \/ \E task \in Tasks : DiscardWorktree(task)

-----------------------------------------------------------------------------
(* Main receives a task only on top of its dependencies: no interleaving     *)
(* of dispatchers, resumes, lost state updates and one-shot commands merges  *)
(* a task before every task it depends on, or from a worktree that does not  *)
(* contain them, and a task the file calls ACCEPTED is on main               *)
(* (execute_task, ready_tasks, prepare_worktree, remote_delivery).           *)
MergedInOrder ==
    /\ \A i \in DOMAIN main : \A dep \in Hard[main[i]] : \E j \in 1..(i - 1) : main[j] = dep
    /\ \A r \in Runners : At(r, "push") =>
         Hard[proc[r].task] \subseteq Merged(worktree[proc[r].task].base)
    /\ \A task \in Tasks : file.status[task] = "ACCEPTED" => task \in Merged(MainLen)

(* The dispatcher never saves a state that it would refuse to load: retry    *)
(* budgets are kept and no two locks overlap, whichever process wrote last   *)
(* (validate_state against recover_interrupted, acquire_ownership and the    *)
(* failure paths of execute_task).  The exception is the budget of zero that *)
(* Plan.validate admits: the first failure is saved as retry 1 of 0.         *)
SavedStateLoads ==
    /\ WithinBudget(file, IF max_retries = 0 THEN 1 ELSE max_retries)
    /\ \A a, b \in file.ownership_locks : a # b => ~path_overlap(a, b)

(* The dispatcher's file and main agree however it is interrupted: the two   *)
(* facts above.                                                              *)
DeliverySound == MergedInOrder /\ SavedStateLoads
=============================================================================
