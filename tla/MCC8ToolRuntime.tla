---------------------------- MODULE MCC8ToolRuntime ----------------------------
(* What agents do, spend and remember, for TLC: the tool runtime of C8, the   *)
(* token budget of its kernel, and of the memory plane admission,             *)
(* consolidation and the gate over restored stores.  They share no state, so  *)
(* a behaviour follows one of them.                                           *)
EXTENDS C8ToolRuntime, C8Agents, MemoryAdmission, MemoryConsolidation, MemoryRestore, TLC

CONSTANTS a, b, c, k, l

Expressions == {<<"cooperative", "native">>, <<"governed">>}

\* The inputs disagree on k and agree on l.
MCClaims ==
    <<a, 1>> :> {<<k, 1>>, <<l, 1>>} @@ <<b, 1>> :> {<<k, 2>>, <<l, 1>>} @@ <<c, 1>> :> {<<k, 1>>}

Summary == <<"consolidated", 1>>
Correction(op, version, keys) ==
    [op |-> op, kind |-> "correct", refs |-> {}, target |-> <<Summary, version>>, keys |-> keys]
MCJobs ==
    {[op |-> 1, kind |-> "consolidate", refs |-> {<<a, 1>>, <<b, 1>>, <<c, 1>>},
      target |-> <<>>, keys |-> {}],
     Correction(2, 1, {l}), Correction(3, 1, {k}), Correction(4, 2, {l})}

\* An item from a model and what is said to follow from it: with and without
\* its taint, as an instruction, and under a key that is used again.
Candidate(i, v, op, from, refs, taints, marking, instruction) ==
    [item |-> i, version |-> v, op |-> op, body |-> op, kind |-> "PROCEDURAL",
     source |-> from, refs |-> refs, taints |-> taints, marking |-> marking,
     instruction |-> instruction]
MCCandidates ==
    {Candidate(a, 1, 1, "MODEL_OUTPUT", {}, {"MODEL_GENERATED"}, 1, FALSE),
     Candidate(a, 2, 2, "HUMAN_INPUT", {}, {"MODEL_GENERATED", "HUMAN_SUPPLIED"}, 1, FALSE),
     Candidate(a, 2, 3, "HUMAN_INPUT", {}, {"HUMAN_SUPPLIED"}, 1, TRUE),
     Candidate(b, 1, 4, "PROCEDURE", {<<a, 2>>}, {"EXTERNAL_DATA"}, 1, TRUE),
     Candidate(b, 1, 4, "PROCEDURE", {}, {"EXTERNAL_DATA"}, 2, TRUE),
     Candidate(a, 1, 4, "HUMAN_INPUT", {<<b, 1>>}, {"EXTERNAL_DATA", "HUMAN_SUPPLIED"}, 2, TRUE)}

MCParticipants == <<"memory-metadata", "memory-index">>

VARIABLE focus

memories == <<admissionVars, consolidationVars, restoreVars>>

MCInit ==
    /\ focus \in {"tools", "agents", "admission", "consolidation", "restore"}
    /\ Init /\ AgentInit /\ AdmissionInit /\ ConsolidationInit /\ RestoreInit

MCNext ==
    /\ UNCHANGED focus
    /\ \/ focus = "tools" /\ Next /\ UNCHANGED <<agentVars, memories>>
       \/ focus = "agents" /\ AgentNext /\ UNCHANGED <<vars, memories>>
       \/ focus = "admission" /\ AdmissionNext
            /\ UNCHANGED <<vars, agentVars, consolidationVars, restoreVars>>
       \/ focus = "consolidation" /\ ConsolidationNext
            /\ UNCHANGED <<vars, agentVars, admissionVars, restoreVars>>
       \/ focus = "restore" /\ RestoreNext
            /\ UNCHANGED <<vars, agentVars, admissionVars, consolidationVars>>

\* The fairness of each component, for the behaviours that follow it.
MCFairSpec ==
    /\ MCInit /\ [][MCNext]_<<focus, vars, agentVars, memories>>
    /\ \A t \in Threads : WF_vars(focus = "tools" /\ Advances(t))
    /\ \A s \in Services : WF_consolidationVars(focus = "consolidation" /\ JobSteps(s))
    /\ \A r \in Jobs : WF_consolidationVars(focus = "consolidation" /\ Retry(r))

\* Memory states what its sources say: no version is admitted twice or sheds the
\* labels of what it goes back to (MemoryAdmissionService), and no summary hides
\* that they disagree (MemoryConsolidationService).
RecordsSound == AdmittedOnce /\ NoLaundering /\ DissentPreserved
===============================================================================
