------------------------------ MODULE C8Agents ------------------------------
(* C8: the agent kernel's token budget (c8_agent.py).  Threads of one run     *)
(* share a TokenBudget: an invocation charges its prompt, reserves its output *)
(* before the model runs, and then either charges what the model used or      *)
(* gives the reservation back.  Each operation of the budget holds its lock;  *)
(* the invocations interleave between them.                                   *)
EXTENDS Naturals, FiniteSets, FiniteSetsExt

CONSTANTS Invokers,   \* the threads of the run
          Budget,     \* TokenBudget.limit
          Prompts,    \* token counts of the prompts and identifiers
          Outputs,    \* max_output_tokens of the invocations
          Measured,   \* token counts the rendered responses may have
          LeaseUses   \* uses of the capability lease the threads share

VARIABLES tokensUsed,   \* TokenBudget._used
          reservations, \* thread -> tokens of its open reservation
          invocation,   \* thread -> where its call is
          leaseUses     \* uses of the lease so far

agentVars == <<tokensUsed, reservations, invocation, leaseUses>>

AgentInit == /\ tokensUsed = 0 /\ leaseUses = 0
             /\ reservations = [t \in {} |-> 0]
             /\ invocation = [t \in Invokers |-> [at |-> "idle"]]

Reserved == MapThenSumSet(LAMBDA t : reservations[t], DOMAIN reservations)

RemainingUnreserved == Budget - tokensUsed

remaining == Budget - tokensUsed - Reserved

Without(t) == [u \in DOMAIN reservations \ {t} |-> reservations[u]]

Returns(t, at) == invocation' = [invocation EXCEPT ![t] = [at |-> at]]

-----------------------------------------------------------------------------
\* consume_text, charged before anything else is done.
consume(t, tokens, then) ==
  /\ invocation[t].at = "idle"
  /\ IF tokens > remaining THEN tokensUsed' = tokensUsed /\ Returns(t, "idle")
     ELSE /\ tokensUsed' = tokensUsed + tokens
          /\ invocation' = [invocation EXCEPT ![t] = then]
  /\ UNCHANGED <<reservations, leaseUses>>

identify_or_abstain(t) == \E tokens \in Prompts : consume(t, tokens, [at |-> "idle"])

invoke(t) == \E tokens \in Prompts, max \in Outputs :
  consume(t, tokens, [at |-> "reserve", max |-> max])

reserve(t) ==
  /\ invocation[t].at = "reserve"
  /\ IF invocation[t].max > remaining
     THEN UNCHANGED reservations /\ Returns(t, "idle")
     ELSE /\ reservations' = [u \in DOMAIN reservations \cup {t} |->
                                IF u = t THEN invocation[t].max ELSE reservations[u]]
          /\ Returns(t, "authorize")
  /\ UNCHANGED <<tokensUsed, leaseUses>>

\* The lease is consumed before the model runs; every failure cancels.
CancelForgotten(t) == Returns(t, "idle") /\ UNCHANGED <<tokensUsed, reservations>>

cancel(t) == /\ Returns(t, "idle")
             /\ reservations' = Without(t)
             /\ UNCHANGED tokensUsed

authorize(t) ==
  /\ invocation[t].at = "authorize"
  /\ IF leaseUses < LeaseUses
     THEN leaseUses' = leaseUses + 1 /\ Returns(t, "model") /\ UNCHANGED <<tokensUsed, reservations>>
     ELSE cancel(t) /\ UNCHANGED leaseUses

\* The model answers with a response of some measured size, declares a larger
\* count or none, or fails; a declared count below the measure is refused.  Only
\* an Exception gives the reservation back: an interrupt of the interpreter
\* keeps it until the process ends, and is not modelled.
ModelReturns(t) ==
  /\ invocation[t].at = "model"
  /\ \/ \E output \in Measured :
          invocation' = [invocation EXCEPT ![t] = [at |-> "commit", output |-> output]]
        /\ UNCHANGED <<tokensUsed, reservations>>
     \/ cancel(t)
  /\ UNCHANGED leaseUses

commit(t) ==
  /\ invocation[t].at = "commit"
  /\ IF invocation[t].output > reservations[t] THEN cancel(t)
     ELSE /\ tokensUsed' = tokensUsed + invocation[t].output
          /\ reservations' = Without(t)
          /\ Returns(t, "idle")
  /\ UNCHANGED leaseUses

\* The sandbox shares the lease: one use, before the expression runs.
execute_sandboxed(t) ==
  /\ invocation[t].at = "idle" /\ leaseUses < LeaseUses
  /\ leaseUses' = leaseUses + 1
  /\ UNCHANGED <<tokensUsed, reservations, invocation>>

AgentNext == \E t \in Invokers : \/ identify_or_abstain(t) \/ invoke(t) \/ reserve(t) \/ authorize(t)
                                \/ ModelReturns(t) \/ commit(t) \/ execute_sandboxed(t)

-----------------------------------------------------------------------------
\* The budget is never overdrawn, the open reservations are exactly those of
\* the invocations still in flight, and once no invocation is in flight every
\* token not charged is available again: concurrent invocations neither
\* overcommit the limit nor leak reservations on any of their failure paths
\* (TokenBudget.consume, reserve, commit, cancel, AgentKernel.invoke).
BudgetExact ==
  /\ tokensUsed + Reserved <= Budget
  /\ DOMAIN reservations = {t \in Invokers : invocation[t].at \in {"authorize", "model", "commit"}}
=============================================================================
