----------------------------- MODULE C5Actions ------------------------------
(* C5: the action state machine (c5_actions.py).  An action is a value: each  *)
(* transition returns a new one with a longer, hash-chained history.  The     *)
(* caller supplies the instant, which may lie anywhere; a transition checks   *)
(* it against the last entry and, where the table says so, against the        *)
(* action's window.  Two values of one action may be derived from a common    *)
(* ancestor; the model follows one line of values.                            *)
EXTENDS Naturals, Sequences, FiniteSets

CONSTANTS Windows,    \* [not_before, expires_at]; 0 and NoEnd: none given
          NoEnd,
          Instants,   \* the instants callers supply
          MaxVersion  \* bound on the transitions of an action

VARIABLE action       \* [window, state, version, history]

\* _SPECS: <<source, event, target>>.
_SPECS ==
  {<<"DRAFT", "SUBMIT", "PROPOSED">>, <<"DRAFT", "CANCEL", "CANCELLED">>,
   <<"PROPOSED", "VALIDATE", "VALIDATED">>, <<"PROPOSED", "REJECT", "REJECTED">>,
   <<"PROPOSED", "CANCEL", "CANCELLED">>, <<"VALIDATED", "AUTHORIZE", "AUTHORIZED">>,
   <<"VALIDATED", "REJECT", "REJECTED">>, <<"VALIDATED", "CANCEL", "CANCELLED">>,
   <<"AUTHORIZED", "SCHEDULE", "SCHEDULED">>, <<"AUTHORIZED", "DISPATCH", "READY">>,
   <<"AUTHORIZED", "REVOKE", "CANCELLED">>, <<"SCHEDULED", "ACTIVATE", "READY">>,
   <<"SCHEDULED", "RESCHEDULE", "SCHEDULED">>, <<"SCHEDULED", "EXPIRE", "EXPIRED">>,
   <<"SCHEDULED", "CANCEL", "CANCELLED">>, <<"READY", "START", "RUNNING">>,
   <<"READY", "DEFER", "SCHEDULED">>, <<"READY", "EXPIRE", "EXPIRED">>,
   <<"READY", "CANCEL", "CANCELLED">>, <<"READY", "ABSTAIN", "ABSTAINED">>,
   <<"RUNNING", "PAUSE", "PAUSED">>, <<"RUNNING", "SUCCEED", "SUCCEEDED">>,
   <<"RUNNING", "FAIL", "FAILED">>, <<"RUNNING", "CANCEL", "CANCELLED">>,
   <<"PAUSED", "RESUME", "RUNNING">>, <<"PAUSED", "FAIL", "FAILED">>,
   <<"PAUSED", "CANCEL", "CANCELLED">>, <<"FAILED", "RETRY", "READY">>,
   <<"FAILED", "COMPENSATE", "COMPENSATING">>, <<"SUCCEEDED", "COMPENSATE", "COMPENSATING">>,
   <<"COMPENSATING", "COMPLETE", "COMPENSATED">>, <<"COMPENSATING", "FAIL", "FAILED">>}

\* The transitions whose spec enforces the window.
Enforcing == {"DISPATCH", "ACTIVATE", "START", "RESUME"}

TERMINAL_STATES == {"CANCELLED", "EXPIRED", "COMPENSATED", "REJECTED", "ABSTAINED"}

ActionInit == \E w \in Windows :
  /\ w.not_before < w.expires_at
  /\ action = [window |-> w, state |-> "DRAFT", version |-> 0, history |-> <<>>]

WindowInclusive(event, instant) ==
  LET w == action.window IN
  /\ event = "EXPIRE" => w.expires_at # NoEnd /\ instant >= w.expires_at
  /\ event \in Enforcing => w.not_before <= instant /\ instant <= w.expires_at

_check_window(event, instant) ==
  LET w == action.window IN
  /\ event = "EXPIRE" => w.expires_at # NoEnd /\ instant >= w.expires_at
  /\ event \in Enforcing => w.not_before <= instant /\ instant < w.expires_at

\* The chain of sources and targets, and the version; the hashes bind them.
verify_history(a) ==
  LET h == a.history IN
  /\ a.version = Len(h)
  /\ \A i \in DOMAIN h : h[i].source = IF i = 1 THEN "DRAFT" ELSE h[i - 1].target
  /\ a.state = IF h = <<>> THEN "DRAFT" ELSE h[Len(h)].target

transition(spec, instant) ==
  LET h == action.history IN
  /\ action.version < MaxVersion
  /\ spec[1] = action.state
  /\ h # <<>> => verify_history(action) /\ h[Len(h)].at <= instant
  /\ _check_window(spec[2], instant)
  /\ action' = [action EXCEPT !.state = spec[3], !.version = @ + 1,
                  !.history = Append(h, [source |-> spec[1], event |-> spec[2],
                                         target |-> spec[3], at |-> instant])]

ActionNext == \E spec \in _SPECS, instant \in Instants : transition(spec, instant)

-----------------------------------------------------------------------------
Events(i, names) == {j \in 1..i : action.history[j].event \in names}

\* Whatever detour an action took (scheduled, deferred, paused, retried after a
\* failure or a failed compensation), each start and each resumption lies
\* inside its window, at or after its authorization, and time never ran
\* backwards; one that expired did so after its end and never ran after; a
\* terminal action stays what it is (_SPECS, _check_window, transition).
RunsInWindow ==
  LET h == action.history IN
  \A i \in DOMAIN h :
    /\ h[i].target = "RUNNING" =>
         /\ action.window.not_before <= h[i].at /\ h[i].at < action.window.expires_at
         /\ \E j \in Events(i, {"AUTHORIZE"}) : h[j].at <= h[i].at
         /\ \E j \in Events(i, {"VALIDATE"}) : \A k \in Events(i, {"AUTHORIZE"}) : j < k
    /\ h[i].target = "EXPIRED" => h[i].at >= action.window.expires_at
    /\ h[i].target \in TERMINAL_STATES => i = Len(h)
=============================================================================
