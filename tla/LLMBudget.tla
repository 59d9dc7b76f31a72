------------------------------ MODULE LLMBudget ------------------------------
(***************************************************************************)
(* One call_claude activity over all its attempts (temporal/activities/    *)
(* llm.py).  Each attempt is a fresh invocation on any worker: what it     *)
(* knows of earlier attempts is the heartbeat details Temporal kept for    *)
(* it, sent without waiting just before the attempt fails.                 *)
(***************************************************************************)
EXTENDS Naturals

CONSTANTS MaxRateLimit,  \* MAX_RATE_LIMIT_ATTEMPTS
          MaxOther,      \* MAX_OTHER_RETRYABLE_ATTEMPTS
          Slack          \* the 7 of CALL_CLAUDE_RETRY_POLICY

ASSUME BudgetAssumption == MaxRateLimit \in Nat /\ MaxOther \in Nat /\ Slack \in Nat \ {0}

VARIABLES
  attempt,   \* activity.info().attempt
  details,   \* activity.info().heartbeat_details
  result,    \* how the activity ended
  \* history
  seen,      \* errors of each kind the attempts met
  lost       \* failed attempts that left no count: timeout, worker death,
             \* an exception outside the three families, a dropped heartbeat

vars == <<attempt, details, result, seen, lost>>

Counts == [rate_limit: Nat, other: Nat]
Zero == [rate_limit |-> 0, other |-> 0]
NoDetails == [rate_limit |-> 0, other |-> 0, absent |-> TRUE]
Results == {"pending", "ok", "client_error", "budget_spent", "policy_spent"}

TypeOK ==
  /\ attempt \in Nat \ {0}
  /\ details \in Counts \cup {NoDetails}
  /\ result \in Results
  /\ seen \in Counts
  /\ lost \in Nat

\* Fault: the policy's limit is not derived from both budgets.
PolicyAttemptsUnderived == MaxRateLimit

\* CALL_CLAUDE_RETRY_POLICY.maximum_attempts
PolicyAttempts == MaxRateLimit + MaxOther + Slack

Init ==
  /\ attempt = 1
  /\ details = NoDetails
  /\ result = "pending"
  /\ seen = Zero
  /\ lost = 0

\* Fault: the counts stay in the worker's memory.
RestoredNever == Zero

\* Fault: the two counts are read back exchanged.
RestoredSwapped ==
  IF details = NoDetails THEN Zero
  ELSE [rate_limit |-> details.other, other |-> details.rate_limit]

\* _restore_retry_counts
Restored == IF attempt <= 1 \/ details = NoDetails THEN Zero ELSE details

\* A retryable failure: Temporal makes another attempt, up to the policy's limit.
FailRetryable ==
  \/ /\ attempt < PolicyAttempts
     /\ attempt' = attempt + 1
     /\ UNCHANGED result
  \/ /\ attempt >= PolicyAttempts
     /\ result' = "policy_spent"
     /\ UNCHANGED attempt

\* _raise_budgeted with the counts this attempt arrived at; `n` of them are of
\* the kind whose budget is `max`.  The heartbeat may not reach the server.
RaiseBudgeted(n, max, counts) ==
  \/ /\ n > max
     /\ result' = "budget_spent"
     /\ UNCHANGED <<attempt, details, lost>>
  \/ /\ n <= max
     /\ \/ details' = counts /\ UNCHANGED lost
        \/ UNCHANGED details /\ lost' = lost + 1
     /\ FailRetryable

RateLimited ==
  /\ result = "pending"
  /\ LET counts == [Restored EXCEPT !.rate_limit = @ + 1] IN
     RaiseBudgeted(counts.rate_limit, MaxRateLimit, counts)
  /\ seen' = [seen EXCEPT !.rate_limit = @ + 1]

\* APIStatusError or APIConnectionError that is not one of the 4xx below.
OtherRetryable ==
  /\ result = "pending"
  /\ LET counts == [Restored EXCEPT !.other = @ + 1] IN
     RaiseBudgeted(counts.other, MaxOther, counts)
  /\ seen' = [seen EXCEPT !.other = @ + 1]

\* 400, 401, 403: LLMClientError, which the policy does not retry.
ClientError ==
  /\ result = "pending"
  /\ result' = "client_error"
  /\ UNCHANGED <<attempt, details, seen, lost>>

Succeeds ==
  /\ result = "pending"
  /\ result' = "ok"
  /\ UNCHANGED <<attempt, details, seen, lost>>

\* The attempt is lost before it counts anything: start-to-close timeout,
\* worker death (the call may have been billed), or any other exception.
AttemptLost ==
  /\ result = "pending"
  /\ FailRetryable
  /\ lost' = lost + 1
  /\ UNCHANGED <<details, seen>>

Ended ==
  /\ result # "pending"
  /\ UNCHANGED vars

Next == RateLimited \/ OtherRetryable \/ ClientError \/ Succeeds \/ AttemptLost \/ Ended

Spec == Init /\ [][Next]_vars

-----------------------------------------------------------------------------
\* The counts the next attempt restores never exceed what really happened, and
\* every failed attempt is counted in one of them or was lost: no attempt is
\* counted twice, and none resets the budgets (llm.py:110-128, 141-158).
CountsAddUp ==
  /\ Restored.rate_limit <= seen.rate_limit
  /\ Restored.other <= seen.other
  /\ result = "pending" => attempt = 1 + Restored.rate_limit + Restored.other + lost

\* A budget is declared spent only by more errors of its own kind than it
\* allows: rate limits never eat the budget of server errors, nor the reverse
\* (llm.py:169-199).
BudgetsIndependent ==
  result = "budget_spent" => seen.rate_limit > MaxRateLimit \/ seen.other > MaxOther

\* The retry policy is only an outer net: it ends the call before a budget
\* does only if at least Slack attempts went uncounted (shared.py:98-107).
PolicyIsOuterNet == result = "policy_spent" => lost >= Slack
=============================================================================
