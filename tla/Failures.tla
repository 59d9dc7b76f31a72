------------------------------ MODULE Failures ------------------------------
(***************************************************************************)
(* The way of a failure from the place in an activity that raises it to    *)
(* the child workflow that classifies it: raised from an SDK exception     *)
(* that has causes of its own, converted link by link, wrapped, retried    *)
(* out, or replaced by an activity timeout.  (The names of the             *)
(* specification are prefixed: FailedCalls_proofs extends LLMBudget too.)  *)
(***************************************************************************)
EXTENDS Classify

CONSTANT MaxCauses   \* bound on the SDK causes below a raised exception

ASSUME MaxCausesAssumption == MaxCauses \in Nat

\* The names call_claude gives its budgeted errors, and the class of
\* core/errors.py each stands for: a literal for rate limits and
\* `type(e).__name__` for every other status or connection error.  Of the
\* subclasses of APIStatusError two are enough: NotFoundError, a name the
\* workflow treats apart, and InternalServerError for all the others.
BudgetedErrors ==
  [RateLimitError      |-> "LLMRateLimitError",
   APIStatusError      |-> "LLMServerError",
   InternalServerError |-> "LLMServerError",
   NotFoundError       |-> "LLMServerError",
   APIConnectionError  |-> "LLMConnectionError",
   APITimeoutError     |-> "LLMConnectionError"]

\* Those of them `_KNOWN_EXCEPTION_TYPES` has no entry for.
SubclassNames == {"InternalServerError", "NotFoundError", "APITimeoutError"}

\* Exception classes of the SDKs, any of which may be a cause of another.
SDKErrors == DOMAIN BudgetedErrors \cup {"BadRequestError", "TimeoutError", "OtherError"}

NoCause == "nothing"

\* A raise site: the link it puts outermost, the core/errors.py class it stands
\* for and the exceptions it raises that one from.
Site(link, meaning, from) == [link |-> link, meaning |-> meaning, from |-> from]

\* call_claude raises ApplicationErrors itself, non-retryable once its budget is
\* spent; LLMClientError (which also wraps 401 and 403) and the sandbox errors
\* are plain exceptions, which cross as ApplicationErrors.  A lost sandbox is
\* told from any error with "terminat" in its text, or from a bad mount.
RaiseSites ==
  {Site(Application(name), BudgetedErrors[name], {name}) : name \in DOMAIN BudgetedErrors}
  \cup {Site(Final(name), BudgetedErrors[name], {name}) : name \in DOMAIN BudgetedErrors}
  \cup {Site(Application("LLMClientError"), "LLMClientError", {"BadRequestError"}),
        Site(Application("SandboxGoneError"), "SandboxGoneError", SDKErrors \cup {NoCause}),
        Site(Application("ValidationError"), "ValidationError", {NoCause})}

\* An SDK exception that no code of the activity converts, or a timeout.
NoSite == Site(ActivityError, "none", {})

VARIABLES
  chain,     \* the failure as far as it has got, outermost first
  site,      \* where it was raised
  arrived    \* the workflow has caught it

failure_vars == <<chain, site, arrived>>

FailureInit ==
  /\ chain = << >>
  /\ site = NoSite
  /\ arrived = FALSE

\* An SDK exception, then one it is itself raised from, and so on inwards.
SDKFails ==
  /\ site = NoSite /\ ~arrived /\ Len(chain) < MaxCauses
  /\ \E name \in SDKErrors : chain' = Append(chain, Application(name))
  /\ UNCHANGED <<site, arrived>>

\* The exception at hand, if there is one.
DirectCause == IF chain = << >> THEN NoCause ELSE chain[1].type

\* The activity raises, from that exception.
ActivityRaises ==
  /\ site = NoSite /\ ~arrived
  /\ site' \in {s \in RaiseSites : DirectCause \in s.from}
  /\ chain' = <<site'.link>> \o chain
  /\ UNCHANGED arrived

\* Out of attempts, or not retried: the workflow catches an ActivityError.
Arrives ==
  /\ chain # << >> /\ ~arrived
  /\ chain' = <<ActivityError>> \o chain
  /\ arrived' = TRUE
  /\ UNCHANGED site

\* The activity's last attempt times out instead.
TimesOut ==
  /\ ~arrived /\ chain = << >>
  /\ chain' = TimedOut
  /\ arrived' = TRUE
  /\ UNCHANGED site

Caught == arrived /\ UNCHANGED failure_vars

FailureNext == SDKFails \/ ActivityRaises \/ Arrives \/ TimesOut \/ Caught

FailureSpec == FailureInit /\ [][FailureNext]_failure_vars

-----------------------------------------------------------------------------
\* Whether the child is tried again is decided exactly as `classify` would have
\* decided inside the activity, whatever lies beneath the exception raised, with
\* a spent budget always final; bare SDK exceptions and timeouts are retried.
\* The category survives too, except that of the subclasses llm.py:195 names:
\* unless a name further in is known it is recorded INTERNAL, where SPEC.md:1331
\* says LLM (file_analysis.py:81-176, errors.py:71-96).
VerdictSurvives ==
  arrived =>
    LET meant == ClassifyClass(site.meaning)
        found == ClassifyForWorkflow(chain)
    IN /\ found.retryable = (meant.retryable /\ ~site.link.nonRetryable)
       /\ \/ found.category = meant.category
          \/ site = NoSite
          \/ site.link.type \in SubclassNames /\ found.category = "INTERNAL"

\* The mid-loop recovery is attempted for exactly the failures exec_tool and
\* recover_sandbox raised as SandboxGoneError, never for a NotFoundError or a
\* rate limit further down the chain (file_analysis.py:143-148, 291-297).
GoneIsWhatWasRaised ==
  arrived => (IsSandboxGone(chain) <=> site.meaning = "SandboxGoneError")
=============================================================================
