------------------------------ MODULE Classify ------------------------------
(***************************************************************************)
(* How the child workflow turns a failure into (error_category, retryable) *)
(* (file_analysis.py:81-176 over core/errors.py:71-96).                    *)
(*                                                                         *)
(* A failure that crosses Temporal's activity boundary is a chain of       *)
(* exceptions, outermost first, linked by `cause`.  Python class and       *)
(* `.type` attribute are kept apart: the wrapped exception's original name *)
(* survives only in `.type`, and a Temporal TimeoutError's `.type` is an   *)
(* enum member, never a string.                                            *)
(***************************************************************************)
EXTENDS Naturals, Sequences

NoType == "no .type attribute"

\* A TimeoutType enum member: truthy, and equal to no exception name.
TimeoutType == "TimeoutType"

\* One link of the chain, as file_analysis.py reads it with getattr.
Link(class, type, nonRetryable) ==
  [class |-> class, type |-> type, nonRetryable |-> nonRetryable]

ErrorCategory == {"VALIDATION", "SANDBOX", "LLM", "TOOL", "TIMEOUT", "INTERNAL"}
Verdict == [category: ErrorCategory, retryable: BOOLEAN]

\* `_KNOWN_EXCEPTION_TYPES`: the wire name and the class it is rebuilt as.
KnownExceptionTypes ==
  [ValidationError    |-> "ValidationError",
   LLMClientError     |-> "LLMClientError",
   SandboxGoneError   |-> "SandboxGoneError",
   RateLimitError     |-> "LLMRateLimitError",
   APIStatusError     |-> "LLMServerError",
   APIConnectionError |-> "LLMConnectionError"]

\* classify(): `isinstance` tests become membership of the class in the family
\* its base names; the families are disjoint.  "builtins.TimeoutError" is
\* Python's own class, the only one `isinstance(exc, TimeoutError)` accepts.
SandboxErrors == {"SandboxError", "SandboxGoneError", "SandboxProvisionError"}
RetryableLLMErrors == {"LLMRateLimitError", "LLMServerError", "LLMConnectionError"}

ClassifyClass(class) ==
  CASE class = "ValidationError"       -> [category |-> "VALIDATION", retryable |-> FALSE]
    [] class \in SandboxErrors         -> [category |-> "SANDBOX",    retryable |-> TRUE]
    [] class = "LLMClientError"        -> [category |-> "LLM",        retryable |-> FALSE]
    [] class \in RetryableLLMErrors    -> [category |-> "LLM",        retryable |-> TRUE]
    [] class = "ToolExecutionError"    -> [category |-> "TOOL",       retryable |-> FALSE]
    [] class = "builtins.TimeoutError" -> [category |-> "TIMEOUT",    retryable |-> TRUE]
    [] OTHER                           -> [category |-> "INTERNAL",   retryable |-> TRUE]

-----------------------------------------------------------------------------
\* `getattr(current, "type", None) or type(current).__name__`
TypeName(link) == IF link.type # NoType THEN link.type ELSE link.class

RootCause(chain) == chain[Len(chain)]

\* Fault: only the innermost link is asked.
RootNonRetryable(chain) == RootCause(chain).nonRetryable

AnyNonRetryable(chain) == \E i \in DOMAIN chain : chain[i].nonRetryable

\* Fault: only the innermost link is looked up.
KnownLinksRootOnly(chain) ==
  {i \in {Len(chain)} : TypeName(chain[i]) \in DOMAIN KnownExceptionTypes}

KnownLinks(chain) ==
  {i \in DOMAIN chain : TypeName(chain[i]) \in DOMAIN KnownExceptionTypes}

\* Scanned outermost first: the first known link decides.
FirstKnownTypeName(chain) ==
  TypeName(chain[CHOOSE i \in KnownLinks(chain) : \A j \in KnownLinks(chain) : i <= j])

IsSandboxGone(chain) ==
  KnownLinks(chain) # {} /\ FirstKnownTypeName(chain) = "SandboxGoneError"

\* The class `classify` is handed.  A root named "NotFoundError" or
\* "TimeoutError" is rebuilt as a synthetic class of that name, which derives
\* from Exception only and so belongs to no family.
ClassifiedClass(chain) ==
  IF KnownLinks(chain) # {}
  THEN KnownExceptionTypes[FirstKnownTypeName(chain)]
  ELSE IF TypeName(RootCause(chain)) \in {"NotFoundError", "TimeoutError"}
       THEN "synthetic"
       ELSE RootCause(chain).class

ClassifyForWorkflow(chain) ==
  LET verdict == ClassifyClass(ClassifiedClass(chain)) IN
  [category |-> verdict.category,
   retryable |-> verdict.retryable /\ ~AnyNonRetryable(chain)]

-----------------------------------------------------------------------------
(***************************************************************************)
(* The chains the activities' failures arrive as.  Temporal converts every *)
(* Python exception into an ApplicationError carrying the class's          *)
(* `__name__` as `.type`, converts `__cause__` likewise, and wraps the     *)
(* whole in an ActivityError.                                              *)
(***************************************************************************)
ActivityError == Link("ActivityError", NoType, FALSE)
Application(name) == Link("ApplicationError", name, FALSE)
Final(name) == Link("ApplicationError", name, TRUE)

\* An exception of class `name` raised by an activity `from` one of class `from`.
Raised(name) == <<ActivityError, Application(name)>>
RaisedFrom(name, from) == <<ActivityError, Application(name), Application(from)>>

\* `_raise_budgeted` (llm.py:141-158), budget spent: the non-retryable error
\* and, inside it, the SDK exception it was raised from.
BudgetSpent(name) == <<ActivityError, Final(name), Application(name)>>

\* An activity timeout: Temporal's own TimeoutError under the ActivityError.
TimedOut == <<ActivityError, Link("TimeoutError", TimeoutType, FALSE)>>

\* raise ApplicationError("agent loop ended without a report", type="INTERNAL")
EndedWithoutReport == <<Application("INTERNAL")>>
=============================================================================
