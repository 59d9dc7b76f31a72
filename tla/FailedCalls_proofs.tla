-------------------------- MODULE FailedCalls_proofs --------------------------
(***************************************************************************)
(* Theorems about a call that fails.  First how long call_claude goes on    *)
(* (LLMBudget), for every pair of budgets and every slack of the retry      *)
(* policy; then what the workflow makes of the failure that is left         *)
(* (Failures), for chains of causes of any length.                          *)
(***************************************************************************)
EXTENDS LLMBudget, Failures, WellFoundedInduction, TLAPS

\* The budgets as they stand, and the link between attempts and counts.
\* CountsAddUp alone is not inductive: what is restored never exceeds a budget
\* while the call goes on, and the first attempt has nothing to restore.
WithinBudget ==
  /\ Restored.rate_limit <= MaxRateLimit
  /\ Restored.other <= MaxOther

FirstAttempt == result = "pending" /\ attempt = 1 => details = NoDetails

BudgetInv ==
  /\ TypeOK /\ CountsAddUp /\ WithinBudget /\ FirstAttempt
  /\ BudgetsIndependent /\ PolicyIsOuterNet

-----------------------------------------------------------------------------
LEMMA RestoredType == ASSUME TypeOK PROVE Restored \in Counts
BY DEF TypeOK, Restored, Zero, Counts

\* Counts that are reported are never mistaken for missing ones.
LEMMA CountsAreDetails == NoDetails \notin Counts
<1>1. DOMAIN NoDetails = {"rate_limit", "other", "absent"}
  BY DEF NoDetails
<1>2. \A c \in Counts : DOMAIN c = {"rate_limit", "other"}
  BY DEF Counts
<1>3. QED
  BY <1>1, <1>2

LEMMA BudgetInit == Init => BudgetInv
BY BudgetAssumption
   DEF Init, BudgetInv, TypeOK, CountsAddUp, WithinBudget, FirstAttempt, Restored, Zero,
       Counts, Results, BudgetsIndependent, PolicyIsOuterNet

\* A failed attempt keeps or replaces the details: what the next one restores.
LEMMA RestoredNext ==
  ASSUME BudgetInv, result = "pending", attempt' = attempt \/ attempt' = attempt + 1
  PROVE  /\ details' = details /\ attempt' = attempt + 1 => Restored' = Restored
         /\ \A c \in Counts : details' = c /\ attempt' = attempt + 1 => Restored' = c
<1>1. attempt \in Nat \ {0}
  BY DEF BudgetInv, TypeOK
<1>2. attempt' = attempt + 1 /\ details' = details => Restored' = Restored
  BY <1>1 DEF BudgetInv, FirstAttempt, Restored
<1>3. \A c \in Counts : details' = c /\ attempt' = attempt + 1 => Restored' = c
  BY <1>1, CountsAreDetails DEF Restored
<1>4. QED
  BY <1>2, <1>3

\* One lemma for both kinds of counted error: `one` is what this attempt met.
LEMMA RaiseStep ==
  ASSUME BudgetInv, result = "pending",
         NEW one \in {[rate_limit |-> 1, other |-> 0], [rate_limit |-> 0, other |-> 1]},
         NEW counts \in Counts,
         counts.rate_limit = Restored.rate_limit + one.rate_limit,
         counts.other = Restored.other + one.other,
         seen' \in Counts,
         seen'.rate_limit = seen.rate_limit + one.rate_limit,
         seen'.other = seen.other + one.other,
         IF one.rate_limit = 1 THEN RaiseBudgeted(counts.rate_limit, MaxRateLimit, counts)
                               ELSE RaiseBudgeted(counts.other, MaxOther, counts)
  PROVE  BudgetInv'
<1>1. /\ attempt \in Nat \ {0} /\ lost \in Nat /\ seen \in Counts
      /\ MaxRateLimit \in Nat /\ MaxOther \in Nat /\ Slack \in Nat \ {0}
      /\ details \in Counts \cup {NoDetails}
  BY BudgetAssumption DEF BudgetInv, TypeOK
<1>2. /\ Restored.rate_limit \in Nat /\ Restored.other \in Nat
      /\ counts.rate_limit \in Nat /\ counts.other \in Nat
      /\ seen.rate_limit \in Nat /\ seen.other \in Nat
      /\ one.rate_limit \in {0, 1} /\ one.other = 1 - one.rate_limit
  BY <1>1, RestoredType DEF BudgetInv, Counts
<1>3. /\ Restored.rate_limit <= seen.rate_limit /\ Restored.other <= seen.other
      /\ Restored.rate_limit <= MaxRateLimit /\ Restored.other <= MaxOther
      /\ attempt = 1 + Restored.rate_limit + Restored.other + lost
  BY DEF BudgetInv, CountsAddUp, WithinBudget
<1>4. CASE /\ result' = "budget_spent" /\ UNCHANGED <<attempt, details, lost>>
           /\ IF one.rate_limit = 1 THEN counts.rate_limit > MaxRateLimit
                                    ELSE counts.other > MaxOther
  <2>1. Restored' = Restored
    BY <1>4 DEF Restored
  <2>2. TypeOK'
    BY <1>1, <1>4 DEF TypeOK, Results
  <2>3. CountsAddUp' /\ WithinBudget' /\ FirstAttempt' /\ PolicyIsOuterNet'
    BY <1>2, <1>3, <1>4, <2>1 DEF CountsAddUp, WithinBudget, FirstAttempt, PolicyIsOuterNet
  <2>4. BudgetsIndependent'
    <3>1. CASE one.rate_limit = 1
      <4>1. seen'.rate_limit > MaxRateLimit
        BY <1>1, <1>2, <1>3, <1>4, <3>1
      <4>2. QED
        BY <4>1 DEF BudgetsIndependent
    <3>2. CASE one.rate_limit = 0
      <4>1. one.other = 1
        BY <1>2, <3>2
      <4>2. seen'.other > MaxOther
        BY <1>1, <1>2, <1>3, <1>4, <3>2, <4>1
      <4>3. QED
        BY <4>2 DEF BudgetsIndependent
    <3>3. QED
      BY <1>2, <3>1, <3>2
  <2>5. QED
    BY <2>2, <2>3, <2>4 DEF BudgetInv
<1>5. CASE /\ counts.rate_limit <= MaxRateLimit /\ counts.other <= MaxOther
           /\ \/ details' = counts /\ lost' = lost
              \/ details' = details /\ lost' = lost + 1
           /\ FailRetryable
  <2>1. TypeOK'
    BY <1>1, <1>5 DEF FailRetryable, TypeOK, Results, BudgetInv
  <2>2. CASE result' = "pending"
    <3>1. attempt' = attempt + 1
      BY <1>1, <1>5, <2>2 DEF FailRetryable
    <3>2. \/ Restored' = counts /\ lost' = lost
          \/ Restored' = Restored /\ lost' = lost + 1
      BY <1>5, <3>1, RestoredNext
    <3>3. CountsAddUp' /\ WithinBudget' /\ FirstAttempt'
      BY <1>1, <1>2, <1>3, <1>5, <2>2, <3>1, <3>2
         DEF CountsAddUp, WithinBudget, FirstAttempt
    <3>4. QED
      BY <2>1, <2>2, <3>3 DEF BudgetInv, BudgetsIndependent, PolicyIsOuterNet
  <2>3. CASE result' # "pending"
    <3>1. /\ result' = "policy_spent" /\ attempt' = attempt
          /\ attempt >= MaxRateLimit + MaxOther + Slack
      BY <1>5, <2>3 DEF FailRetryable, PolicyAttempts
    <3>2. Restored' \in {Zero, Restored, counts}
      BY <1>5, <3>1 DEF Restored
    <3>3. CountsAddUp' /\ WithinBudget' /\ FirstAttempt'
      BY <1>1, <1>2, <1>3, <1>5, <2>3, <3>2
         DEF CountsAddUp, WithinBudget, FirstAttempt, Zero
    <3>4. lost' >= Slack
      BY <1>1, <1>2, <1>3, <1>5, <3>1
    <3>5. QED
      BY <2>1, <3>1, <3>3, <3>4 DEF BudgetInv, BudgetsIndependent, PolicyIsOuterNet
  <2>4. QED
    BY <2>2, <2>3
<1>6. QED
  BY <1>2, <1>3, <1>4, <1>5 DEF RaiseBudgeted

LEMMA BudgetStep == ASSUME BudgetInv, [Next]_vars PROVE BudgetInv'
<1>1. TypeOK /\ Restored \in Counts /\ seen \in Counts
  BY RestoredType DEF BudgetInv, TypeOK
<1>2. CASE RateLimited
  <2> DEFINE counts == [Restored EXCEPT !.rate_limit = @ + 1]
             one == [rate_limit |-> 1, other |-> 0]
  <2>1. /\ counts \in Counts /\ counts.rate_limit = Restored.rate_limit + 1
        /\ counts.other = Restored.other /\ Restored.other \in Nat
    BY <1>1 DEF Counts
  <2>2. /\ seen' \in Counts /\ seen'.rate_limit = seen.rate_limit + 1
        /\ seen'.other = seen.other /\ seen.other \in Nat
    BY <1>1, <1>2 DEF RateLimited, Counts
  <2>3. result = "pending" /\ RaiseBudgeted(counts.rate_limit, MaxRateLimit, counts)
    BY <1>2 DEF RateLimited
  <2>4. /\ one \in {[rate_limit |-> 1, other |-> 0], [rate_limit |-> 0, other |-> 1]}
        /\ one.rate_limit = 1 /\ one.other = 0
    OBVIOUS
  <2> HIDE DEF counts, one
  <2>5. QED
    BY <2>1, <2>2, <2>3, <2>4, RaiseStep
<1>3. CASE OtherRetryable
  <2> DEFINE counts == [Restored EXCEPT !.other = @ + 1]
             one == [rate_limit |-> 0, other |-> 1]
  <2>1. /\ counts \in Counts /\ counts.other = Restored.other + 1
        /\ counts.rate_limit = Restored.rate_limit /\ Restored.rate_limit \in Nat
    BY <1>1 DEF Counts
  <2>2. /\ seen' \in Counts /\ seen'.other = seen.other + 1
        /\ seen'.rate_limit = seen.rate_limit /\ seen.rate_limit \in Nat
    BY <1>1, <1>3 DEF OtherRetryable, Counts
  <2>3. result = "pending" /\ RaiseBudgeted(counts.other, MaxOther, counts)
    BY <1>3 DEF OtherRetryable
  <2>4. /\ one \in {[rate_limit |-> 1, other |-> 0], [rate_limit |-> 0, other |-> 1]}
        /\ one.rate_limit = 0 /\ one.other = 1
    OBVIOUS
  <2> HIDE DEF counts, one
  <2>5. QED
    BY <2>1, <2>2, <2>3, <2>4, RaiseStep
<1>4. CASE ClientError \/ Succeeds
  BY <1>4 DEF ClientError, Succeeds, BudgetInv, TypeOK, Results, CountsAddUp, WithinBudget,
              FirstAttempt, Restored, BudgetsIndependent, PolicyIsOuterNet
<1>5. CASE AttemptLost
  <2>1. /\ attempt \in Nat \ {0} /\ lost \in Nat
        /\ MaxRateLimit \in Nat /\ MaxOther \in Nat /\ Slack \in Nat \ {0}
        /\ Restored.rate_limit \in Nat /\ Restored.other \in Nat
        /\ result = "pending" /\ details' = details /\ seen' = seen /\ lost' = lost + 1
        /\ Restored.rate_limit <= MaxRateLimit /\ Restored.other <= MaxOther
        /\ attempt = 1 + Restored.rate_limit + Restored.other + lost
    BY <1>1, <1>5, BudgetAssumption
       DEF AttemptLost, BudgetInv, TypeOK, Counts, CountsAddUp, WithinBudget
  <2>2. CASE attempt' = attempt + 1 /\ result' = result
    <3>1. Restored' = Restored
      BY <2>1, <2>2, RestoredNext
    <3>2. QED
      BY <2>1, <2>2, <3>1
         DEF BudgetInv, TypeOK, Results, CountsAddUp, WithinBudget, FirstAttempt,
             BudgetsIndependent, PolicyIsOuterNet
  <2>3. CASE /\ attempt >= MaxRateLimit + MaxOther + Slack /\ attempt' = attempt
             /\ result' = "policy_spent"
    <3>1. Restored' = Restored
      BY <2>1, <2>3 DEF Restored
    <3>2. lost' >= Slack
      BY <2>1, <2>3
    <3>3. QED
      BY <2>1, <2>3, <3>1, <3>2
         DEF BudgetInv, TypeOK, Results, CountsAddUp, WithinBudget, FirstAttempt,
             BudgetsIndependent, PolicyIsOuterNet
  <2>4. QED
    BY <1>5, <2>2, <2>3 DEF AttemptLost, FailRetryable, PolicyAttempts
<1>6. CASE Ended \/ UNCHANGED vars
  BY <1>6 DEF Ended, vars, BudgetInv, TypeOK, CountsAddUp, WithinBudget, FirstAttempt,
              Restored, BudgetsIndependent, PolicyIsOuterNet
<1>7. QED
  BY <1>2, <1>3, <1>4, <1>5, <1>6 DEF Next

LEMMA BudgetCorrect == Spec => []BudgetInv
BY BudgetInit, BudgetStep, PTL DEF Spec

\* No attempt is counted twice and none resets the budgets, however many
\* heartbeats are lost (llm.py:110-158).
THEOREM CountsAlwaysAddUp == Spec => []CountsAddUp
<1>1. BudgetInv => CountsAddUp
  BY DEF BudgetInv
<1>2. QED
  BY <1>1, BudgetCorrect, PTL

\* A budget is spent by errors of its own kind only (llm.py:169-199).
THEOREM BudgetsAreIndependent == Spec => []BudgetsIndependent
<1>1. BudgetInv => BudgetsIndependent
  BY DEF BudgetInv
<1>2. QED
  BY <1>1, BudgetCorrect, PTL

\* Whatever the budgets, a policy of their sum plus Slack ends a call first
\* only if Slack attempts went uncounted (shared.py:98-107).
THEOREM PolicyIsAlwaysOuter == Spec => []PolicyIsOuterNet
<1>1. BudgetInv => PolicyIsOuterNet
  BY DEF BudgetInv
<1>2. QED
  BY <1>1, BudgetCorrect, PTL

-----------------------------------------------------------------------------
(***************************************************************************)
(* From the place that raises to the verdict.                              *)
(***************************************************************************)
\* What Temporal or an SDK adds to a chain: nothing final, and no name but those
\* of retryable errors known to the workflow.
PlainLinks == {ActivityError, TimedOut[2]} \cup {Application(name) : name \in SDKErrors}

AnyLink == PlainLinks \cup {s.link : s \in RaiseSites}

\* Where the link that was raised is in the chain.
Place == IF arrived THEN 2 ELSE 1

\* All but what was raised is plain; above it is Temporal's wrapper only.
ChainKnown ==
  /\ chain \in Seq(AnyLink)
  /\ \A i \in DOMAIN chain : (site # NoSite /\ i = Place) \/ chain[i] \in PlainLinks
  /\ site # NoSite =>
       /\ site \in RaiseSites
       /\ Len(chain) >= Place /\ chain[Place] = site.link
       /\ arrived => chain[1] = ActivityError
  /\ arrived => chain # << >>

ArrivedKnown == arrived \in BOOLEAN

FailuresInv == ArrivedKnown /\ ChainKnown

-----------------------------------------------------------------------------
LEMMA Prepend ==
  ASSUME NEW x \in AnyLink, NEW s \in Seq(AnyLink)
  PROVE  LET t == <<x>> \o s IN
         /\ t \in Seq(AnyLink) /\ Len(t) = Len(s) + 1 /\ t[1] = x
         /\ \A i \in DOMAIN t : i > 1 => i - 1 \in DOMAIN s /\ t[i] = s[i - 1]
         /\ \A i \in DOMAIN s : t[i + 1] = s[i]
OBVIOUS

LEMMA Fields ==
  /\ \A c, t, n : /\ Link(c, t, n).class = c /\ Link(c, t, n).type = t
                  /\ Link(c, t, n).nonRetryable = n
  /\ \A l, m, f : Site(l, m, f).link = l /\ Site(l, m, f).meaning = m
BY DEF Link, Site

LEMMA LinksTyped ==
  /\ ActivityError \in PlainLinks
  /\ \A s \in RaiseSites : s.link \in AnyLink
  /\ \A name \in SDKErrors : Application(name) \in PlainLinks
  /\ PlainLinks \subseteq AnyLink
BY DEF AnyLink, PlainLinks

\* The names by which the workflow knows what a plain link stands for, and the
\* classes such a link can have when it does not.
PlainNames == {"RateLimitError", "APIStatusError", "APIConnectionError"}
PlainClasses == {"ActivityError", "TimeoutError", "ApplicationError"}

LEMMA NamesKnown ==
  /\ PlainNames \subseteq DOMAIN KnownExceptionTypes
  /\ \A name \in PlainNames : KnownExceptionTypes[name] \in RetryableLLMErrors
  /\ "SandboxGoneError" \notin PlainNames
  /\ SubclassNames \cap DOMAIN KnownExceptionTypes = {}
BY DEF PlainNames, KnownExceptionTypes, RetryableLLMErrors, SubclassNames

LEMMA PlainKnown ==
  ASSUME NEW l \in PlainLinks
  PROVE  /\ ~l.nonRetryable
         /\ l.class \in PlainClasses
         /\ TypeName(l) \in DOMAIN KnownExceptionTypes => TypeName(l) \in PlainNames
<1>1. CASE l = ActivityError
  <2>1. l.class = "ActivityError" /\ l.type = NoType /\ ~l.nonRetryable
    BY <1>1 DEF ActivityError, Link
  <2>2. TypeName(l) = "ActivityError"  BY <2>1 DEF TypeName
  <2>. QED  BY <2>1, <2>2 DEF KnownExceptionTypes, PlainClasses
<1>2. CASE l = TimedOut[2]
  <2>1. l = Link("TimeoutError", TimeoutType, FALSE)  BY <1>2 DEF TimedOut
  <2>2. l.class = "TimeoutError" /\ l.type = TimeoutType /\ ~l.nonRetryable
    BY <2>1 DEF Link
  <2>3. TypeName(l) = "TimeoutType"  BY <2>2 DEF TypeName, TimeoutType, NoType
  <2>. QED  BY <2>2, <2>3 DEF KnownExceptionTypes, PlainClasses
<1>3. ASSUME NEW name \in SDKErrors, l = Application(name)
      PROVE  /\ ~l.nonRetryable
             /\ l.class \in PlainClasses
             /\ TypeName(l) \in DOMAIN KnownExceptionTypes => TypeName(l) \in PlainNames
  <2>1. l.class = "ApplicationError" /\ l.type = name /\ ~l.nonRetryable
    BY <1>3 DEF Application, Link
  <2>2. name # NoType /\ (name \in DOMAIN KnownExceptionTypes => name \in PlainNames)
    BY <1>3 DEF SDKErrors, BudgetedErrors, KnownExceptionTypes, PlainNames, NoType
  <2>. QED  BY <2>1, <2>2 DEF TypeName, PlainClasses
<1>. QED  BY <1>1, <1>2, <1>3 DEF PlainLinks

\* A raise site is what it looks like: its link is one the workflow rebuilds as
\* the class it stands for, or one of the subclasses it has no name for.
LEMMA SitesKnown ==
  ASSUME NEW s \in RaiseSites
  PROVE  /\ s.link.class = "ApplicationError" /\ TypeName(s.link) = s.link.type
         /\ \/ /\ TypeName(s.link) \in DOMAIN KnownExceptionTypes
               /\ KnownExceptionTypes[TypeName(s.link)] = s.meaning
            \/ TypeName(s.link) \in SubclassNames /\ s.meaning \in RetryableLLMErrors
         /\ TypeName(s.link) = "SandboxGoneError" <=> s.meaning = "SandboxGoneError"
         /\ s.link.nonRetryable \in BOOLEAN
         /\ s # NoSite
<1>. DEFINE Known(name, meaning) ==
       /\ \/ name \in DOMAIN KnownExceptionTypes /\ KnownExceptionTypes[name] = meaning
          \/ name \in SubclassNames /\ meaning \in RetryableLLMErrors
       /\ name = "SandboxGoneError" <=> meaning = "SandboxGoneError"
       /\ meaning # "none" /\ name # NoType
<1>1. \A name \in DOMAIN BudgetedErrors : Known(name, BudgetedErrors[name])
  <2>1. DOMAIN BudgetedErrors = {"RateLimitError", "APIStatusError", "APIConnectionError"}
                                  \cup SubclassNames
    BY DEF BudgetedErrors, SubclassNames
  <2>2. /\ BudgetedErrors["RateLimitError"] = "LLMRateLimitError"
        /\ BudgetedErrors["APIStatusError"] = "LLMServerError"
        /\ BudgetedErrors["APIConnectionError"] = "LLMConnectionError"
        /\ \A name \in SubclassNames : BudgetedErrors[name] \in RetryableLLMErrors
    BY DEF BudgetedErrors, SubclassNames, RetryableLLMErrors
  <2>3. /\ Known("RateLimitError", "LLMRateLimitError")
        /\ Known("APIStatusError", "LLMServerError")
        /\ Known("APIConnectionError", "LLMConnectionError")
    BY DEF KnownExceptionTypes, NoType
  <2>4. \A name \in SubclassNames : \A meaning \in RetryableLLMErrors : Known(name, meaning)
    BY DEF SubclassNames, RetryableLLMErrors, NoType
  <2>. HIDE DEF Known
  <2>. QED  BY <2>1, <2>2, <2>3, <2>4
<1>2. /\ Known("ValidationError", "ValidationError") /\ Known("LLMClientError", "LLMClientError")
      /\ Known("SandboxGoneError", "SandboxGoneError")
  BY DEF KnownExceptionTypes, NoType
<1>. HIDE DEF Known
<1>3. \E name, final, meaning, from :
        /\ Known(name, meaning) /\ final \in BOOLEAN
        /\ s = Site(Link("ApplicationError", name, final), meaning, from)
  <2>1. CASE s \in {Site(Application("LLMClientError"), "LLMClientError", {"BadRequestError"}),
                    Site(Application("SandboxGoneError"), "SandboxGoneError",
                         SDKErrors \cup {NoCause}),
                    Site(Application("ValidationError"), "ValidationError", {NoCause})}
    BY <1>2, <2>1 DEF Application
  <2>2. ASSUME NEW name \in DOMAIN BudgetedErrors,
               \/ s = Site(Application(name), BudgetedErrors[name], {name})
               \/ s = Site(Final(name), BudgetedErrors[name], {name})
        PROVE  <1>3
    BY <1>1, <2>2 DEF Application, Final
  <2>. QED  BY <2>1, <2>2 DEF RaiseSites
<1>4. PICK name, final, meaning, from :
        /\ Known(name, meaning) /\ final \in BOOLEAN
        /\ s = Site(Link("ApplicationError", name, final), meaning, from)
  BY <1>3
<1>5. /\ s.link = Link("ApplicationError", name, final) /\ s.meaning = meaning
      /\ s.link.type = name /\ s.link.nonRetryable = final /\ s.link.class = "ApplicationError"
  BY <1>4, Fields
<1>6. TypeName(s.link) = name  BY <1>4, <1>5 DEF TypeName, Known
<1>7. NoSite.meaning = "none"  BY Fields DEF NoSite
<1>. QED  BY <1>4, <1>5, <1>6, <1>7 DEF Known

LEMMA FailureInitInv == FailureInit => FailuresInv
<1>. SUFFICES ASSUME FailureInit PROVE FailuresInv  OBVIOUS
<1>1. chain = << >> /\ site = NoSite /\ arrived = FALSE  BY DEF FailureInit
<1>2. chain \in Seq(AnyLink) /\ DOMAIN chain = {}  BY <1>1
<1>. QED  BY <1>1, <1>2 DEF FailuresInv, ArrivedKnown, ChainKnown

LEMMA FailureStep == FailuresInv /\ [FailureNext]_failure_vars => FailuresInv'
<1>. SUFFICES ASSUME FailuresInv, [FailureNext]_failure_vars PROVE FailuresInv'  OBVIOUS
<1>. USE DEF FailuresInv, ArrivedKnown
<1>1. CASE SDKFails
  <2>1. PICK name \in SDKErrors : chain' = Append(chain, Application(name))
    BY <1>1 DEF SDKFails
  <2>2. Application(name) \in AnyLink /\ Application(name) \in PlainLinks  BY LinksTyped
  <2>3. chain' \in Seq(AnyLink) /\ \A i \in DOMAIN chain' : chain'[i] \in PlainLinks
    BY <1>1, <2>1, <2>2 DEF SDKFails, ChainKnown
  <2>. QED  BY <1>1, <2>3 DEF SDKFails, ChainKnown
<1>2. CASE ActivityRaises
  <2>1. site' \in RaiseSites /\ site'.link \in AnyLink /\ chain' = <<site'.link>> \o chain
    BY <1>2, LinksTyped DEF ActivityRaises
  <2>2. /\ chain' \in Seq(AnyLink) /\ Len(chain') = Len(chain) + 1 /\ chain'[1] = site'.link
        /\ \A i \in DOMAIN chain' : i > 1 => i - 1 \in DOMAIN chain /\ chain'[i] = chain[i - 1]
    BY <2>1, Prepend DEF ChainKnown
  <2>3. ~arrived /\ ~arrived' /\ site = NoSite  BY <1>2 DEF ActivityRaises
  <2>4. \A i \in DOMAIN chain' : i = 1 \/ chain'[i] \in PlainLinks
    BY <2>2, <2>3 DEF ChainKnown
  <2>5. site' # NoSite /\ Len(chain') >= 1
    BY <2>1, <2>2, SitesKnown DEF ChainKnown
  <2>6. Place' = 1  BY <2>3 DEF Place
  <2>7. ArrivedKnown'  BY <1>2 DEF ActivityRaises
  <2>8. ChainKnown'  BY <2>1, <2>2, <2>3, <2>4, <2>5, <2>6 DEF ChainKnown
  <2>. QED  BY <2>7, <2>8
<1>3. CASE Arrives
  <2>1. chain' = <<ActivityError>> \o chain /\ arrived' /\ ~arrived /\ site' = site
    BY <1>3 DEF Arrives
  <2>2. /\ chain' \in Seq(AnyLink) /\ Len(chain') = Len(chain) + 1
        /\ chain'[1] = ActivityError
        /\ \A i \in DOMAIN chain' : i > 1 => i - 1 \in DOMAIN chain /\ chain'[i] = chain[i - 1]
        /\ \A i \in DOMAIN chain : chain'[i + 1] = chain[i]
    BY <2>1, Prepend, LinksTyped DEF ChainKnown
  <2>3. ASSUME site # NoSite
        PROVE  /\ Len(chain') >= 2 /\ chain'[2] = site.link
               /\ \A i \in DOMAIN chain' : i = 2 \/ chain'[i] \in PlainLinks
    <3>1. Len(chain) >= 1 /\ chain[1] = site.link /\ 1 \in DOMAIN chain
      BY <2>1, <2>3 DEF ChainKnown, Place
    <3>2. chain'[1 + 1] = chain[1]  BY <2>2, <3>1
    <3>3. \A i \in DOMAIN chain : i = 1 \/ chain[i] \in PlainLinks
      BY <2>1, <2>3 DEF ChainKnown, Place
    <3>4. ASSUME NEW i \in DOMAIN chain', i # 2 PROVE chain'[i] \in PlainLinks
      <4>1. CASE i = 1  BY <2>2, <4>1, LinksTyped
      <4>2. CASE i # 1
        <5>1. i > 1 /\ i \in Nat  BY <2>2, <4>2
        <5>2. i - 1 \in DOMAIN chain /\ i - 1 # 1 /\ chain'[i] = chain[i - 1]
          BY <2>2, <3>4, <5>1
        <5>. QED  BY <3>3, <5>2
      <4>. QED  BY <4>1, <4>2
    <3>. QED  BY <2>2, <3>1, <3>2, <3>4 DEF ChainKnown
  <2>4. site' # NoSite => site' \in RaiseSites  BY <2>1 DEF ChainKnown
  <2>5. ASSUME site = NoSite, NEW i \in DOMAIN chain' PROVE chain'[i] \in PlainLinks
    <3>1. CASE i = 1  BY <2>2, <3>1, LinksTyped
    <3>2. CASE i # 1
      <4>1. i > 1  BY <2>2, <3>2
      <4>2. i - 1 \in DOMAIN chain /\ chain'[i] = chain[i - 1]  BY <2>2, <4>1
      <4>. QED  BY <2>5, <4>2 DEF ChainKnown
    <3>. QED  BY <3>1, <3>2
  <2>6. chain' # << >>  BY <2>2 DEF ChainKnown
  <2>7. Place' = 2  BY <2>1 DEF Place
  <2>8. chain' \in Seq(AnyLink) /\ chain'[1] = ActivityError  BY <2>2
  <2>9. ChainKnown'  BY <2>1, <2>3, <2>4, <2>5, <2>6, <2>7, <2>8 DEF ChainKnown
  <2>. QED  BY <2>1, <2>9
<1>4. CASE TimesOut
  <2>1. /\ TimedOut \in Seq(AnyLink) /\ TimedOut # << >>
        /\ \A i \in DOMAIN TimedOut : TimedOut[i] \in PlainLinks
    <3>1. ActivityError \in PlainLinks /\ TimedOut[2] \in PlainLinks  BY DEF PlainLinks
    <3>2. PICK l : TimedOut = <<ActivityError, l>>  BY DEF TimedOut
    <3>. QED  BY <3>1, <3>2, LinksTyped
  <2>2. site = NoSite
    BY <1>4 DEF TimesOut, ChainKnown, Place
  <2>. QED  BY <1>4, <2>1, <2>2 DEF TimesOut, ChainKnown
<1>5. CASE Caught \/ UNCHANGED failure_vars
  BY <1>5 DEF Caught, failure_vars, ChainKnown, Place
<1>. QED  BY <1>1, <1>2, <1>3, <1>4, <1>5 DEF FailureNext

THEOREM FailuresInductive == FailureSpec => []FailuresInv
BY FailureInitInv, FailureStep, PTL DEF FailureSpec

-----------------------------------------------------------------------------
\* The scan from the outside finds the link that was raised, if its name is
\* known, whatever the causes below it are.
LEMMA RaisedIsFirst ==
  ASSUME FailuresInv, arrived, site # NoSite,
         TypeName(site.link) \in DOMAIN KnownExceptionTypes
  PROVE  KnownLinks(chain) # {} /\ FirstKnownTypeName(chain) = TypeName(site.link)
<1>1. /\ chain \in Seq(AnyLink) /\ Len(chain) >= 2 /\ site \in RaiseSites
      /\ chain[1] = ActivityError /\ chain[2] = site.link
  BY DEF FailuresInv, ChainKnown, Place
<1>2. TypeName(ActivityError) \notin DOMAIN KnownExceptionTypes
  BY DEF TypeName, ActivityError, Link, NoType, KnownExceptionTypes
<1>3. 2 \in KnownLinks(chain) /\ 1 \notin KnownLinks(chain)
  BY <1>1, <1>2 DEF KnownLinks
<1>4. KnownLinks(chain) \subseteq Nat \ {0}  BY <1>1 DEF KnownLinks
<1>5. \A j \in KnownLinks(chain) : 2 <= j  BY <1>3, <1>4
<1>6. \A i \in KnownLinks(chain) : (\A j \in KnownLinks(chain) : i <= j) => i = 2
  BY <1>3, <1>4, <1>5
<1>7. (CHOOSE i \in KnownLinks(chain) : \A j \in KnownLinks(chain) : i <= j) = 2
  BY <1>3, <1>5, <1>6
<1>. QED  BY <1>1, <1>3, <1>7 DEF FirstKnownTypeName

\* Where a name is known, the first one is that of a link.
LEMMA FirstIsALink ==
  ASSUME NEW s, DOMAIN s \subseteq Nat, KnownLinks(s) # {}
  PROVE  \E i \in KnownLinks(s) : FirstKnownTypeName(s) = TypeName(s[i])
<1>1. KnownLinks(s) \subseteq Nat  BY DEF KnownLinks
<1>2. PICK i \in KnownLinks(s) : \A j \in KnownLinks(s) : <<j, i>> \notin OpToRel(<, Nat)
  BY <1>1, NatLessThanWellFounded, WFMin
<1>3. ASSUME NEW j \in KnownLinks(s) PROVE i <= j
  <2>1. i \in Nat /\ j \in Nat  BY <1>1
  <2>2. ~ (j < i)  BY <1>2, <2>1 DEF OpToRel
  <2>. QED  BY <2>1, <2>2
<1>. QED  BY <1>3 DEF FirstKnownTypeName

\* Where nothing known was raised the verdict is that of some plain link: the
\* failure is retried, and taken for one of the model's or of the system's own.
LEMMA PlainVerdict ==
  ASSUME FailuresInv, arrived,
         site = NoSite \/ TypeName(site.link) \in SubclassNames
  PROVE  /\ ClassifyClass(ClassifiedClass(chain)).retryable = TRUE
         /\ ClassifyClass(ClassifiedClass(chain)).category \in {"LLM", "INTERNAL"}
         /\ ~IsSandboxGone(chain)
<1>1. /\ chain \in Seq(AnyLink) /\ chain # << >>
      /\ \A i \in DOMAIN chain : (site # NoSite /\ i = Place) \/ chain[i] \in PlainLinks
      /\ site # NoSite => site \in RaiseSites /\ chain[Place] = site.link
  BY DEF FailuresInv, ChainKnown
<1>2. \A i \in KnownLinks(chain) : TypeName(chain[i]) \in PlainNames
  <2>. SUFFICES ASSUME NEW i \in KnownLinks(chain) PROVE TypeName(chain[i]) \in PlainNames
    OBVIOUS
  <2>1. i \in DOMAIN chain /\ TypeName(chain[i]) \in DOMAIN KnownExceptionTypes
    BY DEF KnownLinks
  <2>2. chain[i] \in PlainLinks  BY <1>1, <2>1, NamesKnown
  <2>. QED  BY <2>1, <2>2, PlainKnown
<1>3. CASE KnownLinks(chain) # {}
  <2>1. FirstKnownTypeName(chain) \in PlainNames  BY <1>1, <1>2, <1>3, FirstIsALink
  <2>2. ClassifiedClass(chain) \in RetryableLLMErrors
    BY <1>3, <2>1, NamesKnown DEF ClassifiedClass
  <2>. QED
    BY <2>1, <2>2, NamesKnown
       DEF ClassifyClass, RetryableLLMErrors, SandboxErrors, IsSandboxGone
<1>4. CASE KnownLinks(chain) = {}
  <2>1. RootCause(chain).class \in PlainClasses
    <3>1. Len(chain) \in DOMAIN chain  BY <1>1
    <3>2. RootCause(chain) \in PlainLinks \/ (site \in RaiseSites /\ RootCause(chain) = site.link)
      BY <1>1, <3>1 DEF RootCause
    <3>. QED  BY <3>2, PlainKnown, SitesKnown DEF PlainClasses
  <2>2. ClassifiedClass(chain) \in PlainClasses \cup {"synthetic"}
    BY <1>4, <2>1 DEF ClassifiedClass
  <2>. QED
    BY <1>4, <2>2
       DEF PlainClasses, ClassifyClass, RetryableLLMErrors, SandboxErrors, IsSandboxGone
<1>. QED  BY <1>3, <1>4

LEMMA FinalOnlyIfRaisedFinal ==
  ASSUME FailuresInv, arrived
  PROVE  AnyNonRetryable(chain) <=> site.link.nonRetryable
<1>1. /\ chain \in Seq(AnyLink)
      /\ \A i \in DOMAIN chain : (site # NoSite /\ i = 2) \/ chain[i] \in PlainLinks
      /\ site # NoSite => Len(chain) >= 2 /\ chain[2] = site.link
  BY DEF FailuresInv, ChainKnown, Place
<1>2. ASSUME NEW i \in DOMAIN chain, chain[i].nonRetryable PROVE site # NoSite /\ i = 2
  BY <1>1, <1>2, PlainKnown
<1>3. ~NoSite.link.nonRetryable  BY DEF NoSite, Site, ActivityError, Link
<1>4. site # NoSite => 2 \in DOMAIN chain  BY <1>1
<1>. QED  BY <1>1, <1>2, <1>3, <1>4 DEF AnyNonRetryable

\* Whatever was raised, from any number of causes, the workflow retries the child
\* exactly when classify would have inside the activity, and records the category
\* meant, or INTERNAL for the subclasses it has no name for
\* (file_analysis.py:105-176, llm.py:161-199).
THEOREM VerdictsSurvive == FailureSpec => []VerdictSurvives
<1>1. FailuresInv => VerdictSurvives
  <2>. SUFFICES ASSUME FailuresInv, arrived PROVE VerdictSurvives
    BY DEF VerdictSurvives
  <2>. DEFINE found == ClassifyForWorkflow(chain)
              classified == ClassifyClass(ClassifiedClass(chain))
              meant == ClassifyClass(site.meaning)
  <2>1. site # NoSite => site \in RaiseSites  BY DEF FailuresInv, ChainKnown
  <2>2. AnyNonRetryable(chain) <=> site.link.nonRetryable  BY FinalOnlyIfRaisedFinal
  <2>3. /\ found.category = classified.category
        /\ found.retryable = (classified.retryable /\ ~AnyNonRetryable(chain))
    BY DEF ClassifyForWorkflow
  <2>4. CASE site # NoSite /\ TypeName(site.link) \in DOMAIN KnownExceptionTypes
    <3>1. TypeName(site.link) \notin SubclassNames  BY <2>4, NamesKnown
    <3>2. ClassifiedClass(chain) = site.meaning
      BY <2>1, <2>4, <3>1, RaisedIsFirst, SitesKnown DEF ClassifiedClass
    <3>. QED  BY <2>2, <2>3, <3>2 DEF VerdictSurvives
  <2>5. CASE site # NoSite /\ TypeName(site.link) \in SubclassNames
    <3>1. site.link.type \in SubclassNames /\ site.meaning \in RetryableLLMErrors
      BY <2>1, <2>5, SitesKnown, NamesKnown
    <3>2. meant.retryable = TRUE /\ meant.category = "LLM"
      BY <3>1 DEF ClassifyClass, RetryableLLMErrors, SandboxErrors
    <3>3. classified.retryable = TRUE /\ classified.category \in {"LLM", "INTERNAL"}
      BY <2>5, PlainVerdict
    <3>. QED  BY <2>2, <2>3, <3>1, <3>2, <3>3 DEF VerdictSurvives
  <2>6. CASE site = NoSite
    <3>1. meant.retryable = TRUE
      BY <2>6, Fields DEF NoSite, ClassifyClass, RetryableLLMErrors, SandboxErrors
    <3>2. classified.retryable = TRUE  BY <2>6, PlainVerdict
    <3>. QED  BY <2>2, <2>3, <2>6, <3>1, <3>2 DEF VerdictSurvives
  <2>. QED  BY <2>1, <2>4, <2>5, <2>6, SitesKnown
<1>. QED  BY <1>1, FailuresInductive, PTL

\* A recovery is attempted exactly when SandboxGoneError was raised
\* (file_analysis.py:143-148, 291-297).
THEOREM GoneMeansRaised == FailureSpec => []GoneIsWhatWasRaised
<1>1. FailuresInv => GoneIsWhatWasRaised
  <2>. SUFFICES ASSUME FailuresInv, arrived
                PROVE  IsSandboxGone(chain) <=> site.meaning = "SandboxGoneError"
    BY DEF GoneIsWhatWasRaised
  <2>1. site # NoSite => site \in RaiseSites  BY DEF FailuresInv, ChainKnown
  <2>2. CASE site # NoSite /\ TypeName(site.link) \in DOMAIN KnownExceptionTypes
    BY <2>1, <2>2, RaisedIsFirst, SitesKnown DEF IsSandboxGone
  <2>3. CASE site # NoSite /\ TypeName(site.link) \in SubclassNames
    <3>1. TypeName(site.link) # "SandboxGoneError"  BY <2>3 DEF SubclassNames
    <3>. QED  BY <2>1, <2>3, <3>1, PlainVerdict, SitesKnown
  <2>4. CASE site = NoSite
    <3>1. site.meaning = "none"  BY <2>4, Fields DEF NoSite
    <3>. QED  BY <2>4, <3>1, PlainVerdict
  <2>. QED  BY <2>1, <2>2, <2>3, <2>4, SitesKnown
<1>. QED  BY <1>1, FailuresInductive, PTL
=============================================================================
