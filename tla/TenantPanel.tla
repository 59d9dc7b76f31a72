----------------------------- MODULE TenantPanel -----------------------------
(***************************************************************************)
(* One panel of the frontend: the submit form (components/TenantPanel.tsx) *)
(* and the hook that polls the batch it shows                              *)
(* (hooks/useSubmissionPolling.ts).                                        *)
(*                                                                         *)
(* A step is one turn of the browser's event loop: a click, a timer, the   *)
(* continuation of an await, or React running the effect of a render.  The *)
(* effect of a change of activeSubmissionId runs some turns after the      *)
(* change, and the refs of the hook are shared by all its effects.  Of the *)
(* server the panel needs two promises: one key is one batch (SubmitApi)   *)
(* and a status only moves forward (Submission).  A batch is named by the  *)
(* key it was created under.                                               *)
(***************************************************************************)
EXTENDS Naturals

CONSTANTS
  Entry,           \* entries of the staged list; stagedKeySeq never repeats
  Key,             \* Idempotency-Keys; crypto.randomUUID() never repeats
  None,            \* null
  LongThreshold,   \* LONG_BATCH_POLL_THRESHOLD, 60 in the code
  ErrorThreshold   \* ERROR_BACKOFF_THRESHOLD, 5 in the code

Terminal == {"SUCCEEDED", "PARTIALLY_SUCCEEDED", "FAILED"}
Status == {"PENDING", "RUNNING"} \cup Terminal
Delay == {"NORMAL", "LONG_BATCH", "ERROR_BACKOFF"}

ASSUME NoneAssumption == None \notin Key \cup Status
ASSUME ThresholdsAssumption ==
  LongThreshold \in Nat \ {0} /\ ErrorThreshold \in Nat \ {0}

VARIABLES
  \* TenantPanel
  staged, idempotencyKey, activeSubmissionId,
  post,        \* the request handleSubmit awaits; `submitting` is post # None
  \* useSubmissionPolling
  effect,      \* the submission the current effect polls
  submission,  \* what is shown of the batch
  pollCount, errorCount, inFlight,
  timers,      \* pending timeouts, each with the effect that set it
  fetches,     \* reads under way, each with the effect that asked
  \* the server
  posts,       \* requests that left the browser and are not served yet
  batch,       \* the entries of the batch under each key
  status,      \* its status
  \* history, read by no action
  picked,      \* entries ever staged
  sent,        \* requests ever sent
  polls        \* answers and consecutive errors of each batch's polls

form == <<staged, idempotencyKey, activeSubmissionId, post, picked, sent>>
hook == <<effect, submission, pollCount, errorCount, inFlight, timers, fetches, polls>>
server == <<posts, batch, status>>
vars == <<form, hook, server>>

Post == [key: Key, files: SUBSET Entry]
Timer == [of: Key, delay: Delay]
Fetch == [of: Key, read: Status \cup {None}, aborted: BOOLEAN]
Shown == [id: Key, status: Status]

TypeOK ==
  /\ staged \in SUBSET Entry
  /\ idempotencyKey \in Key \cup {None}
  /\ activeSubmissionId \in Key \cup {None}
  /\ post \in Post \cup {None}
  /\ effect \in Key \cup {None}
  /\ submission \in Shown \cup {None}
  /\ pollCount \in 0..LongThreshold
  /\ errorCount \in 0..ErrorThreshold
  /\ inFlight \in BOOLEAN
  /\ timers \in SUBSET Timer
  /\ fetches \in SUBSET Fetch
  /\ posts \in SUBSET Post
  /\ batch \in [Key -> SUBSET Entry]
  /\ status \in [Key -> Status]
  /\ picked \in SUBSET Entry
  /\ sent \in SUBSET Post
  /\ polls \in [Key -> [answers: 0..LongThreshold, errors: 0..ErrorThreshold]]

Init ==
  /\ staged = {} /\ idempotencyKey = None /\ activeSubmissionId = None /\ post = None
  /\ effect = None /\ submission = None
  /\ pollCount = 0 /\ errorCount = 0 /\ inFlight = FALSE
  /\ timers = {} /\ fetches = {}
  /\ posts = {}
  /\ batch = [k \in Key |-> {}]
  /\ status = [k \in Key |-> "PENDING"]
  /\ picked = {} /\ sent = {}
  /\ polls = [k \in Key |-> [answers |-> 0, errors |-> 0]]

-----------------------------------------------------------------------------
(* The submit form. *)

FilesAdded(e) ==
  /\ e \notin picked
  /\ staged' = staged \cup {e}
  /\ picked' = picked \cup {e}
  /\ UNCHANGED <<idempotencyKey, activeSubmissionId, post, sent, hook, server>>

\* handleRemove, and handleClear as the removal of all; neither is disabled
\* while a request is under way.
Remove(es) ==
  /\ es \in {{e} : e \in staged} \cup {staged} /\ es # {}
  /\ staged' = staged \ es
  /\ UNCHANGED <<idempotencyKey, activeSubmissionId, post, picked, sent, hook, server>>

Unused == Key \ {p.key : p \in sent}

\* `idempotencyKey ?? crypto.randomUUID()`
KeyFor(k) == IF idempotencyKey = None THEN k \in Unused ELSE k = idempotencyKey

SubmitClicked(k) ==
  LET p == [key |-> k, files |-> staged] IN
  /\ staged # {} /\ post = None
  /\ KeyFor(k)
  /\ idempotencyKey' = k
  /\ post' = p
  /\ posts' = posts \cup {p}
  /\ sent' = sent \cup {p}
  /\ UNCHANGED <<staged, activeSubmissionId, picked, hook, batch, status>>

\* The answer names the batch under the key, whichever request created it.
SubmitSucceeds ==
  /\ post # None /\ post \notin posts
  /\ activeSubmissionId' = post.key
  /\ staged' = {}
  /\ idempotencyKey' = None
  /\ post' = None
  /\ UNCHANGED <<picked, sent, hook, server>>

\* Fault: a new key on every click.
KeyAfterFailureNone == None

\* The catch block leaves the key for the next click.
KeyAfterFailure == idempotencyKey

\* A refusal, an error, or no answer, while the server may go on.
SubmitFails ==
  /\ post # None
  /\ idempotencyKey' = KeyAfterFailure
  /\ post' = None
  /\ UNCHANGED <<staged, activeSubmissionId, picked, sent, hook, server>>

-----------------------------------------------------------------------------
(* The server. *)

\* SubmitApi: the first request under a key makes the batch, others find it.
Serve(p) ==
  /\ p \in posts
  /\ posts' = posts \ {p}
  /\ batch' = [batch EXCEPT ![p.key] = IF @ = {} THEN p.files ELSE @]
  /\ UNCHANGED <<form, hook, status>>

\* Submission: PENDING, RUNNING, terminal.
Advance(k) ==
  /\ batch[k] # {}
  /\ \E s \in Status :
       /\ \/ status[k] = "PENDING" /\ s # "PENDING"
          \/ status[k] = "RUNNING" /\ s \in Terminal
       /\ status' = [status EXCEPT ![k] = s]
  /\ UNCHANGED <<form, hook, posts, batch>>

-----------------------------------------------------------------------------
(* The hook. *)

\* Counts are compared with >= only: beyond the threshold they may stand still.
AtMost(n, bound) == IF n > bound THEN bound ELSE n

\* Fault: a stopped effect goes on.
CancelledNever(k) == FALSE

\* `cancelled` of the effect for k: its cleanup has run.
Cancelled(k) == effect # k

Ask(k) == [of |-> k, read |-> None, aborted |-> FALSE]

\* Fault: the cleanup leaves the request alone.
AbortNothing == fetches

\* abortRef.current.abort()
AbortLatest == {[f EXCEPT !.aborted = @ \/ f.of = effect] : f \in fetches}

\* Fault: the effect keeps the count of errors of the one before.
ErrorsAtStartKept == errorCount

ErrorsAtStart == 0

\* React runs the cleanup of the effect before, then the effect for the new id,
\* whose first poll starts at once.
EffectRuns ==
  LET k == activeSubmissionId IN
  /\ k # effect
  /\ effect' = k
  /\ submission' = None
  /\ pollCount' = 0 /\ errorCount' = ErrorsAtStart
  /\ timers' = {t \in timers : t.of # effect}
  /\ inFlight' = (k # None)
  /\ fetches' = AbortLatest \cup (IF k = None THEN {} ELSE {Ask(k)})
  /\ UNCHANGED <<polls, form, server>>

\* Fault: a timer of fixed rate, and no flag.
PollEvery(k) ==
  /\ timers' = {[of |-> k, delay |-> "NORMAL"]}
  /\ fetches' = fetches \cup {Ask(k)}
  /\ UNCHANGED inFlight

\* `poll`, from the timer t.
Poll(k) ==
  /\ timers' = {t \in timers : t.of # k}
  /\ IF Cancelled(k) \/ inFlight
     THEN UNCHANGED <<fetches, inFlight>>
     ELSE fetches' = fetches \cup {Ask(k)} /\ inFlight' = TRUE

TimerFires(t) ==
  /\ t \in timers
  /\ Poll(t.of)
  /\ UNCHANGED <<effect, submission, pollCount, errorCount, polls, form, server>>

\* The server reads the row.
Read(f) ==
  /\ f \in fetches /\ f.read = None
  /\ fetches' = (fetches \ {f}) \cup {[f EXCEPT !.read = status[f.of]]}
  /\ UNCHANGED <<effect, submission, pollCount, errorCount, inFlight, timers, polls, form, server>>

\* isTerminalSubmissionStatus
IsTerminal(s) == s \in Terminal

AfterAnswer(s) ==
  IF IsTerminal(s) THEN {}
  ELSE {[of |-> effect,
         delay |-> IF pollCount' >= LongThreshold THEN "LONG_BATCH" ELSE "NORMAL"]}

\* The answer is there before any abort, and the continuation runs.
Answered(f) ==
  /\ f \in fetches /\ f.read # None
  /\ ~Cancelled(f.of)
  /\ fetches' = fetches \ {f}
  /\ pollCount' = AtMost(pollCount + 1, LongThreshold)
  /\ errorCount' = 0
  /\ submission' = [id |-> f.of, status |-> f.read]
  /\ inFlight' = FALSE
  /\ timers' = timers \cup AfterAnswer(f.read)
  /\ polls' = [polls EXCEPT ![f.of] =
                 [answers |-> AtMost(@.answers + 1, LongThreshold), errors |-> 0]]
  /\ UNCHANGED <<effect, form, server>>

\* Fault: the flag is not reset after an error.
FlagAfterErrorKept == inFlight

FlagAfterError == FALSE

\* The catch block for an effect that is still there: an abort comes only from a
\* cleanup, so this is no AbortError.
FetchFails(f) ==
  /\ f \in fetches /\ ~f.aborted
  /\ ~Cancelled(f.of)
  /\ fetches' = fetches \ {f}
  /\ errorCount' = AtMost(errorCount + 1, ErrorThreshold)
  /\ inFlight' = FlagAfterError
  /\ timers' = timers \cup
       {[of |-> effect,
         delay |-> IF errorCount' >= ErrorThreshold THEN "ERROR_BACKOFF" ELSE "NORMAL"]}
  /\ polls' = [polls EXCEPT ![f.of].errors = AtMost(@ + 1, ErrorThreshold)]
  /\ UNCHANGED <<effect, submission, pollCount, form, server>>

\* `if (cancelled) return`, with an answer or an error.
Ignored(f) ==
  /\ f \in fetches /\ Cancelled(f.of)
  /\ fetches' = fetches \ {f}
  /\ UNCHANGED <<effect, submission, pollCount, errorCount, inFlight, timers, polls, form, server>>

-----------------------------------------------------------------------------
Next ==
  \/ \E e \in Entry : FilesAdded(e)
  \/ \E es \in SUBSET Entry : Remove(es)
  \/ \E k \in Key : SubmitClicked(k)
  \/ SubmitSucceeds \/ SubmitFails
  \/ \E p \in posts : Serve(p)
  \/ \E k \in Key : Advance(k)
  \/ EffectRuns
  \/ \E t \in timers : TimerFires(t)
  \/ \E f \in fetches : Read(f) \/ Answered(f) \/ FetchFails(f) \/ Ignored(f)

Spec == Init /\ [][Next]_vars

Live == {f \in fetches : ~f.aborted}

\* Effects and timers run; of the reads that are asked again and again, some is
\* served and answered.
FairSpec ==
  /\ Spec
  /\ WF_vars(EffectRuns)
  /\ WF_vars(\E t \in timers : TimerFires(t))
  /\ SF_vars(\E f \in Live : Read(f))
  /\ SF_vars(\E f \in Live : Answered(f))

-----------------------------------------------------------------------------
Settled == effect = activeSubmissionId

\* Once the effect of the last change has run, nothing of an earlier batch is
\* shown, though reads of it may still be answered (useSubmissionPolling.ts:40-70).
ShownIsActive ==
  Settled /\ submission # None => submission.id = activeSubmissionId

\* "never overlaps requests" and "stops immediately on a terminal status"
\* (useSubmissionPolling.ts:20-23), over all effects: at most one read that is
\* not aborted or one timer is pending, and none once the end is shown.
OnePoller ==
  /\ \A f, g \in Live : f = g
  /\ \A t, u \in timers : t = u
  /\ Live = {} \/ timers = {}
  /\ submission # None /\ submission.status \in Terminal => Live = {} /\ timers = {}

\* The pace is that of the batch being polled, not of the ones before it, whose
\* counts the same refs held (useSubmissionPolling.ts:34-45, 82-100).
OwnPace ==
  \A t \in timers :
    t.delay = IF polls[t.of].errors >= ErrorThreshold THEN "ERROR_BACKOFF"
              ELSE IF polls[t.of].errors = 0 /\ polls[t.of].answers >= LongThreshold
              THEN "LONG_BATCH" ELSE "NORMAL"

\* What is shown of a batch never goes back, from a terminal status least of
\* all: an answer read earlier never arrives after one read later
\* (useSubmissionPolling.ts:58-104).
ShownGoesForward ==
  [][submission # None /\ submission' # None /\ submission'.id = submission.id =>
       /\ submission.status \in Terminal => submission' = submission
       /\ submission.status = "RUNNING" => submission'.status # "PENDING"]_vars

\* No staged entry ends up in two batches, whatever is clicked again after an
\* answer was lost (TenantPanel.tsx:27-29, 53-78).
NoDoubleBatch ==
  \A j, k \in Key : j # k => batch[j] \cap batch[k] = {}

\* The end of the batch on display is shown: polling never stalls, whatever the
\* order of errors, answers and changes of the batch (useSubmissionPolling.ts:58-104).
ShowsTheEnd ==
  \A k \in Key :
    activeSubmissionId = k /\ status[k] \in Terminal ~>
      \/ activeSubmissionId # k
      \/ submission = [id |-> k, status |-> status[k]]

\* TenantPanel.tsx:27-28: the key is "generated once per submit attempt and
\* retained across retries of that same click": what is sent twice under one key
\* is the same.
KeyNamesItsFiles ==
  \A p, q \in sent : p.key = q.key => p.files = q.files
=============================================================================
