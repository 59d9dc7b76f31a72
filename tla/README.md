# Verification of the batch document agents backend

A tenant submits a batch of documents with a prompt; the backend runs one agent
per document in its own Modal sandbox and writes a report per file.  The modules
beside this file model that in TLA+.  TLC checks them on small instances and
TLAPS proves the central properties for every value of the constants.

`PROJECT.json` lists, for machines, what this file explains: components, runs,
the definitions with the source lines they stand for (`map`), a fault for every
property (`mutants`), hazards, findings and theorems.  Paths below without a
prefix are under `src/backend/src/sbda/`.

## 1. Inventory of the system

```
 React frontend --HTTP--> FastAPI (api/) --start--> Temporal server
      polls                |      |                     |  tasks on 4 queues
                       Postgres   S3            workers (temporal/worker.py)
                           ^                      |   SubmissionWorkflow  (one per batch)
                           |                      |     FileAnalysisWorkflow (one per file)
                           +---- mark_* ----------+   activities: Modal, Anthropic, Postgres
```

| Component | State it keeps | Operations | What is hard | What makes it correct |
|---|---|---|---|---|
| `FileAnalysisWorkflow` (`temporal/workflows/file_analysis.py`) | locals of `run`: sandbox ids, restore point, `snapshot_lag`, recovery budget, turn, transcript, report | provision, agent loop, in-place recovery, report, `except`, `finally` | every await may fail or be retried; the sandbox may die at any time; run timeouts skip `finally` | nothing the model has seen is lost; sandboxes are cleaned up; the row agrees with the outcome; it ends |
| Sandbox activities (`temporal/activities/sandbox.py`) | Modal sandboxes and `/work` in each | `provision_sandbox`, `exec_tool`, `recover_sandbox`, `terminate_sandbox` | partial failure after `Sandbox.create`; best-effort snapshot; lost answers | a restore point known to be current or known to be stale |
| `call_claude` (`temporal/activities/llm.py`) | two retry counts carried by heartbeat details | one model call per attempt | counts cross attempts through a heartbeat that may be lost | budgets are independent, never reset, and bound the call before the policy does |
| Failure classification (`file_analysis.py:81-176`, `core/errors.py`) | none | exception chain to (category, retryable) | class names are lost at the activity boundary; chains nest | the verdict is the one meant where the exception was raised |
| `SubmissionWorkflow` (`temporal/workflows/submission.py`, `core/rollup.py`) | the gathered results | fan-out, gather, rollup, terminal write | children retry, die, finish in any order; terminated from the UI | each child counted once; a finished submission has finished files |
| Read-model writers (`temporal/activities/db.py`) | rows of `submissions` and `files` | `mark_*` updates, repair pass | unguarded updates; a given-up attempt may still commit | the rows converge to what the workflows decided |
| Timeouts and policies (`temporal/shared.py`) | none | limits and non-retryable types | limits written apart that must agree | literals and policies agree |
| Submission API (`api/routes_submissions.py`, `temporal/client.py`) | submission row, idempotency key, S3 objects, workflow id | create, replay, start | commit, upload and start are three systems | one batch per key, no lost or half-made batch |
| S3 (`storage/s3.py`) | objects | upload with cap, best-effort delete | orphans | every row's object exists |
| Worker pools (`temporal/worker.py`, `temporal/shared.py`) | slots and event loop of each worker, attempts it holds | take a task, run it, time it out | synchronous Modal calls hold the loop of the activities worker; schedule-to-start 30 s; room in Modal | nothing but a full Modal wedges a worker; terminations go on beside it; every batch closes |
| Frontend (`src/frontend/src`) | polling refs, staged files, idempotency key | poll, submit | refs shared by successive effects; a key kept over edited files | polls belong to the shown submission and stop when it is terminal |
| Intake of files (`core/validation.py`, `core/naming.py`, the caps of `storage/s3.py` and the route, `DropZone.tsx`, `lib/validate.ts`) | bytes read so far | validate, count while streaming, rename | rules written in three places; exact limits; odd names | panel, request and reference agree; names keep their extension |
| Tool output (`core/truncate.py`, `agent/runtime.py`) | none | read_file script, truncate, envelope | cuts inside characters; two truncations; delimiters in the output | nothing dropped in silence; the envelope reads back |
| Prompts, tool schemas, report schema, DB schema, configuration | none or static | | | text and schemas carry no control |

Interactions: the API inserts the rows and starts the parent; the parent starts a
child per file and waits for all of them; a child talks only to activities; only
activities touch Modal, Anthropic, Postgres.  Rows are a projection ("read
model") written by the workflows and read by the API.

## 2. Modules

| Module | Models | Composed with |
|---|---|---|
| `Classify` | `classify()` and the five helpers that apply it to an exception chain; the shapes of chains that activities produce | used by `Failures`, `FileAnalysis` |
| `Failures` | a failure from its raise site in an activity, over SDK causes, conversion and wrapping, to the workflow | extends `Classify` |
| `LLMBudget` | one `call_claude` activity over all its attempts | stands alone; its outcomes are `CallClaudeFailures` of `FileAnalysis` |
| `FileAnalysis` | one file: child workflow, its sandboxes, its row | extends `Classify`; implements `FileRun` |
| `FileRun` | abstract specification: what a child promises the parent | refined by `FileAnalysis`, used by `Submission` |
| `Submission` | parent, n children, both tables, late writes | extends `FileRun` |
| `SubmitApi` | `POST /submissions` of one tenant: requests served at once, Postgres, S3, the start of the workflow | implements `Batches`; `WorkflowCloses` stands for what `Submission` does after the start |
| `Batches` | abstract specification: what `POST /submissions` promises clients and workflows | refined by `SubmitApi` |
| `TenantPanel` | one panel of the frontend: submit form, polling hook, what the server promises them | stands alone; takes "one key, one batch" from `Batches` and "a status only moves forward" from `Submission` |
| `ExecTool` | one `exec_tool` attempt step by step, with given-up attempts that run on in the same sandbox | stands alone; supports, for the first call of a turn only, what `FileAnalysis` takes as one step (by argument, see below) |
| `WorkerPools` | queues, slots, event loops and timeouts of the workers, and the room in Modal | stands alone; the files are those of `FileAnalysis`, much reduced |
| `Intake` | validation, caps and names of the files of a batch, in the panel and in the API | stands alone; `SubmitApi` has what follows a refusal |
| `ToolOutput` | from the bytes a program prints to the text the model reads | stands alone |
| `MCFileAnalysis`, `MCExecTool`, `MCWorkerPools`, `MCIntake`, `MCToolOutput` | instances for TLC | |
| `FileAnalysis_proofs`, `Submission_proofs`, `SubmitApi_proofs`, `TenantPanel_proofs`, `ExecTool_proofs`, `WorkerPools_proofs` | theorems and proofs | each extends the module it is named after |
| `FailedCalls_proofs`, `Limits_proofs` | theorems and proofs | extend `LLMBudget` and `Failures`; `Intake` and `ToolOutput` |

### FileAnalysis against the code

* `pc` names the activity `run` is awaiting, or `"blocks"` (answering the
  `tool_use` blocks of a response), `"finally"`, `"closed"`.  One step is one
  activity attempt together with the workflow code that follows it up to the next
  await.  Temporal replays workflow code deterministically, so a worker crash
  appears only as a failed attempt, whose effect may have happened.
* `tries` counts failed attempts of the pending activity against its retry
  policy; `AttemptFails` either schedules another or enters the `except`
  (`Raise`), which classifies the chain and writes the row only when no further
  attempt will follow (`FailsForGood`, line 425).
* `/work` of a sandbox is the set of `run_python` calls it has run, numbered as
  the transcript shows them (`ran`).  A set is the right abstraction because an
  `exec_tool` whose answer was lost is run again: the code gives at-least-once.
  Each reported call adds its number; a snapshot copies the set; recovery mounts it.
* `sandbox_ids`, `snapshot_lag`, `recoveries_used`, `turn`, `done`, `report` are
  the locals of the same name (`report` only whether there is one).
* `ExecGone` covers both a dead sandbox and one only believed dead
  (`NotFoundError`, or an error text with "terminat"); such a sandbox runs on
  and has to be terminated by the `finally` block.
* `ProvisionFails`, `RecoverFails` may leave a *stray*: a sandbox created by an
  attempt that then fails, whose id nobody received.
* `RunTimeout` closes the run on the server: no `except`, no `finally`, and the
  next attempt starts with fresh locals.  This is how `llm.py:56-61` describes
  it; SPEC.md:1491 expects such a sandbox "still terminated", which only Modal's own
  timeout (`SandboxDies`) does.
* A response is any of `Responses` on any turn: the pinned `tool_choice` of the last
  turn (`file_analysis.py:239-242`) is not relied on, as the code does not rely on it
  (338-345).
* `handed`, `givenUp`, `hardStopped` are history; no guard reads them.

Abstracted: message texts, token counts, `turn_count`, `attempt_count`,
timestamps, durations and backoff.  The writes of the child to its row are
atomic here; writes that outlive their activity are modelled in `Submission`.
`except ValidationError` (374-391) and `ToolExecutionError` are reached by no
raise site that crosses the activity boundary, so no action stands for them.

### Submission against the code

`parent` is the position in `SubmissionWorkflow.run`.  Children are those of
`FileRun`; each of their writes is an unguarded `UPDATE` (`Apply`).  `late` holds
UPDATEs of attempts Temporal has given up on, which may commit at any later
time; `outlived` remembers them, and `MaxLate` bounds how many there are.  The
properties are stated file by file: those a late write may have overtaken
(`Overtaken`) are excepted, all others must be settled.  `MarkSubmissionTerminal` writes
rollup and repair pass in one transaction, as the code does.  `ParentTerminated`
is the operator's termination, with the default parent-close policy.

### LLMBudget and Failures against the code

`details` is what Temporal kept of the last heartbeat; each attempt restores the
counts (`Restored`), adds its own error (`RateLimited`, `OtherRetryable`) and
either gives up for good or heartbeats the new counts and fails.  The heartbeat
may not arrive; an attempt may be lost before it counts anything.  `Failures`
builds the chain from the innermost SDK cause outwards and then lets the workflow
catch it.  `Failures` and `ToolOutput` prefix the names of their initial predicate,
next-state relation and specification (`FailureSpec`, `OutputSpec`), since one proof
module extends each together with another module.

### SubmitApi against the code

* `request[h]` is one request being served.  `pc` is its place in
  `create_submission`: before the upload of the next file (`upload`), before the
  transaction (`insert`), before `start_submission_workflow` (`start`), before the
  last commit (`record`).  A step goes from one await or S3 call to the next, so
  any two requests interleave there.
* The three stores (`committed`, `key_of`, `run_id`; `objects`; `workflow`) have
  no transaction in common.  `Insert` is the one transaction that writes the
  submission and all its files.
* A submission id is a `uuid4`: `Fresh` picks one that no store and no handler knows.
* `Discard` is `delete_objects`, which swallows errors: any part of the files
  may stay (`leaked`).
* Faults: an upload that raises, a `COMMIT` that took effect and was reported
  failed (`InsertUndecided`), a start that took effect and was reported failed
  (second disjunct of `StartFails`), the death of the process at any point
  (`HandlerDies`).  `faults` counts them.
* Temporal rejects an id as long as it remembers the execution.  It forgets a
  closed one after the retention period of the namespace (`WorkflowForgotten`),
  which is days, so never while a request for that batch is being served.
* `starts`, `answers`, `leaked`, `undecided` are history.

`Batches` hides the requests, S3 and what Temporal remembers.  A step of `SubmitApi` that
inserts is its `Create`, one that starts an execution its `Start`, one that answers with
success its `Accept`, and every other step a stutter; the variables they share are
mapped as they are.  That Temporal may forget an id shows only in that `Start` may
happen again while no start is on record.

Left out: `error_message`.  The refusals with 400 and 413, sizes and names are in `Intake`.

### TenantPanel against the code

* A step is one turn of the browser's event loop.  A click runs on the current
  render (React flushes clicks and drops before the next event), so the locals of
  `TenantPanel` are variables; `submitting` is `post # None`.
* `activeSubmissionId` changes in the continuation of the submit, its effect runs
  some turns later (`EffectRuns`), and reads of the old batch may end in between.
* `effect` is the id the current effect closed over; `cancelled` of the effect
  for k is `effect # k`.  `pollCount`, `errorCount`, `inFlight` are the shared refs;
  `timers` and `fetches` remember which effect started them.
* A read has two halves: the server reads the row (`Read`), the answer arrives
  (`Answered`).  An aborted read may still end with an answer (`Ignored`).
* A submit that failed for the browser may still be served later (`posts`).
* A batch is named by its key: one key is one batch, and a key is retired by
  the success that shows its batch.

Left out: client-side validation (`Intake`), history and report drawer, texts, unmounting
(a panel lives as long as the page), React's development mode, which runs
effects twice.

### ExecTool against the code

* The script `TurnOf` gives the turn of each tool call; `tool` is chosen freely.
  The workflow's side (`call`, `tries`, `snapshot`, `snapshot_lag`,
  `recoveries_used`) does what `FileAnalysis` does, `Answer` and `Recover` are
  `file_analysis.py:291-345`.
* An attempt is a coroutine on a worker: resolve and render (`Begins`), the write
  of the cell file (`WriteLands`), the exec, which reads whatever that file then
  holds (`Execs`), the end of the program (`Ends`), snapshot and answer (`Returns`).
* `GivenUp` is a start-to-close timeout, after which the coroutine runs on, or a
  lost worker or answer.  `Current` is the attempt the server still listens to.
* `cell_<turn>.py` is named after the turn, not the call (`runtime.py:37-38`).  A
  given-up attempt of the first call of a turn may therefore overwrite the file of
  the second, which then answers with the output of the first.
  `FirstCallsAreKept` states what does hold: nothing of this reaches another
  turn, or the first call of one.
* Assumed of Modal: a write into a sandbox that has been lost does not land, and
  attempts on it fail.

### WorkerPools against the code

* `awaits[f]` is the activity the child of `f` waits for, `tries[f]` its attempts so
  far.  `taken` are the attempts the workers hold, those the server has timed out
  included: they keep their slot until they end.  An attempt carries the turn and the
  try it belongs to, which is how the server tells a late one from the one it waits
  for (`Current`).
* `Runnable`, `CanTake`, `StartIsDue` and `CloseIsDue` are the guards of what workers
  and timers do; `Stalled` says that none holds.
* `provision_sandbox` and `exec_tool` are coroutines that call the Modal SDK
  synchronously (`sandbox.py:85-90, 156-160`): at `"blocking"` nothing else on that
  worker runs (`LoopFree`).  `call_claude` runs its SDK call in a thread.
* `TaskQueue` and `Registered` are the two sides that must agree: `task_queue=` in
  the workflow, `activities=` of the worker.
* Modal's answers: `Sandbox.create` returns when there is room, or raises at any time
  (`CreateFails`); a termination succeeds, a sandbox already gone included, or is
  answered with another error (`TerminateFails`, `sandbox.py:242-248`), retried up to
  five times and then passed over (`file_analysis.py:447-458`).  `refused` is a history
  variable that counts those errors.
* Simplified: files are on the last attempt of their child; `mark_file` stands for
  the `mark_*` activities, whose retries are unlimited (bounded here by
  `MaxMarkTimeouts`); `recover_sandbox` is left out, it would be a second
  `provision_sandbox`; the model does not fail.  Timers strike only where
  something keeps an attempt from running: an attempt that can run is taken to
  end in time.

### Intake against the code

* One request from what is dropped on the panel (`AcceptFiles`, `Submit`), or made
  by another client, over `Check` (before any body is read) and the chunks of
  `_CappedReader` (`Read`, `Uploaded`) to the answer.
* A name is a sequence of tokens; letters of an allowed extension are one token.
  `Extension` is `PurePosixPath(name).suffix` of Python 3.12, path parts included.
* `Sums` and `Accepted` are the loops over the files of a batch: their value at `n` is
  what the loop has after `n` files.
* `ValidateBatch` translates `validate_batch`, which nothing calls: it is the
  reference for `StreamDecides`, and so says what the inlined checks must do.
* What happens to the objects already uploaded by a refused request is in `SubmitApi`.

### ToolOutput against the code

* A text is a sequence of characters of 1, 2, 3 or 4 bytes.  `Encode` is its bytes,
  each with the character it belongs to, so a cut may fall inside one; `Encoded` and
  `Decoded` are encoding and decoding after each character and each byte.  The two
  decodings (`errors="ignore"` of the worker, `errors="replace"` of the script)
  treat such a character as Python does.  Files whose bytes are no UTF-8 are not
  modelled.
* A delimiter's name, the truncation marker and the notice of the script are one
  character each; the marker keeps its number (`dropped`).
* `ReadFile` is the generated script, `max_bytes` of the model included, which no
  code bounds: negative values slice from the end.

## 3. Runs

| Run | Instance | Distinct states | Shows |
|---|---|---|---|
| `file` | 3 sandboxes, 2 turns, 1 recovery, 3 attempts, 3 shapes of response, 2 tries of exec and terminate | 1,658,525 | the restore point is known, nothing is lost, no attempt calls the model again after a report it has accepted, and what throws such a report away; cleanup, row against outcome, no flicker, refinement of `FileRun`; every child closes and its row settles |
| `failures` | up to 3 SDK causes of 9 classes below 15 raise sites, the subclass names of `llm.py:195` included | 5,648 | the child is retried exactly when `classify()` would say so; the category survives but for those subclasses; recovery for lost sandboxes only |
| `llm_budget` | budgets 10 and 3, slack 7 | 87,961 | budgets, counts, outer net |
| `submission` | 2 files, 3 attempts, 2 late writes | 269,489 | settled and final once terminal, but for overtaken files, and reached |
| `submit_api` | 2 requests at once, 1 key and no key, 2 ids, 2 files, 3 faults | 95,536 | one batch per key, accepted batches started and whole, refinement of `Batches`; no orphans; none stuck |
| `tenant_panel` | 2 staged entries, 2 batches, thresholds 2 and 2 | 316,417 | the batch on display is the last, its end is shown, polls do not overlap, each batch has its own pace, no entry in two batches |
| `exec_tool` | 3 calls in 2 turns, 2 attempts each, 1 recovery | 1,168,249 | first calls of a turn are answered by their own program, whose work is kept |
| `worker_pools` | 2 files, room for 1 sandbox, 2 turns, 1 timeout of a mark, 5 attempts to terminate | 345,889 | only a crunch stalls the workers, terminations run and fail only by refusal, the batch closes |
| `intake` | names of up to 4 tokens; up to 3 files of 5 kinds; two settings; chunks of 2 | 11,266 | the streamed request decides as the reference, panel and API agree, names survive |
| `tool_output` | texts of up to 4 characters of 3 widths, 5 with delimiters; caps 0, 4, 7; 7 requests | 103,194 | cuts between characters, nothing dropped in silence, the envelope reads back |
| `retained_key`, `crunch` | as `tenant_panel`, `worker_pools` | | the two findings below |

Why the bounds suffice.  *File*: three attempts are the code's own number, so
the literal 3 and the policy meet; `<<"run_python">>` can lose the sandbox under a
cell, recover and run it again, or lose it again with the budget spent;
`<<"write_report", "read_file">>` loses it after a report, so that the attempt ends
with it or is failed by it and starts over; `<<"bad_report">>` is turned down, on the
last turn too; three sandboxes are the first, its replacement and a stray or the next attempt's.  The
properties of recovery are proved for any number of turns, recoveries and shapes.
*Submission*: two children are the
least with a partial success and a sibling to wait for, and rollup counts are
symmetric in files; two late writes can overtake both a file and the submission,
or one file twice.  *ExecTool*: two calls of one turn share a file, a third sees what
is left for the next turn, and two attempts put a late one beside its successor.
*WorkerPools*: two files with room for one sandbox are the least crunch; two
turns put an `exec_tool` between two calls of the model, and the attempts of one
beside each other; the slots (`MCSlots`) are one or two per worker, so that pools fill up.  *Intake*: limits of
two files and three bytes put every size on, below and above a limit, with a
chunk that does not divide it; names of four tokens hold a path, a dot, an
extension and a character to replace, and a length limit of 3 cuts them.
*ToolOutput*: caps of 4 and 7 cut inside characters of two and four bytes, with
even and odd halves; requests lie below, inside and above the file.  *LLMBudget*: 10 and 3 keep the real budget of other errors
and the real slack; the rate-limit budget of 50 is reduced, and the proofs
cover every value.  *SubmitApi*: two requests and two ids are the least with a race of two inserts
under one key; two files have a partial upload; three faults give a fault, a
faulty replay and a fault of a third request.  The proofs cover every value.

*TenantPanel*: a second batch is what the shared refs must not confuse with the
first, and a second entry what may be staged between two clicks; thresholds of 2
are the least that count anything.

Deadlock is checked everywhere but in `SubmitApi` and `TenantPanel`, where an API or
a panel with nothing to do rests, once its ids or entries are used; closed systems
stutter explicitly (`Closed`, `Ended`, `Caught`, `Over`, `AllClosed`).

Every property of a passing run has a mutant: a definition marked `Fault:` in
the module, which stands for a plausible bug in the mapped lines and under which the
property fails.

### Fairness

`FairSpec` of `FileAnalysis` assumes `WF(Step)`: Temporal keeps a task until a
worker takes it, so some step of an open run is always taken.  Which one (success,
failure, lost sandbox) is left open: the adversary may fail every activity and
never let a snapshot succeed, and the loops still end because each is bounded.
Of Modal it assumes only that no sandbox outlives its wall-clock timeout
(`WF(SandboxDies(s))`, `sandbox.py:85-90`).  Nothing is assumed of run timeouts
or of late writes.  `FairSpec` of `Submission` assumes the same of parent and
child steps; that a child closes is `EventuallyClosed` of `FileAnalysis`.

`FairSpec` of `SubmitApi` assumes that a request being served gets on
(`WF(Handle(h))`: an await returns or raises) and that a client not told of success repeats
its request under the same key, as the frontend does on the next click
(`SF` of `Replay`, strong because the handlers may be busy with others).
Faults are finitely many, so some repetition meets none.

`FairSpec` of `TenantPanel` assumes that effects and timers run (`WF`) and that of
reads asked again and again some is served and answered (`SF`): the network may
fail any number of polls, but not all of them.

`FairSpec` of `WorkerPools` assumes that each worker goes on with whatever is ready
on it and that the server's timers strike (`WF(Work(queue))`, `WF(Timers)`).  Every
behaviour ends after finitely many steps, so weak fairness per worker leaves no
attempt behind.  That Modal ends a sandbox at its wall-clock limit
(`SandboxesTimeOut`) is assumed by `BatchCloses` only: `TerminationsRun` and
`StallIsCrunch` do without.  `Terminated` and `TerminateFails` are both `Work` of the
terminate worker: that Modal answers is assumed, not what it answers.  `CreateFails` is
the environment's and has no fairness, for nothing makes Modal refuse a call it may
as well leave waiting.

## 4. Findings

| Run | What the text says | What the code does |
|---|---|---|
| `retained_key` | the key is "retained across retries of that same click" (TenantPanel.tsx:27-28, SPEC.md:1051-1053) | it is kept until a submit succeeds, also when the staged files change in between: other files go out under the old key, and if the first request was committed the API answers with the old batch and the panel drops the new files |
| `crunch` | `terminate_sandbox` is on "its own small dedicated pool, so a Modal capacity crunch that stalls provision_sandbox can never starve the one activity that would relieve it" (worker.py:13-15, SPEC.md:335) | it has its own pool, but is scheduled only after `mark_file_*` has returned, which runs on the worker that the crunch stalls: the sandbox of a finished file keeps the room that `Sandbox.create` waits for until Modal's own limit |

Other differences between texts and code, followed as the code has them:

* the turn cap is "not an error" (SPEC.md:924) and the backstop behind it "should be
  unreachable" (file_analysis.py:339), but a rejected report on the forced last turn
  reaches it, and the file may end FAILED;
* the read model "must converge" under retries (db.py:3-7), but an unguarded UPDATE
  of a given-up attempt can overwrite a terminal row for good: this is what
  `TerminalMeansSettled` and `TerminalIsFinal` except, and no more;
* an API error is an LLM failure (SPEC.md:1331) and `classify()` says so, but
  `llm.py:195` crosses under `type(e).__name__`, and of these names only
  APIStatusError and APIConnectionError themselves, which the SDK raises through
  subclasses, are in `_KNOWN_EXCEPTION_TYPES` (file_analysis.py:81-88): for
  InternalServerError, APITimeoutError and the other subclasses the row says
  INTERNAL.  The decision to retry is not affected (`VerdictSurvives`);
* an activity timeout is recorded INTERNAL, not TIMEOUT (SPEC.md:1334): no `.type`
  string survives in the chain;
* "a submission id must run at most once, ever" (temporal/client.py:47), but a start
  whose answer was lost leaves `run_id` null, as does `WorkflowAlreadyStartedError`
  (routes_submissions.py:127); once Temporal has forgotten the id, a replay of the
  key runs the batch again;
* retrying a cell is taken to be safe (SPEC.md:875-876), but a late attempt of the
  first call of a turn may overwrite the cell file of the second, which then answers
  with the wrong output (`ExecTool`);
* `validateExtension` accepts a file named just ".csv", the API refuses it, though
  the two "mirror exactly" (SPEC.md:1527); `DropZone` reports too many files and
  stages them all the same; names that end in "/" or "/." are accepted by the API
  and lose their extension;
* `validate_batch` and `validateBatch` have no caller; with the default limits
  SUBMISSION_TOO_LARGE cannot be reached, since the largest batch just fits;
* `render_tool_output` says it neutralises delimiters "first" (runtime.py:114-120)
  and truncates first, to the same end;
* SPEC.md:346 gives the parent workflow a fairness priority, `temporal/client.py:31-54`
  sets none.

Also:
`finally` is to own "every sandbox this file ever used" (SPEC.md:550-556), but an
attempt that fails between `Sandbox.create` and its return leaves one no list
names, which `HandedSandboxesTerminated` excepts;
`call_claude` has 60 attempts (SPEC section 6.4: 5), `exec_tool` 2 (SPEC: 10); error
types are SDK class names, so subclasses of the 5xx errors are INTERNAL rather than
LLM; a snapshot lives 60 minutes, longer than a run, so its expiry needs no
action; `SUBMISSION_WORKFLOW_RUN_TIMEOUT` is defined and never used.

## 5. Proofs

All proofs are checked by `tlapm` to the last leaf.  They hold for every value
of the constants that satisfies the named assumptions: `SandboxAssumption`
(no id is the null), `ResponsesAssumption` (a response has at least one block),
`LimitsAssumption` (limits are naturals, attempts positive),
`FinalAttemptAssumption` (the literal 3 is the policy's 3; `file` has
a mutant that shows what happens otherwise), `BudgetAssumption`, `FileRun`'s
own, and in `SubmitApi` `NullAssumption` (the absent key and id are no key and id)
and `NumbersAssumption` (a batch has at least one file), in `TenantPanel`
`NoneAssumption` and `ThresholdsAssumption` (both thresholds are positive), in
`Submission` `FileAssumption` (finitely many files, at least one) and
`MaxLateAssumption`, in `ExecTool` `ScriptAssumption` (calls come in the order of
their turns) and its limits, in `Failures` `MaxCausesAssumption`, in `WorkerPools`
`SizesAssumption` (finitely many files, a slot and a turn at least, room for a
sandbox), in `Intake` `BatchesAssumption`, `SettingsAssumption` and `SizesAssumption`
(batches are sequences of files, limits naturals, chunk and name length positive), in
`ToolOutput` `TextsAssumption` and `BytesAssumption` (texts are sequences of
characters, caps naturals, requests integers).  `Responses`, `Sandbox` and the
`MaxTurns` of `FileAnalysis` are arbitrary: any number of turns, unlimited turns
included.

| Theorem | Statement |
|---|---|
| `TypeCorrect` | `Spec => []TypeOK` |
| `RestorePointIsKnown` | `Spec => []RestorePointKnown` |
| `NothingIsLost` | `Spec => []NothingLost` |
| `ReportIsLast` | `Spec => ReportEndsLoop`: an attempt calls the model no more once it has accepted a report, which only a tool call that fails behind it, or a run timeout, throws away |
| `RowMatches` | `Spec => []RowMatchesOutcome` |
| `NoFlickers` | `Spec => NoFlicker` |
| `RefinesFileRun` | `Spec => ImplementsFileRun` |
| `HandedTerminated` | `Spec => []HandedSandboxesTerminated` |
| `CountsAlwaysAddUp`, `BudgetsAreIndependent`, `PolicyIsAlwaysOuter` | the three invariants of `LLMBudget` |
| `ApiTypeCorrect` | `Spec => []TypeOK` of `SubmitApi` |
| `KeysAreIdempotent` | `Spec => []OneBatchPerKey` |
| `AcceptedAreStarted` | `Spec => []AcceptedIsStarted` |
| `StartedAreWhole` | `Spec => []StartedIsWhole` |
| `NothingOrphaned` | `Spec => []NoOrphans` |
| `RecordedStartsAreLast` | `Spec => RecordedRunsOnce`: no start after one is on record |
| `RefinesBatches` | `Spec => ImplementsBatches` of `SubmitApi` |
| `PanelTypeCorrect` | `Spec => []TypeOK` of `TenantPanel` |
| `ShownAlwaysActive`, `OnePollerOnly`, `PaceIsOwn`, `DoubleSubmitIsSafe` | the four invariants of `TenantPanel` |
| `ShownNeverGoesBack` | `Spec => ShownGoesForward` |
| `SubmissionTypeCorrect` | `Spec => []TypeOK` of `Submission` |
| `TerminalSettles`, `TerminalStays` | `Spec => []TerminalMeansSettled`, `Spec => TerminalIsFinal` |
| `ExecTypeCorrect` | `Spec => []TypeOK` of `ExecTool` |
| `FirstCallsStay` | `Spec => []FirstCallsAreKept` |
| `VerdictsSurvive`, `GoneMeansRaised` | the two invariants of `Failures`, for chains of any length, with every name `llm.py` raises under |
| `PoolsTypeCorrect` | `Spec => []TypeOK` of `WorkerPools` |
| `LimitsAreKept` | `Spec => [](SlotsKept /\ RoomKept)`: slots and room in Modal are never exceeded |
| `StallsAreCrunches` | `Spec => []StallIsCrunch` |
| `TerminationsGetOn` | `Spec => []TerminationsUnhindered`: a termination under way can always get on and is never timed out; a file closes with its sandbox alive only after every attempt to terminate it was refused |
| `IntakeTypeCorrect` | `Spec => []TypeOK` of `Intake` |
| `StreamDecidesAlways`, `PanelMirrorsAlways`, `NamesSurviveAlways` | the three invariants of `Intake`, for batches and names of any length and any limits |
| `CutsAreClean`, `NothingIsDroppedSilently`, `EnvelopesReadBack` | the three invariants of `ToolOutput`, for texts of any length, any cap and any request |

The arguments.

* *Type.* `TypeInv` is `TypeOK` with what steps need of the sequences: `cleaned`
  never passes the end of `sandbox_ids`, `blocks` is not empty while answering.
* *Recovery.* `NothingLost` is not inductive: recovery mounts `snapshot`, so one
  must know that `snapshot` is `1..(ran - snapshot_lag)`, that the current
  sandbox is never one a later step reuses, and that a lost-answer retry can add
  at most the cell being retried (`DiskKnown`, `RetriedCell`).  `RecoveryInv` is
  their conjunction; `RecoversCurrent` carries "lag 0" from the decision to
  recover to the mount itself.
* *Report.* Within an attempt no call of the model follows an accepted report
  (`ReportKnown`).  Across attempts it can: a tool call behind the report in the same
  response may fail the attempt, and the next one starts with fresh locals and pays for
  its calls again, as it does after a run timeout.  `ReportEndsLoop` says that these two
  are the only ways; `DroppedInv` keeps up to the end of the run which block had failed.
* *Row.* `RowMatchesOutcome` needs to know which row each `pc` leaves behind
  (`RowKnown`), that the verdict is set exactly on the failing path
  (`VerdictKnown`), and that an attempt that wrote FAILED cannot be retried:
  here `FinalAttempt = MaxAttempts` enters.  `RefinesFileRun` maps each action to
  `Begin`, `Settle`, `Retry`, `Close`, `HardStop` or a stutter.
* *Cleanup.* `CleanupInv` says every live sandbox whose id was handed over is
  still in the part of `sandbox_ids` the `finally` loop has not passed, or was
  given up.
* *Budget.* `CountsAddUp` needs that restored counts are within budget while the
  call goes on (`WithinBudget`) and that the first attempt has nothing to
  restore (`FirstAttempt`).
* *API.* `ApiInv` adds four facts to the properties.  `HandlersKnown`: what a
  request's place says of the batch it serves.  `Exclusive`: a batch not yet
  inserted is served by one request, so a loser's cleanup touches only its own
  files.  `StoresAgree`: nothing runs that is not in the database, and a recorded
  start is one Temporal knew.  `StartsRemembered`: a request that has read
  `run_id` as null and is overtaken by the recording of the start finds the id
  still remembered; this is where retention must outlast a request, and without it
  `RecordedRunsOnce` fails.  `RefinesBatches` needs the same four: that a batch is
  unknown until its insert for `Create`, `StartsRemembered` for the guard of `Start`,
  and `StoresAgree` for that of `Accept`.
* *Panel.* `PanelInv` rests on retirement: an id becomes active only with its key,
  after which no click sends that key, so no effect ever comes back to a batch
  (`KeysKnown`) and "aborted" is the same as "not the current effect's"
  (`PollsKnown`).  `FormKnown` says that what is staged was never sent under a
  retired key, which gives `NoDoubleBatch`.  `ReadsKnown` relates what is shown,
  what has been read and what the server has.

* *Submission.* `RowsKnown` says that a row no late write can touch is as its
  child left it, or as the repair pass did after the child was killed.  With
  `OutcomesKnown` (what the parent hears is what was written last) and
  `ChildrenHeard` this gives settled rows; `CountsKnown` says that a terminal
  submission is the rollup of children that no longer change, so a late terminal
  write with its repair pass changes nothing.
* *ExecTool.* `CellsKnown`: the file of a turn holds the program of a call of that
  turn already made, so while the first call is awaited it can only be its own.
  `AttemptsKnown` carries that to what an attempt has read and what it left on the
  disk; `SnapshotKept` says that a restore point with no lag has the work of every
  first call answered, which is what a recovery needs.
* *Failures.* `ChainKnown`: the link that was raised is first, or second under
  Temporal's wrapper, which is no known name; so the scan from the outside stops
  there, and below it nothing is final.

* *Workers.* `PoolInv` says at which place an attempt of each activity can be
  (`AttemptsKnown`): only `provision_sandbox` and `exec_tool` ever hold a loop, and
  neither is registered where the model is called or sandboxes are terminated.  So
  nothing is timed out there: every attempt to terminate that fails is an answer of
  Modal (`RefusalsAccounted`: `refused` equals `tries`), and a file that closes has given
  its sandbox back or was refused as often as the policy allows (`ClosedReleases`).  `CountsInv` counts attempts per worker and sandboxes:
  `Sandbox.create` is the only step that adds a living sandbox, and has room.  In a
  stall every slot of a worker with work is taken and whoever holds one cannot run;
  the only place where that is so is `Sandbox.create` with Modal full.
* *Intake.* `IntakeInv` follows the request: `Staged` and `Unread` say what is still
  untouched on the way to `sent`, `Uploading` that the bytes counted are those of the
  files before `next` and of what has been read of it, and that no check behind them
  has failed.  Then the check that fails first is the one `ValidateBatch` finds,
  because sums of sizes only grow (`SumsGrow`).  `PanelMirrors` and `NamesSurvive`
  compare translations of code: `EndsWithExtension` against the last dot of the last
  path part (`EndsThenValid`, `ValidThenEnds`), and what `Sanitize` does to a base name
  (`Sanitized`).
* *Tool output.* The bytes from one boundary between characters to another are those
  of the characters between them, and decoding any stretch of bytes gives the
  characters that lie in it as a whole (`SliceDecodes`).  A head cut by bytes thus
  decodes to the longest beginning that fits and a tail to the longest end
  (`CutsWell`); a read past the limit decodes to the file itself when there was nothing
  more (`ReadsWhole`).  `Shown` leaves no `<` in a text, so of the fourteen delimiter
  characters of an envelope each is where it was put and nowhere else (`ReadsBack`).

`Sums`, `Accepted`, `Ends`, `Encoded` and `Decoded` are recursive functions on `0..n`.
That such a function exists is itself proved (`WalkExists`), and what it returns is
shown by induction on a set of numbers, from the well-founded order on `Nat`
(`FromZeroOn`): the induction theorems of the library, which take an operator as a
parameter, are not used.

Only model-checked: liveness (`EventuallyClosed`, `RowSettles`, `EventuallyEnds`,
`NeverStuck`, `ShowsTheEnd`, `TerminationsRun`, `BatchCloses`), since fairness is
outside this prover; of `TerminationsRun` and `BatchCloses`, `TerminationsGetOn` and
`StallsAreCrunches` are the safety part.  Every invariant and every action property of
a passing run is proved.  `KeyNamesItsFiles` and `CrunchIsRelieved` are violated.  That
`ExecTool` implements the `exec_tool` step of `FileAnalysis` is an argument, not a
theorem: `FileAnalysis` keeps cells as a set, `ExecTool` shows what the set of first
calls keeps under late attempts.

## 6. Plan

Done: all modules and proofs above.  Worth doing next, in this order:

1. The history of a panel: details that arrive after another row was expanded
   (`SubmissionHistory.tsx:36-49`).
2. The exact condition under which the second call of a turn answers with its
   own output, and a cell file named after the call, which would drop it.
3. The first calls of the turns as an abstract specification that `ExecTool` and the
   tool step of `FileAnalysis` both implement, in place of the argument in section 5.

## 7. Not modelled

Durations (a run timeout may strike in any state instead), money (a re-billed
call), contents of documents, prompts and reports, bytes that are no UTF-8,
authentication (there is none), Modal image and deployment, migrations and seed
data (they declare tables and rows and take no steps), read-only routes,
`error_message`, the history and the report drawer (read-only, and nothing states
what they promise), presentation in the frontend.
