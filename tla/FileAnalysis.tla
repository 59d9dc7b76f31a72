---------------------------- MODULE FileAnalysis ----------------------------
(***************************************************************************)
(* FileAnalysisWorkflow: one file of a submission, from the first attempt  *)
(* to the close of the child workflow (temporal/workflows/                 *)
(* file_analysis.py), together with the Modal sandboxes its activities     *)
(* create (temporal/activities/sandbox.py) and the file's row in the read  *)
(* model (temporal/activities/db.py).                                      *)
(*                                                                         *)
(* One step is one activity attempt, or one decision of workflow code.     *)
(* Temporal replays workflow code after a worker crash, so a worker's      *)
(* death shows only as a lost activity attempt (a transport failure that   *)
(* may have had its effect).  The run timeout is different: it closes the  *)
(* run on the server and no `finally` runs (llm.py:56-61).                 *)
(***************************************************************************)
EXTENDS Naturals, Sequences, FiniteSets, Classify

CONSTANTS
  Sandbox,            \* sandbox ids Modal may hand out; a dead one may be reused
  NoSandbox,          \* `sandbox_id` before provisioning
  Responses,          \* the tool_use blocks of a response, as sequences of kinds
  MaxTurns,           \* settings.agent_max_turns; 0 is unlimited
  MaxRecoveries,      \* settings.sandbox_max_recoveries
  MaxAttempts,        \* CHILD_WORKFLOW_RETRY_POLICY.maximum_attempts
  FinalAttempt,       \* the literal of `workflow.info().attempt >= 3`
  ProvisionAttempts,  \* maximum_attempts of the activities' retry policies
  ExecAttempts,
  RecoverAttempts,
  TerminateAttempts

\* A tool_use block is one of these; validate_report accepts a "write_report"
\* and rejects a "bad_report".  "unknown_tool" is any other tool name.
SandboxTools == {"run_python", "read_file", "unknown_tool"}
ReportTools == {"write_report", "bad_report"}
BlockKind == SandboxTools \cup ReportTools

ASSUME SandboxAssumption == NoSandbox \notin Sandbox
ASSUME ResponsesAssumption == Responses \subseteq Seq(BlockKind) \ {<< >>}
ASSUME LimitsAssumption ==
  /\ MaxTurns \in Nat /\ MaxRecoveries \in Nat
  /\ {MaxAttempts, ProvisionAttempts, ExecAttempts, RecoverAttempts,
      TerminateAttempts} \subseteq Nat \ {0}
\* The literal 3 in the `except` and the policy's 3 are written apart.
ASSUME FinalAttemptAssumption == FinalAttempt = MaxAttempts

VARIABLES
  \* Temporal: the child workflow and the activity it is waiting for
  pc,          \* the activity or workflow code that is next
  attempt,     \* workflow.info().attempt
  tries,       \* attempts of the pending activity that have already failed
  outcome,     \* how the child workflow closed
  \* the locals of FileAnalysisWorkflow.run
  sandbox,     \* sandbox_id
  sandbox_ids, \* every sandbox the `finally` block will terminate
  snapshot,    \* contents of /work in latest_snapshot_id
  snapshot_lag, recoveries_used, turn, report, done,
  blocks,      \* tool_use blocks of the response not yet answered
  ran,         \* number of run_python blocks whose result is in `messages`
  verdict,     \* (category, retryable) of the exception being handled
  cleaned,     \* entries of sandbox_ids the `finally` loop is past
  \* Modal
  live,        \* sandboxes running now
  disk,        \* contents of each one's /work: the run_python calls it has run
  \* Postgres
  row,         \* this file's row
  \* history, read by no action
  handed,      \* live sandboxes whose id an activity returned to the workflow
  givenUp,     \* live ones whose terminate_sandbox spent all its attempts
  hardStopped  \* a run timeout has hit some run of this child

server == <<pc, attempt, tries, outcome>>
recovery == <<sandbox, sandbox_ids, snapshot, snapshot_lag, recoveries_used>>
loop == <<turn, report, done, blocks, ran>>
modal == <<live, disk, handed, givenUp>>
vars == <<pc, attempt, tries, outcome, sandbox, sandbox_ids, snapshot,
          snapshot_lag, recoveries_used, turn, report, done, blocks, ran,
          verdict, cleaned, live, disk, row, handed, givenUp, hardStopped>>

-----------------------------------------------------------------------------
Pc == {"mark_file_running", "provision_sandbox", "call_claude", "blocks",
       "recover_sandbox", "mark_file_succeeded", "mark_file_failed",
       "finally", "closed"}
Outcome == {"open", "succeeded", "failed", "killed"}

NoVerdict == [category |-> "none", retryable |-> FALSE]

Terminal == {"SUCCEEDED", "FAILED"}
Row == [status: {"PENDING", "RUNNING"} \cup Terminal,
        error_category: ErrorCategory \cup {"none"},
        report: BOOLEAN]

Tracked == {sandbox_ids[i] : i \in DOMAIN sandbox_ids}

TypeOK ==
  /\ pc \in Pc
  /\ attempt \in 1..MaxAttempts
  /\ tries \in Nat
  /\ outcome \in Outcome
  /\ sandbox \in Sandbox \cup {NoSandbox}
  /\ sandbox_ids \in Seq(Sandbox)
  /\ snapshot \in SUBSET Nat
  /\ snapshot_lag \in Nat
  /\ recoveries_used \in 0..MaxRecoveries
  /\ turn \in Nat
  /\ report \in BOOLEAN
  /\ done \in BOOLEAN
  /\ blocks \in Seq(BlockKind)
  /\ ran \in Nat
  /\ verdict \in Verdict \cup {NoVerdict}
  /\ cleaned \in Nat
  /\ live \in SUBSET Sandbox
  /\ disk \in [Sandbox -> SUBSET Nat]
  /\ row \in Row
  /\ handed \in SUBSET live
  /\ givenUp \in SUBSET live
  /\ hardStopped \in BOOLEAN

-----------------------------------------------------------------------------
\* A run starts with fresh locals, whatever the run before it left.
FreshLocals ==
  /\ sandbox' = NoSandbox /\ sandbox_ids' = << >>
  /\ snapshot' = {} /\ snapshot_lag' = 0 /\ recoveries_used' = 0
  /\ turn' = 0 /\ report' = FALSE /\ done' = FALSE /\ blocks' = << >> /\ ran' = 0
  /\ verdict' = NoVerdict /\ cleaned' = 0

Init ==
  /\ pc = "mark_file_running" /\ attempt = 1 /\ tries = 0 /\ outcome = "open"
  /\ sandbox = NoSandbox /\ sandbox_ids = << >>
  /\ snapshot = {} /\ snapshot_lag = 0 /\ recoveries_used = 0
  /\ turn = 0 /\ report = FALSE /\ done = FALSE /\ blocks = << >> /\ ran = 0
  /\ verdict = NoVerdict /\ cleaned = 0
  /\ live = {} /\ disk = [s \in Sandbox |-> {}]
  /\ row = [status |-> "PENDING", error_category |-> "none", report |-> FALSE]
  /\ handed = {} /\ givenUp = {} /\ hardStopped = FALSE

\* Fault: the row is written on every failed attempt.
FailsForGoodEveryAttempt(v) == TRUE

\* Fault: off by one against the retry policy's last attempt.
FailsForGoodPastFinal(v) == ~v.retryable \/ attempt > FinalAttempt

\* The row is written FAILED only if no other attempt will follow.
FailsForGood(v) == ~v.retryable \/ attempt >= FinalAttempt

\* The `except Exception` clause: classify, then write the row or only clean up.
Raise(chain) ==
  LET v == ClassifyForWorkflow(chain) IN
  /\ verdict' = v
  /\ pc' = IF FailsForGood(v) THEN "mark_file_failed" ELSE "finally"
  /\ tries' = 0

\* An attempt of the pending activity failed: its retry policy schedules
\* another, or the failure reaches the workflow.
AttemptFails(limit, chain) ==
  \/ /\ tries + 1 < limit
     /\ tries' = tries + 1
     /\ UNCHANGED <<pc, verdict>>
  \/ /\ tries + 1 >= limit
     /\ Raise(chain)

\* Fault: a recovery replaces the record of the sandbox it replaces.
TrackLatestOnly(s) ==
  /\ sandbox' = s
  /\ sandbox_ids' = <<s>>

\* A sandbox an activity returned becomes the current one and is recorded for
\* the `finally` block.
Track(s) ==
  /\ sandbox' = s
  /\ sandbox_ids' = Append(sandbox_ids, s)

\* Ids Modal may hand out: neither running nor still in this run's list.
Free == Sandbox \ (live \cup Tracked)

\* Sandboxes an activity attempt may leave behind when it fails after
\* Sandbox.create: none, or one nobody was told of.
Strays == {{}} \cup {{s} : s \in Free}

-----------------------------------------------------------------------------
MarkFileRunning ==
  /\ pc = "mark_file_running"
  /\ row' = [row EXCEPT !.status = "RUNNING"]
  /\ pc' = "provision_sandbox"
  /\ UNCHANGED <<attempt, tries, outcome, recovery, loop, verdict, cleaned,
                 modal, hardStopped>>

ProvisionSandbox ==
  /\ pc = "provision_sandbox"
  /\ \E s \in Free :
       /\ live' = live \cup {s}
       /\ disk' = [disk EXCEPT ![s] = {}]
       /\ handed' = handed \cup {s}
       /\ Track(s)
  /\ snapshot' = {} /\ snapshot_lag' = 0 /\ recoveries_used' = 0
  /\ pc' = "call_claude" /\ tries' = 0
  /\ UNCHANGED <<attempt, outcome, loop, verdict, cleaned, givenUp, row,
                 hardStopped>>

\* The upload lands empty (only after Sandbox.create), a Modal or S3 error, or
\* the start-to-close timeout.  PROVISION_SANDBOX_RETRY_POLICY retries them all.
ProvisionFails ==
  /\ pc = "provision_sandbox"
  /\ \E stray \in Strays,
       chain \in {Raised("ValidationError"), Raised("SDKError"), TimedOut} :
       /\ chain = Raised("ValidationError") => stray # {}
       /\ live' = live \cup stray
       /\ AttemptFails(ProvisionAttempts, chain)
  /\ UNCHANGED <<attempt, outcome, recovery, loop, cleaned, disk, handed,
                 givenUp, row, hardStopped>>

\* No worker slot within the schedule-to-start timeout: never retried.
ProvisionNotStarted ==
  /\ pc = "provision_sandbox"
  /\ Raise(TimedOut)
  /\ UNCHANGED <<attempt, outcome, recovery, loop, cleaned, modal, row,
                 hardStopped>>

-----------------------------------------------------------------------------
\* What reaches the workflow once call_claude's own budgets and its policy are
\* spent (llm.py:161-201), or its schedule-to-start or start-to-close timeout.
CallClaudeFailures ==
  {RaisedFrom("LLMClientError", "BadRequestError"),
   BudgetSpent("RateLimitError"),
   BudgetSpent("InternalServerError"),
   BudgetSpent("APIConnectionError"),
   TimedOut}

\* Past the loop: a report goes to the read model, its absence is a failure.
LeaveLoop(hasReport) ==
  \/ /\ hasReport
     /\ pc' = "mark_file_succeeded" /\ tries' = 0
     /\ UNCHANGED verdict
  \/ /\ ~hasReport
     /\ Raise(EndedWithoutReport)

\* On the last turn tool_choice is pinned to write_report, but as the code keeps
\* a backstop for a response that holds another tool, so does the model.
CallClaude ==
  /\ pc = "call_claude"
  /\ blocks' \in Responses
  /\ done' = FALSE
  /\ pc' = "blocks" /\ tries' = 0
  /\ UNCHANGED <<attempt, outcome, recovery, turn, report, ran, verdict,
                 cleaned, modal, row, hardStopped>>

\* stop_reason is end_turn, max_tokens, ...: any tool_use block is ignored.
ModelStops ==
  /\ pc = "call_claude"
  /\ LeaveLoop(report)
  /\ UNCHANGED <<attempt, outcome, recovery, loop, cleaned, modal, row,
                 hardStopped>>

CallClaudeFails ==
  /\ pc = "call_claude"
  /\ \E chain \in CallClaudeFailures : Raise(chain)
  /\ UNCHANGED <<attempt, outcome, recovery, loop, cleaned, modal, row,
                 hardStopped>>

-----------------------------------------------------------------------------
\* Fault: the last block of the response decides.
DoneAfterLast(kind) == kind = "write_report"

\* `done` after a block of this kind: an accepted report sets it, nothing clears it.
DoneAfter(kind) == done \/ kind = "write_report"

\* Fault: the turn is not counted.
NextTurnStuck == turn

\* `turn += 1`
NextTurn == turn + 1

\* The first block is answered.  After the last one the turn ends: an accepted
\* report or the turn cap leaves the loop, anything else calls the model again.
Answer ==
  LET rest == Tail(blocks)
      nowDone == DoneAfter(Head(blocks))
      nowReport == report \/ Head(blocks) = "write_report"
  IN
  /\ blocks' = rest /\ done' = nowDone /\ report' = nowReport
  /\ \/ /\ rest # << >>
        /\ tries' = 0
        /\ UNCHANGED <<pc, turn, verdict>>
     \/ /\ rest = << >> /\ nowDone
        /\ UNCHANGED turn
        /\ LeaveLoop(nowReport)
     \/ /\ rest = << >> /\ ~nowDone
        /\ turn' = NextTurn
        /\ \/ /\ MaxTurns # 0 /\ NextTurn >= MaxTurns
              /\ LeaveLoop(nowReport)
           \/ /\ MaxTurns = 0 \/ NextTurn < MaxTurns
              /\ pc' = "call_claude" /\ tries' = 0
              /\ UNCHANGED verdict

WriteReport ==
  /\ pc = "blocks" /\ Head(blocks) \in ReportTools
  /\ Answer
  /\ UNCHANGED <<attempt, outcome, recovery, ran, cleaned, modal, row,
                 hardStopped>>

ToolPending == pc = "blocks" /\ Head(blocks) \in SandboxTools

\* read_file and unknown tools leave /work alone and take no snapshot.
ExecReadOnly ==
  /\ ToolPending /\ Head(blocks) # "run_python"
  /\ sandbox \in live
  /\ Answer
  /\ UNCHANGED <<attempt, outcome, recovery, ran, cleaned, modal, row,
                 hardStopped>>

\* Fault: best-effort without keeping track.
LagAfterMissIgnored == snapshot_lag

\* `snapshot_lag` after a run_python whose snapshot failed.
LagAfterMiss == snapshot_lag + 1

\* run_python mutates /work, and the snapshot after it is best-effort.
ExecRunPython ==
  /\ ToolPending /\ Head(blocks) = "run_python"
  /\ sandbox \in live
  /\ disk' = [disk EXCEPT ![sandbox] = @ \cup {ran + 1}]
  /\ ran' = ran + 1
  /\ \/ snapshot' = disk'[sandbox] /\ snapshot_lag' = 0
     \/ snapshot_lag' = LagAfterMiss /\ UNCHANGED snapshot
  /\ Answer
  /\ UNCHANGED <<attempt, outcome, sandbox, sandbox_ids, recoveries_used,
                 cleaned, live, handed, givenUp, row, hardStopped>>

\* A transport error or timeout that does not look like a lost sandbox; the
\* code may have run before the answer was lost.
ExecFails ==
  /\ ToolPending
  /\ \/ UNCHANGED disk
     \/ /\ Head(blocks) = "run_python" /\ sandbox \in live
        /\ disk' = [disk EXCEPT ![sandbox] = @ \cup {ran + 1}]
  /\ \E chain \in {Raised("SDKError"), TimedOut} :
       AttemptFails(ExecAttempts, chain)
  /\ UNCHANGED <<attempt, outcome, recovery, loop, cleaned, live, handed,
                 givenUp, row, hardStopped>>

\* Fault: any restore point will do.
MayRecoverFromStale == recoveries_used < MaxRecoveries

\* Fault: no budget.
MayRecoverUnbudgeted == snapshot_lag = 0

\* Recover in place only from a restore point known to be current, and only
\* within the budget.
MayRecover == snapshot_lag = 0 /\ recoveries_used < MaxRecoveries

\* SandboxGoneError, which EXEC_TOOL_RETRY_POLICY does not retry.  The sandbox
\* may in fact be running: NotFound, or "terminat" in some error's text.
ExecGone ==
  /\ ToolPending
  /\ LET chain == RaisedFrom("SandboxGoneError", "NotFoundError") IN
     IF IsSandboxGone(chain) /\ MayRecover
     THEN /\ recoveries_used' = recoveries_used + 1
          /\ pc' = "recover_sandbox" /\ tries' = 0
          /\ UNCHANGED verdict
     ELSE Raise(chain) /\ UNCHANGED recoveries_used
  /\ UNCHANGED <<attempt, outcome, sandbox, sandbox_ids, snapshot, snapshot_lag,
                 loop, cleaned, modal, row, hardStopped>>

-----------------------------------------------------------------------------
\* A fresh sandbox with latest_snapshot_id mounted at /work; the tool call
\* that failed is then made again in it.
RecoverSandbox ==
  /\ pc = "recover_sandbox"
  /\ \E s \in Free :
       /\ live' = live \cup {s}
       /\ disk' = [disk EXCEPT ![s] = snapshot]
       /\ handed' = handed \cup {s}
       /\ Track(s)
  /\ pc' = "blocks" /\ tries' = 0
  /\ UNCHANGED <<attempt, outcome, snapshot, snapshot_lag, recoveries_used,
                 loop, verdict, cleaned, givenUp, row, hardStopped>>

\* A bad mount (only after Sandbox.create), a Modal error or a timeout.
RecoverFails ==
  /\ pc = "recover_sandbox"
  /\ \E stray \in Strays,
       chain \in {Raised("SandboxGoneError"), Raised("SDKError"), TimedOut} :
       /\ chain = Raised("SandboxGoneError") => stray # {}
       /\ live' = live \cup stray
       /\ AttemptFails(RecoverAttempts, chain)
  /\ UNCHANGED <<attempt, outcome, recovery, loop, cleaned, disk, handed,
                 givenUp, row, hardStopped>>

-----------------------------------------------------------------------------
\* mark_* activities are retried without limit, so the write takes effect.
MarkFileSucceeded ==
  /\ pc = "mark_file_succeeded"
  /\ row' = [row EXCEPT !.status = "SUCCEEDED", !.report = TRUE]
  /\ pc' = "finally"
  /\ UNCHANGED <<attempt, tries, outcome, recovery, loop, verdict, cleaned,
                 modal, hardStopped>>

MarkFileFailed ==
  /\ pc = "mark_file_failed"
  /\ row' = [row EXCEPT !.status = "FAILED", !.error_category = verdict.category]
  /\ pc' = "finally"
  /\ UNCHANGED <<attempt, tries, outcome, recovery, loop, verdict, cleaned,
                 modal, hardStopped>>

\* The `finally` loop; a sandbox already gone counts as terminated.
TerminateSandbox ==
  /\ pc = "finally" /\ cleaned < Len(sandbox_ids)
  /\ LET s == sandbox_ids[cleaned + 1] IN
     /\ live' = live \ {s}
     /\ disk' = [disk EXCEPT ![s] = {}]
     /\ handed' = handed \ {s} /\ givenUp' = givenUp \ {s}
  /\ cleaned' = cleaned + 1 /\ tries' = 0
  /\ UNCHANGED <<pc, attempt, outcome, recovery, loop, verdict, row, hardStopped>>

\* An exhausted terminate is swallowed: the loop goes on to the next sandbox.
TerminateFails ==
  /\ pc = "finally" /\ cleaned < Len(sandbox_ids)
  /\ IF tries + 1 < TerminateAttempts
     THEN tries' = tries + 1 /\ UNCHANGED <<cleaned, givenUp>>
     ELSE /\ tries' = 0 /\ cleaned' = cleaned + 1
          /\ givenUp' = givenUp \cup (live \cap {sandbox_ids[cleaned + 1]})
  /\ UNCHANGED <<pc, attempt, outcome, recovery, loop, verdict, live, disk,
                 handed, row, hardStopped>>

-----------------------------------------------------------------------------
\* The run closes with `how` unless CHILD_WORKFLOW_RETRY_POLICY starts another.
CloseRun(retry, how) ==
  \/ /\ retry /\ attempt < MaxAttempts
     /\ attempt' = attempt + 1
     /\ pc' = "mark_file_running" /\ tries' = 0
     /\ FreshLocals
     /\ UNCHANGED outcome
  \/ /\ ~retry \/ attempt >= MaxAttempts
     /\ pc' = "closed"
     /\ outcome' = how
     /\ UNCHANGED <<attempt, tries, recovery, loop, verdict, cleaned>>

RunEnds ==
  /\ pc = "finally" /\ cleaned = Len(sandbox_ids)
  /\ IF verdict = NoVerdict THEN CloseRun(FALSE, "succeeded")
                            ELSE CloseRun(verdict.retryable, "failed")
  /\ UNCHANGED <<modal, row, hardStopped>>

\* FILE_WORKFLOW_RUN_TIMEOUT: the server closes the run where it stands, and
\* the retry policy applies to it.  An activity attempt in flight runs on and
\* may still create its sandbox.
RunTimeout ==
  /\ pc # "closed"
  /\ hardStopped' = TRUE
  /\ CloseRun(TRUE, "killed")
  /\ \E stray \in Strays :
       /\ pc \notin {"provision_sandbox", "recover_sandbox"} => stray = {}
       /\ live' = live \cup stray
  /\ UNCHANGED <<disk, handed, givenUp, row>>

\* Modal's wall-clock timeout, preemption or OOM.
SandboxDies(s) ==
  /\ s \in live
  /\ live' = live \ {s}
  /\ disk' = [disk EXCEPT ![s] = {}]
  /\ handed' = handed \ {s} /\ givenUp' = givenUp \ {s}
  /\ UNCHANGED <<server, recovery, loop, verdict, cleaned, row, hardStopped>>

Closed ==
  /\ pc = "closed"
  /\ UNCHANGED vars

\* Everything Temporal and the workers will do if they keep running.
Step ==
  \/ MarkFileRunning
  \/ ProvisionSandbox \/ ProvisionFails \/ ProvisionNotStarted
  \/ CallClaude \/ ModelStops \/ CallClaudeFails
  \/ WriteReport
  \/ ExecReadOnly \/ ExecRunPython \/ ExecFails \/ ExecGone
  \/ RecoverSandbox \/ RecoverFails
  \/ MarkFileSucceeded \/ MarkFileFailed
  \/ TerminateSandbox \/ TerminateFails
  \/ RunEnds

Next ==
  \/ Step
  \/ RunTimeout
  \/ \E s \in Sandbox : SandboxDies(s)
  \/ Closed

Spec == Init /\ [][Next]_vars

\* Temporal drives a run to its end: some step of it is always taken.  Nothing
\* is assumed of run timeouts, and of Modal only that no sandbox outlives its
\* wall-clock timeout.
FairSpec == Spec /\ WF_vars(Step)
                 /\ \A s \in Sandbox : WF_vars(SandboxDies(s))

-----------------------------------------------------------------------------
(***************************************************************************)
(* Properties.                                                             *)
(***************************************************************************)
InLoop == pc \in {"call_claude", "blocks", "recover_sandbox"}

\* The restore point is never staler than snapshot_lag says: it holds every
\* run_python the transcript shows except the last snapshot_lag of them, so a
\* recovery (attempted only at lag 0) mounts exactly the work the model has
\* seen (file_analysis.py:212-217, 292-297, 322-327).
RestorePointKnown ==
  InLoop => /\ snapshot_lag <= ran
            /\ snapshot = 1..(ran - snapshot_lag)

\* However many times the sandbox was lost and replaced, the one the next
\* tool call runs in holds every run_python whose result is in `messages`
\* (file_analysis.py:275-327, sandbox.py:199-234).
NothingLost ==
  pc \in {"call_claude", "blocks"} /\ sandbox \in live
     => 1..ran \subseteq disk[sandbox]

\* Once a run has ended by itself, no sandbox whose id an activity ever
\* returned to the workflow is still running, unless its own terminate spent
\* every attempt: replaced sandboxes, falsely "gone" ones and those of earlier
\* attempts included (file_analysis.py:440-458).
HandedSandboxesTerminated ==
  pc \in {"mark_file_running", "closed"} /\ ~hardStopped => handed \subseteq givenUp

\* An accepted report ends the loop of its attempt: no further call of the model
\* is made in it, also when a later block of the same response is rejected or has
\* to wait for a recovery.  Only two things throw such a report away, for another
\* attempt that pays for its calls again: a tool call after it in the same
\* response that failed retryably, and a run timeout (file_analysis.py:259-345).
ReportEndsLoop ==
  [][/\ pc' = "call_claude" => ~report'
     /\ report /\ ~report' =>
          \/ /\ pc = "finally" /\ verdict.retryable
             /\ blocks # << >> /\ Head(blocks) \in SandboxTools
          \/ RunTimeout]_vars

\* The row agrees with how the child closed: SUCCEEDED with its report when
\* the parent is told success, FAILED with a category when it is told failure
\* (file_analysis.py:357-438).  A run timeout of the last attempt is told apart.
RowMatchesOutcome ==
  /\ outcome = "succeeded" => row.status = "SUCCEEDED" /\ row.report
  /\ outcome = "failed" => row.status = "FAILED" /\ row.error_category # "none"

\* Without a run timeout a terminal row is final: retries of the file never
\* show it FAILED or SUCCEEDED and then RUNNING again (file_analysis.py:422-437).
NoFlicker ==
  [][row.status \in Terminal /\ ~hardStopped => row' = row]_vars

\* This module implements FileRun for its one file: the parent sees the row
\* and the close of the child, and nothing of attempts, sandboxes or turns
\* (file_analysis.py:182-458 against submission.py:51-85).
Run == INSTANCE FileRun WITH
  File <- {"this file"},
  status <- [f \in {"this file"} |-> row.status],
  attempts <- [f \in {"this file"} |-> attempt],
  child <- [f \in {"this file"} |->
              IF outcome # "open" THEN outcome
              ELSE IF pc = "mark_file_running" THEN "starting" ELSE "running"],
  stopped <- [f \in {"this file"} |-> hardStopped]

ImplementsFileRun == Run!FileSpec

\* The child closes: no loop of turns, recoveries, retries or terminations
\* goes on for ever when the turn cap is set (file_analysis.py:238-345).
EventuallyClosed == <>(pc = "closed")

\* The row settles in a terminal status unless a run timeout intervenes
\* (file_analysis.py:357-438).
RowSettles == <>[](row.status \in Terminal \/ hardStopped)
=============================================================================
