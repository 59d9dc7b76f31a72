------------------------ MODULE FileAnalysis_proofs ------------------------
(***************************************************************************)
(* Proofs about FileAnalysis, for every number of sandboxes, turns,        *)
(* recoveries and attempts the assumptions of that module allow.           *)
(***************************************************************************)
EXTENDS FileAnalysis, TLAPS

-----------------------------------------------------------------------------
(***************************************************************************)
(* What the helpers do to the variables they assign.                       *)
(***************************************************************************)

\* Whatever the chain, the workflow reaches a verdict with a category.
LEMMA VerdictType == ASSUME NEW chain PROVE ClassifyForWorkflow(chain) \in Verdict
<1> DEFINE raw == ClassifyClass(ClassifiedClass(chain))
<1>1. raw \in Verdict
  BY Zenon DEF ClassifyClass, Verdict, ErrorCategory
<1>2. ClassifyForWorkflow(chain) =
        [category |-> raw.category, retryable |-> raw.retryable /\ ~AnyNonRetryable(chain)]
  BY DEF ClassifyForWorkflow
<1> HIDE DEF raw
<1>3. QED
  BY <1>1, <1>2 DEF Verdict

\* NoVerdict is no verdict: the `finally` block can tell them apart.
LEMMA NoVerdictApart == NoVerdict \notin Verdict
BY DEF NoVerdict, Verdict, ErrorCategory

LEMMA RaiseEffect ==
  ASSUME NEW chain, Raise(chain)
  PROVE  /\ verdict' \in Verdict
         /\ pc' \in {"mark_file_failed", "finally"}
         /\ pc' = "mark_file_failed" <=> FailsForGood(verdict')
         /\ tries' = 0
BY VerdictType DEF Raise

LEMMA AttemptFailsEffect ==
  ASSUME NEW limit, NEW chain, tries \in Nat, AttemptFails(limit, chain)
  PROVE  /\ tries' \in Nat
         /\ \/ UNCHANGED <<pc, verdict>>
            \/ /\ verdict' \in Verdict
               /\ pc' \in {"mark_file_failed", "finally"}
               /\ pc' = "mark_file_failed" <=> FailsForGood(verdict')
BY RaiseEffect DEF AttemptFails

LEMMA LeaveLoopEffect ==
  ASSUME NEW ACTION hasReport, LeaveLoop(hasReport)
  PROVE  /\ tries' = 0
         /\ \/ hasReport /\ pc' = "mark_file_succeeded" /\ UNCHANGED verdict
            \/ /\ ~hasReport /\ verdict' \in Verdict
               /\ pc' \in {"mark_file_failed", "finally"}
               /\ pc' = "mark_file_failed" <=> FailsForGood(verdict')
BY RaiseEffect DEF LeaveLoop

\* A block answered: the turn goes on, the loop goes on, or the loop is left.
LEMMA AnswerEffect ==
  ASSUME TypeOK, blocks # << >>, Answer
  PROVE  /\ blocks' \in Seq(BlockKind)
         /\ done' = (done \/ Head(blocks) = "write_report")
         /\ report' = (report \/ Head(blocks) = "write_report")
         /\ turn' \in Nat
         /\ tries' = 0
         /\ \/ pc' = pc /\ blocks' # << >> /\ UNCHANGED verdict
            \/ pc' = "call_claude" /\ ~done' /\ UNCHANGED verdict
            \/ pc' = "mark_file_succeeded" /\ report' /\ UNCHANGED verdict
            \/ /\ ~report' /\ verdict' \in Verdict
               /\ pc' \in {"mark_file_failed", "finally"}
               /\ pc' = "mark_file_failed" <=> FailsForGood(verdict')
<1>1. blocks' = Tail(blocks) /\ blocks' \in Seq(BlockKind)
  BY DEF Answer, TypeOK
<1>2. /\ done' = (done \/ Head(blocks) = "write_report")
      /\ report' = (report \/ Head(blocks) = "write_report")
  BY DEF Answer, DoneAfter
<1>3. turn' \in Nat
  BY DEF Answer, NextTurn, TypeOK
<1>4. CASE blocks' # << >>
  BY <1>1, <1>2, <1>3, <1>4 DEF Answer
<1>5. CASE blocks' = << >> /\ done'
  <2>1. LeaveLoop(report')
    BY <1>5 DEF Answer
  <2>2. QED
    BY <2>1, <1>1, <1>2, <1>3, LeaveLoopEffect
<1>6. CASE blocks' = << >> /\ ~done'
  <2>1. CASE LeaveLoop(report')
    BY <2>1, <1>1, <1>2, <1>3, LeaveLoopEffect
  <2>2. CASE ~LeaveLoop(report')
    BY <2>2, <1>6, <1>1, <1>2, <1>3 DEF Answer
  <2>3. QED
    BY <2>1, <2>2
<1>7. QED
  BY <1>4, <1>5, <1>6

-----------------------------------------------------------------------------
(***************************************************************************)
(* Type correctness.  A tool call is pending only while some block of the  *)
(* response is unanswered: without that, Head and Tail mean nothing.       *)
(***************************************************************************)
BlockPending == pc \in {"blocks", "recover_sandbox"} => blocks # << >>

TypeInv == TypeOK /\ BlockPending

LEMMA EmptySequences == << >> \in Seq(Sandbox) /\ << >> \in Seq(BlockKind)
OBVIOUS

\* The limits the assumption names, one by one.
LEMMA Limits ==
  /\ MaxTurns \in Nat /\ MaxRecoveries \in Nat
  /\ MaxAttempts \in Nat \ {0} /\ FinalAttempt = MaxAttempts
BY LimitsAssumption, FinalAttemptAssumption

LEMMA AnswerType ==
  ASSUME TypeInv, blocks # << >>, Answer, pc = "blocks",
         UNCHANGED <<attempt, outcome, sandbox, sandbox_ids, recoveries_used, cleaned,
                     live, handed, givenUp, row, hardStopped>>,
         disk' \in [Sandbox -> SUBSET Nat], ran' \in Nat,
         snapshot' \in SUBSET Nat, snapshot_lag' \in Nat
  PROVE  TypeInv'
<1>1. /\ blocks' \in Seq(BlockKind)
      /\ turn' \in Nat /\ tries' = 0
      /\ done' \in BOOLEAN /\ report' \in BOOLEAN
  BY AnswerEffect DEF TypeInv, TypeOK
<1>2. /\ pc' \in Pc /\ verdict' \in Verdict \cup {NoVerdict}
      /\ pc' \in {"blocks", "recover_sandbox"} => blocks' # << >>
  BY AnswerEffect DEF TypeInv, TypeOK, Pc
<1>3. QED
  BY <1>1, <1>2 DEF TypeInv, TypeOK, BlockPending

LEMMA TypeInit == Init => TypeInv
<1> SUFFICES ASSUME Init PROVE TypeInv
  OBVIOUS
<1>1. attempt \in 1..MaxAttempts /\ recoveries_used \in 0..MaxRecoveries
  BY Limits DEF Init
<1>2. row \in Row
  BY DEF Init, Row
<1>3. disk \in [Sandbox -> SUBSET Nat]
  BY DEF Init
<1>4. verdict \in Verdict \cup {NoVerdict}
  BY DEF Init
<1>5. sandbox_ids \in Seq(Sandbox) /\ blocks \in Seq(BlockKind)
  BY EmptySequences DEF Init
<1>6. QED
  BY <1>1, <1>2, <1>3, <1>4, <1>5 DEF Init, TypeInv, TypeOK, BlockPending, Pc, Outcome

\* The loop of `messages.create` and tool calls.
LEMMA TypeLoopStep ==
  ASSUME TypeInv,
         \/ CallClaude \/ ModelStops \/ CallClaudeFails \/ WriteReport
         \/ ExecReadOnly \/ ExecRunPython \/ ExecFails \/ ExecGone
  PROVE  TypeInv'
<1> USE DEF TypeInv, BlockPending
<1>1. CASE CallClaude
  <2>1. blocks' \in Seq(BlockKind) \ {<< >>}
    BY <1>1, ResponsesAssumption DEF CallClaude
  <2>2. QED
    BY <1>1, <2>1 DEF CallClaude, TypeOK, Pc, recovery, modal
<1>2. CASE ModelStops
  BY <1>2, LeaveLoopEffect DEF ModelStops, TypeOK, Pc, recovery, loop, modal
<1>3. CASE CallClaudeFails
  <2>1. PICK chain \in CallClaudeFailures : Raise(chain)
    BY <1>3 DEF CallClaudeFails
  <2>2. QED
    BY <1>3, <2>1, RaiseEffect DEF CallClaudeFails, TypeOK, Pc, recovery, loop, modal
<1>4. CASE WriteReport
  <2>1. TypeOK /\ blocks # << >> /\ Answer
    BY <1>4 DEF WriteReport
  <2>2. QED
    BY <1>4, <2>1, AnswerType DEF WriteReport, TypeOK, recovery, modal
<1>5. CASE ExecReadOnly
  <2>1. TypeOK /\ blocks # << >> /\ Answer
    BY <1>5 DEF ExecReadOnly, ToolPending
  <2>2. QED
    BY <1>5, <2>1, AnswerType DEF ExecReadOnly, ToolPending, TypeOK, recovery, modal
<1>6. CASE ExecRunPython
  <2>1. TypeOK /\ blocks # << >> /\ Answer /\ sandbox \in Sandbox
    BY <1>6 DEF ExecRunPython, ToolPending, TypeOK
  <2>2. disk' \in [Sandbox -> SUBSET Nat] /\ ran' \in Nat
    BY <1>6 DEF ExecRunPython, TypeOK
  <2>3. snapshot' \in SUBSET Nat /\ snapshot_lag' \in Nat
    <3>1. CASE snapshot' = disk'[sandbox] /\ snapshot_lag' = 0
      BY <3>1, <2>1, <2>2
    <3>2. CASE snapshot_lag' = snapshot_lag + 1 /\ UNCHANGED snapshot
      BY <3>2 DEF TypeOK
    <3>3. QED
      BY <1>6, <3>1, <3>2 DEF ExecRunPython, LagAfterMiss
  <2>4. QED
    BY <1>6, <2>1, <2>2, <2>3, AnswerType DEF ExecRunPython, ToolPending
<1>7. CASE ExecFails
  <2>1. disk' \in [Sandbox -> SUBSET Nat]
    BY <1>7 DEF ExecFails, TypeOK
  <2>2. PICK chain : AttemptFails(ExecAttempts, chain)
    BY <1>7 DEF ExecFails
  <2>3. QED
    BY <1>7, <2>1, <2>2, AttemptFailsEffect
       DEF ExecFails, ToolPending, TypeOK, Pc, recovery, loop
<1>8. CASE ExecGone
  <2> DEFINE chain == RaisedFrom("SandboxGoneError", "NotFoundError")
  <2>1. CASE MayRecover /\ recoveries_used' = recoveries_used + 1
             /\ pc' = "recover_sandbox" /\ tries' = 0 /\ UNCHANGED verdict
    BY <1>8, <2>1, LimitsAssumption
       DEF ExecGone, ToolPending, MayRecover, TypeOK, Pc, loop, modal
  <2>2. CASE Raise(chain) /\ UNCHANGED recoveries_used
    BY <1>8, <2>2, RaiseEffect DEF ExecGone, TypeOK, Pc, loop, modal
  <2>3. QED
    BY <1>8, <2>1, <2>2 DEF ExecGone
<1>9. QED
  BY <1>1, <1>2, <1>3, <1>4, <1>5, <1>6, <1>7, <1>8

LEMMA CloseRunType ==
  ASSUME NEW ACTION retry, NEW how \in Outcome, TypeInv, CloseRun(retry, how),
         live' \in SUBSET Sandbox, live \subseteq live', hardStopped' \in BOOLEAN,
         UNCHANGED <<disk, handed, givenUp, row>>
  PROVE  TypeInv'
<1> USE DEF TypeInv, BlockPending
<1>1. CASE pc' = "mark_file_running" /\ FreshLocals /\ tries' = 0 /\ UNCHANGED outcome
           /\ attempt < MaxAttempts /\ attempt' = attempt + 1
  <2>1. attempt' \in 1..MaxAttempts /\ recoveries_used' \in 0..MaxRecoveries
    BY <1>1, Limits DEF FreshLocals, TypeOK
  <2>2. /\ sandbox_ids' \in Seq(Sandbox) /\ blocks' \in Seq(BlockKind)
        /\ snapshot' \in SUBSET Nat /\ disk' \in [Sandbox -> SUBSET Nat]
    BY <1>1, EmptySequences DEF FreshLocals, TypeOK
  <2>3. QED
    BY <1>1, <2>1, <2>2 DEF FreshLocals, TypeOK, Pc
<1>2. CASE pc' = "closed" /\ outcome' = how
           /\ UNCHANGED <<attempt, tries, recovery, loop, verdict, cleaned>>
  BY <1>2 DEF TypeOK, Pc, recovery, loop
<1>3. QED
  BY <1>1, <1>2 DEF CloseRun

\* Everything a step does outside the loop.
LEMMA TypeOtherStep ==
  ASSUME TypeInv,
         \/ MarkFileRunning
         \/ ProvisionSandbox \/ ProvisionFails \/ ProvisionNotStarted
         \/ RecoverSandbox \/ RecoverFails
         \/ MarkFileSucceeded \/ MarkFileFailed
         \/ TerminateSandbox \/ TerminateFails \/ RunEnds
         \/ RunTimeout
         \/ \E s \in Sandbox : SandboxDies(s)
         \/ UNCHANGED vars
  PROVE  TypeInv'
<1> USE DEF TypeInv, BlockPending
<1>1. CASE MarkFileRunning
  BY <1>1 DEF MarkFileRunning, TypeOK, Pc, Row, recovery, loop, modal
<1>2. CASE ProvisionSandbox
  <2>1. PICK s \in Free : /\ live' = live \cup {s}
                          /\ disk' = [disk EXCEPT ![s] = {}]
                          /\ handed' = handed \cup {s}
                          /\ Track(s)
    BY <1>2 DEF ProvisionSandbox
  <2>2. QED
    BY <1>2, <2>1, LimitsAssumption DEF ProvisionSandbox, Free, Track, TypeOK, Pc, loop
<1>3. CASE ProvisionFails
  <2>1. PICK stray \in Strays,
            chain \in {Raised("ValidationError"), Raised("SDKError"), TimedOut} :
              live' = live \cup stray /\ AttemptFails(ProvisionAttempts, chain)
    BY <1>3 DEF ProvisionFails
  <2>2. live' \in SUBSET Sandbox /\ live \subseteq live'
    BY <2>1 DEF Strays, Free, TypeOK
  <2>3. QED
    BY <1>3, <2>1, <2>2, AttemptFailsEffect DEF ProvisionFails, TypeOK, Pc, recovery, loop
<1>4. CASE ProvisionNotStarted
  BY <1>4, RaiseEffect DEF ProvisionNotStarted, TypeOK, Pc, recovery, loop, modal
<1>5. CASE RecoverSandbox
  <2>1. PICK s \in Free : /\ live' = live \cup {s}
                          /\ disk' = [disk EXCEPT ![s] = snapshot]
                          /\ handed' = handed \cup {s}
                          /\ Track(s)
    BY <1>5 DEF RecoverSandbox
  <2>2. QED
    BY <1>5, <2>1 DEF RecoverSandbox, Free, Track, TypeOK, Pc, loop
<1>6. CASE RecoverFails
  <2>1. PICK stray \in Strays,
            chain \in {Raised("SandboxGoneError"), Raised("SDKError"), TimedOut} :
              live' = live \cup stray /\ AttemptFails(RecoverAttempts, chain)
    BY <1>6 DEF RecoverFails
  <2>2. live' \in SUBSET Sandbox /\ live \subseteq live'
    BY <2>1 DEF Strays, Free, TypeOK
  <2>3. QED
    BY <1>6, <2>1, <2>2, AttemptFailsEffect DEF RecoverFails, TypeOK, Pc, recovery, loop
<1>7. CASE MarkFileSucceeded
  BY <1>7 DEF MarkFileSucceeded, TypeOK, Pc, Row, Terminal, recovery, loop, modal
<1>8. CASE MarkFileFailed
  <2>1. verdict.category \in ErrorCategory \cup {"none"}
    BY DEF TypeOK, Verdict, NoVerdict
  <2>2. QED
    BY <1>8, <2>1 DEF MarkFileFailed, TypeOK, Pc, Row, Terminal, recovery, loop, modal
<1>9. CASE TerminateSandbox
  <2> DEFINE s == sandbox_ids[cleaned + 1]
  <2>1. /\ live' = live \ {s} /\ handed' = handed \ {s} /\ givenUp' = givenUp \ {s}
        /\ disk' \in [Sandbox -> SUBSET Nat]
    BY <1>9 DEF TerminateSandbox, TypeOK
  <2> HIDE DEF s
  <2>2. QED
    BY <1>9, <2>1 DEF TerminateSandbox, TypeOK, Pc, recovery, loop
<1>10. CASE TerminateFails
  BY <1>10 DEF TerminateFails, TypeOK, Pc, recovery, loop
<1>12. CASE RunEnds
  <2>1. live' \in SUBSET Sandbox /\ live \subseteq live' /\ hardStopped' \in BOOLEAN
        /\ UNCHANGED <<disk, handed, givenUp, row>>
    BY <1>12 DEF RunEnds, modal, TypeOK
  <2>2. CASE CloseRun(FALSE, "succeeded")
    BY <2>1, <2>2, CloseRunType DEF Outcome
  <2>3. CASE CloseRun(verdict.retryable, "failed")
    BY <2>1, <2>3, CloseRunType DEF Outcome
  <2>4. QED
    BY <1>12, <2>2, <2>3 DEF RunEnds
<1>13. CASE RunTimeout
  <2>1. live' \in SUBSET Sandbox /\ live \subseteq live' /\ hardStopped' \in BOOLEAN
        /\ UNCHANGED <<disk, handed, givenUp, row>>
    BY <1>13 DEF RunTimeout, Strays, Free, TypeOK
  <2>2. CloseRun(TRUE, "killed")
    BY <1>13 DEF RunTimeout
  <2>3. QED
    BY <2>1, <2>2, CloseRunType DEF Outcome
<1>14. ASSUME NEW s \in Sandbox, SandboxDies(s) PROVE TypeInv'
  BY <1>14 DEF SandboxDies, TypeOK, server, recovery, loop
<1>15. CASE UNCHANGED vars
  BY <1>15 DEF vars, TypeOK
<1>16. QED
  BY <1>1, <1>2, <1>3, <1>4, <1>5, <1>6, <1>7, <1>8, <1>9, <1>10, <1>12, <1>13,
     <1>14, <1>15

LEMMA TypeStep == TypeInv /\ [Next]_vars => TypeInv'
BY TypeLoopStep, TypeOtherStep DEF Next, Step, Closed

\* Every variable keeps its type, and with it the budget of recoveries, the
\* limit of attempts, and that only running sandboxes count as handed out
\* (file_analysis.py:182-458).
THEOREM TypeCorrect == Spec => []TypeOK
<1>1. Spec => []TypeInv
  BY TypeInit, TypeStep, PTL DEF Spec
<1>2. TypeInv => TypeOK
  BY DEF TypeInv
<1>3. QED
  BY <1>1, <1>2, PTL

-----------------------------------------------------------------------------
(***************************************************************************)
(* The restore point.  RestorePointKnown and NothingLost are not inductive *)
(* as they stand: a snapshot is current only if /work holds exactly the    *)
(* cells the transcript shows, plus at most the one that is being retried, *)
(* and a recovery mounts the current work only because it starts at        *)
(* snapshot_lag 0.                                                         *)
(***************************************************************************)
Unstarted == pc \in {"mark_file_running", "provision_sandbox"} => ran = 0 /\ ~report

HasSandbox == InLoop => sandbox \in Sandbox

RecoversCurrent == pc = "recover_sandbox" => snapshot_lag = 0

\* A lost answer leaves the pending run_python in /work already.
RetriedCell == pc = "blocks" /\ Head(blocks) = "run_python" /\ disk[sandbox] = 1..(ran + 1)

DiskKnown ==
  pc \in {"call_claude", "blocks"} /\ sandbox \in live
    => disk[sandbox] = 1..ran \/ RetriedCell

\* A report accepted in this response has set `done`; none was before a call.
ReportKnown ==
  /\ pc = "call_claude" => ~report
  /\ pc \in {"blocks", "recover_sandbox"} /\ report => done

RecoveryInv ==
  /\ Unstarted
  /\ HasSandbox
  /\ RestorePointKnown
  /\ RecoversCurrent
  /\ DiskKnown
  /\ ReportKnown

LEMMA RecoveryInit == Init => RecoveryInv
BY DEF Init, RecoveryInv, Unstarted, HasSandbox, RestorePointKnown, RecoversCurrent,
       DiskKnown, ReportKnown, InLoop

\* Once the loop is left there is nothing more to restore.
LEMMA RecoveryOutside ==
  ASSUME pc' \in {"mark_file_succeeded", "mark_file_failed", "finally", "closed"}
  PROVE  RecoveryInv'
BY DEF RecoveryInv, Unstarted, HasSandbox, RestorePointKnown, RecoversCurrent,
       DiskKnown, ReportKnown, InLoop

LEMMA RecoveryFresh ==
  ASSUME pc' = "mark_file_running", FreshLocals PROVE RecoveryInv'
BY DEF FreshLocals, RecoveryInv, Unstarted, HasSandbox, RestorePointKnown,
       RecoversCurrent, DiskKnown, ReportKnown, InLoop

\* A block is answered: it is enough that restore point and disk are in order.
LEMMA RecoveryAnswer ==
  ASSUME TypeInv, RecoveryInv, pc = "blocks", Answer,
         sandbox' = sandbox, live' = live,
         snapshot_lag' <= ran', snapshot' = 1..(ran' - snapshot_lag'),
         sandbox \in live => disk'[sandbox] = 1..ran'
  PROVE  RecoveryInv'
<1>1. TypeOK /\ blocks # << >> /\ sandbox \in Sandbox
  BY DEF TypeInv, BlockPending, RecoveryInv, HasSandbox, InLoop
<1>2. report \in BOOLEAN /\ done \in BOOLEAN /\ (report => done)
  BY DEF TypeInv, TypeOK, RecoveryInv, ReportKnown
<1>3. CASE pc' = pc
  <2>1. report' => done'
    BY <1>1, <1>2, AnswerEffect
  <2>2. QED
    BY <1>1, <1>3, <2>1
       DEF RecoveryInv, Unstarted, HasSandbox, RestorePointKnown, RecoversCurrent,
           DiskKnown, ReportKnown, InLoop
<1>4. CASE pc' = "call_claude" /\ ~done'
  <2>1. ~report'
    BY <1>1, <1>2, <1>4, AnswerEffect
  <2>2. QED
    BY <1>1, <1>4, <2>1
       DEF RecoveryInv, Unstarted, HasSandbox, RestorePointKnown, RecoversCurrent,
           DiskKnown, ReportKnown, InLoop
<1>5. CASE pc' \in {"mark_file_succeeded", "mark_file_failed", "finally"}
  BY <1>5, RecoveryOutside
<1>6. QED
  BY <1>1, <1>3, <1>4, <1>5, AnswerEffect

\* The pending block leaves /work as the transcript shows it.
LEMMA DiskCurrent ==
  ASSUME RecoveryInv, pc \in {"call_claude", "blocks"}, sandbox \in live,
         pc = "call_claude" \/ Head(blocks) # "run_python"
  PROVE  disk[sandbox] = 1..ran
BY DEF RecoveryInv, DiskKnown, RetriedCell

LEMMA RecoveryExecRunPython ==
  ASSUME TypeInv, RecoveryInv, ExecRunPython PROVE RecoveryInv'
<1>1. /\ pc = "blocks" /\ sandbox \in live /\ sandbox \in Sandbox /\ ran \in Nat
      /\ ran' = ran + 1 /\ Answer /\ sandbox' = sandbox /\ live' = live
      /\ snapshot_lag \in Nat
  BY DEF ExecRunPython, ToolPending, TypeInv, TypeOK
<1>2. disk[sandbox] = 1..ran \/ disk[sandbox] = 1..(ran + 1)
  BY <1>1 DEF RecoveryInv, DiskKnown, RetriedCell
<1>3. disk'[sandbox] = disk[sandbox] \cup {ran + 1}
  BY <1>1 DEF ExecRunPython, TypeInv, TypeOK
<1>4. 1..(ran + 1) = (1..ran) \cup {ran + 1}
  BY <1>1
<1>5. disk'[sandbox] = 1..ran'
  BY <1>1, <1>2, <1>3, <1>4
<1>6. snapshot_lag <= ran /\ snapshot = 1..(ran - snapshot_lag)
  BY <1>1 DEF RecoveryInv, RestorePointKnown, InLoop
<1>7. snapshot_lag' <= ran' /\ snapshot' = 1..(ran' - snapshot_lag')
  <2>1. CASE snapshot' = disk'[sandbox] /\ snapshot_lag' = 0
    BY <1>1, <1>5, <2>1
  <2>2. CASE snapshot_lag' = snapshot_lag + 1 /\ snapshot' = snapshot
    <3>1. ran' - snapshot_lag' = ran - snapshot_lag
      BY <1>1, <2>2
    <3>2. QED
      BY <1>1, <1>6, <2>2, <3>1
  <2>3. QED
    BY <2>1, <2>2 DEF ExecRunPython, LagAfterMiss
<1>8. QED
  BY <1>1, <1>5, <1>7, RecoveryAnswer

LEMMA RecoveryStep ==
  ASSUME TypeInv, RecoveryInv, [Next]_vars PROVE RecoveryInv'
<1>1. CASE MarkFileRunning
  BY <1>1 DEF MarkFileRunning, loop, RecoveryInv, Unstarted, HasSandbox, RestorePointKnown,
              RecoversCurrent, DiskKnown, ReportKnown, InLoop
<1>2. CASE ProvisionSandbox
  <2>1. PICK s \in Free : /\ disk' = [disk EXCEPT ![s] = {}]
                          /\ sandbox' = s
    BY <1>2 DEF ProvisionSandbox, Track
  <2>2. s \in Sandbox /\ disk'[s] = {}
    BY <2>1 DEF Free, TypeInv, TypeOK
  <2>3. ran' = 0 /\ ~report'
    BY <1>2 DEF ProvisionSandbox, loop, RecoveryInv, Unstarted
  <2>4. 1..0 = {}
    OBVIOUS
  <2>5. QED
    BY <1>2, <2>1, <2>2, <2>3, <2>4
       DEF ProvisionSandbox, RecoveryInv, Unstarted, HasSandbox, RestorePointKnown,
           RecoversCurrent, DiskKnown, ReportKnown, InLoop
<1>3. CASE ProvisionFails
  <2>1. pc = "provision_sandbox" /\ UNCHANGED <<ran, report>>
    BY <1>3 DEF ProvisionFails, loop
  <2>2. PICK chain \in {Raised("ValidationError"), Raised("SDKError"), TimedOut} :
          AttemptFails(ProvisionAttempts, chain)
    BY <1>3 DEF ProvisionFails
  <2>3. pc' = pc \/ pc' \in {"mark_file_failed", "finally"}
    BY <2>2, AttemptFailsEffect DEF TypeInv, TypeOK
  <2>4. CASE pc' = pc
    BY <2>1, <2>4
       DEF RecoveryInv, Unstarted, HasSandbox, RestorePointKnown,
           RecoversCurrent, DiskKnown, ReportKnown, InLoop
  <2>5. QED
    BY <2>3, <2>4, RecoveryOutside
<1>4. CASE ProvisionNotStarted
  BY <1>4, RaiseEffect, RecoveryOutside DEF ProvisionNotStarted
<1>5. CASE CallClaude
  <2>1. sandbox \in live => disk[sandbox] = 1..ran
    BY <1>5, DiskCurrent DEF CallClaude
  <2>2. QED
    BY <1>5, <2>1
       DEF CallClaude, recovery, modal, RecoveryInv, Unstarted, HasSandbox,
           RestorePointKnown, RecoversCurrent, DiskKnown, ReportKnown, InLoop
<1>6. CASE ModelStops
  BY <1>6, LeaveLoopEffect, RecoveryOutside DEF ModelStops
<1>7. CASE CallClaudeFails
  BY <1>7, RaiseEffect, RecoveryOutside DEF CallClaudeFails
<1>8. CASE WriteReport \/ ExecReadOnly
  <2>1. /\ pc = "blocks" /\ Answer /\ Head(blocks) # "run_python"
        /\ UNCHANGED <<sandbox, live, disk, ran, snapshot, snapshot_lag>>
    BY <1>8 DEF WriteReport, ReportTools, ExecReadOnly, ToolPending, recovery, modal
  <2>2. snapshot_lag <= ran /\ snapshot = 1..(ran - snapshot_lag)
    BY <2>1 DEF RecoveryInv, RestorePointKnown, InLoop
  <2>3. sandbox \in live => disk[sandbox] = 1..ran
    BY <2>1, DiskCurrent
  <2>4. QED
    BY <2>1, <2>2, <2>3, RecoveryAnswer
<1>9. CASE ExecRunPython
  BY <1>9, RecoveryExecRunPython
<1>10. CASE ExecFails
  <2>1. /\ pc = "blocks" /\ sandbox \in Sandbox /\ ran \in Nat
        /\ UNCHANGED <<sandbox, live, ran, snapshot, snapshot_lag, blocks, report, done>>
    BY <1>10 DEF ExecFails, ToolPending, recovery, loop, RecoveryInv, HasSandbox, InLoop,
                 TypeInv, TypeOK
  <2>2. PICK chain \in {Raised("SDKError"), TimedOut} : AttemptFails(ExecAttempts, chain)
    BY <1>10 DEF ExecFails
  <2>3. pc' = pc \/ pc' \in {"mark_file_failed", "finally"}
    BY <2>2, AttemptFailsEffect DEF TypeInv, TypeOK
  <2>4. sandbox \in live => DiskKnown'
    <3>1. CASE disk' = disk
      BY <2>1, <2>3, <3>1 DEF RecoveryInv, DiskKnown, RetriedCell
    <3>2. CASE /\ Head(blocks) = "run_python" /\ sandbox \in live
               /\ disk' = [disk EXCEPT ![sandbox] = @ \cup {ran + 1}]
      <4>1. disk'[sandbox] = disk[sandbox] \cup {ran + 1}
        BY <2>1, <3>2 DEF TypeInv, TypeOK
      <4>2. disk[sandbox] = 1..ran \/ disk[sandbox] = 1..(ran + 1)
        BY <2>1, <3>2 DEF RecoveryInv, DiskKnown, RetriedCell
      <4>3. 1..(ran + 1) = (1..ran) \cup {ran + 1}
        BY <2>1
      <4>4. disk'[sandbox] = 1..(ran + 1)
        BY <4>1, <4>2, <4>3
      <4>5. QED
        BY <2>1, <2>3, <3>2, <4>4 DEF DiskKnown, RetriedCell
    <3>3. QED
      BY <1>10, <3>1, <3>2 DEF ExecFails
  <2>5. CASE pc' = pc
    BY <2>1, <2>4, <2>5
       DEF RecoveryInv, Unstarted, HasSandbox, RestorePointKnown, RecoversCurrent,
           DiskKnown, ReportKnown, InLoop
  <2>6. QED
    BY <2>3, <2>5, RecoveryOutside
<1>11. CASE ExecGone
  <2>1. /\ pc = "blocks"
        /\ UNCHANGED <<sandbox, live, disk, ran, snapshot, snapshot_lag, blocks, report, done>>
    BY <1>11 DEF ExecGone, ToolPending, loop, modal
  <2>2. CASE MayRecover /\ pc' = "recover_sandbox"
    BY <2>1, <2>2
       DEF MayRecover, RecoveryInv, Unstarted, HasSandbox, RestorePointKnown,
           RecoversCurrent, DiskKnown, ReportKnown, InLoop
  <2>3. CASE Raise(RaisedFrom("SandboxGoneError", "NotFoundError"))
    BY <2>3, RaiseEffect, RecoveryOutside
  <2>4. QED
    BY <1>11, <2>2, <2>3 DEF ExecGone
<1>12. CASE RecoverSandbox
  <2>1. PICK s \in Free : /\ disk' = [disk EXCEPT ![s] = snapshot]
                          /\ sandbox' = s
    BY <1>12 DEF RecoverSandbox, Track
  <2>2. s \in Sandbox /\ disk'[s] = snapshot
    BY <2>1 DEF Free, TypeInv, TypeOK
  <2>3. snapshot_lag = 0 /\ snapshot = 1..ran
    BY <1>12 DEF RecoverSandbox, RecoveryInv, RecoversCurrent, RestorePointKnown, InLoop,
                 TypeInv, TypeOK
  <2>4. QED
    BY <1>12, <2>1, <2>2, <2>3
       DEF RecoverSandbox, loop, RecoveryInv, Unstarted, HasSandbox, RestorePointKnown,
           RecoversCurrent, DiskKnown, ReportKnown, InLoop
<1>13. CASE RecoverFails
  <2>1. /\ pc = "recover_sandbox"
        /\ UNCHANGED <<sandbox, ran, snapshot, snapshot_lag, report, done>>
    BY <1>13 DEF RecoverFails, recovery, loop
  <2>2. PICK chain \in {Raised("SandboxGoneError"), Raised("SDKError"), TimedOut} :
          AttemptFails(RecoverAttempts, chain)
    BY <1>13 DEF RecoverFails
  <2>3. pc' = pc \/ pc' \in {"mark_file_failed", "finally"}
    BY <2>2, AttemptFailsEffect DEF TypeInv, TypeOK
  <2>4. CASE pc' = pc
    BY <2>1, <2>4
       DEF RecoveryInv, Unstarted, HasSandbox, RestorePointKnown,
           RecoversCurrent, DiskKnown, ReportKnown, InLoop
  <2>5. QED
    BY <2>3, <2>4, RecoveryOutside
<1>14. CASE MarkFileSucceeded \/ MarkFileFailed \/ TerminateSandbox \/ TerminateFails
  BY <1>14, RecoveryOutside
     DEF MarkFileSucceeded, MarkFileFailed, TerminateSandbox, TerminateFails
<1>15. CASE RunEnds \/ RunTimeout
  <2>1. pc' = "closed" \/ (pc' = "mark_file_running" /\ FreshLocals)
    BY <1>15 DEF RunEnds, RunTimeout, CloseRun
  <2>2. QED
    BY <2>1, RecoveryOutside, RecoveryFresh
<1>16. ASSUME NEW s \in Sandbox, SandboxDies(s) PROVE RecoveryInv'
  <2>1. /\ live' = live \ {s} /\ disk' = [disk EXCEPT ![s] = {}]
        /\ UNCHANGED <<pc, sandbox, ran, snapshot, snapshot_lag, blocks, report, done>>
    BY <1>16 DEF SandboxDies, server, recovery, loop
  <2>2. sandbox \in live' => sandbox \in live /\ disk'[sandbox] = disk[sandbox]
    BY <2>1 DEF TypeInv, TypeOK
  <2>3. DiskKnown'
    BY <2>1, <2>2 DEF RecoveryInv, DiskKnown, RetriedCell
  <2>4. QED
    BY <2>1, <2>3
       DEF RecoveryInv, Unstarted, HasSandbox, RestorePointKnown,
           RecoversCurrent, ReportKnown, InLoop
<1>17. CASE UNCHANGED vars
  BY <1>17
     DEF vars, RecoveryInv, Unstarted, HasSandbox, RestorePointKnown, RecoversCurrent,
         DiskKnown, RetriedCell, ReportKnown, InLoop
<1>18. QED
  BY <1>1, <1>2, <1>3, <1>4, <1>5, <1>6, <1>7, <1>8, <1>9, <1>10, <1>11, <1>12,
     <1>13, <1>14, <1>15, <1>16, <1>17 DEF Next, Step, Closed

LEMMA RecoveryCorrect == Spec => [](TypeInv /\ RecoveryInv)
<1>1. Init => TypeInv /\ RecoveryInv
  BY TypeInit, RecoveryInit
<1>2. TypeInv /\ RecoveryInv /\ [Next]_vars => TypeInv' /\ RecoveryInv'
  BY TypeStep, RecoveryStep
<1>3. QED
  BY <1>1, <1>2, PTL DEF Spec

\* The restore point is never staler than snapshot_lag says, so a recovery
\* mounts exactly the work the model has seen (file_analysis.py:212-217, 292-327).
THEOREM RestorePointIsKnown == Spec => []RestorePointKnown
<1>1. RecoveryInv => RestorePointKnown
  BY DEF RecoveryInv
<1>2. QED
  BY <1>1, RecoveryCorrect, PTL

\* The sandbox of the next tool call holds every run_python whose result is in
\* `messages`, however often it was lost and restored (file_analysis.py:275-327).
THEOREM NothingIsLost == Spec => []NothingLost
<1>1. TypeInv /\ RecoveryInv => NothingLost
  BY DEF TypeInv, TypeOK, RecoveryInv, DiskKnown, RetriedCell, NothingLost
<1>2. QED
  BY <1>1, RecoveryCorrect, PTL

-----------------------------------------------------------------------------
(***************************************************************************)
(* The life of a file across attempts: its row, the close of the child,    *)
(* the sandboxes it is handed, and that FileAnalysis implements FileRun.   *)
(***************************************************************************)
(***************************************************************************)
(* The row.  RowMatchesOutcome and NoFlicker hold because the decision to  *)
(* write FAILED (the literal 3) and the decision to start another attempt  *)
(* (the retry policy) agree: FinalAttemptAssumption.                       *)
(***************************************************************************)
\* Nothing has gone wrong in this run yet.
Undisturbed == {"mark_file_running", "provision_sandbox", "call_claude", "blocks",
                "recover_sandbox", "mark_file_succeeded"}

VerdictKnown ==
  /\ pc \in Undisturbed => verdict = NoVerdict
  /\ pc = "mark_file_failed" => verdict \in Verdict /\ FailsForGood(verdict)

OutcomeKnown == pc # "closed" <=> outcome = "open"

RowRunning ==
  \/ pc \in Undisturbed \ {"mark_file_running"}
  \/ pc = "mark_file_failed"
  \/ pc = "finally" /\ verdict # NoVerdict /\ ~FailsForGood(verdict)

RowKnown ==
  /\ RowRunning => row.status = "RUNNING"
  /\ pc = "mark_file_running" /\ ~hardStopped => row.status \notin Terminal
  /\ pc = "finally" /\ verdict = NoVerdict => row.status = "SUCCEEDED" /\ row.report
  /\ pc = "finally" /\ verdict # NoVerdict /\ FailsForGood(verdict)
       => row.status = "FAILED" /\ row.error_category # "none"

RowInv == VerdictKnown /\ OutcomeKnown /\ RowKnown /\ RowMatchesOutcome

LEMMA RowInit == Init => RowInv
BY DEF Init, RowInv, VerdictKnown, OutcomeKnown, RowKnown, RowRunning, RowMatchesOutcome,
       Undisturbed, Terminal

\* A step inside a run that writes no row: it goes on undisturbed, or a
\* failure has just been classified.
InRun ==
  /\ pc \in Undisturbed \ {"mark_file_running"}
  /\ UNCHANGED <<attempt, outcome, row, hardStopped>>
  /\ \/ pc' \in Undisturbed \ {"mark_file_running"} /\ UNCHANGED verdict
     \/ /\ verdict' \in Verdict
        /\ pc' \in {"mark_file_failed", "finally"}
        /\ pc' = "mark_file_failed" <=> FailsForGood(verdict')

InRunAction ==
  \/ ProvisionSandbox \/ ProvisionFails \/ ProvisionNotStarted
  \/ CallClaude \/ ModelStops \/ CallClaudeFails
  \/ WriteReport \/ ExecReadOnly \/ ExecRunPython \/ ExecFails \/ ExecGone
  \/ RecoverSandbox \/ RecoverFails

LEMMA InRunSteps == ASSUME TypeInv, InRunAction PROVE InRun
<1> USE DEF InRun, Undisturbed
<1>1. CASE ProvisionSandbox
  BY <1>1 DEF ProvisionSandbox
<1>2. CASE ProvisionFails
  <2>1. PICK stray \in Strays,
            chain \in {Raised("ValidationError"), Raised("SDKError"), TimedOut} :
              AttemptFails(ProvisionAttempts, chain)
    BY <1>2 DEF ProvisionFails
  <2>2. QED
    BY <1>2, <2>1, AttemptFailsEffect DEF ProvisionFails, TypeInv, TypeOK
<1>3. CASE ProvisionNotStarted
  BY <1>3, RaiseEffect DEF ProvisionNotStarted
<1>4. CASE CallClaude
  BY <1>4 DEF CallClaude
<1>5. CASE ModelStops
  BY <1>5, LeaveLoopEffect DEF ModelStops
<1>6. CASE CallClaudeFails
  BY <1>6, RaiseEffect DEF CallClaudeFails
<1>7. CASE WriteReport \/ ExecReadOnly \/ ExecRunPython
  <2>1. /\ TypeOK /\ blocks # << >> /\ Answer /\ pc = "blocks"
        /\ UNCHANGED <<attempt, outcome, row, hardStopped>>
    BY <1>7 DEF WriteReport, ExecReadOnly, ExecRunPython, ToolPending, TypeInv, BlockPending
  <2>2. QED
    BY <2>1, AnswerEffect
<1>8. CASE ExecFails
  <2>1. PICK chain \in {Raised("SDKError"), TimedOut} : AttemptFails(ExecAttempts, chain)
    BY <1>8 DEF ExecFails
  <2>2. QED
    BY <1>8, <2>1, AttemptFailsEffect DEF ExecFails, ToolPending, TypeInv, TypeOK
<1>9. CASE ExecGone
  BY <1>9, RaiseEffect DEF ExecGone, ToolPending
<1>10. CASE RecoverSandbox
  BY <1>10 DEF RecoverSandbox
<1>11. CASE RecoverFails
  <2>1. PICK stray \in Strays,
            chain \in {Raised("SandboxGoneError"), Raised("SDKError"), TimedOut} :
              AttemptFails(RecoverAttempts, chain)
    BY <1>11 DEF RecoverFails
  <2>2. QED
    BY <1>11, <2>1, AttemptFailsEffect DEF RecoverFails, TypeInv, TypeOK
<1>12. QED
  BY <1>1, <1>2, <1>3, <1>4, <1>5, <1>6, <1>7, <1>8, <1>9, <1>10, <1>11 DEF InRunAction

\* The `finally` loop and the death of a sandbox change none of this.
LEMMA AsideSteps ==
  ASSUME TerminateSandbox \/ TerminateFails \/ (\E s \in Sandbox : SandboxDies(s))
           \/ Closed \/ UNCHANGED vars
  PROVE  UNCHANGED <<pc, attempt, outcome, verdict, row, hardStopped>>
BY DEF TerminateSandbox, TerminateFails, SandboxDies, Closed, vars, server

LEMMA RowStep ==
  ASSUME TypeInv, RowInv, [Next]_vars PROVE RowInv'
<1> USE DEF RowInv, VerdictKnown, OutcomeKnown, RowKnown, RowRunning, RowMatchesOutcome,
            Undisturbed
<1>1. CASE MarkFileRunning
  BY <1>1 DEF MarkFileRunning, TypeInv, TypeOK, Row, Terminal
<1>2. CASE InRunAction
  <2>1. InRun
    BY <1>2, InRunSteps
  <2>2. FailsForGood(verdict)' <=> FailsForGood(verdict')
    BY <2>1 DEF InRun, FailsForGood
  <2>3. QED
    BY <2>1, <2>2, NoVerdictApart DEF InRun
<1>3. CASE MarkFileSucceeded
  BY <1>3 DEF MarkFileSucceeded, TypeInv, TypeOK, Row
<1>4. CASE MarkFileFailed
  <2>1. /\ verdict \in Verdict /\ verdict # NoVerdict /\ verdict' = verdict
        /\ verdict.category # "none"
    BY <1>4, NoVerdictApart DEF MarkFileFailed, Verdict, ErrorCategory
  <2>2. row'.status = "FAILED" /\ row'.error_category = verdict.category
    BY <1>4 DEF MarkFileFailed, TypeInv, TypeOK, Row
  <2>3. FailsForGood(verdict)' <=> FailsForGood(verdict)
    BY <1>4 DEF MarkFileFailed, FailsForGood
  <2>4. QED
    BY <1>4, <2>1, <2>2, <2>3 DEF MarkFileFailed
<1>5. CASE RunEnds
  <2>1. row' = row /\ hardStopped' = hardStopped /\ pc = "finally" /\ outcome = "open"
    BY <1>5 DEF RunEnds
  <2>2. CASE verdict = NoVerdict
    BY <1>5, <2>1, <2>2 DEF RunEnds, CloseRun
  <2>3. CASE verdict # NoVerdict
    <3>1. FailsForGood(verdict) <=> ~verdict.retryable \/ attempt >= MaxAttempts
      BY FinalAttemptAssumption DEF FailsForGood
    <3>2. attempt \in Nat /\ MaxAttempts \in Nat
      BY Limits DEF TypeInv, TypeOK
    <3>3. CASE pc' = "closed" /\ outcome' = "failed" /\ FailsForGood(verdict)
      BY <2>1, <2>3, <3>3
    <3>4. CASE /\ pc' = "mark_file_running" /\ FreshLocals /\ UNCHANGED outcome
               /\ ~FailsForGood(verdict)
      BY <2>1, <2>3, <3>4 DEF FreshLocals, Terminal
    <3>5. QED
      BY <1>5, <2>3, <3>1, <3>2, <3>3, <3>4 DEF RunEnds, CloseRun
  <2>4. QED
    BY <2>2, <2>3
<1>6. CASE RunTimeout
  BY <1>6 DEF RunTimeout, CloseRun, FreshLocals
<1>7. CASE TerminateSandbox \/ TerminateFails \/ (\E s \in Sandbox : SandboxDies(s))
             \/ Closed \/ UNCHANGED vars
  <2>1. UNCHANGED <<pc, attempt, outcome, verdict, row, hardStopped>>
    BY <1>7, AsideSteps
  <2>2. FailsForGood(verdict)' <=> FailsForGood(verdict)
    BY <2>1 DEF FailsForGood
  <2>3. QED
    BY <2>1, <2>2
<1>8. QED
  BY <1>1, <1>2, <1>3, <1>4, <1>5, <1>6, <1>7 DEF Next, Step, InRunAction

LEMMA RowCorrect == Spec => [](TypeInv /\ RowInv)
<1>1. Init => TypeInv /\ RowInv
  BY TypeInit, RowInit
<1>2. TypeInv /\ RowInv /\ [Next]_vars => TypeInv' /\ RowInv'
  BY TypeStep, RowStep
<1>3. QED
  BY <1>1, <1>2, PTL DEF Spec

\* The row agrees with how the child closed (file_analysis.py:357-438).
THEOREM RowMatches == Spec => []RowMatchesOutcome
<1>1. RowInv => RowMatchesOutcome
  BY DEF RowInv
<1>2. QED
  BY <1>1, RowCorrect, PTL

\* Without a run timeout a terminal row never changes again
\* (file_analysis.py:422-437).
THEOREM NoFlickers == Spec => NoFlicker
<1>1. ASSUME TypeInv, RowInv, [Next]_vars, row.status \in Terminal, ~hardStopped
      PROVE  row' = row
  <2> USE <1>1 DEF RowInv, RowKnown, RowRunning, Undisturbed, Terminal
  <2>1. CASE MarkFileRunning \/ MarkFileSucceeded \/ MarkFileFailed
    BY <2>1 DEF MarkFileRunning, MarkFileSucceeded, MarkFileFailed
  <2>2. CASE InRunAction
    BY <2>2, InRunSteps DEF InRun
  <2>3. CASE RunEnds \/ RunTimeout
    BY <2>3 DEF RunEnds, RunTimeout
  <2>4. CASE TerminateSandbox \/ TerminateFails \/ (\E s \in Sandbox : SandboxDies(s))
               \/ Closed \/ UNCHANGED vars
    BY <2>4, AsideSteps
  <2>5. QED
    BY <2>1, <2>2, <2>3, <2>4 DEF Next, Step, InRunAction
<1>2. TypeInv /\ RowInv /\ [Next]_vars
        => [row.status \in Terminal /\ ~hardStopped => row' = row]_vars
  BY <1>1
<1>3. QED
  BY <1>2, RowCorrect, PTL DEF Spec, NoFlicker

-----------------------------------------------------------------------------
(***************************************************************************)
(* The report.  Within an attempt no call of the model follows it: that is *)
(* ReportKnown.  Across attempts it can be lost: DroppedInv keeps, up to   *)
(* the end of the run, which block failed when it was.                     *)
(***************************************************************************)
ToolBlock == blocks # << >> /\ Head(blocks) \in SandboxTools

DroppedInv ==
  /\ pc = "recover_sandbox" => ToolBlock
  /\ pc \in {"mark_file_failed", "finally"} /\ report /\ verdict # NoVerdict => ToolBlock

LEMMA DroppedInit == Init => DroppedInv
BY DEF Init, DroppedInv

\* A failed call raises while its block is pending, or is tried again.
LEMMA DroppedFails ==
  ASSUME TypeInv, ToolBlock, blocks' = blocks
  PROVE  DroppedInv'
BY DEF DroppedInv, ToolBlock

\* A run goes on to a place where nothing has failed yet, or without a report.
LEMMA DroppedElsewhere ==
  ASSUME pc' # "recover_sandbox", pc' \notin {"mark_file_failed", "finally"} \/ ~report'
  PROVE  DroppedInv'
BY DEF DroppedInv

LEMMA DroppedStep ==
  ASSUME TypeInv, RecoveryInv, RowInv, DroppedInv, [Next]_vars PROVE DroppedInv'
<1>1. CASE MarkFileRunning \/ ProvisionSandbox \/ CallClaude \/ RecoverSandbox
  BY <1>1, DroppedElsewhere DEF MarkFileRunning, ProvisionSandbox, CallClaude, RecoverSandbox
<1>2. CASE ProvisionFails \/ ProvisionNotStarted
  <2>1. pc = "provision_sandbox" /\ ~report /\ report' = report
    BY <1>2 DEF ProvisionFails, ProvisionNotStarted, loop, RecoveryInv, Unstarted
  <2>2. InRun  BY <1>2, InRunSteps DEF InRunAction
  <2>3. pc' = pc \/ pc' \in {"mark_file_failed", "finally"}
    <3>1. CASE ProvisionFails
      <4>1. PICK chain : AttemptFails(ProvisionAttempts, chain)  BY <3>1 DEF ProvisionFails
      <4>. QED  BY <4>1, AttemptFailsEffect DEF TypeInv, TypeOK
    <3>2. CASE ProvisionNotStarted
      BY <3>2, RaiseEffect DEF ProvisionNotStarted
    <3>. QED  BY <1>2, <3>1, <3>2
  <2>. QED  BY <2>1, <2>3, DroppedElsewhere
<1>3. CASE ModelStops \/ CallClaudeFails
  <2>1. pc = "call_claude" /\ ~report /\ report' = report
    BY <1>3 DEF ModelStops, CallClaudeFails, loop, RecoveryInv, ReportKnown
  <2>2. pc' # "recover_sandbox"
    BY <1>3, LeaveLoopEffect, RaiseEffect DEF ModelStops, CallClaudeFails
  <2>. QED  BY <2>1, <2>2, DroppedElsewhere
<1>4. CASE WriteReport \/ ExecReadOnly \/ ExecRunPython
  <2>1. TypeOK /\ blocks # << >> /\ Answer /\ pc = "blocks"
    BY <1>4 DEF WriteReport, ExecReadOnly, ExecRunPython, ToolPending, TypeInv, BlockPending
  <2>2. pc' # "recover_sandbox" /\ (pc' \notin {"mark_file_failed", "finally"} \/ ~report')
    BY <2>1, AnswerEffect
  <2>. QED  BY <2>2, DroppedElsewhere
<1>5. CASE ExecFails \/ ExecGone \/ RecoverFails
  <2>1. ToolBlock /\ blocks' = blocks
    BY <1>5 DEF ExecFails, ExecGone, RecoverFails, ToolPending, loop, ToolBlock, TypeInv,
                BlockPending, DroppedInv
  <2>. QED  BY <2>1, DroppedFails
<1>6. CASE MarkFileSucceeded
  <2>1. verdict' = NoVerdict /\ pc' = "finally"
    BY <1>6 DEF MarkFileSucceeded, RowInv, VerdictKnown, Undisturbed
  <2>. QED  BY <2>1 DEF DroppedInv
<1>7. CASE MarkFileFailed
  BY <1>7 DEF MarkFileFailed, loop, DroppedInv, ToolBlock
<1>8. CASE TerminateSandbox \/ TerminateFails
  BY <1>8 DEF TerminateSandbox, TerminateFails, loop, DroppedInv, ToolBlock
<1>9. CASE RunEnds \/ RunTimeout
  <2>1. pc' \in {"closed", "mark_file_running"}  BY <1>9 DEF RunEnds, RunTimeout, CloseRun
  <2>. QED  BY <2>1, DroppedElsewhere
<1>10. ASSUME NEW s \in Sandbox, SandboxDies(s) PROVE DroppedInv'
  BY <1>10 DEF SandboxDies, server, loop, DroppedInv, ToolBlock
<1>11. CASE UNCHANGED vars
  BY <1>11 DEF vars, DroppedInv, ToolBlock
<1>. QED
  BY <1>1, <1>2, <1>3, <1>4, <1>5, <1>6, <1>7, <1>8, <1>9, <1>10, <1>11
     DEF Next, Step, Closed

\* Only a fresh start resets the report, and only a run that failed retryably or
\* was stopped is followed by one.
LEMMA ReportSteps ==
  ASSUME TypeInv, RecoveryInv, RowInv, DroppedInv, [Next]_vars
  PROVE  report /\ ~report' =>
           \/ /\ pc = "finally" /\ verdict.retryable
              /\ blocks # << >> /\ Head(blocks) \in SandboxTools
           \/ RunTimeout
<1>. SUFFICES ASSUME report, ~report', ~RunTimeout
              PROVE  pc = "finally" /\ verdict.retryable /\ ToolBlock
  BY DEF ToolBlock
<1>1. CASE RunEnds
  <2>1. pc = "finally" /\ verdict # NoVerdict /\ CloseRun(verdict.retryable, "failed")
    BY <1>1 DEF RunEnds, CloseRun, loop
  <2>2. verdict.retryable  BY <2>1 DEF CloseRun, loop
  <2>. QED  BY <2>1, <2>2 DEF DroppedInv
<1>2. CASE WriteReport \/ ExecReadOnly \/ ExecRunPython
  <2>1. TypeOK /\ blocks # << >> /\ Answer
    BY <1>2 DEF WriteReport, ExecReadOnly, ExecRunPython, ToolPending, TypeInv, BlockPending
  <2>. QED  BY <2>1, AnswerEffect
<1>3. CASE \/ MarkFileRunning
           \/ ProvisionSandbox \/ ProvisionFails \/ ProvisionNotStarted
           \/ CallClaude \/ ModelStops \/ CallClaudeFails
           \/ ExecFails \/ ExecGone \/ RecoverSandbox \/ RecoverFails
           \/ MarkFileSucceeded \/ MarkFileFailed \/ TerminateSandbox \/ TerminateFails
           \/ (\E s \in Sandbox : SandboxDies(s)) \/ UNCHANGED vars
  <2>1. report' = report
    BY <1>3 DEF MarkFileRunning, ProvisionSandbox, ProvisionFails, ProvisionNotStarted,
                CallClaude, ModelStops, CallClaudeFails, ExecFails, ExecGone, RecoverSandbox,
                RecoverFails, MarkFileSucceeded, MarkFileFailed, TerminateSandbox,
                TerminateFails, SandboxDies, loop, vars
  <2>. QED  BY <2>1
<1>. QED  BY <1>1, <1>2, <1>3 DEF Next, Step, Closed

\* An attempt never calls the model after it has accepted a report; and a report
\* is thrown away, and paid for again, only by a tool call after it in the same
\* response that failed retryably, or by a run timeout (file_analysis.py:259-345).
THEOREM ReportIsLast == Spec => ReportEndsLoop
<1>1. Init => TypeInv /\ RecoveryInv /\ RowInv /\ DroppedInv
  BY TypeInit, RecoveryInit, RowInit, DroppedInit
<1>2. TypeInv /\ RecoveryInv /\ RowInv /\ DroppedInv /\ [Next]_vars => DroppedInv'
  BY DroppedStep
<1>3. ASSUME TypeInv, RecoveryInv, RowInv, DroppedInv, [Next]_vars, RecoveryInv'
      PROVE  /\ pc' = "call_claude" => ~report'
             /\ report /\ ~report' =>
                  \/ /\ pc = "finally" /\ verdict.retryable
                     /\ blocks # << >> /\ Head(blocks) \in SandboxTools
                  \/ RunTimeout
  BY <1>3, ReportSteps DEF RecoveryInv, ReportKnown
<1>. QED  BY <1>1, <1>2, <1>3, RecoveryCorrect, RowCorrect, PTL DEF Spec, ReportEndsLoop

-----------------------------------------------------------------------------
(***************************************************************************)
(* FileAnalysis implements FileRun: of its steps the parent sees only the  *)
(* three row writes and the ends of a run.                                 *)
(***************************************************************************)
LEMMA RefinesInit == ASSUME Init PROVE Run!FileInit
<1>1. /\ pc = "mark_file_running" /\ outcome = "open" /\ attempt = 1
      /\ hardStopped = FALSE
  BY DEF Init
<1>2. row.status = "PENDING"
  BY DEF Init
<1>3. QED
  BY <1>1, <1>2 DEF Run!FileInit

LEMMA RefinesBegin == ASSUME TypeInv, RowInv, MarkFileRunning PROVE Run!FileNext
<1>1. Run!Begin("this file")
  <2>1. row'.status = "RUNNING" /\ outcome = "open" /\ outcome' = "open"
    BY DEF MarkFileRunning, TypeInv, TypeOK, Row, RowInv, OutcomeKnown
  <2>2. QED
    BY <2>1 DEF MarkFileRunning, Run!Begin
<1>2. QED
  BY <1>1 DEF Run!FileNext, Run!FileStep

LEMMA RefinesSettle ==
  ASSUME TypeInv, RowInv, MarkFileSucceeded \/ MarkFileFailed PROVE Run!FileNext
<1>1. /\ row.status = "RUNNING" /\ row'.status \in {"SUCCEEDED", "FAILED"}
      /\ outcome = "open" /\ outcome' = "open"
      /\ UNCHANGED <<attempt, hardStopped>>
      /\ pc # "mark_file_running" /\ pc' # "mark_file_running"
  BY DEF MarkFileSucceeded, MarkFileFailed, TypeInv, TypeOK, Row, RowInv, OutcomeKnown,
         RowKnown, RowRunning, Undisturbed
<1>2. Run!Settle("this file")
  BY <1>1 DEF Run!Settle, Run!FileTerminal
<1>3. QED
  BY <1>2 DEF Run!FileNext, Run!FileStep

LEMMA RefinesRunEnds == ASSUME TypeInv, RowInv, RunEnds PROVE Run!FileNext
<1>1. /\ outcome = "open" /\ pc = "finally" /\ attempt \in Nat /\ MaxAttempts \in Nat
      /\ UNCHANGED <<row, hardStopped>>
  BY Limits DEF RunEnds, TypeInv, TypeOK, RowInv, OutcomeKnown
<1>2. CASE verdict = NoVerdict
  <2>1. row.status = "SUCCEEDED" /\ pc' = "closed" /\ outcome' = "succeeded" /\ attempt' = attempt
    BY <1>1, <1>2 DEF RunEnds, CloseRun, RowInv, RowKnown
  <2>2. Run!Close("this file")
    BY <1>1, <2>1 DEF Run!Close, Run!FileTerminal
  <2>3. QED
    BY <2>2 DEF Run!FileNext, Run!FileStep
<1>3. CASE verdict # NoVerdict
  <2>1. FailsForGood(verdict) <=> ~verdict.retryable \/ attempt >= MaxAttempts
    BY FinalAttemptAssumption DEF FailsForGood
  <2>2. CASE FailsForGood(verdict)
    <3>1. row.status = "FAILED" /\ pc' = "closed" /\ outcome' = "failed" /\ attempt' = attempt
      BY <1>1, <1>3, <2>1, <2>2 DEF RunEnds, CloseRun, RowInv, RowKnown
    <3>2. Run!Close("this file")
      BY <1>1, <3>1 DEF Run!Close, Run!FileTerminal
    <3>3. QED
      BY <3>2 DEF Run!FileNext, Run!FileStep
  <2>3. CASE ~FailsForGood(verdict)
    <3>1. /\ row.status = "RUNNING" /\ pc' = "mark_file_running" /\ outcome' = outcome
          /\ attempt < MaxAttempts /\ attempt' = attempt + 1
      BY <1>1, <1>3, <2>1, <2>3 DEF RunEnds, CloseRun, RowInv, RowKnown, RowRunning
    <3>2. Run!Retry("this file")
      BY <1>1, <3>1 DEF Run!Retry, Run!NextAttempt
    <3>3. QED
      BY <3>2 DEF Run!FileNext, Run!FileStep
  <2>4. QED
    BY <2>2, <2>3
<1>4. QED
  BY <1>2, <1>3

LEMMA RefinesRunTimeout == ASSUME TypeInv, RowInv, RunTimeout PROVE Run!FileNext
<1>1. /\ outcome = "open" /\ attempt \in 1..MaxAttempts /\ MaxAttempts \in Nat
      /\ hardStopped' = TRUE /\ row' = row
  BY Limits DEF RunTimeout, TypeInv, TypeOK, RowInv, OutcomeKnown
<1>2. \/ /\ attempt < MaxAttempts /\ attempt' = attempt + 1
         /\ pc' = "mark_file_running" /\ outcome' = outcome
      \/ /\ attempt = MaxAttempts /\ attempt' = attempt
         /\ outcome' = "killed"
  BY <1>1 DEF RunTimeout, CloseRun
<1>3. Run!HardStop("this file")
  BY <1>1, <1>2 DEF Run!HardStop, Run!NextAttempt, Run!ChildOpen
<1>4. QED
  BY <1>3 DEF Run!FileNext, Run!FileStep

LEMMA RefinesNext ==
  ASSUME TypeInv, RowInv, [Next]_vars PROVE [Run!FileNext]_(Run!fileVars)
<1>1. CASE InRunAction
  <2>1. InRun
    BY <1>1, InRunSteps
  <2>2. UNCHANGED <<attempt, outcome, row, hardStopped>>
        /\ pc # "mark_file_running" /\ pc' # "mark_file_running"
    BY <2>1 DEF InRun, Undisturbed
  <2>3. QED
    BY <2>2 DEF Run!fileVars
<1>2. CASE TerminateSandbox \/ TerminateFails \/ (\E s \in Sandbox : SandboxDies(s))
             \/ Closed \/ UNCHANGED vars
  <2>1. UNCHANGED <<pc, attempt, outcome, row, hardStopped>>
    BY <1>2, AsideSteps
  <2>2. QED
    BY <2>1 DEF Run!fileVars
<1>3. QED
  BY <1>1, <1>2, RefinesBegin, RefinesSettle, RefinesRunEnds, RefinesRunTimeout
     DEF Next, Step, InRunAction

\* A child is what its parent takes it for: attempts, sandboxes and turns only
\* ever show as row writes and as its close (file_analysis.py:182-458 against
\* submission.py:51-85).
THEOREM RefinesFileRun == Spec => ImplementsFileRun
<1>1. TypeInv /\ RowInv /\ [Next]_vars => [Run!FileNext]_(Run!fileVars)
  BY RefinesNext
<1>2. QED
  BY <1>1, RefinesInit, RowCorrect, PTL DEF Spec, ImplementsFileRun, Run!FileSpec

-----------------------------------------------------------------------------
(***************************************************************************)
(* Cleanup.  Every running sandbox this child was ever handed is one the   *)
(* `finally` loop has still to reach or one it has given up on.            *)
(***************************************************************************)
Unclean == {sandbox_ids[i] : i \in (cleaned + 1)..Len(sandbox_ids)}

CleanupInv ==
  ~hardStopped =>
    /\ cleaned <= Len(sandbox_ids)
    /\ pc \notin {"finally", "closed"} => cleaned = 0
    /\ pc \in {"mark_file_running", "provision_sandbox"} => sandbox_ids = << >>
    /\ pc # "closed" => handed \subseteq givenUp \cup Unclean
    /\ pc = "closed" => handed \subseteq givenUp

LEMMA CleanupInit == Init => CleanupInv
BY DEF Init, CleanupInv

\* A sandbox is handed over: it goes to the end of the list.
LEMMA CleanupTrack ==
  ASSUME TypeInv, CleanupInv, NEW s \in Sandbox, Track(s), handed' = handed \cup {s},
         UNCHANGED <<cleaned, givenUp, hardStopped>>,
         pc \in {"provision_sandbox", "recover_sandbox"}, pc' \in {"call_claude", "blocks"}
  PROVE  CleanupInv'
<1> SUFFICES ASSUME ~hardStopped PROVE CleanupInv'
  BY DEF CleanupInv
<1>1. /\ sandbox_ids \in Seq(Sandbox) /\ sandbox_ids' = Append(sandbox_ids, s)
      /\ cleaned = 0 /\ cleaned' = 0 /\ handed \subseteq givenUp \cup Unclean
  BY DEF Track, TypeInv, TypeOK, CleanupInv
<1>2. /\ Len(sandbox_ids') = Len(sandbox_ids) + 1 /\ Len(sandbox_ids) \in Nat
      /\ sandbox_ids'[Len(sandbox_ids) + 1] = s
      /\ \A i \in 1..Len(sandbox_ids) : sandbox_ids'[i] = sandbox_ids[i]
  BY <1>1
<1>3. s \in Unclean'
  BY <1>1, <1>2 DEF Unclean
<1>4. Unclean \subseteq Unclean'
  BY <1>1, <1>2 DEF Unclean
<1>5. QED
  BY <1>1, <1>2, <1>3, <1>4 DEF CleanupInv

LEMMA CleanupStep ==
  ASSUME TypeInv, CleanupInv, [Next]_vars PROVE CleanupInv'
<1>1. CASE MarkFileRunning
  BY <1>1 DEF MarkFileRunning, CleanupInv, Unclean, recovery, modal
<1>2. CASE ProvisionSandbox
  <2>1. PICK s \in Free : Track(s) /\ handed' = handed \cup {s}
    BY <1>2 DEF ProvisionSandbox
  <2>2. QED
    BY <1>2, <2>1, CleanupTrack DEF ProvisionSandbox, Free
<1>3. CASE RecoverSandbox
  <2>1. PICK s \in Free : Track(s) /\ handed' = handed \cup {s}
    BY <1>3 DEF RecoverSandbox
  <2>2. QED
    BY <1>3, <2>1, CleanupTrack DEF RecoverSandbox, Free
<1>4. CASE InRunAction /\ ~ProvisionSandbox /\ ~RecoverSandbox
  <2>1. InRun /\ UNCHANGED <<sandbox_ids, cleaned, handed, givenUp>>
    BY <1>4, InRunSteps
       DEF InRunAction, ProvisionFails, ProvisionNotStarted, CallClaude, ModelStops,
           CallClaudeFails, WriteReport, ExecReadOnly, ExecRunPython, ExecFails, ExecGone,
           RecoverFails, recovery, modal
  <2>2. CASE ~hardStopped
    <3>1. cleaned = 0 /\ handed \subseteq givenUp \cup Unclean /\ cleaned <= Len(sandbox_ids)
      BY <2>1, <2>2 DEF CleanupInv, InRun, Undisturbed
    <3>2. pc' = "provision_sandbox" => sandbox_ids = << >>
      <4>1. CASE pc = "provision_sandbox"
        BY <2>2, <4>1 DEF CleanupInv
      <4>2. CASE pc # "provision_sandbox"
        <5>1. CASE WriteReport \/ ExecReadOnly \/ ExecRunPython
          <6>1. TypeOK /\ blocks # << >> /\ Answer /\ pc = "blocks"
            BY <5>1 DEF WriteReport, ExecReadOnly, ExecRunPython, ToolPending,
                        TypeInv, BlockPending
          <6>2. QED
            BY <6>1, AnswerEffect
        <5>2. CASE ModelStops
          BY <5>2, LeaveLoopEffect DEF ModelStops
        <5>3. CASE CallClaude \/ CallClaudeFails
          BY <5>3, RaiseEffect DEF CallClaude, CallClaudeFails
        <5>4. CASE ExecFails \/ RecoverFails
          <6>1. tries \in Nat /\ pc \in {"blocks", "recover_sandbox"}
            BY <5>4 DEF ExecFails, ToolPending, RecoverFails, TypeInv, TypeOK
          <6>2. pc' = pc \/ pc' \in {"mark_file_failed", "finally"}
            BY <5>4, <6>1, AttemptFailsEffect DEF ExecFails, RecoverFails
          <6>3. QED
            BY <6>1, <6>2
        <5>5. CASE ExecGone
          BY <5>5, RaiseEffect DEF ExecGone
        <5>6. QED
          BY <1>4, <4>2, <5>1, <5>2, <5>3, <5>4, <5>5
             DEF InRunAction, ProvisionFails, ProvisionNotStarted
      <4>3. QED
        BY <4>1, <4>2
    <3>3. pc' \notin {"closed", "mark_file_running"}
      BY <2>1 DEF InRun, Undisturbed
    <3>4. QED
      BY <2>1, <3>1, <3>2, <3>3 DEF CleanupInv, Unclean, InRun
  <2>3. QED
    BY <2>1, <2>2 DEF CleanupInv, InRun
<1>5. CASE MarkFileSucceeded \/ MarkFileFailed
  BY <1>5 DEF MarkFileSucceeded, MarkFileFailed, CleanupInv, Unclean, recovery, modal
<1>6. CASE TerminateSandbox /\ ~hardStopped
  <2> DEFINE s == sandbox_ids[cleaned + 1]
  <2>1. /\ pc = "finally" /\ pc' = "finally" /\ cleaned \in Nat
        /\ cleaned < Len(sandbox_ids) /\ Len(sandbox_ids) \in Nat
        /\ cleaned' = cleaned + 1 /\ sandbox_ids' = sandbox_ids
        /\ handed' = handed \ {s} /\ givenUp' = givenUp \ {s}
        /\ handed \subseteq givenUp \cup Unclean /\ ~hardStopped'
    BY <1>6 DEF TerminateSandbox, TypeInv, TypeOK, CleanupInv, recovery
  <2>2. Unclean \subseteq Unclean' \cup {s}
    <3>1. ASSUME NEW i \in (cleaned + 1)..Len(sandbox_ids)
          PROVE  sandbox_ids[i] \in Unclean' \cup {s}
      <4>1. i = cleaned + 1 \/ i \in (cleaned' + 1)..Len(sandbox_ids')
        BY <2>1
      <4>2. QED
        BY <2>1, <4>1 DEF Unclean
    <3>2. QED
      BY <3>1 DEF Unclean
  <2>3. QED
    BY <2>1, <2>2 DEF CleanupInv
<1>7. CASE TerminateFails /\ ~hardStopped
  <2> DEFINE s == sandbox_ids[cleaned + 1]
  <2>1. /\ pc = "finally" /\ pc' = "finally" /\ cleaned \in Nat
        /\ cleaned < Len(sandbox_ids) /\ Len(sandbox_ids) \in Nat
        /\ sandbox_ids' = sandbox_ids /\ handed' = handed
        /\ handed \subseteq givenUp \cup Unclean /\ ~hardStopped'
        /\ handed \subseteq live
    BY <1>7 DEF TerminateFails, TypeInv, TypeOK, CleanupInv, recovery
  <2>2. CASE cleaned' = cleaned /\ givenUp' = givenUp
    BY <2>1, <2>2 DEF CleanupInv, Unclean
  <2>3. CASE cleaned' = cleaned + 1 /\ givenUp' = givenUp \cup (live \cap {s})
    <3>1. Unclean \subseteq Unclean' \cup {s}
      <4>1. ASSUME NEW i \in (cleaned + 1)..Len(sandbox_ids)
            PROVE  sandbox_ids[i] \in Unclean' \cup {s}
        <5>1. i = cleaned + 1 \/ i \in (cleaned' + 1)..Len(sandbox_ids')
          BY <2>1, <2>3
        <5>2. QED
          BY <2>1, <5>1 DEF Unclean
      <4>2. QED
        BY <4>1 DEF Unclean
    <3>2. QED
      BY <2>1, <2>3, <3>1 DEF CleanupInv
  <2>4. QED
    BY <1>7, <2>2, <2>3 DEF TerminateFails
<1>8. CASE (TerminateSandbox \/ TerminateFails) /\ hardStopped
  BY <1>8 DEF TerminateSandbox, TerminateFails, CleanupInv
<1>9. CASE RunEnds
  <2>1. CASE ~hardStopped
    <3>1. /\ ~hardStopped' /\ handed' = handed /\ givenUp' = givenUp
          /\ cleaned = Len(sandbox_ids) /\ Len(sandbox_ids) \in Nat
          /\ handed \subseteq givenUp \cup Unclean
      BY <1>9, <2>1 DEF RunEnds, modal, CleanupInv, TypeInv, TypeOK
    <3>2. Unclean = {}
      BY <3>1 DEF Unclean
    <3>3. \/ pc' = "closed" /\ UNCHANGED <<cleaned, sandbox_ids>>
          \/ pc' = "mark_file_running" /\ sandbox_ids' = << >> /\ cleaned' = 0
      BY <1>9 DEF RunEnds, CloseRun, FreshLocals, recovery
    <3>4. QED
      BY <3>1, <3>2, <3>3 DEF CleanupInv
  <2>2. CASE hardStopped
    BY <1>9, <2>2 DEF RunEnds, CleanupInv
  <2>3. QED
    BY <2>1, <2>2
<1>10. CASE RunTimeout
  BY <1>10 DEF RunTimeout, CleanupInv
<1>11. ASSUME NEW s \in Sandbox, SandboxDies(s) PROVE CleanupInv'
  BY <1>11 DEF SandboxDies, CleanupInv, Unclean, server, recovery
<1>12. CASE UNCHANGED vars
  BY <1>12 DEF vars, CleanupInv, Unclean
<1>13. QED
  BY <1>1, <1>2, <1>3, <1>4, <1>5, <1>6, <1>7, <1>8, <1>9, <1>10, <1>11, <1>12
     DEF Next, Step, Closed, InRunAction

\* A run that has ended by itself leaves no sandbox running that an activity
\* returned to it, or to a run before it, except where terminate_sandbox spent
\* all its attempts (file_analysis.py:440-458).
THEOREM HandedTerminated == Spec => []HandedSandboxesTerminated
<1>1. Init => TypeInv /\ CleanupInv
  BY TypeInit, CleanupInit
<1>2. TypeInv /\ CleanupInv /\ [Next]_vars => TypeInv' /\ CleanupInv'
  BY TypeStep, CleanupStep
<1>3. CleanupInv => HandedSandboxesTerminated
  <2> SUFFICES ASSUME CleanupInv, pc \in {"mark_file_running", "closed"}, ~hardStopped
               PROVE  handed \subseteq givenUp
    BY DEF HandedSandboxesTerminated
  <2>1. CASE pc = "mark_file_running"
    <3>1. Unclean = {}
      BY <2>1 DEF CleanupInv, Unclean
    <3>2. QED
      BY <2>1, <3>1 DEF CleanupInv
  <2>2. CASE pc = "closed"
    BY <2>2 DEF CleanupInv
  <2>3. QED
    BY <2>1, <2>2
<1>4. QED
  BY <1>1, <1>2, <1>3, PTL DEF Spec
=============================================================================
