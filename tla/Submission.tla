------------------------------ MODULE Submission ------------------------------
(***************************************************************************)
(* SubmissionWorkflow, its children, and the read model they write         *)
(* (temporal/workflows/submission.py, temporal/activities/db.py,           *)
(* core/rollup.py).  A child is what FileRun promises; FileAnalysis        *)
(* implements that.                                                        *)
(*                                                                         *)
(* A mark_* activity is retried until an attempt reports success.  An      *)
(* attempt that Temporal has given up on (start-to-close timeout, a worker *)
(* cut off from the server) is not stopped: its UPDATE may commit later,   *)
(* after the retry's and after whatever followed.  `late` holds those.     *)
(***************************************************************************)
EXTENDS FileRun, FiniteSets

CONSTANT MaxLate    \* bound on writes that outlive their activity

ASSUME FileAssumption == IsFiniteSet(File) /\ File # {}
ASSUME MaxLateAssumption == MaxLate \in Nat

VARIABLES
  parent,           \* where SubmissionWorkflow is
  row,              \* files.status in Postgres
  submission,       \* the submissions row
  late,             \* writes in flight that nobody waits for
  outlived          \* history: all there have been

parentVars == <<parent, submission>>
vars == <<fileVars, parent, row, submission, late, outlived>>

ParentState == {"mark_running", "start_children", "mark_terminal", "completed",
                "terminated"}
SubmissionTerminal == {"SUCCEEDED", "PARTIALLY_SUCCEEDED", "FAILED"}
SubmissionRow ==
  [status: {"PENDING", "RUNNING"} \cup SubmissionTerminal,
   succeeded_count: 0..Cardinality(File), failed_count: 0..Cardinality(File)]

\* A write is an UPDATE of one file's row, or one of the two of the submission.
FileWrite == [what: {"file"}, file: File, to: FileStatus \ {"PENDING"}]
MarkRunningWrite == [what |-> "mark_submission_running"]
MarkTerminalWrite == [what |-> "mark_submission_terminal"]
Write == FileWrite \cup {MarkRunningWrite, MarkTerminalWrite}

TypeOK ==
  /\ FileTypeOK
  /\ parent \in ParentState
  /\ row \in [File -> FileStatus]
  /\ submission \in SubmissionRow
  /\ late \in SUBSET Write
  /\ outlived \in SUBSET Write

Init ==
  /\ status = [f \in File |-> "PENDING"]
  /\ child = [f \in File |-> "not_started"]
  /\ attempts = [f \in File |-> 1]
  /\ stopped = [f \in File |-> FALSE]
  /\ parent = "mark_running"
  /\ row = [f \in File |-> "PENDING"]
  /\ submission = [status |-> "PENDING", succeeded_count |-> 0, failed_count |-> 0]
  /\ late = {} /\ outlived = {}

-----------------------------------------------------------------------------
Succeeded == {f \in File : child[f] = "succeeded"}
Failed == File \ Succeeded

\* rollup(): an exception from a child is a failure like any other.
Rollup ==
  [status |-> IF Failed = {} THEN "SUCCEEDED"
              ELSE IF Succeeded = {} THEN "FAILED" ELSE "PARTIALLY_SUCCEEDED",
   succeeded_count |-> Cardinality(Succeeded),
   failed_count |-> Cardinality(Failed)]

\* Fault: no repair pass.
RepairedNone == row

\* The repair pass of mark_submission_terminal, in the same transaction.
Repaired ==
  [f \in File |-> IF row[f] \in {"PENDING", "RUNNING"} THEN "FAILED" ELSE row[f]]

\* Whatever is in the row, the UPDATE overwrites it: none has a status guard.
Apply(w) ==
  CASE w.what = "file" ->
         row' = [row EXCEPT ![w.file] = w.to] /\ UNCHANGED submission
    [] w.what = "mark_submission_running" ->
         submission' = [submission EXCEPT !.status = "RUNNING"] /\ UNCHANGED row
    [] w.what = "mark_submission_terminal" ->
         submission' = Rollup /\ row' = Repaired

\* An earlier attempt of the activity writing `w` may be left in flight.
MayOutlive(w) ==
  \/ UNCHANGED <<late, outlived>>
  \/ /\ Cardinality(outlived) < MaxLate
     /\ late' = late \cup {w}
     /\ outlived' = outlived \cup {w}

-----------------------------------------------------------------------------
MarkSubmissionRunning ==
  /\ parent = "mark_running"
  /\ Apply(MarkRunningWrite) /\ MayOutlive(MarkRunningWrite)
  /\ parent' = "start_children"
  /\ UNCHANGED fileVars

\* execute_child_workflow for every file; the server starts them in any order.
StartChild(f) ==
  /\ parent = "start_children" /\ child[f] = "not_started"
  /\ child' = [child EXCEPT ![f] = "starting"]
  /\ UNCHANGED <<status, attempts, stopped, parent, row, submission, late, outlived>>

\* A child's write to its own row, through mark_file_*.
ChildWrites(f) ==
  LET w == [what |-> "file", file |-> f, to |-> status'[f]] IN
  /\ Begin(f) \/ Settle(f)
  /\ Apply(w) /\ MayOutlive(w)
  /\ UNCHANGED parent

\* The child retries itself, or closes and the parent hears of it.
ChildCloses(f) ==
  /\ Retry(f) \/ Close(f)
  /\ UNCHANGED <<parent, row, submission, late, outlived>>

\* What the mark_file_* activity the child may be waiting for would write.
Pending(f) ==
  CASE child[f] = "starting" -> {"RUNNING"}
    [] child[f] = "running" /\ status[f] = "RUNNING" -> FileTerminal
    [] OTHER -> {}

\* A run timeout may catch that activity in flight, and it runs on.
ChildStopped(f) ==
  /\ HardStop(f)
  /\ \/ UNCHANGED <<late, outlived>>
     \/ \E to \in Pending(f) :
          MayOutlive([what |-> "file", file |-> f, to |-> to])
  /\ UNCHANGED <<parent, row, submission>>

\* Fault: gather without return_exceptions returns at the first failure.
GatherReturnsAtFirstFailure ==
  \/ \A f \in File : child[f] \in ChildClosed
  \/ \E f \in File : child[f] \in {"failed", "killed"}

\* asyncio.gather(..., return_exceptions=True): every child is heard.
GatherReturns == \A f \in File : child[f] \in ChildClosed

Gather ==
  /\ parent = "start_children" /\ GatherReturns
  /\ parent' = "mark_terminal"
  /\ UNCHANGED <<fileVars, row, submission, late, outlived>>

MarkSubmissionTerminal ==
  /\ parent = "mark_terminal"
  /\ Apply(MarkTerminalWrite) /\ MayOutlive(MarkTerminalWrite)
  /\ parent' = "completed"
  /\ UNCHANGED fileVars

\* A write nobody waits for commits, if it ever does.
LateWriteLands ==
  /\ \E w \in late : Apply(w) /\ late' = late \ {w}
  /\ UNCHANGED <<fileVars, parent, outlived>>

\* The parent is terminated from the Temporal UI, and by the default
\* parent-close policy its open children with it.
ParentTerminated ==
  /\ parent \notin {"completed", "terminated"}
  /\ parent' = "terminated"
  /\ child' = [f \in File |-> IF child[f] \in ChildOpen
                            THEN "killed" ELSE child[f]]
  /\ UNCHANGED <<status, attempts, stopped, row, submission, late, outlived>>

Ended ==
  /\ parent \in {"completed", "terminated"} /\ late = {}
  /\ UNCHANGED vars

ParentStep == MarkSubmissionRunning \/ Gather \/ MarkSubmissionTerminal
ChildStep(f) == StartChild(f) \/ ChildWrites(f) \/ ChildCloses(f)

Next ==
  \/ ParentStep
  \/ \E f \in File : ChildStep(f) \/ ChildStopped(f)
  \/ LateWriteLands
  \/ ParentTerminated
  \/ Ended

Spec == Init /\ [][Next]_vars

\* Temporal drives the parent and every child; a child closes because
\* FileAnalysis does (EventuallyClosed there).
FairSpec == Spec /\ WF_vars(ParentStep)
                 /\ \A f \in File : WF_vars(ChildStep(f))

-----------------------------------------------------------------------------
RowsSucceeded == {f \in File : row[f] = "SUCCEEDED"}

\* Files of which some write has outlived its activity.
Overtaken == {f \in File : \E w \in outlived : w.what = "file" /\ w.file = f}

\* Once the submissions row is terminal, the frontend stops polling: every file
\* row is terminal already and SUCCEEDED if the parent was told success, only
\* files a late write may have overtaken excepted; and unless a run timeout came
\* between a child and its row, the counts are exactly the rows
\* (submission.py:77-99, db.py:98-128, rollup.py:27-60).
TerminalMeansSettled ==
  submission.status \in SubmissionTerminal =>
    /\ \A f \in File \ Overtaken :
         row[f] \in FileTerminal /\ (child[f] = "succeeded" => row[f] = "SUCCEEDED")
    /\ submission.succeeded_count + submission.failed_count = Cardinality(File)
    /\ Overtaken = {} /\ (\A f \in File : ~stopped[f]) =>
         submission.succeeded_count = Cardinality(RowsSucceeded)

\* What the frontend last saw stays true: nothing it shows changes after the
\* submission is terminal, but what a late write of just that row overwrites;
\* a late terminal write with its repair pass changes nothing at all
\* (useSubmissionPolling.ts:77-80, submission.py:77-99, db.py:87-129).
TerminalIsFinal ==
  [][submission.status \in SubmissionTerminal =>
       /\ \A f \in File \ Overtaken : row'[f] = row[f]
       /\ submission' = submission \/ MarkRunningWrite \in outlived]_vars

\* One failed or killed child neither cancels its siblings nor holds up the
\* parent, which completes unless it is terminated (submission.py:77-105).
EventuallyEnds == <>(parent \in {"completed", "terminated"})
=============================================================================
