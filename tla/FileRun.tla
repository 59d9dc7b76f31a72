------------------------------- MODULE FileRun -------------------------------
(***************************************************************************)
(* What a child FileAnalysisWorkflow promises its parent and the read      *)
(* model, for each file of a submission.  An attempt first writes the row  *)
(* RUNNING; only an attempt that will not be retried writes a terminal     *)
(* status; the child then closes as that status says.  A run timeout voids *)
(* this: the next attempt starts over, or the child closes `killed`,       *)
(* whatever has been written.                                              *)
(*                                                                         *)
(* FileAnalysis implements this for one file; Submission is built over it. *)
(***************************************************************************)
EXTENDS Naturals

CONSTANTS
  File,             \* the files of one submission
  MaxAttempts       \* CHILD_WORKFLOW_RETRY_POLICY.maximum_attempts

ASSUME MaxAttemptsAssumption == MaxAttempts \in Nat \ {0}

VARIABLES
  status,           \* the files.status each file's child last wrote
  child,            \* each file's child workflow
  attempts,         \* the attempt it is on
  stopped           \* history: a run timeout has hit some run of it

fileVars == <<status, child, attempts, stopped>>

FileTerminal == {"SUCCEEDED", "FAILED"}
FileStatus == {"PENDING", "RUNNING"} \cup FileTerminal
ChildOpen == {"starting", "running"}
ChildClosed == {"succeeded", "failed", "killed"}

FileTypeOK ==
  /\ status \in [File -> FileStatus]
  /\ child \in [File -> {"not_started"} \cup ChildOpen \cup ChildClosed]
  /\ attempts \in [File -> 1..MaxAttempts]
  /\ stopped \in [File -> BOOLEAN]

FileInit ==
  /\ status = [f \in File |-> "PENDING"]
  /\ child = [f \in File |-> "starting"]
  /\ attempts = [f \in File |-> 1]
  /\ stopped = [f \in File |-> FALSE]

\* mark_file_running, the first activity of an attempt.
Begin(f) ==
  /\ child[f] = "starting"
  /\ status' = [status EXCEPT ![f] = "RUNNING"]
  /\ child' = [child EXCEPT ![f] = "running"]
  /\ UNCHANGED <<attempts, stopped>>

\* mark_file_succeeded or mark_file_failed.
Settle(f) ==
  /\ child[f] = "running" /\ status[f] = "RUNNING"
  /\ \E s \in FileTerminal : status' = [status EXCEPT ![f] = s]
  /\ UNCHANGED <<child, attempts, stopped>>

\* CHILD_WORKFLOW_RETRY_POLICY starts another attempt.
NextAttempt(f) ==
  /\ attempts[f] < MaxAttempts
  /\ attempts' = [attempts EXCEPT ![f] = @ + 1]
  /\ child' = [child EXCEPT ![f] = "starting"]

\* A retryable failure leaves the row RUNNING.
Retry(f) ==
  /\ child[f] = "running" /\ status[f] = "RUNNING"
  /\ NextAttempt(f)
  /\ UNCHANGED <<status, stopped>>

\* The outcome the parent is told is the status written.
Close(f) ==
  /\ child[f] = "running" /\ status[f] \in FileTerminal
  /\ child' = [child EXCEPT ![f] = IF status[f] = "SUCCEEDED"
                                   THEN "succeeded" ELSE "failed"]
  /\ UNCHANGED <<status, attempts, stopped>>

\* Fault: the retry policy does not count runs that timed out.
HardStopUncounted(f) ==
  /\ child[f] \in ChildOpen
  /\ stopped' = [stopped EXCEPT ![f] = TRUE]
  /\ child' = [child EXCEPT ![f] = "starting"]
  /\ UNCHANGED <<status, attempts>>

\* FILE_WORKFLOW_RUN_TIMEOUT closes the run; the retry policy applies.
HardStop(f) ==
  /\ child[f] \in ChildOpen
  /\ stopped' = [stopped EXCEPT ![f] = TRUE]
  /\ \/ NextAttempt(f)
     \/ /\ attempts[f] = MaxAttempts
        /\ child' = [child EXCEPT ![f] = "killed"]
        /\ UNCHANGED attempts
  /\ UNCHANGED status

FileStep(f) == Begin(f) \/ Settle(f) \/ Retry(f) \/ Close(f) \/ HardStop(f)
FileNext == \E f \in File : FileStep(f)

FileSpec == FileInit /\ [][FileNext]_fileVars
=============================================================================
