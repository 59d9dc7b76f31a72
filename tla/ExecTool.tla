------------------------------ MODULE ExecTool ------------------------------
(***************************************************************************)
(* The exec_tool activity from within (temporal/activities/sandbox.py),    *)
(* step by step, for the tool calls of one run of FileAnalysisWorkflow.    *)
(* FileAnalysis takes an attempt as one step.  Here an attempt the server  *)
(* has timed out runs on beside the one that replaces it, and both meet    *)
(* in the sandbox: the file a call's program is written to is named after  *)
(* the turn.                                                               *)
(***************************************************************************)
EXTENDS Naturals, Sequences, FiniteSets

CONSTANTS
  TurnOf,          \* the turn of each tool call, in the order of the transcript
  MaxRecoveries,   \* settings.sandbox_max_recoveries
  ExecAttempts     \* EXEC_TOOL_RETRY_POLICY.maximum_attempts

Calls == DOMAIN TurnOf
Turns == {TurnOf[c] : c \in Calls}
Tools == {"run_python", "read_file", "unknown_tool"}

ASSUME ScriptAssumption ==
  /\ TurnOf \in Seq(Nat) /\ TurnOf # << >>
  /\ \A c, d \in Calls : c < d => TurnOf[c] <= TurnOf[d]
ASSUME LimitsAssumption == MaxRecoveries \in Nat /\ ExecAttempts \in Nat \ {0}

NoCall == 0
NoSnapshot == {NoCall}   \* snapshot_id is None

VARIABLES
  \* FileAnalysisWorkflow.run
  call,        \* the call whose answer is awaited
  tool,        \* the tool of each call
  tries,       \* attempts of it that have failed
  answered,    \* calls answered to the model -> the call whose program ran
  snapshot,    \* contents of /work in latest_snapshot_id
  snapshot_lag, recoveries_used,
  outcome,     \* "open", "done", or "raised"
  \* the worker
  attempts,    \* attempts of exec_tool under way
  \* the sandbox
  living,
  cell,        \* turn -> the call whose source is in cell_<turn>.py
  disk         \* run_python calls whose program has run to its end in /work

workflow == <<call, tool, tries, answered, snapshot, snapshot_lag, recoveries_used, outcome>>
sandbox == <<living, cell, disk>>
vars == <<workflow, attempts, sandbox>>

Attempt ==
  [call : Calls, try : 0 .. ExecAttempts - 1, source : Calls \cup {NoCall},
   at : {"started", "writing", "written", "running", "ran"}]

TypeOK ==
  /\ call \in Calls
  /\ tool \in [Calls -> Tools]
  /\ tries \in 0 .. ExecAttempts - 1
  /\ DOMAIN answered \subseteq Calls
  /\ \A c \in DOMAIN answered : answered[c] \in Calls \cup {NoCall}
  /\ snapshot \subseteq Calls /\ disk \subseteq Calls
  /\ snapshot_lag \in 0 .. Len(TurnOf) /\ recoveries_used \in 0 .. MaxRecoveries
  /\ outcome \in {"open", "done", "raised"}
  /\ attempts \subseteq Attempt
  /\ living \in BOOLEAN
  /\ cell \in [Turns -> Calls \cup {NoCall}]

\* Fault: one file for all turns.
CellPathShared(c) == 1

\* cell_<turn>.py
CellPath(c) == TurnOf[c]

NewAttempt(c, try) == [call |-> c, try |-> try, source |-> NoCall, at |-> "started"]

Init ==
  /\ call = 1 /\ tries = 0 /\ outcome = "open"
  /\ tool \in [Calls -> Tools]
  /\ answered = << >>
  /\ snapshot = {} /\ snapshot_lag = 0 /\ recoveries_used = 0
  /\ attempts = {NewAttempt(1, 0)}
  /\ living = TRUE /\ cell = [t \in Turns |-> NoCall] /\ disk = {}

-----------------------------------------------------------------------------
\* The attempt Temporal would take an answer from.
Current(a) == outcome = "open" /\ a.call = call /\ a.try = tries

Advance(a, b) == attempts' = (attempts \ {a}) \cup {b}

\* resolve, render the source, ask for it to be written to the cell file.
Begins(a) ==
  /\ a.at = "started" /\ tool[a.call] # "unknown_tool" /\ living
  /\ Advance(a, [a EXCEPT !.at = "writing"])
  /\ UNCHANGED <<workflow, sandbox>>

\* The write reaches the sandbox when it does.
WriteLands(a) ==
  /\ a.at = "writing" /\ living
  /\ cell' = [cell EXCEPT ![CellPath(a.call)] = a.call]
  /\ Advance(a, [a EXCEPT !.at = "written"])
  /\ UNCHANGED <<workflow, living, disk>>

\* `python cell_<turn>.py` reads whatever is in the file.
Execs(a) ==
  /\ a.at = "written" /\ living
  /\ Advance(a, [a EXCEPT !.at = "running", !.source = cell[CellPath(a.call)]])
  /\ UNCHANGED <<workflow, sandbox>>

\* The program ends, by itself or by the exec timeout; the output is read.
Ends(a) ==
  /\ a.at = "running" /\ living
  /\ disk' = IF tool[a.source] = "run_python" THEN disk \cup {a.source} ELSE disk
  /\ Advance(a, [a EXCEPT !.at = "ran"])
  /\ UNCHANGED <<workflow, living, cell>>

\* What the workflow does with an answer: account for the snapshot, go on to
\* the next call, whose first attempt starts.
Answer(a, taken) ==
  /\ answered' = [c \in DOMAIN answered \cup {a.call} |->
                    IF c = a.call THEN a.source ELSE answered[c]]
  /\ IF tool[a.call] # "run_python" THEN UNCHANGED <<snapshot, snapshot_lag>>
     ELSE IF taken = NoSnapshot
       THEN snapshot_lag' = snapshot_lag + 1 /\ UNCHANGED snapshot
       ELSE snapshot_lag' = 0 /\ snapshot' = taken
  /\ tries' = 0
  /\ IF call < Len(TurnOf)
       THEN /\ call' = call + 1
            /\ attempts' = (attempts \ {a}) \cup {NewAttempt(call + 1, 0)}
            /\ UNCHANGED outcome
       ELSE /\ outcome' = "done"
            /\ attempts' = attempts \ {a}
            /\ UNCHANGED call
  /\ UNCHANGED <<tool, recoveries_used>>

\* The best-effort snapshot that follows run_python.
Snapshots(a) ==
  IF tool[a.call] = "run_python" /\ living THEN {disk, NoSnapshot} ELSE {NoSnapshot}

\* An attempt returns; nobody waits for one that was timed out.
Returns(a) ==
  /\ a.at = "ran" \/ (a.at = "started" /\ tool[a.call] = "unknown_tool" /\ living)
  /\ IF Current(a) THEN \E taken \in Snapshots(a) : Answer(a, taken)
     ELSE attempts' = attempts \ {a} /\ UNCHANGED workflow
  /\ UNCHANGED sandbox

-----------------------------------------------------------------------------
Raise == outcome' = "raised" /\ UNCHANGED <<call, tool, answered, snapshot, snapshot_lag>>

\* recover_sandbox: the snapshot in a fresh sandbox, the same call once more.
\* Attempts on the lost sandbox fail by themselves.
Recover ==
  /\ snapshot_lag = 0 /\ recoveries_used < MaxRecoveries
  /\ recoveries_used' = recoveries_used + 1
  /\ tries' = 0
  /\ attempts' = {NewAttempt(call, 0)}
  /\ living' = TRUE /\ disk' = snapshot /\ cell' = [t \in Turns |-> NoCall]
  /\ UNCHANGED <<call, tool, answered, snapshot, snapshot_lag, outcome>>

\* SandboxGoneError, which no policy retries: recovered in place, or raised.
\* A late attempt's goes unnoticed.
Gone(a) ==
  /\ ~living /\ a.at # "ran"
  /\ IF ~Current(a) THEN attempts' = attempts \ {a} /\ UNCHANGED <<workflow, sandbox>>
     ELSE \/ Recover
          \/ /\ snapshot_lag # 0 \/ recoveries_used >= MaxRecoveries
             /\ Raise
             /\ attempts' = attempts \ {a}
             /\ UNCHANGED <<tries, recoveries_used, sandbox>>

\* The attempt in the way is given up: start-to-close, or a lost worker or
\* answer.  After a timeout its coroutine runs on.
GivenUp(a) ==
  /\ Current(a)
  /\ \E rest \in {attempts, attempts \ {a}} :
       IF tries + 1 < ExecAttempts
         THEN /\ tries' = tries + 1
              /\ attempts' = rest \cup {NewAttempt(call, tries + 1)}
              /\ UNCHANGED <<call, tool, answered, snapshot, snapshot_lag, outcome>>
         ELSE Raise /\ attempts' = rest /\ UNCHANGED tries
  /\ UNCHANGED <<recoveries_used, sandbox>>

SandboxDies ==
  /\ living
  /\ living' = FALSE
  /\ UNCHANGED <<workflow, attempts, cell, disk>>

Over == outcome # "open" /\ UNCHANGED vars

Next ==
  \/ \E a \in attempts :
       Begins(a) \/ WriteLands(a) \/ Execs(a) \/ Ends(a) \/ Returns(a) \/ Gone(a) \/ GivenUp(a)
  \/ SandboxDies
  \/ Over

Spec == Init /\ [][Next]_vars

-----------------------------------------------------------------------------
\* A call that is the first of its turn.
First(c) == \A d \in Calls : d < c => TurnOf[d] # TurnOf[c]

\* The model is told the output of the program it sent, and what the program
\* did to /work is there, through retries, late attempts and recoveries:
\* for the calls that are the first of their turn (sandbox.py:152-184).
FirstCallsAreKept ==
  \A c \in DOMAIN answered : First(c) /\ tool[c] # "unknown_tool" =>
    /\ answered[c] = c
    /\ tool[c] = "run_python" /\ living => c \in disk
=============================================================================
