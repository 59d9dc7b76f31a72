---------------------------- MODULE WorkerPools ----------------------------
(***************************************************************************)
(* The worker processes that run the activities of the files of a batch:   *)
(* which queue each activity goes to, the slots of each worker, and its     *)
(* event loop, which a synchronous call into the Modal SDK holds while      *)
(* nothing else on that worker gets on.  Modal has room for so many         *)
(* sandboxes; Sandbox.create waits for room.                                *)
(* Files are on the last attempt of their child workflow.                   *)
(***************************************************************************)
EXTENDS Integers, FiniteSets

CONSTANTS
  File,
  Slots,            \* queue -> max_concurrent_activities of its worker
  Capacity,         \* sandboxes Modal has room for
  MaxTurns,         \* calls of the model per file
  MaxMarkTimeouts   \* bound on the timeouts of a mark_file (its retries have none)

Queues == {"workflow", "activities", "llm", "terminate"}

Activities == {"provision_sandbox", "exec_tool", "call_claude", "mark_file",
               "terminate_sandbox"}

ASSUME SizesAssumption ==
  /\ IsFiniteSet(File)
  /\ Slots \in [Queues -> Nat \ {0}]
  /\ {Capacity, MaxTurns} \subseteq Nat \ {0}
  /\ MaxMarkTimeouts \in Nat

\* Fault: what frees sandboxes shares a worker with what creates them.
TaskQueueShared(activity) ==
  IF activity = "call_claude" THEN "llm" ELSE "activities"

\* Fault: a call of mark_file_* without its task_queue goes to the workflow's
\* own, where no activity is registered.
TaskQueueOmitted(activity) ==
  IF activity = "call_claude" THEN "llm"
  ELSE IF activity = "terminate_sandbox" THEN "terminate"
  ELSE IF activity = "mark_file" THEN "workflow"
  ELSE "activities"

\* The task_queue of every call of an activity in FileAnalysisWorkflow; a call
\* that names none goes to the workflow's own queue.
TaskQueue(activity) ==
  IF activity = "call_claude" THEN "llm"
  ELSE IF activity = "terminate_sandbox" THEN "terminate"
  ELSE "activities"

\* Fault: an activity left out of its worker's list.
RegisteredShort ==
  [workflow |-> {}, activities |-> {"provision_sandbox", "mark_file"},
   llm |-> {"call_claude"}, terminate |-> {"terminate_sandbox"}]

\* What the worker of each queue has registered.
Registered ==
  [workflow   |-> {},
   activities |-> {"provision_sandbox", "exec_tool", "mark_file"},
   llm        |-> {"call_claude"},
   terminate  |-> {"terminate_sandbox"}]

\* Attempts of each activity: its retry policy.
MaxTries ==
  [provision_sandbox |-> 3, exec_tool |-> 2, call_claude |-> 60,
   terminate_sandbox |-> 5, mark_file |-> MaxMarkTimeouts + 1]

\* Coroutines that call the Modal SDK synchronously for long: until there is
\* room for a sandbox, until the process in it ends.  The model is called in a
\* thread, the database and a termination answer at once.
Blocking == {"provision_sandbox", "exec_tool"}

HasScheduleToStart == {"provision_sandbox", "call_claude"}

VARIABLES
  awaits,   \* file -> the activity its workflow waits for, or "closed"
  tries,    \* file -> attempts of it that have timed out
  turn,     \* file -> answers of the model
  taken,    \* attempts the workers hold, timed out ones included
  sandbox,  \* file -> the sandbox its sandbox_ids names
  strays,   \* file -> living sandboxes no list names
  refused   \* file -> attempts of terminate_sandbox answered with an error (history)

vars == <<awaits, tries, turn, taken, sandbox, strays, refused>>

Attempt ==
  [file : File, activity : Activities, turn : Nat, try : Nat,
   at : {"started", "blocking", "created", "lost"}]

TypeOK ==
  /\ awaits \in [File -> Activities \cup {"closed"}]
  /\ tries \in [File -> Nat]
  /\ \A f \in File : awaits[f] # "closed" => tries[f] \in 0 .. MaxTries[awaits[f]] - 1
  /\ turn \in [File -> 0 .. MaxTurns]
  /\ taken \subseteq Attempt
  /\ sandbox \in [File -> {"none", "living", "dead"}]
  /\ strays \in [File -> Nat]
  /\ refused \in [File -> 0 .. MaxTries["terminate_sandbox"]]

-----------------------------------------------------------------------------
OnWorker(queue) == {a \in taken : TaskQueue(a.activity) = queue}

\* No coroutine of the worker is inside a synchronous call.
LoopFree(queue) == \A a \in OnWorker(queue) : a.at # "blocking"

\* The attempt the server still waits for; the others are timed out.
Current(a) ==
  a.activity = awaits[a.file] /\ a.turn = turn[a.file] /\ a.try = tries[a.file]

Queued(f) == awaits[f] # "closed" /\ ~ \E a \in taken : a.file = f /\ Current(a)

Living == Cardinality({f \in File : sandbox[f] = "living"})
            + Cardinality({a \in taken : a.at = "created"})
            + Cardinality(UNION {{<<f, i>> : i \in 1 .. strays[f]} : f \in File})

\* The attempt can get on by itself: a call of the model, in its thread, always;
\* inside a synchronous call when that returns, Sandbox.create only when there is
\* room; a coroutine that awaits when its loop is free.
Runnable(a) ==
  IF a.activity = "call_claude" THEN TRUE
  ELSE IF a.at = "blocking" THEN a.activity = "exec_tool" \/ Living < Capacity
  ELSE LoopFree(TaskQueue(a.activity))

Await(f, activity) ==
  /\ awaits' = [awaits EXCEPT ![f] = activity]
  /\ tries' = [tries EXCEPT ![f] = 0]

\* The workflow goes on to `finally`: nothing to do without a sandbox id.
Finally(f) ==
  Await(f, IF sandbox[f] = "none" THEN "closed" ELSE "terminate_sandbox")

\* The `except` of the last attempt: mark_file_failed comes before `finally`,
\* where a termination that fails for good is passed over.
Raise(f) == Await(f, IF awaits[f] = "terminate_sandbox" THEN "closed" ELSE "mark_file")

\* One more attempt of what f waits for has failed.
Retry(f) ==
  IF tries[f] + 1 < MaxTries[awaits[f]]
    THEN tries' = [tries EXCEPT ![f] = @ + 1] /\ UNCHANGED awaits
    ELSE Raise(f)

Drop(a) == taken' = taken \ {a}

\* A sandbox whose creator cannot name it any more.
LeaveBehind(a) ==
  strays' = IF a.at = "created" THEN [strays EXCEPT ![a.file] = @ + 1] ELSE strays

Advance(a, at) == taken' = (taken \ {a}) \cup {[a EXCEPT !.at = at]}

Init ==
  /\ awaits = [f \in File |-> "provision_sandbox"]
  /\ tries = [f \in File |-> 0]
  /\ turn = [f \in File |-> 0]
  /\ taken = {}
  /\ sandbox = [f \in File |-> "none"]
  /\ strays = [f \in File |-> 0]
  /\ refused = [f \in File |-> 0]

-----------------------------------------------------------------------------
(* The server hands a task to a worker with a free slot.  Its pollers run    *)
(* beside the event loop, so the attempt counts as started at once.          *)
CanTake(f) ==
  LET queue == TaskQueue(awaits[f]) IN
  /\ Queued(f)
  /\ awaits[f] \in Registered[queue]
  /\ Cardinality(OnWorker(queue)) < Slots[queue]

Take(f) ==
  /\ CanTake(f)
  /\ taken' = taken \cup
       {[file |-> f, activity |-> awaits[f], turn |-> turn[f], try |-> tries[f],
         at |-> "started"]}
  /\ UNCHANGED <<awaits, tries, turn, sandbox, strays, refused>>

\* A coroutine reaches its synchronous call.
Blocks(a) ==
  /\ Runnable(a) /\ a.at = "started" /\ a.activity \in Blocking
  /\ Advance(a, "blocking")
  /\ UNCHANGED <<awaits, tries, turn, sandbox, strays, refused>>

\* Sandbox.create returns; the transfer of the input awaits.
Created(a) ==
  /\ Runnable(a) /\ a.at = "blocking" /\ a.activity = "provision_sandbox"
  /\ Advance(a, "created")
  /\ UNCHANGED <<awaits, tries, turn, sandbox, strays, refused>>

Provisioned(a) ==
  /\ Runnable(a) /\ a.at = "created" /\ Current(a)
  /\ Drop(a)
  /\ sandbox' = [sandbox EXCEPT ![a.file] = "living"]
  /\ Await(a.file, "call_claude")
  /\ UNCHANGED <<turn, strays, refused>>

\* Sandbox.create raises instead of waiting on: nothing is left behind.
CreateFails(a) ==
  /\ a.at = "blocking" /\ a.activity = "provision_sandbox"
  /\ Drop(a)
  /\ IF Current(a) THEN Retry(a.file) ELSE UNCHANGED <<awaits, tries>>
  /\ UNCHANGED <<turn, sandbox, strays, refused>>

\* provision_sandbox raises after Sandbox.create.
ProvisionFails(a) ==
  /\ Runnable(a) /\ a.at \in {"created", "lost"} /\ Current(a)
  /\ Drop(a)
  /\ LeaveBehind(a)
  /\ Retry(a.file)
  /\ UNCHANGED <<turn, sandbox, refused>>

\* The model calls a tool or, at the latest on its last turn, reports.
Answered(a) ==
  /\ Runnable(a) /\ a.activity = "call_claude"
  /\ Drop(a)
  /\ turn' = [turn EXCEPT ![a.file] = @ + 1]
  /\ \/ turn[a.file] + 1 < MaxTurns /\ Await(a.file, "exec_tool")
     \/ Await(a.file, "mark_file")
  /\ UNCHANGED <<sandbox, strays, refused>>

\* The process in the sandbox ends or runs into its own timeout; in a sandbox
\* that has died the call raises.
Executed(a) ==
  /\ Runnable(a) /\ a.at = "blocking" /\ a.activity = "exec_tool"
  /\ Drop(a)
  /\ IF ~Current(a) THEN UNCHANGED <<awaits, tries>>
     ELSE IF sandbox[a.file] = "living" THEN Await(a.file, "call_claude")
     ELSE Raise(a.file)
  /\ UNCHANGED <<turn, sandbox, strays, refused>>

\* The row is written, again if an attempt was only believed lost.
Marked(a) ==
  /\ Runnable(a) /\ a.activity = "mark_file"
  /\ Drop(a)
  /\ IF Current(a) THEN Finally(a.file) ELSE UNCHANGED <<awaits, tries>>
  /\ UNCHANGED <<turn, sandbox, strays, refused>>

Terminated(a) ==
  /\ Runnable(a) /\ a.activity = "terminate_sandbox"
  /\ Drop(a)
  /\ sandbox' = [sandbox EXCEPT ![a.file] = "dead"]
  /\ Await(a.file, "closed")
  /\ UNCHANGED <<turn, strays, refused>>

\* Modal answers with anything but NotFoundError, of a dead sandbox too: one more
\* attempt, and after the last one the file closes all the same.
TerminateFails(a) ==
  /\ Runnable(a) /\ a.activity = "terminate_sandbox"
  /\ Drop(a)
  /\ refused' = [refused EXCEPT ![a.file] = @ + 1]
  /\ Retry(a.file)
  /\ UNCHANGED <<turn, sandbox, strays>>

\* An attempt the server gave up ends: it returns, which nobody waits for, or
\* the worker cancels it at its next await.
Discarded(a) ==
  /\ Runnable(a) /\ ~Current(a) /\ a.at # "blocking"
  /\ Drop(a)
  /\ LeaveBehind(a)
  /\ UNCHANGED <<awaits, tries, turn, sandbox, refused>>

-----------------------------------------------------------------------------
(* The server's timers.  An attempt that nothing keeps from running is taken *)
(* to end in time, so they strike where something does.                      *)

\* No slot for a task, or a loop too busy to ask for it.  Temporal does not
\* retry this timeout, whatever the policy.
StartIsDue(f) ==
  LET queue == TaskQueue(awaits[f]) IN
  /\ Queued(f) /\ awaits[f] \in HasScheduleToStart
  /\ Cardinality(OnWorker(queue)) = Slots[queue] \/ ~LoopFree(queue)

ScheduleToStart(f) ==
  /\ StartIsDue(f)
  /\ Raise(f)
  /\ UNCHANGED <<turn, taken, sandbox, strays, refused>>

CloseIsDue(a) ==
  /\ Current(a) /\ ~LoopFree(TaskQueue(a.activity))
  /\ a.activity = "mark_file" => tries[a.file] < MaxMarkTimeouts

StartToClose(a) ==
  /\ CloseIsDue(a)
  /\ Retry(a.file)
  /\ UNCHANGED <<turn, taken, sandbox, strays, refused>>

\* Modal's own wall-clock limit of a sandbox.
SandboxDies(f) ==
  /\ \/ /\ \E a \in taken : a.file = f /\ a.at = "created" /\ Advance(a, "lost")
        /\ UNCHANGED <<sandbox, strays>>
     \/ sandbox[f] = "living" /\ sandbox' = [sandbox EXCEPT ![f] = "dead"] /\ UNCHANGED <<taken, strays>>
     \/ strays[f] > 0 /\ strays' = [strays EXCEPT ![f] = @ - 1] /\ UNCHANGED <<taken, sandbox>>
  /\ UNCHANGED <<awaits, tries, turn, refused>>

AllClosed == (\A f \in File : awaits[f] = "closed") /\ UNCHANGED vars

Work(queue) ==
  \/ \E f \in File : TaskQueue(awaits[f]) = queue /\ Take(f)
  \/ \E a \in OnWorker(queue) :
       \/ Blocks(a) \/ Created(a) \/ Provisioned(a) \/ ProvisionFails(a)
       \/ Answered(a) \/ Executed(a) \/ Marked(a)
       \/ Terminated(a) \/ TerminateFails(a) \/ Discarded(a)

Timers == (\E f \in File : ScheduleToStart(f)) \/ (\E a \in taken : StartToClose(a))

Next ==
  \/ \E queue \in Queues : Work(queue)
  \/ Timers
  \/ \E f \in File : SandboxDies(f)
  \/ \E a \in taken : CreateFails(a)
  \/ AllClosed

Spec == Init /\ [][Next]_vars

\* Every worker goes on with whatever is ready on it, and timers strike.  A
\* behaviour takes finitely many steps, so this is fair to every attempt.
FairSpec == Spec /\ (\A queue \in Queues : WF_vars(Work(queue))) /\ WF_vars(Timers)

SandboxesTimeOut == WF_vars(\E f \in File : SandboxDies(f))

-----------------------------------------------------------------------------
\* No worker and no timer can do anything: the guards of Work and of Timers.
Stalled ==
  /\ \A f \in File : ~CanTake(f) /\ ~StartIsDue(f)
  /\ \A a \in taken : ~Runnable(a) /\ ~CloseIsDue(a)

\* Nothing wedges the workers but a crunch: when no worker and no timer can do
\* anything for a file still open, Sandbox.create holds the loop of the
\* activities worker and Modal has no room (worker.py:113-158, sandbox.py:85).
StallIsCrunch ==
  (\E f \in File : awaits[f] # "closed") /\ Stalled
    => Living >= Capacity
       /\ \E a \in taken : a.activity = "provision_sandbox" /\ a.at = "blocking"

\* Terminations that are asked for come to their end however long the other
\* workers are stalled, and never for want of a worker: the file closes, and its
\* sandbox lives on only if Modal itself has refused every attempt of the policy
\* (worker.py:13-15, sandbox.py:242-248, file_analysis.py:439-458).
TerminationsRun ==
  \A f \in File :
    awaits[f] = "terminate_sandbox"
      ~> /\ awaits[f] = "closed"
         /\ sandbox[f] # "living" \/ refused[f] = MaxTries["terminate_sandbox"]

\* With that limit the whole batch gets on: no state of slots, event loops and
\* room in Modal is final (SPEC.md section 6.3, the outermost backstop).
BatchCloses == SandboxesTimeOut => <>(\A f \in File : awaits[f] = "closed")

\* The text: a crunch can never starve what would relieve it (worker.py:13-15,
\* SPEC.md:335): a file that is done gives its sandbox back.
CrunchIsRelieved ==
  \A f \in File : (awaits[f] = "mark_file" /\ sandbox[f] = "living") ~> sandbox[f] # "living"
=============================================================================
