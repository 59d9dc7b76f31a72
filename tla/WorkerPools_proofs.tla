-------------------------- MODULE WorkerPools_proofs --------------------------
(***************************************************************************)
(* Theorems about WorkerPools for any number of files, slots and turns,    *)
(* any room in Modal and any number of timeouts.                           *)
(*                                                                         *)
(* A stall says nothing about ENABLED: Stalled are the guards of what the  *)
(* workers and the timers do.  That a stalled worker is one whose loop is  *)
(* held by Sandbox.create follows from what is registered where, once      *)
(* every attempt is known to be at a place its activity has (PoolInv) and  *)
(* the attempts and sandboxes are counted (CountsInv).                     *)
(***************************************************************************)
EXTENDS WorkerPools, FiniteSetTheorems, TLAPS

\* Only provision_sandbox and exec_tool get past their start, and neither is
\* registered where the model is called or sandboxes are terminated: there no
\* loop is ever held, and no attempt ever given up.
AttemptsKnown ==
  \A a \in taken :
    /\ a.at # "started" => a.activity \in Blocking
    /\ a.at \in {"created", "lost"} => a.activity = "provision_sandbox"
    /\ a.activity \in {"call_claude", "terminate_sandbox"} => Current(a)

\* Before each answer of the model there is room for it.
TurnsLeft ==
  \A f \in File :
    awaits[f] \in {"provision_sandbox", "call_claude", "exec_tool"} => turn[f] < MaxTurns

\* No termination ever times out, so its attempts are the refusals of Modal; a
\* file that is closed has given back the sandbox its list names, or was refused
\* it by every attempt.
Accounted(f) ==
  /\ awaits[f] \notin {"terminate_sandbox", "closed"} => refused[f] = 0
  /\ awaits[f] = "terminate_sandbox" => refused[f] = tries[f]
  /\ awaits[f] = "closed" =>
       sandbox[f] # "living" \/ refused[f] = MaxTries["terminate_sandbox"]

RefusalsAccounted == \A f \in File : Accounted(f)

PoolInv == TypeOK /\ AttemptsKnown /\ TurnsLeft /\ RefusalsAccounted

-----------------------------------------------------------------------------
(* Activities and the queues they go to.                                     *)
LEMMA QueuesKnown ==
  /\ \A x \in Activities : TaskQueue(x) \in Queues /\ x \in Registered[TaskQueue(x)]
  /\ \A x \in Blocking : x \in Activities /\ TaskQueue(x) = "activities"
  /\ \A x \in Activities : TaskQueue(x) = "llm" <=> x = "call_claude"
  /\ \A x \in Activities : TaskQueue(x) = "terminate" <=> x = "terminate_sandbox"
BY DEF Activities, Queues, TaskQueue, Registered, Blocking

LEMMA TriesKnown == \A x \in Activities : MaxTries[x] \in Nat \ {0}
BY SizesAssumption DEF Activities, MaxTries

\* Only the worker of provision_sandbox and exec_tool ever has its loop held.
LEMMA FreeLoops ==
  ASSUME TypeOK, AttemptsKnown, NEW queue \in Queues, ~LoopFree(queue)
  PROVE  queue = "activities"
BY QueuesKnown DEF LoopFree, OnWorker, AttemptsKnown

LEMMA NotHeld ==
  ASSUME TypeOK, AttemptsKnown, NEW x \in {"call_claude", "terminate_sandbox"}
  PROVE  LoopFree(TaskQueue(x))
BY FreeLoops, QueuesKnown DEF Activities

-----------------------------------------------------------------------------
(* What the helpers do.                                                      *)

\* The types of what the workflows wait for, and how far f alone has moved.
Waits ==
  /\ awaits \in [File -> Activities \cup {"closed"}]
  /\ tries \in [File -> Nat]
  /\ \A f \in File : awaits[f] # "closed" => tries[f] \in 0 .. MaxTries[awaits[f]] - 1

Moved(f) == \A g \in File \ {f} : awaits'[g] = awaits[g] /\ tries'[g] = tries[g]

LEMMA AwaitKeeps ==
  ASSUME TypeOK, NEW f \in File, NEW x \in Activities \cup {"closed"}, Await(f, x)
  PROVE  Waits' /\ Moved(f) /\ awaits'[f] = x /\ tries'[f] = 0
BY TriesKnown DEF TypeOK, Await, Waits, Moved

LEMMA RaiseKeeps ==
  ASSUME TypeOK, NEW f \in File, Raise(f)
  PROVE  /\ Waits' /\ Moved(f)
         /\ awaits'[f] = IF awaits[f] = "terminate_sandbox" THEN "closed" ELSE "mark_file"
<1>. DEFINE x == IF awaits[f] = "terminate_sandbox" THEN "closed" ELSE "mark_file"
<1>1. x \in Activities \cup {"closed"} /\ Await(f, x)  BY DEF Raise, Activities
<1>. QED  BY <1>1, AwaitKeeps

\* A failed attempt is followed by one more of the same, or is the last.
LEMMA RetryKeeps ==
  ASSUME TypeOK, NEW f \in File, awaits[f] # "closed", Retry(f)
  PROVE  /\ Waits' /\ Moved(f)
         /\ \/ awaits'[f] = awaits[f] /\ tries'[f] = tries[f] + 1
            \/ /\ awaits'[f] = IF awaits[f] = "terminate_sandbox" THEN "closed" ELSE "mark_file"
               /\ tries[f] = MaxTries[awaits[f]] - 1
<1>1. CASE tries[f] + 1 < MaxTries[awaits[f]]
  <2>1. tries' = [tries EXCEPT ![f] = @ + 1] /\ awaits' = awaits  BY <1>1 DEF Retry
  <2>2. awaits[f] \in Activities /\ MaxTries[awaits[f]] \in Nat  BY TriesKnown DEF TypeOK
  <2>. QED  BY <1>1, <2>1, <2>2 DEF TypeOK, Waits, Moved
<1>2. CASE ~ (tries[f] + 1 < MaxTries[awaits[f]])
  <2>1. Raise(f)  BY <1>2 DEF Retry
  <2>2. tries[f] = MaxTries[awaits[f]] - 1
    <3>1. awaits[f] \in Activities /\ tries[f] \in 0 .. MaxTries[awaits[f]] - 1  BY DEF TypeOK
    <3>. QED  BY <1>2, <3>1, TriesKnown
  <2>. QED  BY <2>1, <2>2, RaiseKeeps
<1>. QED  BY <1>1, <1>2

LEMMA FinallyKeeps ==
  ASSUME TypeOK, NEW f \in File, Finally(f)
  PROVE  /\ Waits' /\ Moved(f) /\ tries'[f] = 0
         /\ awaits'[f] = IF sandbox[f] = "none" THEN "closed" ELSE "terminate_sandbox"
<1>. DEFINE x == IF sandbox[f] = "none" THEN "closed" ELSE "terminate_sandbox"
<1>1. x \in Activities \cup {"closed"} /\ Await(f, x)  BY DEF Finally, Activities
<1>. QED  BY <1>1, AwaitKeeps

\* An attempt whose coroutine has got to another place.
LEMMA AttemptMoved ==
  ASSUME NEW a \in Attempt, NEW at \in {"started", "blocking", "created", "lost"}
  PROVE  LET b == [a EXCEPT !.at = at] IN
         /\ b \in Attempt /\ b.at = at
         /\ b.file = a.file /\ b.activity = a.activity /\ b.turn = a.turn /\ b.try = a.try
BY DEF Attempt

LEMMA SameAttempt ==
  ASSUME NEW a \in Attempt, NEW b \in Attempt, a.file = b.file, a.activity = b.activity,
         a.turn = b.turn, a.try = b.try, a.at = b.at
  PROVE  a = b
BY DEF Attempt

\* The calls of the model and the terminations of a file are one attempt.
LEMMA OnlyAttempt ==
  ASSUME TypeOK, AttemptsKnown, NEW a \in taken, NEW b \in taken,
         a.activity \in {"call_claude", "terminate_sandbox"}, b.file = a.file,
         b.activity \in {"call_claude", "terminate_sandbox"}
  PROVE  b = a
<1>1. a \in Attempt /\ b \in Attempt  BY DEF TypeOK
<1>2. Current(a) /\ Current(b)  BY DEF AttemptsKnown
<1>3. a.at = "started" /\ b.at = "started"
  BY <1>1 DEF AttemptsKnown, Blocking
<1>. QED  BY <1>1, <1>2, <1>3, SameAttempt DEF Current

\* What f waits for changes only while no call of the model and no termination
\* of f is under way, or with the end of the one that is.
LEMMA MoveKeepsAttempts ==
  ASSUME TypeOK, AttemptsKnown, NEW f \in File, Moved(f),
         \A g \in File \ {f} : turn'[g] = turn[g],
         taken' \subseteq taken,
         \A b \in taken' : b.file = f => b.activity \notin {"call_claude", "terminate_sandbox"}
  PROVE  AttemptsKnown'
BY DEF TypeOK, AttemptsKnown, Moved, Current, Attempt

-----------------------------------------------------------------------------
LEMMA PoolInit == Init => PoolInv
<1>. SUFFICES ASSUME Init PROVE PoolInv  OBVIOUS
<1>1. /\ "provision_sandbox" \in Activities
      /\ MaxTries["terminate_sandbox"] \in Nat /\ MaxTries["provision_sandbox"] \in Nat \ {0}
  BY TriesKnown DEF Activities
<1>2. TypeOK  BY <1>1, TriesKnown, SizesAssumption DEF Init, TypeOK
<1>. QED
  BY <1>2, SizesAssumption DEF Init, PoolInv, AttemptsKnown, TurnsLeft, RefusalsAccounted,
     Accounted

\* A task is taken by a worker.
LEMMA TakeKeeps == ASSUME PoolInv, NEW f \in File, Take(f) PROVE PoolInv'
<1>. DEFINE b == [file |-> f, activity |-> awaits[f], turn |-> turn[f], try |-> tries[f],
                  at |-> "started"]
<1>. USE DEF PoolInv
<1>1. /\ awaits[f] \in Activities /\ taken' = taken \cup {b}
      /\ UNCHANGED <<awaits, tries, turn, sandbox, strays, refused>>
  BY DEF Take, CanTake, Queued, TypeOK
<1>2. b \in Attempt  BY <1>1 DEF TypeOK, Attempt
<1>3. TypeOK'  BY <1>1, <1>2 DEF TypeOK
<1>4. AttemptsKnown'  BY <1>1 DEF AttemptsKnown, Current
<1>. QED  BY <1>1, <1>3, <1>4 DEF TurnsLeft, RefusalsAccounted, Accounted

\* A coroutine gets on, or its sandbox dies, without its workflow.
LEMMA AdvanceKeeps ==
  ASSUME PoolInv, NEW a \in taken, NEW at \in {"started", "blocking", "created", "lost"},
         a.activity \in Blocking,
         at \in {"created", "lost"} => a.activity = "provision_sandbox",
         Advance(a, at), UNCHANGED <<awaits, tries, turn, sandbox, strays, refused>>
  PROVE  PoolInv'
<1>. DEFINE b == [a EXCEPT !.at = at]
<1>. USE DEF PoolInv
<1>1. a \in Attempt /\ b \in Attempt /\ b.at = at /\ b.activity = a.activity
  BY AttemptMoved DEF TypeOK
<1>2. taken' = (taken \ {a}) \cup {b}  BY DEF Advance
<1>. HIDE DEF b
<1>3. TypeOK'  BY <1>1, <1>2 DEF TypeOK
<1>4. AttemptsKnown'
  BY <1>1, <1>2 DEF AttemptsKnown, Current, Blocking
<1>. QED  BY <1>3, <1>4 DEF TurnsLeft, RefusalsAccounted, Accounted

\* An attempt ends, and what its file waits for stays.
LEMMA DropKeeps ==
  ASSUME PoolInv, taken' \subseteq taken, UNCHANGED <<awaits, tries, turn, sandbox, refused>>,
         strays' \in [File -> Nat]
  PROVE  PoolInv'
<1>. USE DEF PoolInv
<1>1. TypeOK'  BY DEF TypeOK
<1>2. AttemptsKnown'  BY DEF AttemptsKnown, Current
<1>. QED  BY <1>1, <1>2 DEF TurnsLeft, RefusalsAccounted, Accounted

\* f goes on to something else, with the end of an attempt or without one.
LEMMA MoveKeeps ==
  ASSUME PoolInv, NEW f \in File, Waits', Moved(f), taken' \subseteq taken,
         \A b \in taken' : b.file = f => b.activity \notin {"call_claude", "terminate_sandbox"},
         turn' \in [File -> 0 .. MaxTurns], \A g \in File \ {f} : turn'[g] = turn[g],
         awaits'[f] \in {"provision_sandbox", "call_claude", "exec_tool"} => turn'[f] < MaxTurns,
         sandbox' \in [File -> {"none", "living", "dead"}],
         \A g \in File \ {f} : sandbox'[g] = sandbox[g],
         refused' \in [File -> 0 .. MaxTries["terminate_sandbox"]],
         \A g \in File \ {f} : refused'[g] = refused[g], Accounted(f)',
         strays' \in [File -> Nat]
  PROVE  PoolInv'
<1>. USE DEF PoolInv
<1>1. TypeOK'  BY DEF TypeOK, Waits
<1>2. AttemptsKnown'  BY MoveKeepsAttempts
<1>3. TurnsLeft'  BY DEF TurnsLeft, Moved
<1>4. RefusalsAccounted'
  <2>. SUFFICES ASSUME NEW g \in File, g # f PROVE Accounted(g)'
    BY DEF RefusalsAccounted
  <2>. QED  BY DEF RefusalsAccounted, Accounted, Moved
<1>. QED  BY <1>1, <1>2, <1>3, <1>4

LEMMA NoneUnderWay ==
  ASSUME AttemptsKnown, NEW f \in File, awaits[f] \notin {"call_claude", "terminate_sandbox"}
  PROVE  \A b \in taken : b.file = f => b.activity \notin {"call_claude", "terminate_sandbox"}
BY DEF AttemptsKnown, Current

\* Before `finally` nothing has been refused yet.
LEMMA NoneRefused ==
  ASSUME PoolInv, NEW f \in File, awaits[f] \notin {"terminate_sandbox", "closed"},
         awaits'[f] = "terminate_sandbox" => tries'[f] = 0,
         awaits'[f] = "closed" => sandbox'[f] # "living", refused' = refused
  PROVE  /\ refused' \in [File -> 0 .. MaxTries["terminate_sandbox"]] /\ Accounted(f)'
         /\ \A g \in File \ {f} : refused'[g] = refused[g]
BY DEF PoolInv, TypeOK, RefusalsAccounted, Accounted

LEMMA StraysTyped ==
  ASSUME TypeOK, NEW a \in taken, LeaveBehind(a)
  PROVE  strays' \in [File -> Nat]
BY DEF TypeOK, LeaveBehind, Attempt

LEMMA ProvisionedKeeps == ASSUME PoolInv, NEW a \in taken, Provisioned(a) PROVE PoolInv'
<1>. DEFINE f == a.file
<1>1. f \in File /\ awaits[f] = "provision_sandbox"
  BY DEF PoolInv, TypeOK, Attempt, AttemptsKnown, Provisioned, Current
<1>2. /\ taken' \subseteq taken /\ turn' = turn /\ strays' = strays /\ refused' = refused
      /\ sandbox' = [sandbox EXCEPT ![f] = "living"] /\ Await(f, "call_claude")
  BY DEF Provisioned, Drop
<1>. HIDE DEF f
<1>3. Waits' /\ Moved(f) /\ awaits'[f] = "call_claude"
  BY <1>1, <1>2, AwaitKeeps DEF PoolInv, Activities
<1>4. \A b \in taken' : b.file = f => b.activity \notin {"call_claude", "terminate_sandbox"}
  BY <1>1, <1>2, NoneUnderWay DEF PoolInv
<1>. QED
  BY <1>1, <1>2, <1>3, <1>4, NoneRefused, MoveKeeps DEF PoolInv, TypeOK, TurnsLeft

LEMMA ProvisionFailsKeeps == ASSUME PoolInv, NEW a \in taken, ProvisionFails(a) PROVE PoolInv'
<1>. DEFINE f == a.file
<1>1. f \in File /\ awaits[f] = "provision_sandbox"
  BY DEF PoolInv, TypeOK, Attempt, AttemptsKnown, ProvisionFails, Current
<1>2. /\ taken' \subseteq taken /\ turn' = turn /\ sandbox' = sandbox /\ refused' = refused
      /\ LeaveBehind(a) /\ Retry(f)
  BY DEF ProvisionFails, Drop
<1>. HIDE DEF f
<1>3. Waits' /\ Moved(f) /\ awaits'[f] \in {"provision_sandbox", "mark_file"}
  BY <1>1, <1>2, RetryKeeps DEF PoolInv
<1>4. \A b \in taken' : b.file = f => b.activity \notin {"call_claude", "terminate_sandbox"}
  BY <1>1, <1>2, NoneUnderWay DEF PoolInv
<1>5. strays' \in [File -> Nat]  BY <1>2, StraysTyped DEF PoolInv
<1>. QED
  BY <1>1, <1>2, <1>3, <1>4, <1>5, NoneRefused, MoveKeeps DEF PoolInv, TypeOK, TurnsLeft

LEMMA CreateFailsKeeps == ASSUME PoolInv, NEW a \in taken, CreateFails(a) PROVE PoolInv'
<1>. DEFINE f == a.file
<1>1. f \in File /\ a.activity = "provision_sandbox"
  BY DEF PoolInv, TypeOK, Attempt, CreateFails
<1>2. taken' \subseteq taken /\ UNCHANGED <<turn, sandbox, strays, refused>>
  BY DEF CreateFails, Drop
<1>3. CASE ~Current(a)
  <2>1. UNCHANGED <<awaits, tries>>  BY <1>3 DEF CreateFails
  <2>. QED  BY <1>2, <2>1, DropKeeps DEF PoolInv, TypeOK
<1>4. CASE Current(a)
  <2>1. awaits[f] = "provision_sandbox" /\ Retry(f)  BY <1>1, <1>4 DEF Current, CreateFails
  <2>. HIDE DEF f
  <2>2. Waits' /\ Moved(f) /\ awaits'[f] \in {"provision_sandbox", "mark_file"}
    BY <1>1, <2>1, RetryKeeps DEF PoolInv
  <2>3. \A b \in taken' : b.file = f => b.activity \notin {"call_claude", "terminate_sandbox"}
    BY <1>1, <1>2, <2>1, NoneUnderWay DEF PoolInv
  <2>. QED
    BY <1>1, <1>2, <2>1, <2>2, <2>3, NoneRefused, MoveKeeps DEF PoolInv, TypeOK, TurnsLeft
<1>. QED  BY <1>3, <1>4

LEMMA AnsweredKeeps == ASSUME PoolInv, NEW a \in taken, Answered(a) PROVE PoolInv'
<1>. DEFINE f == a.file
<1>1. f \in File /\ awaits[f] = "call_claude" /\ a.activity = "call_claude"
  BY DEF PoolInv, TypeOK, Attempt, AttemptsKnown, Answered, Current
<1>2. /\ taken' = taken \ {a} /\ sandbox' = sandbox /\ strays' = strays
      /\ turn' = [turn EXCEPT ![f] = @ + 1] /\ refused' = refused
  BY DEF Answered, Drop
<1>3. turn[f] < MaxTurns /\ turn[f] \in Nat /\ MaxTurns \in Nat
  BY <1>1, SizesAssumption DEF PoolInv, TurnsLeft, TypeOK
<1>4. /\ Waits' /\ Moved(f) /\ awaits'[f] \in {"exec_tool", "mark_file"}
      /\ awaits'[f] = "exec_tool" => turn[f] + 1 < MaxTurns
  <2>1. CASE turn[f] + 1 < MaxTurns /\ Await(f, "exec_tool")
    BY <1>1, <2>1, AwaitKeeps DEF PoolInv, Activities
  <2>2. CASE Await(f, "mark_file")
    BY <1>1, <2>2, AwaitKeeps DEF PoolInv, Activities
  <2>. QED  BY <2>1, <2>2 DEF Answered
<1>5. \A b \in taken' : b.file = f => b.activity \notin {"call_claude", "terminate_sandbox"}
  BY <1>1, <1>2, OnlyAttempt DEF PoolInv
<1>6. turn' \in [File -> 0 .. MaxTurns] /\ turn'[f] = turn[f] + 1
      /\ \A g \in File \ {f} : turn'[g] = turn[g]
  BY <1>1, <1>2, <1>3 DEF PoolInv, TypeOK
<1>. HIDE DEF f
<1>. QED  BY <1>1, <1>2, <1>4, <1>5, <1>6, NoneRefused, MoveKeeps DEF PoolInv, TypeOK

LEMMA ExecutedKeeps == ASSUME PoolInv, NEW a \in taken, Executed(a) PROVE PoolInv'
<1>. DEFINE f == a.file
<1>1. f \in File /\ a.activity = "exec_tool"
  BY DEF PoolInv, TypeOK, Attempt, Executed
<1>2. taken' \subseteq taken /\ UNCHANGED <<turn, sandbox, strays, refused>>
  BY DEF Executed, Drop
<1>3. CASE ~Current(a)
  <2>1. UNCHANGED <<awaits, tries>>  BY <1>3 DEF Executed
  <2>. QED  BY <1>2, <2>1, DropKeeps DEF PoolInv, TypeOK
<1>4. CASE Current(a)
  <2>1. awaits[f] = "exec_tool"  BY <1>1, <1>4 DEF Current
  <2>2. Waits' /\ Moved(f) /\ awaits'[f] \in {"call_claude", "mark_file"}
    <3>1. CASE Await(f, "call_claude")
      BY <1>1, <3>1, AwaitKeeps DEF PoolInv, Activities
    <3>2. CASE Raise(f)
      BY <1>1, <2>1, <3>2, RaiseKeeps DEF PoolInv
    <3>. QED  BY <1>4, <3>1, <3>2 DEF Executed
  <2>3. \A b \in taken' : b.file = f => b.activity \notin {"call_claude", "terminate_sandbox"}
    BY <1>1, <1>2, <2>1, NoneUnderWay DEF PoolInv
  <2>. HIDE DEF f
  <2>. QED
    BY <1>1, <1>2, <2>1, <2>2, <2>3, NoneRefused, MoveKeeps DEF PoolInv, TypeOK, TurnsLeft
<1>. QED  BY <1>3, <1>4

LEMMA MarkedKeeps == ASSUME PoolInv, NEW a \in taken, Marked(a) PROVE PoolInv'
<1>. DEFINE f == a.file
<1>1. f \in File /\ a.activity = "mark_file"
  BY DEF PoolInv, TypeOK, Attempt, Marked
<1>2. taken' \subseteq taken /\ UNCHANGED <<turn, sandbox, strays, refused>>
  BY DEF Marked, Drop
<1>3. CASE ~Current(a)
  <2>1. UNCHANGED <<awaits, tries>>  BY <1>3 DEF Marked
  <2>. QED  BY <1>2, <2>1, DropKeeps DEF PoolInv, TypeOK
<1>4. CASE Current(a)
  <2>1. awaits[f] = "mark_file" /\ Finally(f)  BY <1>1, <1>4 DEF Current, Marked
  <2>2. /\ Waits' /\ Moved(f) /\ awaits'[f] \in {"closed", "terminate_sandbox"}
        /\ tries'[f] = 0
        /\ awaits'[f] = "closed" => sandbox[f] = "none"
    BY <1>1, <2>1, FinallyKeeps DEF PoolInv
  <2>3. \A b \in taken' : b.file = f => b.activity \notin {"call_claude", "terminate_sandbox"}
    BY <1>1, <1>2, <2>1, NoneUnderWay DEF PoolInv
  <2>. HIDE DEF f
  <2>. QED
    BY <1>1, <1>2, <2>1, <2>2, <2>3, NoneRefused, MoveKeeps DEF PoolInv, TypeOK
<1>. QED  BY <1>3, <1>4

LEMMA TerminatedKeeps == ASSUME PoolInv, NEW a \in taken, Terminated(a) PROVE PoolInv'
<1>. DEFINE f == a.file
<1>1. f \in File /\ a.activity = "terminate_sandbox"
  BY DEF PoolInv, TypeOK, Attempt, Terminated
<1>2. /\ taken' = taken \ {a} /\ turn' = turn /\ strays' = strays /\ refused' = refused
      /\ sandbox' = [sandbox EXCEPT ![f] = "dead"] /\ Await(f, "closed")
  BY DEF Terminated, Drop
<1>3. Waits' /\ Moved(f) /\ awaits'[f] = "closed"
  BY <1>1, <1>2, AwaitKeeps DEF PoolInv
<1>4. \A b \in taken' : b.file = f => b.activity \notin {"call_claude", "terminate_sandbox"}
  BY <1>1, <1>2, OnlyAttempt DEF PoolInv
<1>. HIDE DEF f
<1>5. sandbox'[f] = "dead" /\ Accounted(f)'  BY <1>1, <1>2, <1>3 DEF PoolInv, TypeOK, Accounted
<1>. QED  BY <1>1, <1>2, <1>3, <1>4, <1>5, MoveKeeps DEF PoolInv, TypeOK

\* Each refusal is an attempt, and after the last one the file closes.
LEMMA TerminateFailsKeeps == ASSUME PoolInv, NEW a \in taken, TerminateFails(a) PROVE PoolInv'
<1>. DEFINE f == a.file
            most == MaxTries["terminate_sandbox"]
<1>1. f \in File /\ a.activity = "terminate_sandbox" /\ awaits[f] = "terminate_sandbox"
  BY DEF PoolInv, TypeOK, Attempt, AttemptsKnown, TerminateFails, Current
<1>2. /\ taken' = taken \ {a} /\ UNCHANGED <<turn, sandbox, strays>>
      /\ refused' = [refused EXCEPT ![f] = @ + 1] /\ Retry(f)
  BY DEF TerminateFails, Drop
<1>3. \A b \in taken' : b.file = f => b.activity \notin {"call_claude", "terminate_sandbox"}
  BY <1>1, <1>2, OnlyAttempt DEF PoolInv
<1>. HIDE DEF f
<1>4. /\ Waits' /\ Moved(f)
      /\ \/ awaits'[f] = "terminate_sandbox" /\ tries'[f] = tries[f] + 1
         \/ awaits'[f] = "closed" /\ tries[f] = most - 1
  BY <1>1, <1>2, RetryKeeps DEF PoolInv
<1>5. /\ most \in Nat /\ tries[f] \in 0 .. most - 1 /\ refused[f] = tries[f]
      /\ refused \in [File -> 0 .. most]
  BY <1>1, TriesKnown DEF PoolInv, TypeOK, RefusalsAccounted, Accounted, Activities
<1>6. /\ refused' \in [File -> 0 .. most] /\ refused'[f] = tries[f] + 1
      /\ \A g \in File \ {f} : refused'[g] = refused[g]
  BY <1>1, <1>2, <1>5
<1>7. Accounted(f)'  BY <1>4, <1>5, <1>6 DEF Accounted
<1>. QED  BY <1>1, <1>2, <1>3, <1>4, <1>6, <1>7, MoveKeeps DEF PoolInv, TypeOK


\* A task that no worker has taken has no attempt that could be running.
LEMMA ScheduleToStartKeeps == ASSUME PoolInv, NEW f \in File, ScheduleToStart(f) PROVE PoolInv'
<1>1. /\ awaits[f] \in {"provision_sandbox", "call_claude"}
      /\ Queued(f) /\ Raise(f) /\ UNCHANGED <<turn, taken, sandbox, strays, refused>>
  BY DEF ScheduleToStart, StartIsDue, HasScheduleToStart
<1>2. Waits' /\ Moved(f) /\ awaits'[f] = "mark_file"
  BY <1>1, RaiseKeeps DEF PoolInv
<1>3. \A b \in taken' : b.file = f => b.activity \notin {"call_claude", "terminate_sandbox"}
  BY <1>1 DEF PoolInv, AttemptsKnown, Queued
<1>. QED  BY <1>1, <1>2, <1>3, NoneRefused, MoveKeeps DEF PoolInv, TypeOK

\* Only where a loop is held does this timer strike: never at a call of the
\* model or a termination.
LEMMA StartToCloseKeeps == ASSUME PoolInv, NEW a \in taken, StartToClose(a) PROVE PoolInv'
<1>. DEFINE f == a.file
<1>1. /\ f \in File /\ a.activity \in Activities /\ awaits[f] = a.activity
      /\ Retry(f) /\ UNCHANGED <<turn, taken, sandbox, strays, refused>>
  BY DEF PoolInv, TypeOK, Attempt, StartToClose, CloseIsDue, Current
<1>2. awaits[f] \in Activities \ {"call_claude", "terminate_sandbox"}
  BY <1>1, NotHeld DEF PoolInv, StartToClose, CloseIsDue
<1>. HIDE DEF f
<1>3. /\ Waits' /\ Moved(f) /\ awaits'[f] # "closed"
      /\ awaits'[f] = awaits[f] \/ awaits'[f] = "mark_file"
  BY <1>1, <1>2, RetryKeeps DEF PoolInv, Activities
<1>4. \A b \in taken' : b.file = f => b.activity \notin {"call_claude", "terminate_sandbox"}
  BY <1>1, <1>2, NoneUnderWay DEF PoolInv
<1>5. /\ awaits[f] \notin {"terminate_sandbox", "closed"}
      /\ awaits'[f] \notin {"terminate_sandbox", "closed"}
  BY <1>2, <1>3 DEF Activities
<1>. QED  BY <1>1, <1>2, <1>3, <1>4, <1>5, NoneRefused, MoveKeeps DEF PoolInv, TypeOK, TurnsLeft

LEMMA SandboxDiesKeeps == ASSUME PoolInv, NEW f \in File, SandboxDies(f) PROVE PoolInv'
<1>1. ASSUME NEW a \in taken, a.at = "created", Advance(a, "lost"), UNCHANGED <<sandbox, strays>>
      PROVE  PoolInv'
  BY <1>1, AdvanceKeeps DEF SandboxDies, PoolInv, AttemptsKnown
<1>2. CASE sandbox[f] = "living" /\ sandbox' = [sandbox EXCEPT ![f] = "dead"]
           /\ UNCHANGED <<taken, strays>>
  BY <1>2 DEF SandboxDies, PoolInv, TypeOK, AttemptsKnown, Current, TurnsLeft, RefusalsAccounted,
     Accounted
<1>3. CASE strays[f] > 0 /\ strays' = [strays EXCEPT ![f] = @ - 1] /\ UNCHANGED <<taken, sandbox>>
  <2>1. strays' \in [File -> Nat]  BY <1>3 DEF PoolInv, TypeOK
  <2>. QED  BY <1>3, <2>1, DropKeeps DEF SandboxDies
<1>. QED  BY <1>1, <1>2, <1>3 DEF SandboxDies

LEMMA AttemptKeeps ==
  ASSUME PoolInv, NEW a \in taken,
         \/ Blocks(a) \/ Created(a) \/ Provisioned(a) \/ ProvisionFails(a)
         \/ Answered(a) \/ Executed(a) \/ Marked(a) \/ Terminated(a)
         \/ TerminateFails(a) \/ CreateFails(a) \/ Discarded(a)
  PROVE  PoolInv'
<1>1. CASE Blocks(a)  BY <1>1, AdvanceKeeps DEF Blocks
<1>2. CASE Created(a)  BY <1>2, AdvanceKeeps DEF Created, Blocking
<1>3. CASE Discarded(a)
  <2>1. strays' \in [File -> Nat]  BY <1>3, StraysTyped DEF PoolInv, Discarded
  <2>. QED  BY <1>3, <2>1, DropKeeps DEF Discarded, Drop
<1>. QED
  BY <1>1, <1>2, <1>3, ProvisionedKeeps, ProvisionFailsKeeps, AnsweredKeeps, ExecutedKeeps,
     MarkedKeeps, TerminatedKeeps, TerminateFailsKeeps, CreateFailsKeeps

LEMMA PoolStep == PoolInv /\ [Next]_vars => PoolInv'
<1>. SUFFICES ASSUME PoolInv, [Next]_vars PROVE PoolInv'  OBVIOUS
<1>1. ASSUME NEW queue \in Queues, Work(queue) PROVE PoolInv'
  BY <1>1, TakeKeeps, AttemptKeeps DEF Work, OnWorker
<1>2. CASE Timers
  BY <1>2, ScheduleToStartKeeps, StartToCloseKeeps DEF Timers
<1>3. ASSUME NEW f \in File, SandboxDies(f) PROVE PoolInv'
  BY <1>3, SandboxDiesKeeps
<1>4. CASE UNCHANGED vars
  BY <1>4, DropKeeps DEF vars, PoolInv, TypeOK
<1>5. ASSUME NEW a \in taken, CreateFails(a) PROVE PoolInv'
  BY <1>5, AttemptKeeps
<1>. QED  BY <1>1, <1>2, <1>3, <1>4, <1>5 DEF Next, AllClosed

LEMMA PoolInductive == Spec => []PoolInv
BY PoolInit, PoolStep, PTL DEF Spec

-----------------------------------------------------------------------------
\* What the workflows wait for, the attempts the workers hold and the
\* sandboxes keep their types and limits (shared.py:69-138, worker.py:113-158).
THEOREM PoolsTypeCorrect == Spec => []TypeOK
<1>1. PoolInv => TypeOK  BY DEF PoolInv
<1>. QED  BY <1>1, PoolInductive, PTL

-----------------------------------------------------------------------------
(***************************************************************************)
(* Counting: the slots of each worker and the room in Modal.               *)
(***************************************************************************)
Held == {f \in File : sandbox[f] = "living"}
Fresh == {a \in taken : a.at = "created"}
Stray == UNION {{<<f, i>> : i \in 1 .. strays[f]} : f \in File}

\* No worker holds more attempts than it has slots.
SlotsKept == \A queue \in Queues : Cardinality(OnWorker(queue)) <= Slots[queue]

\* Modal never holds more sandboxes than it has room for.
RoomKept == Living <= Capacity

CountsInv == IsFiniteSet(taken) /\ IsFiniteSet(Stray) /\ SlotsKept /\ RoomKept

LEMMA Fewer ==
  ASSUME NEW S, IsFiniteSet(S), NEW T, T \subseteq S
  PROVE  /\ IsFiniteSet(T) /\ Cardinality(S) \in Nat /\ Cardinality(T) \in Nat
         /\ Cardinality(T) <= Cardinality(S)
BY FS_Subset, FS_CardinalityType

LEMMA OneMore ==
  ASSUME NEW S, IsFiniteSet(S), NEW x
  PROVE  /\ IsFiniteSet(S \cup {x}) /\ Cardinality(S) \in Nat
         /\ Cardinality(S \cup {x}) \in Nat
         /\ Cardinality(S \cup {x}) <= Cardinality(S) + 1
<1>1. /\ IsFiniteSet(S \cup {x})
      /\ Cardinality(S \cup {x}) = IF x \in S THEN Cardinality(S) ELSE Cardinality(S) + 1
  BY FS_AddElement
<1>2. Cardinality(S) \in Nat  BY FS_CardinalityType
<1>. QED  BY <1>1, <1>2

LEMMA OneLess ==
  ASSUME NEW S, IsFiniteSet(S), NEW x \in S
  PROVE  /\ IsFiniteSet(S \ {x}) /\ Cardinality(S) \in Nat
         /\ Cardinality(S \ {x}) \in Nat
         /\ Cardinality(S \ {x}) = Cardinality(S) - 1
<1>1. IsFiniteSet(S \ {x}) /\ Cardinality(S \ {x}) = Cardinality(S) - 1
  BY FS_RemoveElement
<1>2. Cardinality(S) \in Nat /\ Cardinality(S \ {x}) \in Nat
  BY <1>1, FS_CardinalityType
<1>. QED  BY <1>1, <1>2

LEMMA OneReplaced ==
  ASSUME NEW S, IsFiniteSet(S), NEW x \in S, NEW y
  PROVE  /\ IsFiniteSet((S \ {x}) \cup {y}) /\ Cardinality(S) \in Nat
         /\ Cardinality((S \ {x}) \cup {y}) \in Nat
         /\ Cardinality((S \ {x}) \cup {y}) <= Cardinality(S)
<1>. DEFINE R == S \ {x}
<1>1. /\ IsFiniteSet(R) /\ Cardinality(S) \in Nat /\ Cardinality(R) \in Nat
      /\ Cardinality(R) = Cardinality(S) - 1
  BY OneLess
<1>. HIDE DEF R
<1>2. /\ IsFiniteSet(R \cup {y}) /\ Cardinality(R \cup {y}) \in Nat
      /\ Cardinality(R \cup {y}) <= Cardinality(R) + 1
  BY <1>1, OneMore
<1>3. Cardinality(R \cup {y}) <= Cardinality(S)  BY <1>1, <1>2
<1>. QED  BY <1>1, <1>2, <1>3 DEF R

LEMMA StrayIsPair ==
  \A f, i : <<f, i>> \in Stray <=> f \in File /\ i \in 1 .. strays[f]
BY DEF Stray

LEMMA StrayPairs == \A e \in Stray : e = <<e[1], e[2]>>
BY DEF Stray

LEMMA LivingCounts ==
  ASSUME IsFiniteSet(taken), IsFiniteSet(Stray)
  PROVE  /\ Living = Cardinality(Held) + Cardinality(Fresh) + Cardinality(Stray)
         /\ IsFiniteSet(Held) /\ IsFiniteSet(Fresh)
         /\ Cardinality(Held) \in Nat /\ Cardinality(Fresh) \in Nat
         /\ Cardinality(Stray) \in Nat
<1>1. Held \in SUBSET File /\ Fresh \in SUBSET taken  BY DEF Held, Fresh
<1>2. IsFiniteSet(Held) /\ IsFiniteSet(Fresh)
  BY <1>1, FS_Subset, SizesAssumption
<1>3. Living = Cardinality(Held) + Cardinality(Fresh) + Cardinality(Stray)
  BY DEF Living, Held, Fresh, Stray
<1>. QED  BY <1>2, <1>3, FS_CardinalityType

LEMMA SlotsCount ==
  ASSUME IsFiniteSet(taken), NEW queue \in Queues
  PROVE  /\ IsFiniteSet(OnWorker(queue)) /\ Cardinality(OnWorker(queue)) \in Nat
         /\ Slots[queue] \in Nat \ {0}
<1>1. OnWorker(queue) \in SUBSET taken  BY DEF OnWorker
<1>. QED  BY <1>1, FS_Subset, FS_CardinalityType, SizesAssumption

LEMMA CountsInit == Init => CountsInv
<1>. SUFFICES ASSUME Init PROVE CountsInv  OBVIOUS
<1>1. taken = {} /\ Held = {} /\ Fresh = {}  BY DEF Init, Held, Fresh
<1>2. Stray = {}
  <2>1. \A f \in File : strays[f] = 0  BY DEF Init
  <2>. QED  BY <2>1 DEF Stray
<1>3. IsFiniteSet(taken) /\ IsFiniteSet(Stray)  BY <1>1, <1>2, FS_EmptySet
<1>4. Living = 0  BY <1>1, <1>2, <1>3, LivingCounts, FS_EmptySet
<1>5. \A queue \in Queues : OnWorker(queue) = {}  BY <1>1 DEF OnWorker
<1>. QED
  BY <1>3, <1>4, <1>5, FS_EmptySet, SizesAssumption DEF CountsInv, SlotsKept, RoomKept

\* Fewer attempts: no slot is filled.
LEMMA SlotsLess ==
  ASSUME CountsInv, taken' \subseteq taken
  PROVE  IsFiniteSet(taken') /\ SlotsKept'
<1>1. IsFiniteSet(taken')  BY FS_Subset DEF CountsInv
<1>2. ASSUME NEW queue \in Queues
      PROVE  Cardinality(OnWorker(queue)') <= Slots[queue]
  <2>1. OnWorker(queue)' \in SUBSET OnWorker(queue)  BY DEF OnWorker
  <2>2. IsFiniteSet(OnWorker(queue))  BY SlotsCount DEF CountsInv
  <2>3. Cardinality(OnWorker(queue)') <= Cardinality(OnWorker(queue))
        /\ IsFiniteSet(OnWorker(queue)')
    BY <2>1, <2>2, FS_Subset
  <2>4. Cardinality(OnWorker(queue)') \in Nat  BY <2>3, FS_CardinalityType
  <2>. QED  BY <2>3, <2>4, SlotsCount DEF CountsInv, SlotsKept
<1>. QED  BY <1>1, <1>2 DEF SlotsKept

\* An attempt elsewhere in its coroutine keeps its slot.
LEMMA SlotsAdvance ==
  ASSUME TypeOK, CountsInv, NEW a \in taken,
         NEW at \in {"started", "blocking", "created", "lost"}, Advance(a, at)
  PROVE  IsFiniteSet(taken') /\ SlotsKept'
<1>. DEFINE b == [a EXCEPT !.at = at]
<1>1. a \in Attempt /\ b.activity = a.activity  BY AttemptMoved DEF TypeOK
<1>2. taken' = (taken \ {a}) \cup {b}  BY DEF Advance
<1>. HIDE DEF b
<1>3. IsFiniteSet(taken')
  BY <1>2, FS_RemoveElement, FS_AddElement DEF CountsInv
<1>4. ASSUME NEW queue \in Queues
      PROVE  Cardinality(OnWorker(queue)') <= Slots[queue]
  <2>1. /\ IsFiniteSet(OnWorker(queue)) /\ Cardinality(OnWorker(queue)) \in Nat
        /\ Slots[queue] \in Nat /\ Cardinality(OnWorker(queue)) <= Slots[queue]
    BY SlotsCount DEF CountsInv, SlotsKept
  <2>2. CASE TaskQueue(a.activity) # queue
    <3>1. OnWorker(queue)' = OnWorker(queue)  BY <1>1, <1>2, <2>2 DEF OnWorker
    <3>. QED  BY <2>1, <3>1
  <2>3. CASE TaskQueue(a.activity) = queue
    <3>1. OnWorker(queue)' = (OnWorker(queue) \ {a}) \cup {b} /\ a \in OnWorker(queue)
      BY <1>1, <1>2, <2>3 DEF OnWorker
    <3>2. /\ Cardinality((OnWorker(queue) \ {a}) \cup {b}) <= Cardinality(OnWorker(queue))
          /\ Cardinality((OnWorker(queue) \ {a}) \cup {b}) \in Nat
      BY <2>1, <3>1, OneReplaced
    <3>. QED  BY <2>1, <3>1, <3>2
  <2>. QED  BY <2>2, <2>3
<1>. QED  BY <1>3, <1>4 DEF SlotsKept

LEMMA SlotsTake ==
  ASSUME TypeOK, CountsInv, NEW f \in File, Take(f)
  PROVE  IsFiniteSet(taken') /\ SlotsKept'
<1>. DEFINE b == [file |-> f, activity |-> awaits[f], turn |-> turn[f], try |-> tries[f],
                  at |-> "started"]
<1>1. taken' = taken \cup {b} /\ b.activity = awaits[f]
      /\ Cardinality(OnWorker(TaskQueue(awaits[f]))) < Slots[TaskQueue(awaits[f])]
  BY DEF Take, CanTake
<1>. HIDE DEF b
<1>2. IsFiniteSet(taken')  BY <1>1, FS_AddElement DEF CountsInv
<1>3. ASSUME NEW queue \in Queues
      PROVE  Cardinality(OnWorker(queue)') <= Slots[queue]
  <2>1. /\ IsFiniteSet(OnWorker(queue)) /\ Cardinality(OnWorker(queue)) \in Nat
        /\ Slots[queue] \in Nat /\ Cardinality(OnWorker(queue)) <= Slots[queue]
    BY SlotsCount DEF CountsInv, SlotsKept
  <2>2. CASE TaskQueue(awaits[f]) # queue
    <3>1. OnWorker(queue)' = OnWorker(queue)  BY <1>1, <2>2 DEF OnWorker
    <3>. QED  BY <2>1, <3>1
  <2>3. CASE TaskQueue(awaits[f]) = queue
    <3>1. /\ OnWorker(queue)' = OnWorker(queue) \cup {b}
          /\ Cardinality(OnWorker(queue)) < Slots[queue]
      BY <1>1, <2>3 DEF OnWorker
    <3>2. /\ Cardinality(OnWorker(queue) \cup {b}) <= Cardinality(OnWorker(queue)) + 1
          /\ Cardinality(OnWorker(queue) \cup {b}) \in Nat
      BY <2>1, OneMore
    <3>. QED  BY <2>1, <3>1, <3>2
  <2>. QED  BY <2>2, <2>3
<1>. QED  BY <1>2, <1>3 DEF SlotsKept

LEMMA LivingNext == Living' = Cardinality(Held') + Cardinality(Fresh') + Cardinality(Stray')
BY DEF Living, Held, Fresh, Stray

\* Nothing is created: the room is no fuller.
LEMMA RoomLess ==
  ASSUME CountsInv, Held' \subseteq Held, Fresh' \subseteq Fresh, Stray' \subseteq Stray
  PROVE  IsFiniteSet(Stray') /\ RoomKept'
<1>1. /\ Living = Cardinality(Held) + Cardinality(Fresh) + Cardinality(Stray)
      /\ IsFiniteSet(Held) /\ IsFiniteSet(Fresh) /\ IsFiniteSet(Stray)
      /\ Living <= Capacity /\ Capacity \in Nat
  BY LivingCounts, SizesAssumption DEF CountsInv, RoomKept
<1>2. /\ Cardinality(Held') \in Nat /\ Cardinality(Held) \in Nat
      /\ Cardinality(Held') <= Cardinality(Held)
  BY <1>1, Fewer
<1>3. /\ Cardinality(Fresh') \in Nat /\ Cardinality(Fresh) \in Nat
      /\ Cardinality(Fresh') <= Cardinality(Fresh)
  BY <1>1, Fewer
<1>4. /\ Cardinality(Stray') \in Nat /\ Cardinality(Stray) \in Nat /\ IsFiniteSet(Stray')
      /\ Cardinality(Stray') <= Cardinality(Stray)
  BY <1>1, Fewer
<1>. QED  BY <1>1, <1>2, <1>3, <1>4, LivingNext DEF RoomKept

LEMMA RoomCreated ==
  ASSUME TypeOK, CountsInv, NEW a \in taken, Created(a)
  PROVE  IsFiniteSet(Stray') /\ RoomKept'
<1>. DEFINE b == [a EXCEPT !.at = "created"]
<1>1. /\ taken' = (taken \ {a}) \cup {b} /\ Living < Capacity
      /\ UNCHANGED <<sandbox, strays>>
  BY DEF Created, Advance, Runnable
<1>2. Held' = Held /\ Stray' = Stray  BY <1>1 DEF Held, Stray
<1>3. Fresh' \subseteq Fresh \cup {b}  BY <1>1 DEF Fresh
<1>. HIDE DEF b
<1>4. /\ Living = Cardinality(Held) + Cardinality(Fresh) + Cardinality(Stray)
      /\ Cardinality(Held) \in Nat /\ IsFiniteSet(Fresh) /\ IsFiniteSet(Stray)
      /\ Cardinality(Stray) \in Nat /\ Capacity \in Nat
  BY LivingCounts, SizesAssumption DEF CountsInv
<1>5. /\ IsFiniteSet(Fresh \cup {b}) /\ Cardinality(Fresh) \in Nat
      /\ Cardinality(Fresh \cup {b}) \in Nat
      /\ Cardinality(Fresh \cup {b}) <= Cardinality(Fresh) + 1
  BY <1>4, OneMore
<1>6. Cardinality(Fresh') \in Nat /\ Cardinality(Fresh') <= Cardinality(Fresh \cup {b})
  BY <1>3, <1>5, Fewer
<1>7. Living' = Cardinality(Held) + Cardinality(Fresh') + Cardinality(Stray)
  BY <1>2, LivingNext
<1>8. Living' <= Capacity  BY <1>1, <1>4, <1>5, <1>6, <1>7
<1>. QED  BY <1>2, <1>4, <1>8 DEF RoomKept

\* The sandbox of an attempt becomes the file's, or one that nobody can name.
LEMMA RoomHandedOver ==
  ASSUME CountsInv, NEW a \in Fresh, Fresh' \subseteq Fresh \ {a}, NEW e,
         \/ Held' \subseteq Held \cup {e} /\ Stray' \subseteq Stray
         \/ Held' \subseteq Held /\ Stray' \subseteq Stray \cup {e}
  PROVE  IsFiniteSet(Stray') /\ RoomKept'
<1>1. /\ Living = Cardinality(Held) + Cardinality(Fresh) + Cardinality(Stray)
      /\ IsFiniteSet(Held) /\ IsFiniteSet(Fresh) /\ IsFiniteSet(Stray)
      /\ Living <= Capacity /\ Capacity \in Nat
  BY LivingCounts, SizesAssumption DEF CountsInv, RoomKept
<1>2. /\ IsFiniteSet(Fresh \ {a}) /\ Cardinality(Fresh) \in Nat
      /\ Cardinality(Fresh \ {a}) = Cardinality(Fresh) - 1
  BY <1>1, OneLess
<1>3. Cardinality(Fresh') \in Nat /\ Cardinality(Fresh') <= Cardinality(Fresh) - 1
  BY <1>2, Fewer
<1>4. /\ IsFiniteSet(Held \cup {e}) /\ Cardinality(Held) \in Nat
      /\ Cardinality(Held \cup {e}) \in Nat
      /\ Cardinality(Held \cup {e}) <= Cardinality(Held) + 1
  BY <1>1, OneMore
<1>5. /\ IsFiniteSet(Stray \cup {e}) /\ Cardinality(Stray) \in Nat
      /\ Cardinality(Stray \cup {e}) \in Nat
      /\ Cardinality(Stray \cup {e}) <= Cardinality(Stray) + 1
  BY <1>1, OneMore
<1>6. CASE Held' \subseteq Held \cup {e} /\ Stray' \subseteq Stray
  <2>1. Cardinality(Held') \in Nat /\ Cardinality(Held') <= Cardinality(Held \cup {e})
    BY <1>4, <1>6, Fewer
  <2>2. /\ Cardinality(Stray') \in Nat /\ IsFiniteSet(Stray')
        /\ Cardinality(Stray') <= Cardinality(Stray)
    BY <1>1, <1>6, Fewer
  <2>. QED  BY <1>1, <1>2, <1>3, <1>4, <1>5, <2>1, <2>2, LivingNext DEF RoomKept
<1>7. CASE Held' \subseteq Held /\ Stray' \subseteq Stray \cup {e}
  <2>1. Cardinality(Held') \in Nat /\ Cardinality(Held') <= Cardinality(Held)
    BY <1>1, <1>7, Fewer
  <2>2. /\ Cardinality(Stray') \in Nat /\ IsFiniteSet(Stray')
        /\ Cardinality(Stray') <= Cardinality(Stray \cup {e})
    BY <1>5, <1>7, Fewer
  <2>. QED  BY <1>1, <1>2, <1>3, <1>4, <1>5, <2>1, <2>2, LivingNext DEF RoomKept
<1>. QED  BY <1>6, <1>7

\* What an attempt that ends leaves behind was already counted.
LEMMA RoomLeftBehind ==
  ASSUME TypeOK, CountsInv, NEW a \in taken, Drop(a), LeaveBehind(a), sandbox' = sandbox
  PROVE  IsFiniteSet(Stray') /\ RoomKept'
<1>1. Held' = Held /\ Fresh' \subseteq Fresh \ {a}  BY DEF Held, Fresh, Drop
<1>2. CASE a.at = "created"
  <2>. DEFINE f == a.file
              e == <<f, strays[f] + 1>>
  <2>1. f \in File /\ strays[f] \in Nat /\ strays' = [strays EXCEPT ![f] = @ + 1]
    BY <1>2 DEF TypeOK, Attempt, LeaveBehind
  <2>2. a \in Fresh  BY <1>2 DEF Fresh
  <2>3. \A g \in File : \A i : i \in 1 .. strays'[g] =>
          i \in 1 .. strays[g] \/ (g = f /\ i = strays[f] + 1)
    BY <2>1 DEF TypeOK
  <2>4. Stray' \subseteq Stray \cup {e}  BY <2>3 DEF Stray
  <2>. HIDE DEF e
  <2>. QED  BY <1>1, <2>2, <2>4, RoomHandedOver
<1>3. CASE a.at # "created"
  <2>1. Stray' = Stray  BY <1>3 DEF LeaveBehind, Stray
  <2>. QED  BY <1>1, <2>1, RoomLess
<1>. QED  BY <1>2, <1>3

LEMMA CountsStep ==
  ASSUME PoolInv, CountsInv, [Next]_vars
  PROVE  CountsInv'
<1>. USE DEF PoolInv
<1>1. ASSUME NEW f \in File, Take(f) PROVE CountsInv'
  <2>1. IsFiniteSet(taken') /\ SlotsKept'  BY <1>1, SlotsTake
  <2>2. Held' = Held /\ Fresh' \subseteq Fresh /\ Stray' = Stray
    BY <1>1 DEF Take, Held, Fresh, Stray
  <2>. QED  BY <2>1, <2>2, RoomLess DEF CountsInv
<1>2. ASSUME NEW a \in taken, NEW at \in {"started", "blocking", "lost"},
             Advance(a, at), UNCHANGED <<sandbox, strays>>
      PROVE  CountsInv'
  <2>1. IsFiniteSet(taken') /\ SlotsKept'  BY <1>2, SlotsAdvance
  <2>. DEFINE b == [a EXCEPT !.at = at]
  <2>2. b.at # "created" /\ taken' = (taken \ {a}) \cup {b}
    BY <1>2, AttemptMoved DEF TypeOK, Advance
  <2>. HIDE DEF b
  <2>3. Held' = Held /\ Fresh' \subseteq Fresh /\ Stray' = Stray
    BY <1>2, <2>2 DEF Held, Fresh, Stray
  <2>. QED  BY <2>1, <2>3, RoomLess DEF CountsInv
<1>3. ASSUME NEW a \in taken, Created(a) PROVE CountsInv'
  <2>1. IsFiniteSet(taken') /\ SlotsKept'  BY <1>3, SlotsAdvance DEF Created
  <2>. QED  BY <1>3, <2>1, RoomCreated DEF CountsInv
<1>4. ASSUME NEW a \in taken, Provisioned(a) PROVE CountsInv'
  <2>1. /\ taken' = taken \ {a} /\ a \in Fresh /\ strays' = strays
        /\ sandbox' = [sandbox EXCEPT ![a.file] = "living"]
    BY <1>4 DEF Provisioned, Drop, Fresh
  <2>2. /\ Fresh' \subseteq Fresh \ {a} /\ Held' \subseteq Held \cup {a.file}
        /\ Stray' \subseteq Stray
    BY <2>1 DEF Fresh, Held, Stray, TypeOK
  <2>. QED  BY <2>1, <2>2, SlotsLess, RoomHandedOver DEF CountsInv
<1>5. ASSUME NEW a \in taken, ProvisionFails(a) \/ Discarded(a) PROVE CountsInv'
  <2>1. Drop(a) /\ LeaveBehind(a) /\ sandbox' = sandbox  BY <1>5 DEF ProvisionFails, Discarded
  <2>. QED  BY <2>1, SlotsLess, RoomLeftBehind DEF CountsInv, Drop
<1>6. ASSUME taken' \subseteq taken, strays' = strays,
             \A f \in File : sandbox'[f] = "living" => sandbox[f] = "living"
      PROVE  CountsInv'
  <2>1. Held' \subseteq Held /\ Fresh' \subseteq Fresh /\ Stray' = Stray
    BY <1>6 DEF Held, Fresh, Stray
  <2>. QED  BY <1>6, <2>1, SlotsLess, RoomLess DEF CountsInv
<1>7. ASSUME NEW a \in taken, \/ Answered(a) \/ Executed(a) \/ Marked(a)
                             \/ TerminateFails(a) \/ CreateFails(a)
      PROVE  CountsInv'
  BY <1>6, <1>7 DEF Answered, Executed, Marked, TerminateFails, CreateFails, Drop
<1>8. ASSUME NEW a \in taken, Terminated(a) PROVE CountsInv'
  BY <1>6, <1>8 DEF Terminated, Drop, TypeOK
<1>9. CASE Timers
  BY <1>6, <1>9 DEF Timers, ScheduleToStart, StartToClose
<1>10. ASSUME NEW f \in File, SandboxDies(f) PROVE CountsInv'
  <2>1. CASE sandbox[f] = "living" /\ sandbox' = [sandbox EXCEPT ![f] = "dead"]
             /\ UNCHANGED <<taken, strays>>
    BY <1>6, <2>1 DEF TypeOK
  <2>2. CASE strays[f] > 0 /\ strays' = [strays EXCEPT ![f] = @ - 1] /\ UNCHANGED <<taken, sandbox>>
    <3>1. Held' = Held /\ Fresh' = Fresh  BY <2>2 DEF Held, Fresh
    <3>2. \A g \in File : 1 .. strays'[g] \subseteq 1 .. strays[g]  BY <2>2 DEF TypeOK
    <3>3. Stray' \subseteq Stray  BY <3>2 DEF Stray
    <3>. QED  BY <2>2, <3>1, <3>3, SlotsLess, RoomLess DEF CountsInv
  <2>. QED  BY <1>2, <1>10, <2>1, <2>2 DEF SandboxDies
<1>11. CASE UNCHANGED vars
  BY <1>6, <1>11 DEF vars
<1>12. ASSUME NEW queue \in Queues, Work(queue) PROVE CountsInv'
  <2>1. CASE \E f \in File : Take(f)  BY <1>1, <2>1
  <2>2. ASSUME NEW a \in taken, Blocks(a) PROVE CountsInv'  BY <1>2, <2>2 DEF Blocks
  <2>. QED
    BY <1>3, <1>4, <1>5, <1>7, <1>8, <1>12, <2>1, <2>2 DEF Work, OnWorker
<1>. QED  BY <1>7, <1>9, <1>10, <1>11, <1>12 DEF Next, AllClosed

LEMMA CountsInductive == Spec => []CountsInv
<1>1. PoolInv /\ CountsInv /\ [Next]_vars => CountsInv'  BY CountsStep
<1>. QED  BY <1>1, CountsInit, PoolInductive, PTL DEF Spec

-----------------------------------------------------------------------------
\* No worker takes more than it has slots for, and the sandboxes of a batch,
\* those nobody can name any more included, never need more room than Modal
\* has (worker.py:113-158, sandbox.py:85-125).
THEOREM LimitsAreKept == Spec => [](SlotsKept /\ RoomKept)
<1>1. CountsInv => SlotsKept /\ RoomKept  BY DEF CountsInv
<1>. QED  BY <1>1, CountsInductive, PTL

\* An attempt that cannot get on is inside Sandbox.create with no room for it,
\* or waits for the loop that another such attempt holds.
LEMMA StuckIsCrunch ==
  ASSUME PoolInv, CountsInv, Stalled, NEW a \in taken
  PROVE  Living >= Capacity /\ \E b \in taken : b.activity = "provision_sandbox" /\ b.at = "blocking"
<1>1. ASSUME NEW b \in taken, b.at = "blocking"
      PROVE  b.activity = "provision_sandbox" /\ ~ (Living < Capacity)
  BY <1>1 DEF Stalled, Runnable, PoolInv, AttemptsKnown, Blocking
<1>2. \E b \in taken : b.at = "blocking"
  BY DEF Stalled, Runnable, LoopFree, OnWorker
<1>3. Living \in Int /\ Capacity \in Int
  BY LivingCounts, SizesAssumption DEF CountsInv
<1>. QED  BY <1>1, <1>2, <1>3

\* A stall of the workers is a crunch, for any number of files, slots and turns
\* and any room: a task that is not taken finds every slot of its worker held,
\* and who holds one is stuck (worker.py:113-158, sandbox.py:85).
THEOREM StallsAreCrunches == Spec => []StallIsCrunch
<1>1. PoolInv /\ CountsInv => StallIsCrunch
  <2>. SUFFICES ASSUME PoolInv, CountsInv, NEW f \in File, awaits[f] # "closed", Stalled
                PROVE  /\ Living >= Capacity
                       /\ \E a \in taken : a.activity = "provision_sandbox" /\ a.at = "blocking"
    BY DEF StallIsCrunch
  <2>. DEFINE queue == TaskQueue(awaits[f])
  <2>1. CASE ~Queued(f)
    BY <2>1, StuckIsCrunch DEF Queued
  <2>2. CASE Queued(f)
    <3>1. queue \in Queues /\ awaits[f] \in Registered[queue]
      BY QueuesKnown DEF PoolInv, TypeOK
    <3>2. ~ (Cardinality(OnWorker(queue)) < Slots[queue])
      BY <2>2, <3>1 DEF Stalled, CanTake
    <3>3. IsFiniteSet(OnWorker(queue)) /\ Slots[queue] \in Nat \ {0}
      BY <3>1, SlotsCount DEF CountsInv
    <3>4. OnWorker(queue) # {}
      BY <3>2, <3>3, FS_EmptySet
    <3>. QED  BY <3>4, StuckIsCrunch DEF OnWorker
  <2>. QED  BY <2>1, <2>2
<1>. QED  BY <1>1, PoolInductive, CountsInductive, PTL

\* A file that is closed has given back the sandbox its list names, unless Modal
\* refused every attempt to terminate it.
ClosedReleases ==
  \A f \in File : awaits[f] = "closed" =>
    sandbox[f] # "living" \/ refused[f] = MaxTries["terminate_sandbox"]

\* A termination is at its workflow's disposal and can get on; each attempt of it
\* that fails is a refusal of Modal, none a timeout.
TerminationsUnhindered ==
  /\ \A a \in taken : a.activity = "terminate_sandbox" => Current(a) /\ Runnable(a)
  /\ \A f \in File : awaits[f] = "terminate_sandbox" => tries[f] = refused[f]
  /\ ClosedReleases

\* Whatever the stall, a termination under way is the one its workflow waits for
\* and can get on, and no attempt of it is lost to a timeout.  A file that closes
\* while the sandbox its list names is living has had every attempt of the policy
\* answered by Modal with an error: the path terminate_sandbox leaves open and
\* `finally` passes over (worker.py:13-15, sandbox.py:242-248,
\* file_analysis.py:439-458).
THEOREM TerminationsGetOn == Spec => []TerminationsUnhindered
<1>1. PoolInv => TerminationsUnhindered
  <2>. SUFFICES ASSUME PoolInv PROVE TerminationsUnhindered  OBVIOUS
  <2>1. ASSUME NEW a \in taken, a.activity = "terminate_sandbox"
        PROVE  Current(a) /\ Runnable(a)
    <3>1. Current(a) /\ a.at # "blocking"  BY <2>1 DEF PoolInv, AttemptsKnown, Blocking
    <3>2. LoopFree(TaskQueue(a.activity))  BY <2>1, NotHeld DEF PoolInv
    <3>. QED  BY <2>1, <3>1, <3>2 DEF Runnable
  <2>. QED
    BY <2>1 DEF TerminationsUnhindered, ClosedReleases, PoolInv, RefusalsAccounted, Accounted
<1>. QED  BY <1>1, PoolInductive, PTL
=============================================================================
