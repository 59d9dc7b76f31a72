--------------------------- MODULE ExecTool_proofs ---------------------------
(***************************************************************************)
(* Theorems about ExecTool, for any number of calls and turns, attempts    *)
(* and recoveries.                                                         *)
(***************************************************************************)
EXTENDS ExecTool, TLAPS

\* A cell file holds the program of a call of its own turn, already made.
CellsKnown ==
  \A t \in Turns : cell[t] # NoCall => cell[t] \in 1 .. call /\ TurnOf[cell[t]] = t

\* So does an attempt that has read one; and what has run is on the disk.
AttemptsKnown ==
  \A a \in attempts :
    /\ a.call <= call
    /\ a.at = "written" => cell[TurnOf[a.call]] # NoCall
    /\ a.at \in {"running", "ran"} =>
         a.source \in 1 .. call /\ TurnOf[a.source] = TurnOf[a.call]
    /\ a.at = "ran" /\ tool[a.source] = "run_python" => a.source \in disk

\* Answers come in order, and at most one snapshot is missed for each.
AnswersKnown ==
  /\ \A c \in DOMAIN answered : c <= call /\ (outcome = "open" => c < call)
  /\ snapshot_lag <= call /\ (outcome = "open" => snapshot_lag < call)

Counted(c) == First(c) /\ tool[c] # "unknown_tool"
Python(c) == First(c) /\ tool[c] = "run_python"

OutputsKept == \A c \in DOMAIN answered : Counted(c) => answered[c] = c
DiskKept == living => \A c \in DOMAIN answered : Python(c) => c \in disk
\* What a recovery goes back to.
SnapshotKept == snapshot_lag = 0 => \A c \in DOMAIN answered : Python(c) => c \in snapshot

ExecInv ==
  /\ TypeOK
  /\ CellsKnown /\ AttemptsKnown /\ AnswersKnown
  /\ OutputsKept /\ DiskKept /\ SnapshotKept

-----------------------------------------------------------------------------
LEMMA CallsAreNumbered ==
  Len(TurnOf) \in Nat \ {0} /\ Calls = 1 .. Len(TurnOf) /\ Turns = {TurnOf[c] : c \in Calls}
BY ScriptAssumption DEF Calls, Turns

\* The program in the file of a turn is that of its first call, while no other
\* call of the turn has been made.
LEMMA FirstIsAlone ==
  ASSUME call \in Calls, First(call), NEW s \in 1 .. call, TurnOf[s] = TurnOf[call]
  PROVE  s = call
BY CallsAreNumbered DEF First

LEMMA NewIsAttempt ==
  ASSUME NEW c \in Calls, NEW try \in 0 .. ExecAttempts - 1
  PROVE  /\ NewAttempt(c, try) \in Attempt
         /\ NewAttempt(c, try).call = c /\ NewAttempt(c, try).at = "started"
BY DEF NewAttempt, Attempt

LEMMA InitInv == Init => ExecInv
<1>. SUFFICES ASSUME Init PROVE ExecInv  OBVIOUS
<1>1. /\ 1 \in Calls /\ 0 \in 0 .. ExecAttempts - 1 /\ 0 \in 0 .. Len(TurnOf)
      /\ 0 \in 0 .. MaxRecoveries
  BY CallsAreNumbered, LimitsAssumption
<1>2. DOMAIN answered = {}  BY DEF Init
<1>3. TypeOK
  BY <1>1, <1>2, NewIsAttempt DEF Init, TypeOK
<1>4. CellsKnown  BY DEF Init, CellsKnown
<1>5. AttemptsKnown
  BY <1>1, NewIsAttempt DEF Init, AttemptsKnown
<1>6. AnswersKnown /\ OutputsKept /\ DiskKept /\ SnapshotKept
  BY <1>2 DEF Init, AnswersKnown, OutputsKept, DiskKept, SnapshotKept
<1>. QED  BY <1>3, <1>4, <1>5, <1>6 DEF ExecInv

-----------------------------------------------------------------------------
(* Steps of an attempt. *)

LEMMA BeginsKeeps ==
  ASSUME ExecInv, NEW a \in attempts, Begins(a)
  PROVE  ExecInv'
<1>. DEFINE b == [a EXCEPT !.at = "writing"]
<1>. USE DEF ExecInv, workflow, sandbox
<1>1. attempts' = (attempts \ {a}) \cup {b}  BY DEF Begins, Advance
<1>2. UNCHANGED <<workflow, sandbox>>  BY DEF Begins
<1>3. b \in Attempt /\ b.call = a.call /\ b.at = "writing"  BY DEF TypeOK, Attempt
<1>4. TypeOK'  BY <1>1, <1>2, <1>3 DEF TypeOK
<1>5. AttemptsKnown'  BY <1>1, <1>2, <1>3 DEF AttemptsKnown
<1>6. CellsKnown' /\ AnswersKnown'  BY <1>2 DEF CellsKnown, AnswersKnown
<1>7. OutputsKept' /\ DiskKept' /\ SnapshotKept'
  BY <1>2 DEF OutputsKept, DiskKept, SnapshotKept, Counted, Python
<1>. QED  BY <1>4, <1>5, <1>6, <1>7

LEMMA WriteLandsKeeps ==
  ASSUME ExecInv, NEW a \in attempts, WriteLands(a)
  PROVE  ExecInv'
<1>. DEFINE b == [a EXCEPT !.at = "written"]
<1>. USE DEF ExecInv, workflow, sandbox
<1>1. attempts' = (attempts \ {a}) \cup {b}  BY DEF WriteLands, Advance
<1>2. UNCHANGED <<workflow, living, disk>>  BY DEF WriteLands
<1>3. b \in Attempt /\ b.call = a.call /\ b.at = "written" /\ a.call \in Calls
  BY DEF TypeOK, Attempt
<1>4. cell' = [cell EXCEPT ![TurnOf[a.call]] = a.call]  BY DEF WriteLands, CellPath
<1>5. TurnOf[a.call] \in Turns /\ a.call \in 1 .. call /\ a.call # NoCall
  BY <1>3, CallsAreNumbered DEF AttemptsKnown, NoCall, TypeOK
<1>6. TypeOK'  BY <1>1, <1>2, <1>3, <1>4, <1>5 DEF TypeOK
<1>7. CellsKnown'  BY <1>2, <1>4, <1>5 DEF CellsKnown, TypeOK
<1>8. AttemptsKnown'
  <2>1. ASSUME NEW d \in attempts PROVE TurnOf[d.call] \in Turns
    BY CallsAreNumbered DEF TypeOK, Attempt
  <2>2. \A t \in Turns : cell[t] # NoCall => cell'[t] # NoCall
    BY <1>4, <1>5 DEF TypeOK
  <2>3. cell'[TurnOf[a.call]] # NoCall  BY <1>4, <1>5 DEF TypeOK
  <2>. QED  BY <1>1, <1>2, <1>3, <2>1, <2>2, <2>3 DEF AttemptsKnown
<1>9. AnswersKnown'  BY <1>2 DEF AnswersKnown
<1>10. OutputsKept' /\ DiskKept' /\ SnapshotKept'
  BY <1>2 DEF OutputsKept, DiskKept, SnapshotKept, Counted, Python
<1>. QED  BY <1>6, <1>7, <1>8, <1>9, <1>10

LEMMA ExecsKeeps ==
  ASSUME ExecInv, NEW a \in attempts, Execs(a)
  PROVE  ExecInv'
<1>. DEFINE s == cell[TurnOf[a.call]]
            b == [a EXCEPT !.at = "running", !.source = s]
<1>. USE DEF ExecInv, workflow, sandbox
<1>1. attempts' = (attempts \ {a}) \cup {b}  BY DEF Execs, Advance, CellPath
<1>2. UNCHANGED <<workflow, sandbox>> /\ a.at = "written"  BY DEF Execs
<1>3. a.call \in Calls /\ TurnOf[a.call] \in Turns
  BY CallsAreNumbered DEF TypeOK, Attempt
<1>4. s \in 1 .. call /\ TurnOf[s] = TurnOf[a.call] /\ s \in Calls
  BY <1>2, <1>3, CallsAreNumbered DEF AttemptsKnown, CellsKnown, TypeOK, NoCall
<1>5. b \in Attempt /\ b.call = a.call /\ b.at = "running" /\ b.source = s
  BY <1>4 DEF TypeOK, Attempt
<1>6. TypeOK'  BY <1>1, <1>2, <1>5 DEF TypeOK
<1>7. AttemptsKnown'  BY <1>1, <1>2, <1>4, <1>5 DEF AttemptsKnown
<1>8. CellsKnown' /\ AnswersKnown'  BY <1>2 DEF CellsKnown, AnswersKnown
<1>9. OutputsKept' /\ DiskKept' /\ SnapshotKept'
  BY <1>2 DEF OutputsKept, DiskKept, SnapshotKept, Counted, Python
<1>. QED  BY <1>6, <1>7, <1>8, <1>9

LEMMA EndsKeeps ==
  ASSUME ExecInv, NEW a \in attempts, Ends(a)
  PROVE  ExecInv'
<1>. DEFINE b == [a EXCEPT !.at = "ran"]
<1>. USE DEF ExecInv, workflow, sandbox
<1>1. attempts' = (attempts \ {a}) \cup {b}  BY DEF Ends, Advance
<1>2. UNCHANGED <<workflow, living, cell>> /\ a.at = "running"  BY DEF Ends
<1>3. disk' = IF tool[a.source] = "run_python" THEN disk \cup {a.source} ELSE disk
  BY DEF Ends
<1>4. a.source \in 1 .. call /\ TurnOf[a.source] = TurnOf[a.call] /\ a.source \in Calls
  BY <1>2, CallsAreNumbered DEF AttemptsKnown, TypeOK
<1>5. b \in Attempt /\ b.call = a.call /\ b.at = "ran" /\ b.source = a.source
  BY DEF TypeOK, Attempt
<1>6. disk \subseteq disk' /\ disk' \subseteq Calls  BY <1>3, <1>4 DEF TypeOK
<1>7. TypeOK'  BY <1>1, <1>2, <1>5, <1>6 DEF TypeOK
<1>8. AttemptsKnown'
  BY <1>1, <1>2, <1>3, <1>4, <1>5, <1>6 DEF AttemptsKnown
<1>9. CellsKnown' /\ AnswersKnown'  BY <1>2 DEF CellsKnown, AnswersKnown
<1>10. OutputsKept' /\ DiskKept' /\ SnapshotKept'
  BY <1>2, <1>6 DEF OutputsKept, DiskKept, SnapshotKept, Counted, Python
<1>. QED  BY <1>7, <1>8, <1>9, <1>10

\* The attempt an answer is taken from ran the program of its own call, if that
\* is the first of its turn.
LEMMA RanItsOwn ==
  ASSUME ExecInv, NEW a \in attempts, a.call = call, a.at = "ran", First(call)
  PROVE  a.source = call
<1>1. a.source \in 1 .. call /\ TurnOf[a.source] = TurnOf[call] /\ call \in Calls
  BY DEF ExecInv, AttemptsKnown, TypeOK
<1>. QED  BY <1>1, FirstIsAlone

\* What a snapshot taken now has is the work of every call answered so far and
\* of the one being answered.
LEMMA SnapshotHasAll ==
  ASSUME ExecInv, NEW a \in attempts, a.call = call, a.at = "ran"
  PROVE  /\ Python(call) => call \in disk
         /\ living => \A c \in DOMAIN answered \cup {call} : Python(c) => c \in disk
<1>1. ASSUME Python(call) PROVE call \in disk
  <2>1. a.source = call  BY <1>1, RanItsOwn DEF Python
  <2>. QED  BY <1>1, <2>1 DEF ExecInv, AttemptsKnown, Python
<1>. QED  BY <1>1 DEF ExecInv, DiskKept

LEMMA AnswerKeeps ==
  ASSUME ExecInv, NEW a \in attempts, NEW taken \in Snapshots(a),
         Current(a), Answer(a, taken),
         a.at = "ran" \/ tool[a.call] = "unknown_tool", UNCHANGED sandbox
  PROVE  ExecInv'
<1>. USE DEF ExecInv, sandbox
<1>1. /\ a.call = call /\ outcome = "open" /\ call \in Calls
      /\ UNCHANGED <<tool, recoveries_used>>
      /\ tries' = 0
      /\ a \in Attempt
  BY DEF Current, Answer, TypeOK
<1>2. /\ DOMAIN answered' = DOMAIN answered \cup {call}
      /\ answered'[call] = a.source
      /\ \A c \in DOMAIN answered : c # call /\ answered'[c] = answered[c]
  <2>1. call \notin DOMAIN answered  BY <1>1, CallsAreNumbered DEF AnswersKnown
  <2>. QED  BY <1>1, <2>1 DEF Answer
<1>3. \/ /\ call < Len(TurnOf) /\ call' = call + 1 /\ outcome' = "open"
         /\ attempts' = (attempts \ {a}) \cup {NewAttempt(call + 1, 0)}
      \/ /\ call' = call /\ outcome' = "done" /\ attempts' = attempts \ {a}
  BY <1>1 DEF Answer
<1>4. call' \in Calls /\ call \in Nat /\ call <= call' /\ (outcome' = "open" => call < call')
  BY <1>1, <1>3, CallsAreNumbered
<1>5. call < Len(TurnOf) =>
        /\ NewAttempt(call + 1, 0) \in Attempt
        /\ NewAttempt(call + 1, 0).call = call + 1
        /\ NewAttempt(call + 1, 0).at = "started"
  <2>1. call < Len(TurnOf) => call + 1 \in Calls /\ 0 \in 0 .. ExecAttempts - 1
    BY <1>1, CallsAreNumbered, LimitsAssumption
  <2>. QED  BY <2>1, NewIsAttempt
<1>6. /\ tool[call] # "run_python" => snapshot' = snapshot /\ snapshot_lag' = snapshot_lag
      /\ tool[call] = "run_python" =>
           \/ snapshot' = snapshot /\ snapshot_lag' = snapshot_lag + 1
           \/ snapshot' = disk /\ snapshot_lag' = 0 /\ living
  BY <1>1 DEF Answer, Snapshots
<1>7. snapshot_lag' <= call /\ snapshot_lag' \in 0 .. Len(TurnOf)
  BY <1>1, <1>6, CallsAreNumbered DEF TypeOK, AnswersKnown
<1>8. TypeOK'
  <2>1. attempts' \subseteq Attempt  BY <1>3, <1>5 DEF TypeOK
  <2>2. /\ DOMAIN answered' \subseteq Calls
        /\ \A c \in DOMAIN answered' : answered'[c] \in Calls \cup {NoCall}
    BY <1>1, <1>2 DEF TypeOK, Attempt
  <2>3. tries' \in 0 .. ExecAttempts - 1  BY <1>1, LimitsAssumption
  <2>4. snapshot' \subseteq Calls  BY <1>6 DEF TypeOK
  <2>5. outcome' \in {"open", "done", "raised"}  BY <1>3
  <2>. QED  BY <1>1, <1>4, <1>7, <2>1, <2>2, <2>3, <2>4, <2>5 DEF TypeOK
<1>9. CellsKnown'
  BY <1>4, CallsAreNumbered DEF CellsKnown, TypeOK
<1>10. AttemptsKnown'
  <2>1. ASSUME NEW b \in attempts
        PROVE  /\ b.call <= call'
               /\ b.at = "written" => cell[TurnOf[b.call]] # NoCall
               /\ b.at \in {"running", "ran"} =>
                    b.source \in 1 .. call' /\ TurnOf[b.source] = TurnOf[b.call]
               /\ b.at = "ran" /\ tool[b.source] = "run_python" => b.source \in disk
    <3>1. b.call \in Nat  BY CallsAreNumbered DEF TypeOK, Attempt
    <3>2. call' \in Nat  BY <1>4, CallsAreNumbered
    <3>. QED  BY <1>4, <3>1, <3>2 DEF AttemptsKnown
  <2>2. ASSUME call < Len(TurnOf), call' = call + 1
        PROVE  NewAttempt(call + 1, 0).call <= call'
    BY <1>1, <1>5, <2>2, CallsAreNumbered
  <2>3. ASSUME NEW b \in attempts', b \notin attempts
        PROVE  b.call <= call' /\ b.at = "started"
    BY <1>3, <1>5, <2>2, <2>3
  <2>. QED  BY <1>1, <2>1, <2>3 DEF AttemptsKnown
<1>11. AnswersKnown'
  <2>1. ASSUME NEW c \in DOMAIN answered' PROVE c <= call
    BY <1>1, <1>2, CallsAreNumbered DEF AnswersKnown
  <2>2. \A c \in DOMAIN answered' : c \in Nat /\ call' \in Nat
    BY <1>4, <1>8, CallsAreNumbered DEF TypeOK
  <2>. QED  BY <1>4, <1>7, <2>1, <2>2, CallsAreNumbered DEF AnswersKnown
<1>12. OutputsKept'
  <2>1. Counted(call) => answered'[call] = call
    BY <1>1, <1>2, RanItsOwn DEF Counted
  <2>. QED  BY <1>1, <1>2, <2>1 DEF OutputsKept, Counted
<1>13. ASSUME living, a.at = "ran"
       PROVE  \A c \in DOMAIN answered' : Python(c) => c \in disk
  BY <1>1, <1>2, <1>13, SnapshotHasAll
<1>14. a.at # "ran" => ~Python(call)  BY <1>1 DEF Python
<1>15. DiskKept'
  BY <1>1, <1>2, <1>13, <1>14 DEF DiskKept, Python
<1>16. SnapshotKept'
  <2>1. CASE tool[call] # "run_python"
    BY <1>1, <1>2, <1>6, <2>1 DEF SnapshotKept, Python
  <2>2. CASE tool[call] = "run_python"
    <3>1. a.at = "ran"  BY <1>1, <2>2
    <3>2. CASE snapshot_lag' = snapshot_lag + 1
      BY <3>2 DEF SnapshotKept, TypeOK
    <3>3. CASE snapshot' = disk /\ living
      BY <1>1, <1>13, <3>1, <3>3 DEF SnapshotKept, Python
    <3>. QED  BY <1>6, <2>2, <3>2, <3>3
  <2>. QED  BY <2>1, <2>2
<1>. QED
  BY <1>8, <1>9, <1>10, <1>11, <1>12, <1>15, <1>16

\* Taking attempts away disturbs nothing.
LEMMA ForgetKeeps ==
  ASSUME ExecInv, attempts' \subseteq attempts, UNCHANGED <<workflow, sandbox>>
  PROVE  ExecInv'
<1>. USE DEF ExecInv, workflow, sandbox
<1>1. TypeOK'  BY DEF TypeOK
<1>2. CellsKnown' /\ AnswersKnown'  BY DEF CellsKnown, AnswersKnown
<1>3. AttemptsKnown'  BY DEF AttemptsKnown
<1>4. OutputsKept' /\ DiskKept' /\ SnapshotKept'
  BY DEF OutputsKept, DiskKept, SnapshotKept, Counted, Python
<1>. QED  BY <1>1, <1>2, <1>3, <1>4

LEMMA ReturnsKeeps ==
  ASSUME ExecInv, NEW a \in attempts, Returns(a)
  PROVE  ExecInv'
<1>1. CASE Current(a)
  BY <1>1, AnswerKeeps DEF Returns
<1>2. CASE ~Current(a)
  BY <1>2, ForgetKeeps DEF Returns
<1>. QED  BY <1>1, <1>2

-----------------------------------------------------------------------------
(* Losses. *)

LEMMA RecoverKeeps ==
  ASSUME ExecInv, outcome = "open", Recover
  PROVE  ExecInv'
<1>. USE DEF ExecInv, Recover
<1>1. NewAttempt(call, 0) \in Attempt /\ NewAttempt(call, 0).call = call
      /\ NewAttempt(call, 0).at = "started" /\ 0 \in 0 .. ExecAttempts - 1
  <2>1. call \in Calls /\ 0 \in 0 .. ExecAttempts - 1
    BY LimitsAssumption DEF TypeOK
  <2>. QED  BY <2>1, NewIsAttempt
<1>2. recoveries_used + 1 \in 0 .. MaxRecoveries  BY LimitsAssumption DEF TypeOK
<1>3. TypeOK'  BY <1>1, <1>2 DEF TypeOK
<1>4. CellsKnown'  BY DEF CellsKnown
<1>5. AttemptsKnown'
  <2>1. call' <= call' /\ call \in Nat  BY CallsAreNumbered DEF TypeOK
  <2>. QED  BY <1>1, <2>1 DEF AttemptsKnown
<1>6. AnswersKnown'  BY DEF AnswersKnown
<1>7. OutputsKept'  BY DEF OutputsKept, Counted
<1>8. DiskKept' /\ SnapshotKept'  BY DEF DiskKept, SnapshotKept, Python
<1>. QED  BY <1>3, <1>4, <1>5, <1>6, <1>7, <1>8

\* The run ends with an exception: nothing is answered any more.
LEMMA RaiseKeeps ==
  ASSUME ExecInv, Raise, attempts' \subseteq attempts,
         UNCHANGED <<tries, recoveries_used, sandbox>>
  PROVE  ExecInv'
<1>. USE DEF ExecInv, Raise, sandbox
<1>1. TypeOK'  BY DEF TypeOK
<1>2. CellsKnown'  BY DEF CellsKnown
<1>3. AnswersKnown'  BY DEF AnswersKnown
<1>4. AttemptsKnown'  BY DEF AttemptsKnown
<1>5. OutputsKept' /\ DiskKept' /\ SnapshotKept'
  BY DEF OutputsKept, DiskKept, SnapshotKept, Counted, Python
<1>. QED  BY <1>1, <1>2, <1>3, <1>4, <1>5

LEMMA GoneKeeps ==
  ASSUME ExecInv, NEW a \in attempts, Gone(a)
  PROVE  ExecInv'
<1>1. CASE ~Current(a)  BY <1>1, ForgetKeeps DEF Gone
<1>2. CASE Current(a)
  <2>1. outcome = "open"  BY <1>2 DEF Current
  <2>2. CASE Recover  BY <2>1, <2>2, RecoverKeeps
  <2>3. CASE ~Recover
    BY <1>2, <2>3, RaiseKeeps DEF Gone
  <2>. QED  BY <2>2, <2>3
<1>. QED  BY <1>1, <1>2

LEMMA GivenUpKeeps ==
  ASSUME ExecInv, NEW a \in attempts, GivenUp(a)
  PROVE  ExecInv'
<1>. USE DEF ExecInv, sandbox
<1>1. PICK rest \in {attempts, attempts \ {a}} :
        IF tries + 1 < ExecAttempts
          THEN /\ tries' = tries + 1
               /\ attempts' = rest \cup {NewAttempt(call, tries + 1)}
               /\ UNCHANGED <<call, tool, answered, snapshot, snapshot_lag, outcome>>
          ELSE Raise /\ attempts' = rest /\ UNCHANGED tries
  BY DEF GivenUp
<1>2. UNCHANGED <<recoveries_used, sandbox>>  BY DEF GivenUp
<1>3. CASE tries + 1 < ExecAttempts
  <2>1. tries + 1 \in 0 .. ExecAttempts - 1 /\ call \in Calls
    BY <1>3, LimitsAssumption DEF TypeOK
  <2>2. /\ NewAttempt(call, tries + 1) \in Attempt
        /\ NewAttempt(call, tries + 1).call = call
        /\ NewAttempt(call, tries + 1).at = "started"
    BY <2>1, NewIsAttempt
  <2>3. /\ attempts' \subseteq attempts \cup {NewAttempt(call, tries + 1)}
        /\ tries' = tries + 1
        /\ UNCHANGED <<call, tool, answered, snapshot, snapshot_lag, outcome>>
    BY <1>1, <1>3
  <2>4. TypeOK'  BY <1>2, <2>1, <2>2, <2>3 DEF TypeOK
  <2>5. AttemptsKnown'
    <3>1. call <= call  BY <2>1, CallsAreNumbered
    <3>. QED  BY <1>2, <2>2, <2>3, <3>1 DEF AttemptsKnown
  <2>6. CellsKnown' /\ AnswersKnown'  BY <1>2, <2>3 DEF CellsKnown, AnswersKnown
  <2>7. OutputsKept' /\ DiskKept' /\ SnapshotKept'
    BY <1>2, <2>3 DEF OutputsKept, DiskKept, SnapshotKept, Counted, Python
  <2>. QED  BY <2>4, <2>5, <2>6, <2>7
<1>4. CASE ~(tries + 1 < ExecAttempts)
  BY <1>1, <1>2, <1>4, RaiseKeeps
<1>. QED  BY <1>3, <1>4

LEMMA SandboxDiesKeeps ==
  ASSUME ExecInv, SandboxDies
  PROVE  ExecInv'
<1>. USE DEF ExecInv, SandboxDies, workflow
<1>1. TypeOK'  BY DEF TypeOK
<1>2. CellsKnown' /\ AnswersKnown' /\ AttemptsKnown'
  BY DEF CellsKnown, AnswersKnown, AttemptsKnown
<1>3. OutputsKept' /\ DiskKept' /\ SnapshotKept'
  BY DEF OutputsKept, DiskKept, SnapshotKept, Counted, Python
<1>. QED  BY <1>1, <1>2, <1>3

LEMMA StepKeeps == ExecInv /\ [Next]_vars => ExecInv'
<1>. SUFFICES ASSUME ExecInv, [Next]_vars PROVE ExecInv'  OBVIOUS
<1>1. ASSUME NEW a \in attempts,
             \/ Begins(a) \/ WriteLands(a) \/ Execs(a) \/ Ends(a)
             \/ Returns(a) \/ Gone(a) \/ GivenUp(a)
      PROVE  ExecInv'
  BY <1>1, BeginsKeeps, WriteLandsKeeps, ExecsKeeps, EndsKeeps, ReturnsKeeps,
     GoneKeeps, GivenUpKeeps
<1>2. CASE SandboxDies  BY <1>2, SandboxDiesKeeps
<1>3. CASE Over \/ UNCHANGED vars  BY <1>3, ForgetKeeps DEF Over, vars
<1>. QED  BY <1>1, <1>2, <1>3 DEF Next

THEOREM ExecInductive == Spec => []ExecInv
BY InitInv, StepKeeps, PTL DEF Spec

\* The calls, attempts and answers keep their types, and attempts, recoveries
\* and missed snapshots their limits (sandbox.py:126-234).
THEOREM ExecTypeCorrect == Spec => []TypeOK
<1>1. ExecInv => TypeOK  BY DEF ExecInv
<1>. QED  BY <1>1, ExecInductive, PTL

\* The first call of every turn is answered with the output of its own program,
\* whose work is in the living sandbox, whatever is lost, retried or late
\* (sandbox.py:152-184, file_analysis.py:258-345).
THEOREM FirstCallsStay == Spec => []FirstCallsAreKept
<1>1. ExecInv => FirstCallsAreKept
  BY DEF ExecInv, FirstCallsAreKept, OutputsKept, DiskKept, Counted, Python
<1>. QED  BY <1>1, ExecInductive, PTL
=============================================================================
