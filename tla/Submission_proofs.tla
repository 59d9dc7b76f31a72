-------------------------- MODULE Submission_proofs --------------------------
(***************************************************************************)
(* Theorems about Submission, for any number of files, attempts and late   *)
(* writes.                                                                 *)
(***************************************************************************)
EXTENDS Submission, FiniteSetTheorems, TLAPS

\* Only the parent's own terminal write, and late copies of it, make the
\* submission terminal.
TerminalKnown ==
  submission.status \in SubmissionTerminal \/ MarkTerminalWrite \in late
    => parent = "completed"

\* gather has returned: every child is heard.
ChildrenHeard ==
  parent \in {"mark_terminal", "completed"} => \A f \in File : child[f] \in ChildClosed

\* What the parent is told of a child is what the child wrote last.
OutcomesKnown ==
  \A f \in File :
    /\ child[f] = "succeeded" => status[f] = "SUCCEEDED"
    /\ child[f] = "failed" => status[f] = "FAILED"
    /\ child[f] = "killed" /\ parent # "terminated" => stopped[f]

\* A row that no late write can touch is as its child or the repair pass left it.
RowsKnown ==
  \A f \in File \ Overtaken :
    /\ row[f] = status[f] \/ (parent = "completed" /\ row[f] = "FAILED" /\ child[f] = "killed")
    /\ parent = "completed" => row[f] \in FileTerminal

CountsKnown ==
  /\ parent = "completed" =>
       /\ submission.succeeded_count = Cardinality(Succeeded)
       /\ submission.failed_count = Cardinality(Failed)
  /\ submission.status \in SubmissionTerminal => submission = Rollup

SubmissionInv ==
  /\ TypeOK
  /\ late \subseteq outlived
  /\ TerminalKnown /\ ChildrenHeard /\ OutcomesKnown /\ RowsKnown /\ CountsKnown

-----------------------------------------------------------------------------
LEMMA RollupTyped == Rollup \in SubmissionRow /\ Rollup.status \in SubmissionTerminal
<1>1. Succeeded \subseteq File /\ Failed \subseteq File  BY DEF Succeeded, Failed
<1>2. Cardinality(File) \in Nat  BY FS_CardinalityType, FileAssumption
<1>3. Cardinality(Succeeded) \in 0 .. Cardinality(File)
  BY <1>1, <1>2, FS_Subset, FS_CardinalityType, FileAssumption
<1>4. Cardinality(Failed) \in 0 .. Cardinality(File)
  BY <1>1, <1>2, FS_Subset, FS_CardinalityType, FileAssumption
<1>. QED  BY <1>3, <1>4 DEF Rollup, SubmissionRow, SubmissionTerminal

LEMMA CountsCoverFiles == Cardinality(Succeeded) + Cardinality(Failed) = Cardinality(File)
<1>1. Succeeded \subseteq File /\ Failed = File \ Succeeded  BY DEF Succeeded, Failed
<1>2. IsFiniteSet(Succeeded) /\ Succeeded \cap File = Succeeded
  BY <1>1, FS_Subset, FileAssumption
<1>3. Cardinality(File \ Succeeded) = Cardinality(File) - Cardinality(Succeeded)
  BY <1>2, FS_Difference, FileAssumption
<1>. QED  BY <1>1, <1>2, <1>3, FS_CardinalityType, FileAssumption

LEMMA OutlivedGrow ==
  ASSUME NEW w \in Write, late \in SUBSET Write, outlived \in SUBSET Write,
         late \subseteq outlived, MayOutlive(w)
  PROVE  /\ late' \in SUBSET Write /\ outlived' \in SUBSET Write
         /\ late' \subseteq outlived' /\ late' \subseteq late \cup {w}
         /\ Overtaken \subseteq Overtaken'
BY DEF MayOutlive, Overtaken

LEMMA InitInv == Init => SubmissionInv
<1>. SUFFICES ASSUME Init PROVE SubmissionInv  OBVIOUS
<1>1. Cardinality(File) \in Nat  BY FS_CardinalityType, FileAssumption
<1>. QED
  BY <1>1, MaxAttemptsAssumption
  DEF Init, SubmissionInv, TypeOK, FileTypeOK, ParentState, FileStatus, SubmissionRow,
      SubmissionTerminal, TerminalKnown, ChildrenHeard, OutcomesKnown, RowsKnown,
      CountsKnown, ChildClosed, ChildOpen, Overtaken, MarkTerminalWrite, FileTerminal

-----------------------------------------------------------------------------
(* The three writes, apart. *)

LEMMA ApplyFile ==
  ASSUME NEW w \in FileWrite, Apply(w)
  PROVE  row' = [row EXCEPT ![w.file] = w.to] /\ submission' = submission
<1>1. w.what = "file"  BY DEF FileWrite
<1>. QED  BY <1>1 DEF Apply

LEMMA ApplyRunning ==
  ASSUME Apply(MarkRunningWrite)
  PROVE  submission' = [submission EXCEPT !.status = "RUNNING"] /\ row' = row
BY DEF Apply, MarkRunningWrite

LEMMA ApplyTerminal ==
  ASSUME Apply(MarkTerminalWrite)
  PROVE  submission' = Rollup /\ row' = Repaired
BY DEF Apply, MarkTerminalWrite

LEMMA WritesDiffer ==
  ASSUME NEW w \in FileWrite
  PROVE  w # MarkRunningWrite /\ w # MarkTerminalWrite /\ MarkRunningWrite # MarkTerminalWrite
<1>1. w.what = "file"  BY DEF FileWrite
<1>. QED  BY <1>1 DEF MarkRunningWrite, MarkTerminalWrite

\* A child step needs a child that is not closed, so it comes before gather ends.
LEMMA OpenMeansEarly ==
  ASSUME SubmissionInv, NEW f \in File, child[f] \notin ChildClosed
  PROVE  /\ parent \notin {"mark_terminal", "completed"}
         /\ submission.status \notin SubmissionTerminal
         /\ MarkTerminalWrite \notin late
BY DEF SubmissionInv, ChildrenHeard, TerminalKnown

-----------------------------------------------------------------------------
LEMMA StutterKeeps ==
  ASSUME SubmissionInv, UNCHANGED vars
  PROVE  SubmissionInv'
BY DEF SubmissionInv, TypeOK, FileTypeOK, TerminalKnown, ChildrenHeard, OutcomesKnown,
       RowsKnown, CountsKnown, Overtaken, Succeeded, Failed, Rollup, vars, fileVars

LEMMA MarkRunningKeeps ==
  ASSUME SubmissionInv, MarkSubmissionRunning
  PROVE  SubmissionInv'
<1>. USE DEF SubmissionInv, MarkSubmissionRunning, fileVars
<1>1. submission' = [submission EXCEPT !.status = "RUNNING"] /\ row' = row
  BY ApplyRunning
<1>2. MarkRunningWrite \in Write  BY DEF Write
<1>3. /\ late' \in SUBSET Write /\ outlived' \in SUBSET Write
      /\ late' \subseteq outlived' /\ late' \subseteq late \cup {MarkRunningWrite}
      /\ Overtaken \subseteq Overtaken'
  BY <1>2, OutlivedGrow DEF TypeOK
<1>4. TypeOK'
  BY <1>1, <1>3 DEF TypeOK, FileTypeOK, ParentState, SubmissionRow, SubmissionTerminal
<1>5. TerminalKnown'
  <2>1. submission'.status = "RUNNING"  BY <1>1 DEF TypeOK, SubmissionRow
  <2>2. MarkTerminalWrite \notin late
    BY DEF TerminalKnown
  <2>3. MarkTerminalWrite \notin late'
    BY <2>2, <1>3 DEF MarkTerminalWrite, MarkRunningWrite
  <2>. QED  BY <2>1, <2>3 DEF TerminalKnown, SubmissionTerminal
<1>6. ChildrenHeard' /\ OutcomesKnown'
  BY DEF ChildrenHeard, OutcomesKnown
<1>7. RowsKnown'
  BY <1>1, <1>3 DEF RowsKnown
<1>8. CountsKnown'
  BY <1>1 DEF CountsKnown, TypeOK, SubmissionRow, SubmissionTerminal
<1>. QED  BY <1>3, <1>4, <1>5, <1>6, <1>7, <1>8

LEMMA StartChildKeeps ==
  ASSUME SubmissionInv, NEW f \in File, StartChild(f)
  PROVE  SubmissionInv'
<1>. USE DEF SubmissionInv, StartChild
<1>1. Overtaken' = Overtaken  BY DEF Overtaken
<1>2. TypeOK'  BY DEF TypeOK, FileTypeOK, ChildOpen
<1>3. TerminalKnown' /\ ChildrenHeard'  BY DEF TerminalKnown, ChildrenHeard
<1>4. OutcomesKnown'  BY DEF OutcomesKnown, TypeOK, FileTypeOK
<1>5. RowsKnown'  BY <1>1 DEF RowsKnown
<1>6. CountsKnown'  BY <1>3 DEF CountsKnown, TerminalKnown
<1>. QED  BY <1>2, <1>3, <1>4, <1>5, <1>6

LEMMA ChildWritesKeeps ==
  ASSUME SubmissionInv, NEW f \in File, ChildWrites(f)
  PROVE  SubmissionInv'
<1>. DEFINE w == [what |-> "file", file |-> f, to |-> status'[f]]
<1>. USE DEF SubmissionInv
<1>1. /\ Begin(f) \/ Settle(f)
      /\ Apply(w) /\ MayOutlive(w) /\ parent' = parent
  BY DEF ChildWrites
<1>2. /\ child[f] \in ChildOpen /\ child' \in [File -> {"not_started"} \cup ChildOpen \cup ChildClosed]
      /\ \E s \in {"RUNNING", "SUCCEEDED", "FAILED"} : status' = [status EXCEPT ![f] = s]
      /\ child'[f] = "running" /\ \A g \in File \ {f} : child'[g] = child[g]
      /\ attempts' = attempts /\ stopped' = stopped
  BY <1>1 DEF Begin, Settle, TypeOK, FileTypeOK, ChildOpen, FileTerminal
<1>3. /\ status' \in [File -> FileStatus] /\ status'[f] \in FileStatus \ {"PENDING"}
      /\ \A g \in File \ {f} : status'[g] = status[g]
  BY <1>2 DEF TypeOK, FileTypeOK, FileStatus, FileTerminal
<1>4. w \in FileWrite /\ w.file = f /\ w.to = status'[f]
  BY <1>3 DEF FileWrite
<1>5. row' = [row EXCEPT ![f] = status'[f]] /\ submission' = submission
  BY <1>1, <1>4, ApplyFile
<1>6. /\ late' \in SUBSET Write /\ outlived' \in SUBSET Write
      /\ late' \subseteq outlived' /\ late' \subseteq late \cup {w}
      /\ Overtaken \subseteq Overtaken'
  BY <1>1, <1>4, OutlivedGrow DEF TypeOK, Write
<1>7. child[f] \notin ChildClosed /\ child'[f] \notin ChildClosed
  BY <1>2 DEF ChildOpen, ChildClosed
<1>8. /\ parent \notin {"mark_terminal", "completed"}
      /\ submission.status \notin SubmissionTerminal /\ MarkTerminalWrite \notin late
  BY <1>7, OpenMeansEarly
<1>9. TypeOK'
  BY <1>1, <1>2, <1>3, <1>5, <1>6 DEF TypeOK, FileTypeOK
<1>10. MarkTerminalWrite \notin late'
  BY <1>4, <1>6, <1>8, WritesDiffer
<1>11. TerminalKnown' /\ ChildrenHeard' /\ CountsKnown'
  BY <1>1, <1>5, <1>8, <1>10 DEF TerminalKnown, ChildrenHeard, CountsKnown
<1>12. OutcomesKnown'
  BY <1>1, <1>2, <1>3 DEF OutcomesKnown
<1>13. RowsKnown'
  BY <1>1, <1>3, <1>5, <1>6, <1>8 DEF RowsKnown, TypeOK
<1>. QED  BY <1>6, <1>9, <1>11, <1>12, <1>13

LEMMA ChildClosesKeeps ==
  ASSUME SubmissionInv, NEW f \in File, ChildCloses(f)
  PROVE  SubmissionInv'
<1>. USE DEF SubmissionInv, ChildCloses
<1>1. /\ child[f] = "running" /\ status' = status /\ stopped' = stopped
      /\ \A g \in File \ {f} : child'[g] = child[g]
      /\ child'[f] = "succeeded" => status[f] = "SUCCEEDED"
      /\ child'[f] = "failed" => status[f] = "FAILED"
      /\ child'[f] # "killed"
  BY DEF Retry, NextAttempt, Close, TypeOK, FileTypeOK, FileTerminal
<1>2. Overtaken' = Overtaken  BY DEF Overtaken
<1>3. TypeOK'
  BY MaxAttemptsAssumption
  DEF TypeOK, FileTypeOK, Retry, NextAttempt, Close, ChildOpen, ChildClosed
<1>4. /\ parent \notin {"mark_terminal", "completed"}
      /\ submission.status \notin SubmissionTerminal /\ MarkTerminalWrite \notin late
  BY <1>1, OpenMeansEarly DEF ChildClosed
<1>5. TerminalKnown' /\ ChildrenHeard' /\ CountsKnown'
  BY <1>4 DEF TerminalKnown, ChildrenHeard, CountsKnown
<1>6. OutcomesKnown'  BY <1>1 DEF OutcomesKnown
<1>7. RowsKnown'  BY <1>1, <1>2, <1>4 DEF RowsKnown
<1>. QED  BY <1>3, <1>5, <1>6, <1>7

LEMMA ChildStoppedKeeps ==
  ASSUME SubmissionInv, NEW f \in File, ChildStopped(f)
  PROVE  SubmissionInv'
<1>. USE DEF SubmissionInv
<1>1. /\ HardStop(f) /\ parent' = parent /\ row' = row /\ submission' = submission
      /\ \/ late' = late /\ outlived' = outlived
         \/ \E to \in Pending(f) : MayOutlive([what |-> "file", file |-> f, to |-> to])
  BY DEF ChildStopped
<1>2. /\ child[f] \in ChildOpen /\ status' = status
      /\ stopped'[f] /\ \A g \in File \ {f} : child'[g] = child[g] /\ stopped'[g] = stopped[g]
      /\ child'[f] \in {"starting", "killed"}
  BY <1>1 DEF HardStop, NextAttempt, TypeOK, FileTypeOK
<1>3. /\ late' \in SUBSET Write /\ outlived' \in SUBSET Write
      /\ late' \subseteq outlived' /\ Overtaken \subseteq Overtaken'
      /\ MarkTerminalWrite \in late' => MarkTerminalWrite \in late
  <2>1. CASE late' = late /\ outlived' = outlived
    BY <2>1 DEF TypeOK, Overtaken
  <2>2. ASSUME NEW to \in Pending(f), MayOutlive([what |-> "file", file |-> f, to |-> to])
        PROVE  <1>3
    <3>. DEFINE w == [what |-> "file", file |-> f, to |-> to]
    <3>1. to \in FileStatus \ {"PENDING"}
      BY <2>2 DEF Pending, FileStatus, FileTerminal
    <3>2. w \in FileWrite  BY <3>1 DEF FileWrite
    <3>3. /\ late' \in SUBSET Write /\ outlived' \in SUBSET Write
          /\ late' \subseteq outlived' /\ late' \subseteq late \cup {w}
          /\ Overtaken \subseteq Overtaken'
      BY <2>2, <3>2, OutlivedGrow DEF TypeOK, Write
    <3>. QED  BY <3>2, <3>3, WritesDiffer
  <2>. QED  BY <1>1, <2>1, <2>2
<1>4. TypeOK'
  BY <1>1, <1>3, MaxAttemptsAssumption
  DEF TypeOK, FileTypeOK, HardStop, NextAttempt, ChildOpen, ChildClosed
<1>5. /\ parent \notin {"mark_terminal", "completed"}
      /\ submission.status \notin SubmissionTerminal /\ MarkTerminalWrite \notin late
  BY <1>2, OpenMeansEarly DEF ChildClosed, ChildOpen
<1>6. TerminalKnown' /\ ChildrenHeard' /\ CountsKnown'
  BY <1>1, <1>3, <1>5 DEF TerminalKnown, ChildrenHeard, CountsKnown
<1>7. OutcomesKnown'  BY <1>1, <1>2 DEF OutcomesKnown
<1>8. RowsKnown'  BY <1>1, <1>2, <1>3, <1>5 DEF RowsKnown
<1>. QED  BY <1>3, <1>4, <1>6, <1>7, <1>8

-----------------------------------------------------------------------------
LEMMA GatherKeeps ==
  ASSUME SubmissionInv, Gather
  PROVE  SubmissionInv'
<1>. USE DEF SubmissionInv, Gather, fileVars
<1>1. Overtaken' = Overtaken  BY DEF Overtaken
<1>2. TypeOK'  BY DEF TypeOK, FileTypeOK, ParentState
<1>3. TerminalKnown'  BY DEF TerminalKnown
<1>4. ChildrenHeard'  BY DEF ChildrenHeard, GatherReturns
<1>5. OutcomesKnown'  BY DEF OutcomesKnown
<1>6. RowsKnown'  BY <1>1 DEF RowsKnown
<1>7. CountsKnown'  BY DEF CountsKnown, Rollup, Succeeded, Failed
<1>. QED  BY <1>2, <1>3, <1>4, <1>5, <1>6, <1>7

\* The repair pass leaves no row of a closed child open, and touches none that
\* its child or an earlier pass has settled.
LEMMA RepairSettles ==
  ASSUME SubmissionInv, ChildrenHeard, parent \in {"mark_terminal", "completed"},
         NEW f \in File \ Overtaken
  PROVE  /\ Repaired[f] \in FileTerminal
         /\ \/ Repaired[f] = status[f]
            \/ Repaired[f] = "FAILED" /\ child[f] = "killed"
<1>1. Repaired[f] = IF row[f] \in {"PENDING", "RUNNING"} THEN "FAILED" ELSE row[f]
  BY DEF Repaired
<1>2. child[f] \in ChildClosed  BY DEF ChildrenHeard
<1>3. row[f] \in FileStatus  BY DEF SubmissionInv, TypeOK
<1>4. row[f] = status[f] \/ (row[f] = "FAILED" /\ child[f] = "killed")
  BY DEF SubmissionInv, RowsKnown
<1>5. child[f] \in {"succeeded", "failed"} => status[f] \in FileTerminal
  BY DEF SubmissionInv, OutcomesKnown, FileTerminal
<1>. QED
  BY <1>1, <1>2, <1>3, <1>4, <1>5 DEF FileStatus, FileTerminal, ChildClosed

LEMMA RepairTyped ==
  ASSUME TypeOK
  PROVE  Repaired \in [File -> FileStatus]
BY DEF TypeOK, Repaired, FileStatus, FileTerminal

LEMMA MarkTerminalKeeps ==
  ASSUME SubmissionInv, MarkSubmissionTerminal
  PROVE  SubmissionInv'
<1>. USE DEF SubmissionInv, MarkSubmissionTerminal, fileVars
<1>1. submission' = Rollup /\ row' = Repaired  BY ApplyTerminal
<1>2. MarkTerminalWrite \in Write  BY DEF Write
<1>3. /\ late' \in SUBSET Write /\ outlived' \in SUBSET Write
      /\ late' \subseteq outlived' /\ Overtaken \subseteq Overtaken'
  BY <1>2, OutlivedGrow DEF TypeOK
<1>4. TypeOK'
  BY <1>1, <1>3, RollupTyped, RepairTyped DEF TypeOK, FileTypeOK, ParentState
<1>5. TerminalKnown' /\ ChildrenHeard'
  BY DEF TerminalKnown, ChildrenHeard
<1>6. OutcomesKnown'  BY DEF OutcomesKnown
<1>7. RowsKnown'  BY <1>1, <1>3, RepairSettles DEF RowsKnown
<1>8. CountsKnown'
  BY <1>1 DEF CountsKnown, Rollup, Succeeded, Failed
<1>. QED  BY <1>3, <1>4, <1>5, <1>6, <1>7, <1>8

LEMMA LateWriteKeeps ==
  ASSUME SubmissionInv, LateWriteLands
  PROVE  SubmissionInv'
<1>. USE DEF SubmissionInv, fileVars
<1>1. PICK w \in late : Apply(w) /\ late' = late \ {w}  BY DEF LateWriteLands
<1>2. UNCHANGED <<status, child, attempts, stopped, parent, outlived>>
  BY DEF LateWriteLands
<1>3. late' \subseteq outlived' /\ late' \in SUBSET Write /\ Overtaken' = Overtaken
  BY <1>1, <1>2 DEF TypeOK, Overtaken
<1>4. ChildrenHeard' /\ OutcomesKnown'  BY <1>2 DEF ChildrenHeard, OutcomesKnown
<1>5. w \in FileWrite \/ w = MarkRunningWrite \/ w = MarkTerminalWrite
  BY <1>1 DEF TypeOK, Write
<1>6. CASE w \in FileWrite
  <2>1. row' = [row EXCEPT ![w.file] = w.to] /\ submission' = submission
    BY <1>1, <1>6, ApplyFile
  <2>2. w.file \in Overtaken /\ w.to \in FileStatus
    BY <1>1, <1>6 DEF Overtaken, FileWrite
  <2>3. TypeOK'  BY <1>2, <1>3, <2>1, <2>2 DEF TypeOK, FileTypeOK
  <2>4. TerminalKnown' /\ CountsKnown'
    BY <1>1, <1>2, <2>1 DEF TerminalKnown, CountsKnown, Rollup, Succeeded, Failed
  <2>5. RowsKnown'  BY <1>2, <1>3, <2>1, <2>2 DEF RowsKnown, TypeOK
  <2>. QED  BY <1>3, <1>4, <2>3, <2>4, <2>5
<1>7. CASE w = MarkRunningWrite
  <2>1. submission' = [submission EXCEPT !.status = "RUNNING"] /\ row' = row
    BY <1>1, <1>7, ApplyRunning
  <2>2. TypeOK'
    BY <1>2, <1>3, <2>1 DEF TypeOK, FileTypeOK, SubmissionRow, SubmissionTerminal
  <2>3. submission'.status = "RUNNING"  BY <2>1 DEF TypeOK, SubmissionRow
  <2>4. TerminalKnown'
    BY <1>1, <1>2, <2>3 DEF TerminalKnown, SubmissionTerminal
  <2>5. CountsKnown'
    BY <1>2, <2>1, <2>3
    DEF CountsKnown, Succeeded, Failed, TypeOK, SubmissionRow, SubmissionTerminal
  <2>6. RowsKnown'  BY <1>2, <1>3, <2>1 DEF RowsKnown
  <2>. QED  BY <1>3, <1>4, <2>2, <2>4, <2>5, <2>6
<1>8. CASE w = MarkTerminalWrite
  <2>1. submission' = Rollup /\ row' = Repaired  BY <1>1, <1>8, ApplyTerminal
  <2>2. parent = "completed"  BY <1>1, <1>8 DEF TerminalKnown
  <2>3. TypeOK'
    BY <1>2, <1>3, <2>1, RollupTyped, RepairTyped DEF TypeOK, FileTypeOK
  <2>4. TerminalKnown'  BY <1>2, <2>2 DEF TerminalKnown
  <2>5. CountsKnown'
    BY <1>2, <2>1 DEF CountsKnown, Rollup, Succeeded, Failed
  <2>6. RowsKnown'  BY <1>2, <1>3, <2>1, <2>2, RepairSettles DEF RowsKnown
  <2>. QED  BY <1>3, <1>4, <2>3, <2>4, <2>5, <2>6
<1>. QED  BY <1>5, <1>6, <1>7, <1>8

LEMMA TerminationKeeps ==
  ASSUME SubmissionInv, ParentTerminated
  PROVE  SubmissionInv'
<1>. USE DEF SubmissionInv, ParentTerminated
<1>1. Overtaken' = Overtaken  BY DEF Overtaken
<1>2. \A f \in File : child'[f] = IF child[f] \in ChildOpen THEN "killed" ELSE child[f]
  OBVIOUS
<1>3. TypeOK'  BY DEF TypeOK, FileTypeOK, ParentState, ChildClosed
<1>4. submission.status \notin SubmissionTerminal /\ MarkTerminalWrite \notin late
  BY DEF TerminalKnown
<1>5. TerminalKnown' /\ ChildrenHeard' /\ CountsKnown'
  BY <1>4 DEF TerminalKnown, ChildrenHeard, CountsKnown
<1>6. OutcomesKnown'  BY <1>2 DEF OutcomesKnown
<1>7. RowsKnown'  BY <1>1 DEF RowsKnown
<1>. QED  BY <1>3, <1>5, <1>6, <1>7

LEMMA StepKeeps == SubmissionInv /\ [Next]_vars => SubmissionInv'
<1>. SUFFICES ASSUME SubmissionInv, [Next]_vars PROVE SubmissionInv'  OBVIOUS
<1>1. CASE ParentStep
  BY <1>1, MarkRunningKeeps, GatherKeeps, MarkTerminalKeeps DEF ParentStep
<1>2. ASSUME NEW f \in File, ChildStep(f) \/ ChildStopped(f) PROVE SubmissionInv'
  BY <1>2, StartChildKeeps, ChildWritesKeeps, ChildClosesKeeps, ChildStoppedKeeps
  DEF ChildStep
<1>3. CASE LateWriteLands  BY <1>3, LateWriteKeeps
<1>4. CASE ParentTerminated  BY <1>4, TerminationKeeps
<1>5. CASE Ended \/ UNCHANGED vars  BY <1>5, StutterKeeps DEF Ended
<1>. QED  BY <1>1, <1>2, <1>3, <1>4, <1>5 DEF Next

THEOREM SubmissionInductive == Spec => []SubmissionInv
BY InitInv, StepKeeps, PTL DEF Spec

\* The rows, the counts and the writes in flight keep their types, whatever
\* fails, is retried or is terminated (submission.py:37-105, db.py:86-181).
THEOREM SubmissionTypeCorrect == Spec => []TypeOK
<1>1. SubmissionInv => TypeOK  BY DEF SubmissionInv
<1>. QED  BY <1>1, SubmissionInductive, PTL

-----------------------------------------------------------------------------
\* With no run timeout and no late write the rows are what the parent was told.
LEMMA RowsAgree ==
  ASSUME SubmissionInv, parent = "completed", Overtaken = {}, \A f \in File : ~stopped[f]
  PROVE  RowsSucceeded = Succeeded
<1>. SUFFICES ASSUME NEW f \in File
              PROVE  row[f] = "SUCCEEDED" <=> child[f] = "succeeded"
  BY DEF RowsSucceeded, Succeeded
<1>1. child[f] \in {"succeeded", "failed"}
  BY DEF SubmissionInv, ChildrenHeard, OutcomesKnown, ChildClosed
<1>2. row[f] = status[f]  BY <1>1 DEF SubmissionInv, RowsKnown
<1>. QED  BY <1>1, <1>2 DEF SubmissionInv, OutcomesKnown

LEMMA InvSettled == SubmissionInv => TerminalMeansSettled
<1>. SUFFICES ASSUME SubmissionInv, submission.status \in SubmissionTerminal
              PROVE  TerminalMeansSettled
  BY DEF TerminalMeansSettled
<1>1. parent = "completed" /\ submission = Rollup
  BY DEF SubmissionInv, TerminalKnown, CountsKnown
<1>2. /\ submission.succeeded_count = Cardinality(Succeeded)
      /\ submission.failed_count = Cardinality(Failed)
  BY <1>1 DEF SubmissionInv, CountsKnown
<1>3. ASSUME NEW f \in File \ Overtaken
      PROVE  row[f] \in FileTerminal /\ (child[f] = "succeeded" => row[f] = "SUCCEEDED")
  BY <1>1 DEF SubmissionInv, RowsKnown, OutcomesKnown
<1>4. Overtaken = {} /\ (\A f \in File : ~stopped[f]) =>
        submission.succeeded_count = Cardinality(RowsSucceeded)
  BY <1>1, <1>2, RowsAgree
<1>. QED  BY <1>2, <1>3, <1>4, CountsCoverFiles DEF TerminalMeansSettled

\* What a terminal submission says is settled, for any number of files, attempts
\* and late writes (submission.py:77-99, db.py:98-128, rollup.py:27-60).
THEOREM TerminalSettles == Spec => []TerminalMeansSettled
BY InvSettled, SubmissionInductive, PTL

LEMMA FinalStep ==
  ASSUME SubmissionInv, Next, submission.status \in SubmissionTerminal
  PROVE  /\ \A f \in File \ Overtaken : row'[f] = row[f]
         /\ submission' = submission \/ MarkRunningWrite \in outlived
<1>. USE DEF SubmissionInv
<1>1. parent = "completed" /\ submission = Rollup  BY DEF TerminalKnown, CountsKnown
<1>2. \A f \in File : child[f] \in ChildClosed  BY <1>1 DEF ChildrenHeard
<1>3. ~ParentStep /\ ~ParentTerminated
  BY <1>1
  DEF ParentStep, MarkSubmissionRunning, Gather, MarkSubmissionTerminal, ParentTerminated
<1>4. \A f \in File : ~ChildStep(f) /\ ~ChildStopped(f)
  BY <1>2
  DEF ChildStep, StartChild, ChildWrites, ChildCloses, ChildStopped, Begin, Settle,
      Retry, Close, HardStop, ChildOpen, ChildClosed
<1>5. CASE Ended  BY <1>5 DEF Ended, vars
<1>6. CASE LateWriteLands
  <2>1. PICK w \in late : Apply(w)  BY <1>6 DEF LateWriteLands
  <2>2. w \in outlived /\ w \in Write  BY <2>1 DEF TypeOK
  <2>3. CASE w \in FileWrite
    <3>1. row' = [row EXCEPT ![w.file] = w.to] /\ submission' = submission
      BY <2>1, <2>3, ApplyFile
    <3>2. w.file \in Overtaken  BY <2>2, <2>3 DEF Overtaken, FileWrite
    <3>. QED  BY <3>1, <3>2 DEF TypeOK
  <2>4. CASE w = MarkRunningWrite  BY <2>1, <2>2, <2>4, ApplyRunning
  <2>5. CASE w = MarkTerminalWrite
    <3>1. submission' = Rollup /\ row' = Repaired  BY <2>1, <2>5, ApplyTerminal
    <3>2. ASSUME NEW f \in File \ Overtaken PROVE Repaired[f] = row[f]
      BY <1>1 DEF Repaired, RowsKnown, FileTerminal
    <3>. QED  BY <1>1, <3>1, <3>2
  <2>. QED  BY <2>2, <2>3, <2>4, <2>5 DEF Write
<1>. QED  BY <1>3, <1>4, <1>5, <1>6 DEF Next

\* What the frontend last saw stays true, but for what a late write of just that
\* row overwrites (useSubmissionPolling.ts:77-80, submission.py:77-99).
THEOREM TerminalStays == Spec => TerminalIsFinal
<1>1. SubmissionInv /\ [Next]_vars =>
        [submission.status \in SubmissionTerminal =>
           /\ \A f \in File \ Overtaken : row'[f] = row[f]
           /\ submission' = submission \/ MarkRunningWrite \in outlived]_vars
  BY FinalStep
<1>. QED  BY <1>1, SubmissionInductive, PTL DEF Spec, TerminalIsFinal
=============================================================================
