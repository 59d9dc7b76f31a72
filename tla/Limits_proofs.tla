---------------------------- MODULE Limits_proofs ----------------------------
EXTENDS Intake, ToolOutput, SequenceTheorems, WellFoundedInduction, TLAPS
(***************************************************************************)
(* Theorems about the limits a document and a program's output are held    *)
(* to: Intake (what is accepted, and under which name) and ToolOutput      *)
(* (what of an output the model sees).                                     *)
(*                                                                         *)
(* Both count along a sequence with a recursive function.  That such a     *)
(* function exists is WalkExists; what its values are is then shown by     *)
(* induction (FromZeroOn), on a set of numbers and not on a predicate.     *)
(***************************************************************************)

\* Induction over the natural numbers.
LEMMA FromZeroOn ==
  ASSUME NEW S, 0 \in S, \A n \in Nat : n \in S => n + 1 \in S
  PROVE  Nat \subseteq S
<1>. DEFINE T == Nat \ S
<1>. SUFFICES ASSUME T # {} PROVE FALSE  OBVIOUS
<1>1. T \subseteq Nat  OBVIOUS
<1>2. PICK n \in T : \A m \in T : <<m, n>> \notin OpToRel(<, Nat)
  <2>. HIDE DEF T
  <2>. QED  BY <1>1, NatLessThanWellFounded, WFMin
<1>3. n \in Nat \ {0} /\ n - 1 \in Nat  OBVIOUS
<1>4. <<n - 1, n>> \in OpToRel(<, Nat)  BY <1>3 DEF OpToRel
<1>5. n - 1 \in S  BY <1>2, <1>3, <1>4
<1>. QED  BY <1>3, <1>5

\* f holds the values of a computation that goes step by step along 1 .. N.
Walks(f, V, base, N, step) ==
  f \in [0 .. N -> V] /\ f[0] = base /\ \A n \in 1 .. N : f[n] = step[<<n, f[n - 1]>>]

LEMMA WalkExists ==
  ASSUME NEW V, NEW base \in V, NEW N \in Nat, NEW step \in [(1 .. N) \X V -> V]
  PROVE  \E f : Walks(f, V, base, N, step)
<1>. DEFINE Upto(k, f) == f[0] = base /\ \A n \in 1 .. k : f[n] = step[<<n, f[n - 1]>>]
            S == {k \in Nat : k <= N => \E f \in [0 .. k -> V] : Upto(k, f)}
<1>1. 0 \in S
  <2>1. [n \in 0 .. 0 |-> base] \in [0 .. 0 -> V]  OBVIOUS
  <2>2. Upto(0, [n \in 0 .. 0 |-> base])  OBVIOUS
  <2>. QED  BY <2>1, <2>2
<1>2. ASSUME NEW k \in Nat, k \in S PROVE k + 1 \in S
  <2>. SUFFICES ASSUME k + 1 <= N PROVE \E g \in [0 .. k + 1 -> V] : Upto(k + 1, g)
    OBVIOUS
  <2>1. PICK f \in [0 .. k -> V] : Upto(k, f)  BY <1>2
  <2>. DEFINE g == [n \in 0 .. k + 1 |-> IF n = k + 1 THEN step[<<k + 1, f[k]>>] ELSE f[n]]
  <2>2. f[k] \in V /\ <<k + 1, f[k]>> \in (1 .. N) \X V  OBVIOUS
  <2>3. g \in [0 .. k + 1 -> V]  BY <2>2
  <2>4. g[k + 1] = step[<<k + 1, f[k]>>] /\ \A n \in 0 .. k : g[n] = f[n]  OBVIOUS
  <2>. HIDE DEF g
  <2>5. ASSUME NEW n \in 1 .. k + 1 PROVE g[n] = step[<<n, g[n - 1]>>]
    <3>1. CASE n = k + 1  BY <2>4, <3>1
    <3>2. CASE n \in 1 .. k
      <4>1. n \in 0 .. k /\ n - 1 \in 0 .. k  BY <3>2
      <4>. QED  BY <2>1, <2>4, <3>2, <4>1
    <3>. QED  BY <3>1, <3>2
  <2>6. g[0] = base  BY <2>1, <2>4
  <2>. QED  BY <2>3, <2>5, <2>6
<1>3. N \in S
  <2>. HIDE DEF S
  <2>. QED  BY <1>1, <1>2, FromZeroOn
<1>. QED  BY <1>3 DEF Walks

LEMMA SumsDefined ==
  ASSUME NEW batch \in Seq(File)
  PROVE  Sums(batch) = [n \in 0 .. Len(batch) |->
                          IF n = 0 THEN 0 ELSE Sums(batch)[n - 1] + batch[n].size]
<1>. DEFINE N == Len(batch)
            step == [p \in (1 .. N) \X Nat |-> p[2] + batch[p[1]].size]
<1>1. N \in Nat /\ \A n \in 1 .. N : batch[n].size \in Nat
  <2>1. N \in Nat /\ \A n \in 1 .. N : batch[n] \in File  OBVIOUS
  <2>2. \A f \in File : f.size \in Nat  BY DEF File
  <2>. QED  BY <2>1, <2>2
<1>2. step \in [(1 .. N) \X Nat -> Nat]  BY <1>1
<1>3. PICK f : Walks(f, Nat, 0, N, step)
  <2>. HIDE DEF step, N
  <2>1. N \in Nat /\ 0 \in Nat  BY <1>1
  <2>. QED  BY <2>1, <1>2, WalkExists
<1>4. /\ f \in [0 .. N -> Nat] /\ f[0] = 0
      /\ \A n \in 1 .. N : f[n] = f[n - 1] + batch[n].size
  <2>1. /\ f \in [0 .. N -> Nat] /\ f[0] = 0
        /\ \A n \in 1 .. N : f[n] = step[<<n, f[n - 1]>>]
    <3>. HIDE DEF step, N
    <3>. QED  BY <1>3 DEF Walks
  <2>2. ASSUME NEW n \in 1 .. N PROVE <<n, f[n - 1]>> \in (1 .. N) \X Nat
    <3>. HIDE DEF step, N
    <3>1. n - 1 \in 0 .. N  BY <1>1
    <3>. QED  BY <2>1, <3>1
  <2>. QED  BY <2>1, <2>2
<1>5. f = [n \in 0 .. N |-> IF n = 0 THEN 0 ELSE f[n - 1] + batch[n].size]
  BY <1>1, <1>4
<1>. HIDE DEF step
<1>. QED  BY <1>5 DEF Sums

LEMMA SumsTyped ==
  ASSUME NEW batch \in Seq(File)
  PROVE  /\ Sums(batch) \in [0 .. Len(batch) -> Nat] /\ Sums(batch)[0] = 0
         /\ \A n \in 1 .. Len(batch) : Sums(batch)[n] = Sums(batch)[n - 1] + batch[n].size
<1>. DEFINE N == Len(batch)
            S == {k \in Nat : k <= N => Sums(batch)[k] \in Nat}
<1>1. N \in Nat /\ \A n \in 1 .. N : batch[n].size \in Nat
  <2>1. N \in Nat /\ \A n \in 1 .. N : batch[n] \in File  OBVIOUS
  <2>2. \A f \in File : f.size \in Nat  BY DEF File
  <2>. QED  BY <2>1, <2>2
<1>2. /\ DOMAIN Sums(batch) = 0 .. N /\ Sums(batch)[0] = 0
      /\ \A n \in 1 .. N : Sums(batch)[n] = Sums(batch)[n - 1] + batch[n].size
  BY <1>1, SumsDefined
<1>3. Nat \subseteq S
  <2>1. 0 \in S  BY <1>2
  <2>2. ASSUME NEW k \in Nat, k \in S PROVE k + 1 \in S
    <3>. SUFFICES ASSUME k + 1 <= N PROVE Sums(batch)[k + 1] \in Nat  OBVIOUS
    <3>1. k + 1 \in 1 .. N /\ k + 1 - 1 = k /\ Sums(batch)[k] \in Nat  BY <1>1, <2>2
    <3>. QED  BY <1>1, <1>2, <3>1
  <2>. HIDE DEF S
  <2>. QED  BY <2>1, <2>2, FromZeroOn
<1>4. \A n \in 0 .. N : Sums(batch)[n] \in Nat  BY <1>1, <1>3
<1>5. Sums(batch) \in [0 .. N -> Nat]
  BY <1>2, <1>4, SumsDefined
<1>. QED  BY <1>2, <1>5

\* No file takes bytes away.
LEMMA SumsGrow ==
  ASSUME NEW batch \in Seq(File), NEW m \in 0 .. Len(batch), NEW n \in m .. Len(batch)
  PROVE  Sums(batch)[m] <= Sums(batch)[n]
<1>. DEFINE N == Len(batch)
            S == {k \in Nat : m + k <= N => Sums(batch)[m] <= Sums(batch)[m + k]}
<1>1. N \in Nat /\ \A k \in 1 .. N : batch[k].size \in Nat
  <2>1. N \in Nat /\ \A k \in 1 .. N : batch[k] \in File  OBVIOUS
  <2>2. \A f \in File : f.size \in Nat  BY DEF File
  <2>. QED  BY <2>1, <2>2
<1>2. 0 \in S  BY SumsTyped
<1>3. ASSUME NEW k \in Nat, k \in S PROVE k + 1 \in S
  <2>. SUFFICES ASSUME m + (k + 1) <= N
                PROVE  Sums(batch)[m] <= Sums(batch)[m + (k + 1)]
    OBVIOUS
  <2>1. /\ m + (k + 1) \in 1 .. N /\ m + (k + 1) - 1 = m + k /\ m + k \in 0 .. N
        /\ Sums(batch)[m] <= Sums(batch)[m + k]
    BY <1>1, <1>3
  <2>2. Sums(batch)[m + (k + 1)] = Sums(batch)[m + k] + batch[m + (k + 1)].size
    BY <2>1, SumsTyped
  <2>3. Sums(batch)[m] \in Nat /\ Sums(batch)[m + k] \in Nat  BY <2>1, SumsTyped
  <2>. QED  BY <1>1, <2>1, <2>2, <2>3
<1>4. n - m \in S
  <2>. HIDE DEF S
  <2>. QED  BY <1>1, <1>2, <1>3, FromZeroOn
<1>. QED  BY <1>1, <1>4

\* So many files of a size have so many times the bytes at most.
LEMMA SumsBounded ==
  ASSUME NEW batch \in Seq(File), NEW M \in Nat, NEW n \in 0 .. Len(batch),
         \A i \in 1 .. n : batch[i].size <= M
  PROVE  Sums(batch)[n] <= n * M
<1>. DEFINE S == {k \in Nat : k <= n => Sums(batch)[k] <= k * M}
<1>1. n \in Nat /\ \A k \in 1 .. n : batch[k].size \in Nat
  <2>1. n \in Nat /\ \A k \in 1 .. n : batch[k] \in File  OBVIOUS
  <2>2. \A f \in File : f.size \in Nat  BY DEF File
  <2>. QED  BY <2>1, <2>2
<1>2. 0 \in S  BY SumsTyped
<1>3. ASSUME NEW k \in Nat, k \in S PROVE k + 1 \in S
  <2>. SUFFICES ASSUME k + 1 <= n PROVE Sums(batch)[k + 1] <= (k + 1) * M  OBVIOUS
  <2>1. /\ k + 1 \in 1 .. n /\ k + 1 - 1 = k /\ Sums(batch)[k] <= k * M
        /\ k + 1 \in 1 .. Len(batch) /\ k \in 0 .. Len(batch)
    BY <1>1, <1>3
  <2>2. Sums(batch)[k + 1] = Sums(batch)[k + 1 - 1] + batch[k + 1].size /\ Sums(batch)[k] \in Nat
    BY <2>1, SumsTyped
  <2>3. (k + 1) * M = k * M + M /\ k * M \in Nat  OBVIOUS
  <2>4. batch[k + 1].size <= M  BY <2>1
  <2>. QED  BY <1>1, <2>1, <2>2, <2>3, <2>4
<1>4. n \in S
  <2>. HIDE DEF S
  <2>. QED  BY <1>1, <1>2, <1>3, FromZeroOn
<1>. QED  BY <1>1, <1>4

-----------------------------------------------------------------------------
(* What acceptFiles stages.                                                  *)
LEMMA AcceptedTyped ==
  ASSUME NEW batch \in Seq(File)
  PROVE  Accepted(batch)[Len(batch)] \in Seq({f \in File : PanelAccepts(f)})
<1>. DEFINE N == Len(batch)
            V == Seq({f \in File : PanelAccepts(f)})
            step == [p \in (1 .. N) \X V |->
                       IF PanelAccepts(batch[p[1]]) THEN Append(p[2], batch[p[1]]) ELSE p[2]]
            After(f, n) == IF n = 0 THEN << >>
                           ELSE IF PanelAccepts(batch[n]) THEN Append(f[n - 1], batch[n])
                           ELSE f[n - 1]
            S == {k \in Nat : k <= N => Accepted(batch)[k] \in V}
<1>1. N \in Nat /\ << >> \in V /\ \A n \in 1 .. N : batch[n] \in File  OBVIOUS
<1>2. ASSUME NEW n \in 1 .. N, NEW v \in V
      PROVE  (IF PanelAccepts(batch[n]) THEN Append(v, batch[n]) ELSE v) \in V
  BY <1>1
<1>. HIDE DEF V
<1>3. step \in [(1 .. N) \X V -> V]  BY <1>2
<1>4. PICK f : Walks(f, V, << >>, N, step)
  <2>. HIDE DEF step, N
  <2>1. N \in Nat /\ << >> \in V  BY <1>1
  <2>. QED  BY <2>1, <1>3, WalkExists
<1>5. f \in [0 .. N -> V] /\ \A n \in 0 .. N : f[n] = After(f, n)
  <2>1. ASSUME NEW n \in 1 .. N PROVE f[n] = After(f, n)
    <3>1. <<n, f[n - 1]>> \in (1 .. N) \X V  BY <1>1, <1>4 DEF Walks
    <3>. QED  BY <1>4, <3>1 DEF Walks
  <2>2. f \in [0 .. N -> V] /\ f[0] = << >>  BY <1>4 DEF Walks
  <2>3. f[0] = After(f, 0)  BY <2>2
  <2>4. \A n \in 0 .. N : n = 0 \/ n \in 1 .. N  BY <1>1
  <2>. HIDE DEF After
  <2>. QED  BY <2>1, <2>2, <2>3, <2>4
<1>6. f = [n \in 0 .. N |-> After(f, n)]
  <2>. HIDE DEF After
  <2>. QED  BY <1>1, <1>5
<1>. HIDE DEF step
<1>7. Accepted(batch) = [n \in 0 .. N |-> After(Accepted(batch), n)]
  BY <1>6 DEF Accepted
<1>8. 0 \in S  BY <1>1, <1>7
<1>9. ASSUME NEW k \in Nat, k \in S PROVE k + 1 \in S
  <2>. SUFFICES ASSUME k + 1 <= N PROVE Accepted(batch)[k + 1] \in V  OBVIOUS
  <2>1. k + 1 \in 1 .. N /\ k + 1 - 1 = k /\ Accepted(batch)[k] \in V  BY <1>1, <1>9
  <2>2. Accepted(batch)[k + 1] = After(Accepted(batch), k + 1)
    <3>. HIDE DEF After
    <3>. QED  BY <1>7, <2>1, <1>1
  <2>. QED  BY <1>2, <2>1, <2>2
<1>10. N \in S
  <2>. HIDE DEF S
  <2>. QED  BY <1>1, <1>8, <1>9, FromZeroOn
<1>. QED  BY <1>1, <1>10 DEF V

-----------------------------------------------------------------------------
(* What holds of a request while it lasts.                                   *)

\* Nothing is read before the request has been checked.
Unread ==
  at \in {"dropped", "staged", "sent"} => next = 0 /\ bytes_read = 0 /\ total_bytes = 0

\* The panel has staged what it accepts, and sends something.
Staged ==
  origin = "panel" =>
    /\ at # "dropped" => \A i \in 1 .. Len(files) : PanelAccepts(files[i])
    /\ at \notin {"dropped", "staged"} => files # << >>

\* What is uploaded has passed the checks of number and name, and what has been
\* read of it is within the limits.
Uploading ==
  at = "uploading" =>
    /\ Len(files) \in 1 .. settings.max_files
    /\ \A i \in 1 .. Len(files) : ValidExtension(files[i].name)
    /\ next \in 1 .. Len(files)
    /\ \A i \in 1 .. next - 1 : files[i].size <= settings.max_file_bytes
    /\ bytes_read <= files[next].size /\ bytes_read <= settings.max_file_bytes
    /\ total_bytes = Sums(files)[next - 1]
    /\ total_bytes <= settings.max_submission_bytes

IntakeInv == TypeOK /\ Unread /\ Staged /\ Uploading /\ StreamDecides

LEMMA FilesTyped ==
  ASSUME NEW batch \in Seq(File)
  PROVE  /\ Len(batch) \in Nat /\ (batch # << >> <=> Len(batch) \in Nat \ {0})
         /\ DOMAIN batch = 1 .. Len(batch)
         /\ \A i \in 1 .. Len(batch) :
              batch[i] \in File /\ batch[i].size \in Nat /\ batch[i].name \in Seq(Token)
<1>1. Len(batch) \in Nat /\ \A i \in 1 .. Len(batch) : batch[i] \in File  OBVIOUS
<1>2. \A f \in File : f.size \in Nat /\ f.name \in Seq(Token)  BY DEF File
<1>3. batch # << >> <=> Len(batch) \in Nat \ {0}
  <2>1. ASSUME Len(batch) = 0 PROVE batch = << >>
    BY <2>1, SeqEqual, EmptySeq
  <2>. QED  BY <1>1, <2>1, EmptySeq
<1>4. DOMAIN batch = 1 .. Len(batch)  OBVIOUS
<1>. QED  BY <1>1, <1>2, <1>3, <1>4

LEMMA SettingTyped ==
  ASSUME NEW s \in Settings
  PROVE  s.max_files \in Nat /\ s.max_file_bytes \in Nat /\ s.max_submission_bytes \in Nat
BY SettingsAssumption

LEMMA IntakeInit == Init => IntakeInv
<1>. SUFFICES ASSUME Init PROVE IntakeInv  OBVIOUS
<1>1. files \in Seq(File)  BY BatchesAssumption DEF Init
<1>2. 0 \in 0 .. Len(files)  BY <1>1, FilesTyped
<1>3. TypeOK  BY <1>1, <1>2 DEF Init, TypeOK
<1>4. Unread  BY DEF Init, Unread
<1>5. Staged  BY DEF Init, Staged
<1>6. Uploading /\ StreamDecides  BY DEF Init, Uploading, StreamDecides
<1>. QED  BY <1>3, <1>4, <1>5, <1>6 DEF IntakeInv

LEMMA AcceptFilesKeeps == IntakeInv /\ AcceptFiles => IntakeInv'
<1>. SUFFICES ASSUME IntakeInv, AcceptFiles PROVE IntakeInv'  OBVIOUS
<1>. DEFINE V == {f \in File : PanelAccepts(f)}
<1>1. files' \in Seq(V)  BY AcceptedTyped DEF IntakeInv, TypeOK, AcceptFiles
<1>2. files' \in Seq(File)
  <2>1. V \subseteq File  OBVIOUS
  <2>. HIDE DEF V
  <2>. QED  BY <1>1, <2>1, SeqMonotonic
<1>3. \A i \in 1 .. Len(files') : files'[i] \in V
  <2>. HIDE DEF V
  <2>. QED  BY <1>1
<1>4. \A i \in 1 .. Len(files') : PanelAccepts(files[i])'
  BY <1>3 DEF AcceptFiles, PanelAccepts, PanelSize
<1>5. at' = "staged" /\ at = "dropped"  BY DEF AcceptFiles
<1>6. TypeOK' /\ Unread'
  <2>1. next' = 0 /\ 0 \in 0 .. Len(files')
    BY <1>2, FilesTyped DEF IntakeInv, Unread, AcceptFiles
  <2>. QED  BY <1>2, <1>5, <2>1 DEF IntakeInv, TypeOK, Unread, AcceptFiles
<1>7. Staged'  BY <1>4, <1>5 DEF Staged
<1>8. Uploading' /\ StreamDecides'  BY <1>5 DEF Uploading, StreamDecides
<1>. QED  BY <1>6, <1>7, <1>8 DEF IntakeInv

LEMMA SubmitKeeps == IntakeInv /\ Submit => IntakeInv'
<1>. SUFFICES ASSUME IntakeInv, Submit PROVE IntakeInv'  OBVIOUS
<1>1. TypeOK' /\ Unread'  BY DEF IntakeInv, TypeOK, Unread, Submit
<1>2. Staged'  BY DEF IntakeInv, Staged, Submit, PanelAccepts, PanelSize
<1>3. Uploading' /\ StreamDecides'  BY DEF Submit, Uploading, StreamDecides
<1>. QED  BY <1>1, <1>2, <1>3 DEF IntakeInv

LEMMA MinOfTwo ==
  ASSUME NEW a \in Int, NEW b \in Int
  PROVE  Min({a, b}) = IF a <= b THEN a ELSE b
<1>. DEFINE m == IF a <= b THEN a ELSE b
<1>1. m \in {a, b} /\ m \in Int /\ \A y \in {a, b} : m <= y  OBVIOUS
<1>2. ASSUME NEW x \in {a, b}, \A y \in {a, b} : x <= y PROVE x = m
  BY <1>2
<1>. HIDE DEF m
<1>3. Min({a, b}) = m  BY <1>1, <1>2 DEF Min
<1>. QED  BY <1>3 DEF m

\* What validate_batch says of a batch of the right number and names.
LEMMA BatchJudged ==
  ASSUME NEW batch \in Seq(File), Len(batch) \in 1 .. settings.max_files,
         \A i \in 1 .. Len(batch) : ValidExtension(batch[i].name),
         settings \in Settings
  PROVE  /\ (\E i \in 1 .. Len(batch) : batch[i].size > settings.max_file_bytes)
              => ValidateBatch(batch) = "FILE_TOO_LARGE"
         /\ (\A i \in 1 .. Len(batch) : batch[i].size <= settings.max_file_bytes)
              => ValidateBatch(batch) = IF Total(batch) > settings.max_submission_bytes
                                          THEN "SUBMISSION_TOO_LARGE" ELSE "accepted"
<1>1. batch # << >> /\ ~(Len(batch) > settings.max_files)
  BY FilesTyped, SettingTyped
<1>2. \A f \in ToSet(batch) : ValidExtension(f.name)  BY FilesTyped DEF ToSet
<1>3. (\E f \in ToSet(batch) : f.size > settings.max_file_bytes)
        <=> \E i \in 1 .. Len(batch) : batch[i].size > settings.max_file_bytes
  BY FilesTyped DEF ToSet
<1>4. \A i \in 1 .. Len(batch) : batch[i].size <= settings.max_file_bytes
                                   <=> ~(batch[i].size > settings.max_file_bytes)
  BY FilesTyped, SettingTyped
<1>. QED  BY <1>1, <1>2, <1>3, <1>4 DEF ValidateBatch

LEMMA CheckKeeps == IntakeInv /\ Check => IntakeInv'
<1>. SUFFICES ASSUME IntakeInv, Check PROVE IntakeInv'  OBVIOUS
<1>0. /\ files \in Seq(File) /\ settings \in Settings /\ at = "sent"
      /\ next = 0 /\ bytes_read = 0 /\ total_bytes = 0
      /\ files' = files /\ settings' = settings /\ bytes_read' = 0 /\ total_bytes' = 0
      /\ origin' = origin
  BY DEF IntakeInv, TypeOK, Unread, Check
<1>1. at' \in {"uploading", "answered"}  BY DEF Check, Respond
<1>2. Unread'  BY <1>1 DEF Unread
<1>3. Staged'  BY <1>0, <1>1 DEF IntakeInv, Staged, PanelAccepts, PanelSize
<1>4. CASE at' = "answered"
  <2>1. next' = 0 /\ ValidateBatch(files)' = ValidateBatch(files)
    BY <1>0, <1>4 DEF Check, Respond, ValidateBatch
  <2>2. /\ answer' \in {"NO_FILES", "TOO_MANY_FILES", "UNSUPPORTED_EXTENSION"}
        /\ answer' = ValidateBatch(files)
    <3>1. CASE files = << >> /\ Respond("NO_FILES")
      BY <3>1 DEF Respond, ValidateBatch
    <3>2. CASE Len(files) > settings.max_files /\ Respond("TOO_MANY_FILES")
      <4>1. files # << >>  BY <1>0, <3>2, FilesTyped, SettingTyped
      <4>. QED  BY <3>2, <4>1 DEF Respond, ValidateBatch
    <3>3. CASE /\ Len(files) \in 1 .. settings.max_files
               /\ \E f \in ToSet(files) : ~ValidExtension(f.name)
               /\ Respond("UNSUPPORTED_EXTENSION")
      <4>1. files # << >> /\ ~(Len(files) > settings.max_files)
        BY <1>0, <3>3, FilesTyped, SettingTyped
      <4>. QED  BY <3>3, <4>1 DEF Respond, ValidateBatch
    <3>. QED  BY <1>4, <3>1, <3>2, <3>3 DEF Check
  <2>3. TypeOK'  BY <1>0, <1>4, <2>1, <2>2 DEF IntakeInv, TypeOK
  <2>4. StreamDecides' /\ Uploading'  BY <1>4, <2>1, <2>2 DEF StreamDecides, Uploading
  <2>. QED  BY <1>2, <1>3, <2>3, <2>4 DEF IntakeInv
<1>5. CASE at' = "uploading"
  <2>1. /\ Len(files) \in 1 .. settings.max_files /\ next' = 1 /\ answer' = answer
        /\ \A f \in ToSet(files) : ValidExtension(f.name)
    BY <1>5 DEF Check, Respond
  <2>2. 1 \in 1 .. Len(files) /\ 1 \in 0 .. Len(files)  BY <1>0, <2>1, FilesTyped
  <2>3. TypeOK'  BY <1>0, <1>5, <2>1, <2>2 DEF IntakeInv, TypeOK
  <2>4. Uploading'
    <3>1. \A i \in 1 .. Len(files) : ValidExtension(files[i].name)
      BY <1>0, <2>1, FilesTyped DEF ToSet
    <3>2. 0 <= files[1].size /\ 0 <= settings.max_file_bytes /\ 0 <= settings.max_submission_bytes
      BY <1>0, <2>2, FilesTyped, SettingTyped
    <3>3. Sums(files)[1 - 1] = 0 /\ 1 .. 1 - 1 = {}  BY <1>0, SumsTyped
    <3>. QED  BY <1>0, <2>1, <2>2, <3>1, <3>2, <3>3 DEF Uploading
  <2>5. StreamDecides'  BY <1>5 DEF StreamDecides
  <2>. QED  BY <1>2, <1>3, <2>3, <2>4, <2>5 DEF IntakeInv
<1>. QED  BY <1>1, <1>4, <1>5

LEMMA ReadKeeps == IntakeInv /\ Read => IntakeInv'
<1>. SUFFICES ASSUME IntakeInv, Read PROVE IntakeInv'  OBVIOUS
<1>0. /\ files \in Seq(File) /\ settings \in Settings /\ at = "uploading"
      /\ bytes_read \in Nat /\ Uploading
      /\ files' = files /\ settings' = settings /\ next' = next /\ total_bytes' = total_bytes
      /\ origin' = origin
  BY DEF IntakeInv, TypeOK, Read
<1>1. /\ next \in 1 .. Len(files) /\ files[next].size \in Nat /\ Chunk \in Nat \ {0}
      /\ settings.max_file_bytes \in Nat
  BY <1>0, FilesTyped, SettingTyped, SizesAssumption DEF Uploading
<1>2. bytes_read' \in Nat /\ bytes_read' <= files[next].size
  <2>1. bytes_read' = IF bytes_read + Chunk <= files[next].size
                        THEN bytes_read + Chunk ELSE files[next].size
    BY <1>0, <1>1, MinOfTwo DEF Read
  <2>. QED  BY <1>0, <1>1, <2>1
<1>3. Staged'
  BY <1>0 DEF IntakeInv, Staged, Read, Respond, PanelAccepts, PanelSize
<1>4. CASE bytes_read' > settings.max_file_bytes
  <2>1. at' = "answered" /\ answer' = "FILE_TOO_LARGE"
    BY <1>0, <1>4 DEF Read, OverCap, Respond
  <2>2. files[next].size > settings.max_file_bytes  BY <1>1, <1>2, <1>4
  <2>3. ValidateBatch(files) = "FILE_TOO_LARGE"
    BY <1>0, <1>1, <2>2, BatchJudged DEF Uploading
  <2>4. ValidateBatch(files)' = ValidateBatch(files)  BY <1>0 DEF ValidateBatch
  <2>5. TypeOK' /\ Unread'  BY <1>0, <1>2, <2>1 DEF IntakeInv, TypeOK, Unread
  <2>6. Uploading' /\ StreamDecides'
    BY <2>1, <2>3, <2>4 DEF Uploading, StreamDecides
  <2>. QED  BY <1>3, <2>5, <2>6 DEF IntakeInv
<1>5. CASE bytes_read' <= settings.max_file_bytes
  <2>1. at' = "uploading" /\ answer' = answer
    BY <1>0, <1>1, <1>2, <1>5 DEF Read, OverCap
  <2>2. TypeOK' /\ Unread'  BY <1>0, <1>2, <2>1 DEF IntakeInv, TypeOK, Unread
  <2>3. Uploading'  BY <1>0, <1>2, <1>5, <2>1 DEF Uploading
  <2>4. StreamDecides'  BY <2>1 DEF StreamDecides
  <2>. QED  BY <1>3, <2>2, <2>3, <2>4 DEF IntakeInv
<1>. QED  BY <1>1, <1>2, <1>4, <1>5

LEMMA UploadedKeeps == IntakeInv /\ Uploaded => IntakeInv'
<1>. SUFFICES ASSUME IntakeInv, Uploaded PROVE IntakeInv'  OBVIOUS
<1>0. /\ files \in Seq(File) /\ settings \in Settings /\ at = "uploading" /\ Uploading
      /\ bytes_read \in Nat /\ bytes_read = files[next].size /\ total_bytes \in Nat
      /\ files' = files /\ settings' = settings /\ origin' = origin
      /\ bytes_read' = 0 /\ total_bytes' = total_bytes + bytes_read
  BY DEF IntakeInv, TypeOK, Uploaded
<1>1. /\ Len(files) \in Nat /\ next \in 1 .. Len(files)
      /\ settings.max_file_bytes \in Nat /\ settings.max_submission_bytes \in Nat
      /\ \A i \in 1 .. Len(files) : files[i].size \in Nat
  BY <1>0, FilesTyped, SettingTyped DEF Uploading
<1>2. total_bytes' = Sums(files)[next]  BY <1>0, <1>1, SumsTyped DEF Uploading
<1>3. \A i \in 1 .. next : files[i].size <= settings.max_file_bytes
  <2>1. \A i \in 1 .. next : i = next \/ i \in 1 .. next - 1  BY <1>1
  <2>. QED  BY <1>0, <1>1, <2>1 DEF Uploading
<1>4. ValidateBatch(files)' = ValidateBatch(files)  BY <1>0 DEF ValidateBatch
<1>5. Staged'
  BY <1>0 DEF IntakeInv, Staged, Uploaded, Respond, PanelAccepts, PanelSize
<1>6. total_bytes' \in Nat /\ at' # "dropped" /\ at' # "staged" /\ at' # "sent"
  BY <1>0 DEF Uploaded, Respond
<1>7. CASE total_bytes' > settings.max_submission_bytes
  <2>1. at' = "answered" /\ answer' = "SUBMISSION_TOO_LARGE" /\ next' = next
    BY <1>7 DEF Uploaded, OverCap, Respond
  <2>2. ValidateBatch(files) \in {"SUBMISSION_TOO_LARGE", "FILE_TOO_LARGE"}
    <3>1. Sums(files)[next] <= Total(files)
      <4>1. next \in 0 .. Len(files) /\ Len(files) \in next .. Len(files)  BY <1>1
      <4>. QED  BY <1>0, <4>1, SumsGrow DEF Total
    <3>2. Total(files) \in Nat
      <4>1. Len(files) \in 0 .. Len(files)  BY <1>1
      <4>. QED  BY <1>0, <4>1, SumsTyped DEF Total
    <3>3. Total(files) > settings.max_submission_bytes
      BY <1>1, <1>2, <1>6, <1>7, <3>1, <3>2
    <3>4. \/ \E i \in 1 .. Len(files) : files[i].size > settings.max_file_bytes
          \/ \A i \in 1 .. Len(files) : files[i].size <= settings.max_file_bytes
      BY <1>1
    <3>. QED  BY <1>0, <3>3, <3>4, BatchJudged DEF Uploading
  <2>3. TypeOK' /\ Unread'  BY <1>0, <1>6, <2>1 DEF IntakeInv, TypeOK, Unread
  <2>4. Uploading' /\ StreamDecides'
    BY <1>4, <2>1, <2>2, <1>0 DEF Uploading, StreamDecides
  <2>. QED  BY <1>5, <2>3, <2>4 DEF IntakeInv
<1>8. CASE total_bytes' <= settings.max_submission_bytes /\ next < Len(files)
  <2>1. at' = "uploading" /\ answer' = answer /\ next' = next + 1
    BY <1>0, <1>1, <1>6, <1>8 DEF Uploaded, OverCap
  <2>2. next' \in 1 .. Len(files) /\ next' - 1 = next  BY <1>1, <1>8, <2>1
  <2>3. TypeOK' /\ Unread'
    BY <1>0, <1>1, <1>6, <2>1, <2>2 DEF IntakeInv, TypeOK, Unread
  <2>4. Uploading'
    <3>1. 0 <= files[next'].size /\ 0 <= settings.max_file_bytes  BY <1>1, <2>2
    <3>. QED  BY <1>0, <1>2, <1>3, <1>8, <2>1, <2>2, <3>1 DEF Uploading
  <2>5. StreamDecides'  BY <2>1 DEF StreamDecides
  <2>. QED  BY <1>5, <2>3, <2>4, <2>5 DEF IntakeInv
<1>9. CASE total_bytes' <= settings.max_submission_bytes /\ ~(next < Len(files))
  <2>1. at' = "answered" /\ answer' = "accepted" /\ next' = next
    BY <1>0, <1>1, <1>6, <1>9 DEF Uploaded, OverCap, Respond
  <2>2. next = Len(files)  BY <1>1, <1>9
  <2>3. Total(files) = total_bytes'  BY <1>2, <2>2 DEF Total
  <2>4. ~(Total(files) > settings.max_submission_bytes)  BY <1>1, <1>6, <1>9, <2>3
  <2>5. ValidateBatch(files) = "accepted"
    BY <1>0, <1>3, <2>2, <2>4, BatchJudged DEF Uploading
  <2>6. TypeOK' /\ Unread'  BY <1>0, <1>6, <2>1 DEF IntakeInv, TypeOK, Unread
  <2>7. Uploading' /\ StreamDecides'
    BY <1>4, <2>1, <2>5, <1>0 DEF Uploading, StreamDecides
  <2>. QED  BY <1>5, <2>6, <2>7 DEF IntakeInv
<1>. QED  BY <1>1, <1>6, <1>7, <1>8, <1>9

LEMMA IntakeStutter == IntakeInv /\ UNCHANGED vars => IntakeInv'
BY DEF IntakeInv, TypeOK, Unread, Staged, Uploading, StreamDecides, ValidateBatch,
       PanelAccepts, PanelSize, vars

LEMMA IntakeKeeps == IntakeInv /\ [Next]_vars => IntakeInv'
BY AcceptFilesKeeps, SubmitKeeps, CheckKeeps, ReadKeeps, UploadedKeeps, IntakeStutter DEF Next

LEMMA IntakeInvHolds == Spec => []IntakeInv
BY IntakeInit, IntakeKeeps, PTL DEF Spec

\* The variables keep their types: the file whose body is read is one of the
\* batch (routes_submissions.py:193-252).
THEOREM IntakeTypeCorrect == Spec => []TypeOK
<1>1. IntakeInv => TypeOK  BY DEF IntakeInv
<1>. QED  BY <1>1, IntakeInvHolds, PTL

\* For every batch, every limit and every size of chunk, the answer to the
\* request is the first violation validate_batch finds, or the total before a
\* file that is too large (routes_submissions.py:193-252, s3.py:54-123,
\* validation.py:85-112).
THEOREM StreamDecidesAlways == Spec => []StreamDecides
<1>1. IntakeInv => StreamDecides  BY DEF IntakeInv
<1>. QED  BY <1>1, IntakeInvHolds, PTL

-----------------------------------------------------------------------------
(* Names.                                                                    *)

\* What holds of some number holds of a least one.
LEMMA LeastOf ==
  ASSUME NEW S, S \subseteq Nat, S # {}
  PROVE  \E n \in S : \A m \in S : n <= m
<1>1. PICK n \in S : \A m \in S : <<m, n>> \notin OpToRel(<, Nat)
  BY NatLessThanWellFounded, WFMin
<1>2. ASSUME NEW m \in S PROVE n <= m
  <2>1. m \in Nat /\ n \in Nat  OBVIOUS
  <2>2. ~(m < n)  BY <1>1, <2>1 DEF OpToRel
  <2>. QED  BY <2>1, <2>2
<1>. QED  BY <1>2

LEMMA MaxOf ==
  ASSUME NEW N \in Nat, NEW S, S \subseteq 1 .. N, S # {}
  PROVE  Max(S) \in S /\ \A y \in S : y <= Max(S)
<1>. DEFINE T == {N - y : y \in S}
<1>0. \A y \in S : y \in Int /\ N - y \in Nat  OBVIOUS
<1>1. T \subseteq Nat /\ T # {}  BY <1>0
<1>2. PICK t \in T : \A m \in T : t <= m
  <2>. HIDE DEF T
  <2>. QED  BY <1>1, LeastOf
<1>3. PICK x \in S : t = N - x  OBVIOUS
<1>4. ASSUME NEW y \in S PROVE x >= y
  <2>1. N - x <= N - y  BY <1>2, <1>3
  <2>. QED  BY <1>0, <2>1
<1>. HIDE DEF T
<1>5. Max(S) \in S /\ \A y \in S : Max(S) >= y  BY <1>4 DEF Max
<1>. QED  BY <1>0, <1>5

LEMMA NameTyped ==
  ASSUME NEW name \in Seq(Token)
  PROVE  /\ Len(name) \in Nat /\ DOMAIN name = 1 .. Len(name)
         /\ (name # << >> <=> Len(name) \in Nat \ {0})
         /\ \A i \in 1 .. Len(name) : name[i] \in Token
<1>1. Len(name) \in Nat /\ \A i \in 1 .. Len(name) : name[i] \in Token  OBVIOUS
<1>2. ASSUME Len(name) = 0 PROVE name = << >>  BY <1>2, SeqEqual, EmptySeq
<1>3. DOMAIN name = 1 .. Len(name)  OBVIOUS
<1>. QED  BY <1>1, <1>2, <1>3, EmptySeq

LEMMA PieceTyped ==
  ASSUME NEW name \in Seq(Token), NEW a \in 1 .. Len(name) + 1
  PROVE  LET piece == SubSeq(name, a, Len(name)) IN
         /\ piece \in Seq(Token) /\ Len(piece) = Len(name) - a + 1
         /\ \A i \in 1 .. Len(piece) : piece[i] = name[a + i - 1]
<1>1. Len(name) \in Nat /\ \A i \in a .. Len(name) : name[i] \in Token  BY NameTyped
<1>2. a \in Int /\ Len(name) \in Int  BY <1>1
<1>. QED  BY <1>1, <1>2, SubSeqProperties

LEMMA TheExtension ==
  /\ <<"dot", "ext">> \in Seq(Token) /\ Len(<<"dot", "ext">>) = 2
  /\ <<"dot", "ext">>[1] = "dot" /\ <<"dot", "ext">>[2] = "ext"
BY DEF Token

LEMMA IsTheExtension ==
  ASSUME NEW name \in Seq(Token), Len(name) = 2, name[1] = "dot", name[2] = "ext"
  PROVE  name = <<"dot", "ext">>
<1>1. \A i \in 1 .. Len(name) : i = 1 \/ i = 2  OBVIOUS
<1>. QED  BY <1>1, TheExtension, SeqEqual

LEMMA ReverseTyped ==
  ASSUME NEW name \in Seq(Token)
  PROVE  /\ Reverse(name) \in Seq(Token) /\ Len(Reverse(name)) = Len(name)
         /\ \A i \in 1 .. Len(name) : Reverse(name)[i] = name[Len(name) - i + 1]
BY NameTyped DEF Reverse

LEMMA ReverseOfTwo ==
  ASSUME NEW name \in Seq(Token), Len(name) = 2
  PROVE  Reverse(name)[1] = name[2] /\ Reverse(name)[2] = name[1]
<1>1. 1 \in 1 .. Len(name) /\ 2 \in 1 .. Len(name)  OBVIOUS
<1>2. Len(name) - 1 + 1 = 2 /\ Len(name) - 2 + 1 = 1  OBVIOUS
<1>. QED  BY <1>1, <1>2, ReverseTyped

LEMMA FirstTwo ==
  ASSUME NEW name \in Seq(Token), Len(name) >= 2
  PROVE  LET two == SubSeq(name, 1, 2) IN
         two \in Seq(Token) /\ Len(two) = 2 /\ two[1] = name[1] /\ two[2] = name[2]
<1>1. Len(name) \in Nat /\ \A i \in 1 .. 2 : name[i] \in Token  BY NameTyped
<1>. QED  BY <1>1, SubSeqProperties

\* endsWith looks at the last two tokens.
LEMMA EndsMeans ==
  ASSUME NEW name \in Seq(Token)
  PROVE  EndsWithExtension(name)
           <=> /\ Len(name) >= 2
               /\ name[Len(name) - 1] = "dot" /\ name[Len(name)] = "ext"
<1>. DEFINE e == Reverse(<<"dot", "ext">>)
            r == Reverse(name)
<1>1. e \in Seq(Token) /\ Len(e) = 2 /\ e[1] = "ext" /\ e[2] = "dot"
  BY TheExtension, ReverseTyped, ReverseOfTwo
<1>2. /\ r \in Seq(Token) /\ Len(r) = Len(name) /\ Len(name) \in Nat
      /\ Len(name) >= 2 => r[1] = name[Len(name)] /\ r[2] = name[Len(name) - 1]
  BY ReverseTyped, NameTyped
<1>3. EndsWithExtension(name) <=> 2 <= Len(r) /\ SubSeq(e, 1, 2) = SubSeq(r, 1, 2)
  BY <1>1 DEF EndsWithExtension, IsSuffix, IsPrefix
<1>. HIDE DEF e, r
<1>4. /\ SubSeq(e, 1, 2) \in Seq(Token) /\ Len(SubSeq(e, 1, 2)) = 2
      /\ SubSeq(e, 1, 2)[1] = "ext" /\ SubSeq(e, 1, 2)[2] = "dot"
  <2>1. Len(e) >= 2  BY <1>1
  <2>2. /\ SubSeq(e, 1, 2) \in Seq(Token) /\ Len(SubSeq(e, 1, 2)) = 2
        /\ SubSeq(e, 1, 2)[1] = e[1] /\ SubSeq(e, 1, 2)[2] = e[2]
    BY <1>1, <2>1, FirstTwo, Zenon
  <2>. QED  BY <1>1, <2>2
<1>5. ASSUME Len(r) >= 2
      PROVE  /\ SubSeq(r, 1, 2) \in Seq(Token) /\ Len(SubSeq(r, 1, 2)) = 2
             /\ SubSeq(r, 1, 2)[1] = r[1] /\ SubSeq(r, 1, 2)[2] = r[2]
  BY <1>2, <1>5, FirstTwo
<1>6. ASSUME Len(r) >= 2, r[1] = "ext", r[2] = "dot"
      PROVE  SubSeq(e, 1, 2) = SubSeq(r, 1, 2)
  <2>1. \A i \in 1 .. Len(SubSeq(e, 1, 2)) : i = 1 \/ i = 2  BY <1>4
  <2>. QED  BY <1>4, <1>5, <1>6, <2>1, SeqEqual
<1>. QED  BY <1>2, <1>3, <1>4, <1>5, <1>6

LEMMA PosixNameIsLast ==
  ASSUME NEW name \in Seq(Token), Parts(name) # {}
  PROVE  \E p \in Parts(name) :
           /\ \A q \in Parts(name) : q[1] <= p[1]
           /\ PosixName(name) = SubSeq(name, p[1], p[2])
<1>. DEFINE starts == {p[1] : p \in Parts(name)}
            Greatest(p) == \A q \in Parts(name) : q[1] <= p[1]
<1>1. Len(name) \in Nat /\ \A p \in Parts(name) : p[1] \in 1 .. Len(name)
  BY NameTyped DEF Parts
<1>2. starts \subseteq 1 .. Len(name) /\ starts # {}  BY <1>1
<1>3. Max(starts) \in starts /\ \A y \in starts : y <= Max(starts)
  <2>. HIDE DEF starts
  <2>. QED  BY <1>1, <1>2, MaxOf
<1>4. PICK p \in Parts(name) : p[1] = Max(starts)  BY <1>3
<1>5. Greatest(p)  BY <1>3, <1>4
<1>. DEFINE last == CHOOSE q \in Parts(name) : Greatest(q)
<1>6. last \in Parts(name) /\ Greatest(last)
  <2>. HIDE DEF Greatest
  <2>. QED  BY <1>5
<1>7. PosixName(name) = SubSeq(name, last[1], last[2])  BY DEF PosixName
<1>. HIDE DEF last
<1>. QED  BY <1>6, <1>7

\* A name that ends in an allowed extension has it as its suffix, unless its
\* last part is that extension alone.
LEMMA EndsThenValid ==
  ASSUME NEW name \in Seq(Token), EndsWithExtension(name)
  PROVE  ValidExtension(name) \/ PosixName(name) = <<"dot", "ext">>
<1>. DEFINE L == Len(name)
<1>1. L \in Nat /\ L >= 2 /\ name[L - 1] = "dot" /\ name[L] = "ext"
  BY EndsMeans, NameTyped
<1>. DEFINE clear == {a \in 1 .. L : \A i \in a .. L : name[i] # "/"}
<1>2. PICK a \in clear : \A m \in clear : a <= m
  <2>1. clear \subseteq Nat  BY <1>1
  <2>2. L \in clear  BY <1>1
  <2>. HIDE DEF clear
  <2>. QED  BY <2>1, <2>2, LeastOf
<1>3. a \in 1 .. L - 1
  <2>1. \A i \in L - 1 .. L : name[i] = "dot" \/ name[i] = "ext"
    <3>1. \A i \in L - 1 .. L : i = L - 1 \/ i = L  BY <1>1
    <3>. QED  BY <1>1, <3>1
  <2>2. L - 1 \in clear  BY <1>1, <2>1
  <2>3. a <= L - 1 /\ a \in 1 .. L  BY <1>2, <2>2
  <2>. QED  BY <1>1, <2>3
<1>4. a = 1 \/ name[a - 1] = "/"
  <2>. SUFFICES ASSUME a # 1, name[a - 1] # "/" PROVE FALSE  OBVIOUS
  <2>1. a - 1 \in 1 .. L  BY <1>1, <1>3
  <2>2. \A i \in a - 1 .. L : i = a - 1 \/ i \in a .. L  BY <1>1, <1>3
  <2>3. a - 1 \in clear  BY <1>2, <2>1, <2>2
  <2>4. a <= a - 1  BY <1>2, <2>3
  <2>. QED  BY <1>3, <2>4
<1>5. \A i \in a .. L : name[i] # "/"  BY <1>2
<1>. HIDE DEF clear
<1>. DEFINE piece == SubSeq(name, a, L)
            k == Len(piece)
<1>6. /\ piece \in Seq(Token) /\ k = L - a + 1
      /\ \A i \in 1 .. k : piece[i] = name[a + i - 1]
  <2>1. a \in 1 .. Len(name) + 1  BY <1>1, <1>3
  <2>. QED  BY <2>1, PieceTyped
<1>. HIDE DEF piece
<1>7. k \in Nat /\ k >= 2 /\ piece[k] = "ext" /\ piece[k - 1] = "dot"
  <2>1. k \in 1 .. k /\ k - 1 \in 1 .. k /\ a + k - 1 = L /\ a + (k - 1) - 1 = L - 1
    BY <1>1, <1>3, <1>6
  <2>2. piece[k] = name[L] /\ piece[k - 1] = name[L - 1]  BY <1>6, <2>1
  <2>. QED  BY <1>1, <1>3, <1>6, <2>2
<1>8. <<a, L>> \in Parts(name)
  <2>1. piece # <<"dot">>
    <3>1. Len(<<"dot">>) = 1  OBVIOUS
    <3>. QED  BY <1>7, <3>1
  <2>2. a <= L /\ a \in 1 .. L /\ L \in 1 .. L  BY <1>1, <1>3
  <2>. QED  BY <1>4, <1>5, <2>1, <2>2 DEF Parts, piece
<1>9. PosixName(name) = piece
  <2>1. PICK p \in Parts(name) :
          /\ \A q \in Parts(name) : q[1] <= p[1]
          /\ PosixName(name) = SubSeq(name, p[1], p[2])
    <3>1. Parts(name) # {}  BY <1>8
    <3>. QED  BY <3>1, PosixNameIsLast
  <2>2. /\ p[1] \in 1 .. L /\ p[2] \in 1 .. L /\ p[1] <= p[2]
        /\ p[1] = 1 \/ name[p[1] - 1] = "/"
        /\ p[2] = L \/ name[p[2] + 1] = "/"
    BY DEF Parts
  <2>3. a <= p[1]  BY <1>8, <2>1
  <2>4. p[1] = a
    <3>. SUFFICES ASSUME p[1] # a PROVE FALSE  OBVIOUS
    <3>1. p[1] # 1 /\ p[1] - 1 \in a .. L  BY <1>1, <1>3, <2>2, <2>3
    <3>. QED  BY <1>5, <2>2, <3>1
  <2>5. p[2] = L
    <3>. SUFFICES ASSUME p[2] # L PROVE FALSE  OBVIOUS
    <3>1. p[2] + 1 \in a .. L  BY <1>1, <1>3, <2>2, <2>3
    <3>. QED  BY <1>5, <2>2, <3>1
  <2>. QED  BY <2>1, <2>4, <2>5 DEF piece
<1>10. CASE k = 2
  <2>1. piece[2] = "ext" /\ piece[1] = "dot"
    <3>1. k - 1 = 1  BY <1>10
    <3>. QED  BY <1>7, <1>10, <3>1
  <2>2. piece = <<"dot", "ext">>  BY <1>6, <1>10, <2>1, IsTheExtension
  <2>. QED  BY <1>9, <2>2
<1>11. CASE k # 2
  <2>. DEFINE inside == Dots(piece) \ {1}
  <2>1. DOMAIN piece = 1 .. k  BY <1>6, NameTyped
  <2>2. /\ Dots(piece) \subseteq 1 .. k /\ k - 1 \in Dots(piece) /\ k - 1 \in inside
        /\ \A i \in Dots(piece) : i \in 1 .. k - 1
    <3>1. k - 1 \in 1 .. k /\ k - 1 # 1  BY <1>7, <1>11
    <3>2. \A i \in 1 .. k : i # k => i \in 1 .. k - 1  BY <1>7
    <3>. QED  BY <1>7, <2>1, <3>1, <3>2 DEF Dots
  <2>3. Max(Dots(piece)) = k - 1
    <3>1. Max(Dots(piece)) \in Dots(piece) /\ k - 1 <= Max(Dots(piece))
      BY <1>7, <2>2, MaxOf
    <3>. QED  BY <1>7, <2>2, <3>1
  <2>4. Max(inside) = k - 1
    <3>1. inside \subseteq 1 .. k /\ inside # {}  BY <2>2
    <3>2. Max(inside) \in inside /\ k - 1 <= Max(inside)
      <4>. HIDE DEF inside
      <4>. QED  BY <1>7, <2>2, <3>1, MaxOf
    <3>. QED  BY <1>7, <2>2, <3>2
  <2>5. Extension(name) = SubSeq(piece, k - 1, k)
    <3>1. inside # {} /\ Max(Dots(piece)) # k  BY <1>7, <2>2, <2>3
    <3>. QED  BY <1>9, <2>4, <3>1 DEF Extension
  <2>6. SubSeq(piece, k - 1, k) = <<"dot", "ext">>
    <3>. DEFINE end == SubSeq(piece, k - 1, k)
    <3>1. k - 1 \in 1 .. Len(piece) + 1  BY <1>7
    <3>2. /\ end \in Seq(Token) /\ Len(end) = k - (k - 1) + 1
          /\ \A i \in 1 .. Len(end) : end[i] = piece[(k - 1) + i - 1]
      BY <1>6, <3>1, PieceTyped
    <3>. HIDE DEF end
    <3>3. Len(end) = 2 /\ 1 \in 1 .. Len(end) /\ 2 \in 1 .. Len(end)
          /\ (k - 1) + 1 - 1 = k - 1 /\ (k - 1) + 2 - 1 = k
      BY <1>7, <3>2
    <3>4. end[1] = "dot" /\ end[2] = "ext"  BY <1>7, <3>2, <3>3
    <3>5. end = <<"dot", "ext">>  BY <3>2, <3>3, <3>4, IsTheExtension
    <3>. QED  BY <3>5 DEF end
  <2>. QED  BY <2>5, <2>6 DEF ValidExtension
<1>. QED  BY <1>10, <1>11

\* The suffix of a name without a path is what the name ends in.
LEMMA ValidThenEnds ==
  ASSUME NEW name \in Seq(Token), ValidExtension(name), Plain(name)
  PROVE  EndsWithExtension(name)
<1>. DEFINE L == Len(name)
            part == PosixName(name)
            inside == Dots(part) \ {1}
<1>1. L \in Nat /\ DOMAIN name = 1 .. L  BY NameTyped
<1>2. Extension(name) # << >>
  <2>1. <<"dot", "ext">> # << >>  BY TheExtension, EmptySeq
  <2>. QED  BY <2>1 DEF ValidExtension
<1>3. inside # {} /\ Extension(name) = SubSeq(part, Max(inside), Len(part))
  BY <1>2 DEF Extension
<1>4. Parts(name) # {}
  <2>. SUFFICES ASSUME Parts(name) = {} PROVE FALSE  OBVIOUS
  <2>1. part = << >>  BY DEF PosixName
  <2>2. DOMAIN part = {}  BY <2>1
  <2>. QED  BY <1>3, <2>2 DEF Dots
<1>5. part = name
  <2>1. PICK p \in Parts(name) : part = SubSeq(name, p[1], p[2])
    BY <1>4, PosixNameIsLast
  <2>2. /\ p[1] \in 1 .. L /\ p[2] \in 1 .. L
        /\ p[1] = 1 \/ name[p[1] - 1] = "/"
        /\ p[2] = L \/ name[p[2] + 1] = "/"
    BY DEF Parts
  <2>3. \A i \in 1 .. L : name[i] # "/"  BY <1>1 DEF Plain
  <2>4. p[1] = 1
    <3>. SUFFICES ASSUME p[1] # 1 PROVE FALSE  OBVIOUS
    <3>1. p[1] - 1 \in 1 .. L  BY <1>1, <2>2
    <3>. QED  BY <2>2, <2>3, <3>1
  <2>5. p[2] = L
    <3>. SUFFICES ASSUME p[2] # L PROVE FALSE  OBVIOUS
    <3>1. p[2] + 1 \in 1 .. L  BY <1>1, <2>2
    <3>. QED  BY <2>2, <2>3, <3>1
  <2>. QED  BY <2>1, <2>4, <2>5, SubSeqFull
<1>. DEFINE m == Max(inside)
<1>6. m \in 1 .. L /\ name[m] = "dot"
  <2>1. inside \subseteq 1 .. L  BY <1>1, <1>5 DEF Dots
  <2>2. m \in inside
    <3>. HIDE DEF inside
    <3>. QED  BY <1>1, <1>3, <2>1, MaxOf
  <2>. QED  BY <1>1, <1>5, <2>2 DEF Dots
<1>7. SubSeq(name, m, L) = <<"dot", "ext">>
  <2>. HIDE DEF inside, m, part
  <2>. QED  BY <1>3, <1>5 DEF ValidExtension, m
<1>. HIDE DEF m
<1>8. /\ Len(SubSeq(name, m, L)) = L - m + 1
      /\ \A i \in 1 .. Len(SubSeq(name, m, L)) : SubSeq(name, m, L)[i] = name[m + i - 1]
  <2>1. m \in 1 .. Len(name) + 1  BY <1>1, <1>6
  <2>. QED  BY <2>1, PieceTyped
<1>9. L - m + 1 = 2 /\ "ext" = name[m + 2 - 1]
  <2>1. 2 \in 1 .. Len(SubSeq(name, m, L))  BY <1>7, TheExtension
  <2>. QED  BY <1>7, <1>8, <2>1, TheExtension
<1>10. m = L - 1 /\ m + 2 - 1 = L /\ L >= 2
  <2>1. m \in 1 .. L /\ L - m + 1 = 2  BY <1>6, <1>9
  <2>. HIDE DEF L
  <2>. QED  BY <1>1, <2>1
<1>. QED  BY <1>6, <1>9, <1>10, EndsMeans

-----------------------------------------------------------------------------
\* So many files of the allowed size have so many times the bytes at most.
LEMMA TotalBounded ==
  ASSUME NEW batch \in Seq(File), NEW F \in Nat, NEW M \in Nat, Len(batch) <= F,
         \A i \in 1 .. Len(batch) : batch[i].size <= M
  PROVE  Total(batch) \in Nat /\ Total(batch) <= F * M
<1>. DEFINE N == Len(batch)
<1>1. N \in Nat /\ N \in 0 .. N  BY FilesTyped
<1>2. Sums(batch)[N] <= N * M /\ Sums(batch)[N] \in Nat
  BY <1>1, SumsBounded, SumsTyped
<1>. HIDE DEF N
<1>3. F - N \in Nat  BY <1>1 DEF N
<1>4. (F - N) * M \in Nat  BY <1>3
<1>5. F * M = N * M + (F - N) * M /\ N * M \in Nat /\ F * M \in Nat  BY <1>1, <1>3
<1>6. N * M <= F * M  BY <1>4, <1>5
<1>. QED  BY <1>2, <1>5, <1>6 DEF Total, N

LEMMA PanelMirrored == IntakeInv => PanelMirrors
<1>. SUFFICES ASSUME IntakeInv, at = "answered" PROVE PanelMirrors
  BY DEF PanelMirrors
<1>0. /\ files \in Seq(File) /\ settings \in Settings
      /\ settings.max_files \in Nat /\ settings.max_file_bytes \in Nat
      /\ settings.max_submission_bytes \in Nat
      /\ \A f \in ToSet(files) : f \in File /\ f.name \in Seq(Token) /\ f.size \in Nat
  BY SettingTyped, FilesTyped DEF IntakeInv, TypeOK, ToSet
<1>1. ASSUME origin = "panel"
      PROVE  \/ answer \in {"accepted", "TOO_MANY_FILES"}
             \/ /\ answer = "SUBMISSION_TOO_LARGE"
                /\ settings.max_submission_bytes < settings.max_files * settings.max_file_bytes
             \/ /\ answer = "UNSUPPORTED_EXTENSION"
                /\ \E f \in ToSet(files) : PosixName(f.name) = <<"dot", "ext">>
  <2>1. files # << >> /\ \A i \in 1 .. Len(files) : PanelAccepts(files[i])
    BY <1>1 DEF IntakeInv, Staged
  <2>2. /\ \A f \in ToSet(files) : EndsWithExtension(f.name) /\ f.size <= settings.max_file_bytes
        /\ \A i \in 1 .. Len(files) : files[i].size <= settings.max_file_bytes
    BY <1>0, <2>1, FilesTyped DEF ToSet, PanelAccepts, PanelExtension, PanelSize
  <2>3. ~ \E f \in ToSet(files) : f.size > settings.max_file_bytes  BY <1>0, <2>2
  <2>4. ValidateBatch(files) # "FILE_TOO_LARGE"  BY <2>3 DEF ValidateBatch
  <2>5. answer = ValidateBatch(files)  BY <2>4 DEF IntakeInv, StreamDecides
  <2>6. CASE Len(files) > settings.max_files
    BY <2>1, <2>5, <2>6 DEF ValidateBatch
  <2>7. CASE ~(Len(files) > settings.max_files)
    <3>1. CASE \E f \in ToSet(files) : ~ValidExtension(f.name)
      <4>1. answer = "UNSUPPORTED_EXTENSION"
        BY <2>1, <2>5, <2>7, <3>1 DEF ValidateBatch
      <4>2. PICK f \in ToSet(files) : ~ValidExtension(f.name)  BY <3>1
      <4>3. PosixName(f.name) = <<"dot", "ext">>  BY <1>0, <2>2, <4>2, EndsThenValid
      <4>. QED  BY <4>1, <4>3
    <3>2. CASE ~ \E f \in ToSet(files) : ~ValidExtension(f.name)
      <4>1. answer = IF Total(files) > settings.max_submission_bytes
                       THEN "SUBMISSION_TOO_LARGE" ELSE "accepted"
        BY <2>1, <2>3, <2>5, <2>7, <3>2 DEF ValidateBatch
      <4>2. Len(files) \in Nat /\ Len(files) <= settings.max_files
        BY <1>0, <2>7, FilesTyped
      <4>3. /\ Total(files) \in Nat
            /\ Total(files) <= settings.max_files * settings.max_file_bytes
        BY <1>0, <2>2, <4>2, TotalBounded
      <4>4. settings.max_files * settings.max_file_bytes \in Nat  BY <1>0
      <4>. QED  BY <1>0, <4>1, <4>3, <4>4
    <3>. QED  BY <3>1, <3>2
  <2>. QED  BY <2>6, <2>7
<1>2. ASSUME answer = "accepted", NEW f \in ToSet(files), Plain(f.name)
      PROVE  PanelAccepts(f)
  <2>1. ValidateBatch(files) = "accepted"  BY <1>2 DEF IntakeInv, StreamDecides
  <2>2. ValidExtension(f.name) /\ ~(f.size > settings.max_file_bytes)
    BY <2>1 DEF ValidateBatch
  <2>3. EndsWithExtension(f.name)  BY <1>0, <1>2, <2>2, ValidThenEnds
  <2>. QED  BY <1>0, <2>2, <2>3 DEF PanelAccepts, PanelExtension, PanelSize
<1>. QED  BY <1>1, <1>2 DEF PanelMirrors

\* Whatever the panel has let through is refused for the number of files at
\* most, for a total set below what so many files may have, or for a name that
\* is an extension and nothing else; and the panel would have staged what the
\* API accepts (lib/validate.ts:17-38, routes_submissions.py:193-252).
THEOREM PanelMirrorsAlways == Spec => []PanelMirrors
BY PanelMirrored, IntakeInvHolds, PTL

-----------------------------------------------------------------------------
(* What becomes of the names.                                                *)
LEMMA BaseTyped ==
  ASSUME NEW name \in Seq(Token)
  PROVE  Base(name) \in Seq(Token) /\ Plain(Base(name))
<1>. DEFINE L == Len(name)
            seps == {i \in DOMAIN name : name[i] \in {"/", "\\"}}
<1>1. L \in Nat /\ DOMAIN name = 1 .. L  BY NameTyped
<1>2. CASE seps = {}
  <2>1. Base(name) = name  BY <1>2 DEF Base
  <2>. QED  BY <1>2, <2>1 DEF Plain
<1>3. CASE seps # {}
  <2>. DEFINE m == Max(seps)
  <2>1. m \in 1 .. L /\ \A y \in seps : y <= m
    <3>1. seps \subseteq 1 .. L  BY <1>1
    <3>. HIDE DEF seps
    <3>. QED  BY <1>1, <1>3, <3>1, MaxOf
  <2>2. Base(name) = SubSeq(name, m + 1, L)  BY <1>3 DEF Base
  <2>. HIDE DEF m
  <2>3. /\ Base(name) \in Seq(Token) /\ Len(Base(name)) = L - (m + 1) + 1
        /\ \A i \in 1 .. Len(Base(name)) : Base(name)[i] = name[(m + 1) + i - 1]
    <3>1. m + 1 \in 1 .. Len(name) + 1  BY <1>1, <2>1
    <3>. QED  BY <2>2, <3>1, PieceTyped
  <2>4. ASSUME NEW i \in 1 .. Len(Base(name)) PROVE Base(name)[i] \notin {"/", "\\"}
    <3>1. (m + 1) + i - 1 \in 1 .. L /\ ~((m + 1) + i - 1 <= m)  BY <1>1, <2>1, <2>3
    <3>2. (m + 1) + i - 1 \notin seps  BY <2>1, <3>1
    <3>. QED  BY <1>1, <2>3, <3>1, <3>2
  <2>5. DOMAIN Base(name) = 1 .. Len(Base(name))  BY <2>3, NameTyped
  <2>. QED  BY <2>3, <2>4, <2>5 DEF Plain
<1>. QED  BY <1>2, <1>3

LEMMA LeadingDotsMeans ==
  ASSUME NEW name \in Seq(Token)
  PROVE  /\ LeadingDots(name) \in 0 .. Len(name)
         /\ \A i \in 1 .. LeadingDots(name) : name[i] = "dot"
<1>. DEFINE L == Len(name)
            Leads(n) == (\A i \in 1 .. n : name[i] = "dot")
                          /\ (n = Len(name) \/ name[n + 1] # "dot")
            others == {i \in 1 .. L : name[i] # "dot"}
<1>1. L \in Nat  BY NameTyped
<1>2. \E n \in 0 .. L : Leads(n)
  <2>1. CASE others = {}
    <3>1. L \in 0 .. L /\ Leads(L)  BY <1>1, <2>1
    <3>. QED  BY <3>1
  <2>2. CASE others # {}
    <3>1. PICK n \in others : \A m \in others : n <= m
      <4>1. others \subseteq Nat  BY <1>1
      <4>. HIDE DEF others
      <4>. QED  BY <2>2, <4>1, LeastOf
    <3>2. n - 1 \in 0 .. L /\ n - 1 + 1 = n  BY <1>1, <3>1
    <3>3. \A i \in 1 .. n - 1 : i \in 1 .. L /\ ~(n <= i)  BY <1>1, <3>1
    <3>4. \A i \in 1 .. n - 1 : name[i] = "dot"  BY <3>1, <3>3
    <3>5. Leads(n - 1)  BY <3>1, <3>2, <3>4
    <3>. QED  BY <3>2, <3>5
  <2>. QED  BY <2>1, <2>2
<1>3. LeadingDots(name) = CHOOSE n \in 0 .. L : Leads(n)  BY DEF LeadingDots
<1>4. LeadingDots(name) \in 0 .. L /\ Leads(LeadingDots(name))
  <2>. HIDE DEF Leads
  <2>. QED  BY <1>2, <1>3
<1>. QED  BY <1>4

\* What sanitize_filename makes of a name, whatever the name.
LEMMA Sanitized ==
  ASSUME NEW name \in Seq(Token)
  PROVE  LET stored == Sanitize(name) IN
         /\ Plain(stored) /\ stored # << >> /\ Len(stored) <= MaxNameLen
         /\ EndsWithExtension(Base(name)) /\ Len(Base(name)) <= MaxNameLen
              => \/ EndsWithExtension(stored)
                 \/ LeadingDots(Base(name)) = Len(Base(name)) - 1
<1>. DEFINE base == IF Base(name) = << >> THEN <<"word">> ELSE Base(name)
            dots == LeadingDots(base)
            clean == [i \in DOMAIN base |->
                        IF base[i] = "other" \/ (dots >= 2 /\ i <= dots)
                          THEN "word" ELSE base[i]]
            N == Len(base)
            k == Min({MaxNameLen, N})
            stored == Sanitize(name)
<1>1. Base(name) \in Seq(Token) /\ Plain(Base(name))  BY BaseTyped
<1>2. base \in Seq(Token) /\ Plain(base) /\ base # << >>
  <2>1. <<"word">> \in Seq(Token) /\ Len(<<"word">>) = 1 /\ <<"word">>[1] = "word"
    BY DEF Token
  <2>2. DOMAIN <<"word">> = 1 .. 1 /\ \A i \in 1 .. 1 : i = 1  OBVIOUS
  <2>3. Plain(<<"word">>)  BY <2>1, <2>2 DEF Plain
  <2>4. <<"word">> # << >>  BY <2>1, EmptySeq
  <2>. QED  BY <1>1, <2>1, <2>3, <2>4
<1>. HIDE DEF base
<1>3. /\ N \in Nat /\ N >= 1 /\ DOMAIN base = 1 .. N
      /\ \A i \in 1 .. N : base[i] \in Token
  BY <1>2, NameTyped
<1>4. dots \in 0 .. N /\ \A i \in 1 .. dots : base[i] = "dot"
  BY <1>2, LeadingDotsMeans
<1>. HIDE DEF dots
<1>5. /\ clean \in Seq(Token) /\ Len(clean) = N
      /\ \A i \in 1 .. N : clean[i] = IF base[i] = "other" \/ (dots >= 2 /\ i <= dots)
                                        THEN "word" ELSE base[i]
  <2>1. "word" \in Token  BY DEF Token
  <2>. QED  BY <1>3, <2>1
<1>6. stored = SubSeq(clean, 1, k)
  <2>1. stored = SubSeq(clean, 1, Min({MaxNameLen, Len(clean)}))
    BY DEF Sanitize, base, dots
  <2>. QED  BY <1>5, <2>1
<1>. HIDE DEF clean, N
<1>7. k = (IF MaxNameLen <= N THEN MaxNameLen ELSE N) /\ MaxNameLen \in Nat \ {0}
  <2>1. MaxNameLen \in Nat \ {0}  BY SizesAssumption
  <2>2. MaxNameLen \in Int /\ N \in Int  BY <1>3, <2>1
  <2>. QED  BY <2>1, <2>2, MinOfTwo
<1>. HIDE DEF k, stored
<1>8. k \in 1 .. N /\ k <= MaxNameLen  BY <1>3, <1>7
<1>9. /\ stored \in Seq(Token) /\ Len(stored) = k
      /\ \A i \in 1 .. k : stored[i] = clean[i]
  <2>1. \A i \in 1 .. k : clean[i] \in Token /\ 1 + i - 1 = i  BY <1>3, <1>5, <1>8
  <2>2. k \in Int /\ k - 1 + 1 = k /\ 1 <= k  BY <1>8
  <2>3. /\ SubSeq(clean, 1, k) \in Seq(Token)
        /\ Len(SubSeq(clean, 1, k)) = IF 1 <= k THEN k - 1 + 1 ELSE 0
        /\ \A i \in 1 .. k - 1 + 1 : SubSeq(clean, 1, k)[i] = clean[1 + i - 1]
    BY <2>1, <2>2, SubSeqProperties
  <2>. QED  BY <1>6, <2>1, <2>2, <2>3
<1>10. Plain(stored)
  <2>1. DOMAIN stored = 1 .. k  BY <1>9, NameTyped
  <2>2. ASSUME NEW i \in 1 .. k PROVE stored[i] \notin {"/", "\\"}
    <3>1. i \in 1 .. N  BY <1>3, <1>8
    <3>2. base[i] \notin {"/", "\\"}  BY <1>2, <1>3, <3>1 DEF Plain
    <3>. QED  BY <1>5, <1>9, <3>1, <3>2
  <2>. QED  BY <2>1, <2>2 DEF Plain
<1>11. stored # << >> /\ Len(stored) <= MaxNameLen  BY <1>8, <1>9, EmptySeq
<1>12. ASSUME EndsWithExtension(Base(name)), Len(Base(name)) <= MaxNameLen,
              LeadingDots(Base(name)) # Len(Base(name)) - 1
       PROVE  EndsWithExtension(stored)
  <2>1. base = Base(name)
    <3>1. Len(Base(name)) >= 2  BY <1>1, <1>12, EndsMeans
    <3>2. Base(name) # << >>  BY <3>1, EmptySeq
    <3>. QED  BY <3>2 DEF base
  <2>2. N >= 2 /\ base[N - 1] = "dot" /\ base[N] = "ext"
    BY <1>2, <1>12, <2>1, EndsMeans DEF N
  <2>3. k = N /\ dots # N - 1
    <3>1. N = Len(Base(name)) /\ dots = LeadingDots(Base(name))  BY <2>1 DEF N, dots
    <3>2. N <= MaxNameLen /\ dots # N - 1  BY <1>12, <3>1
    <3>. QED  BY <1>3, <1>7, <3>2
  <2>4. dots < N - 1
    <3>1. dots # N
      <4>. SUFFICES ASSUME dots = N PROVE FALSE  OBVIOUS
      <4>1. N \in 1 .. dots  BY <1>3
      <4>. QED  BY <1>4, <2>2, <4>1
    <3>. QED  BY <1>3, <1>4, <2>3, <3>1
  <2>5. N \in 1 .. N /\ N - 1 \in 1 .. N /\ ~(N <= dots) /\ ~(N - 1 <= dots)
    BY <1>3, <1>4, <2>2, <2>4
  <2>6. stored[N] = "ext" /\ stored[N - 1] = "dot"  BY <1>5, <1>9, <2>2, <2>3, <2>5
  <2>. QED  BY <1>9, <2>2, <2>3, <2>6, EndsMeans
<1>. QED  BY <1>10, <1>11, <1>12 DEF stored

\* The name an accepted file is stored under is never empty, never longer than
\* the bound, has no separator, and keeps the extension of the final segment
\* unless that is too long or has only dots before it (naming.py:18-50).
THEOREM NamesSurviveAlways == Spec => []NamesSurvive
<1>1. ASSUME IntakeInv PROVE NamesSurvive
  <2>1. \A f \in ToSet(files) : f.name \in Seq(Token)
    BY <1>1, FilesTyped DEF IntakeInv, TypeOK, ToSet
  <2>2. \A f \in ToSet(files) :
          LET stored == Sanitize(f.name) IN
          /\ Plain(stored) /\ stored # << >> /\ Len(stored) <= MaxNameLen
          /\ EndsWithExtension(Base(f.name)) /\ Len(Base(f.name)) <= MaxNameLen
               => \/ EndsWithExtension(stored)
                  \/ LeadingDots(Base(f.name)) = Len(Base(f.name)) - 1
    BY <2>1, Sanitized
  <2>. QED  BY <2>2 DEF NamesSurvive
<1>. QED  BY <1>1, IntakeInvHolds, PTL

-----------------------------------------------------------------------------
(* Bytes of a text.                                                          *)
Byte == [char : Char, byte : 1 .. 4]

LEMMA WidthTyped == \A c \in Char : Width[c] \in 1 .. 4
BY DEF Char, Width

LEMMA TextTyped ==
  ASSUME NEW text \in Seq(Char)
  PROVE  /\ Len(text) \in Nat /\ DOMAIN text = 1 .. Len(text)
         /\ \A i \in 1 .. Len(text) :
              text[i] \in Char /\ Width[text[i]] \in Nat /\ Width[text[i]] \in 1 .. 4
<1>1. Len(text) \in Nat /\ \A i \in 1 .. Len(text) : text[i] \in Char  OBVIOUS
<1>2. DOMAIN text = 1 .. Len(text)  OBVIOUS
<1>3. \A w \in 1 .. 4 : w \in Nat  OBVIOUS
<1>. QED  BY <1>1, <1>2, <1>3, WidthTyped

LEMMA EndsTyped ==
  ASSUME NEW text \in Seq(Char)
  PROVE  /\ Ends(text) \in [0 .. Len(text) -> Nat] /\ Ends(text)[0] = 0
         /\ \A n \in 1 .. Len(text) : Ends(text)[n] = Ends(text)[n - 1] + Width[text[n]]
<1>. DEFINE N == Len(text)
            step == [p \in (1 .. N) \X Nat |-> p[2] + Width[text[p[1]]]]
            S == {k \in Nat : k <= N => Ends(text)[k] \in Nat}
<1>1. N \in Nat /\ \A n \in 1 .. N : Width[text[n]] \in Nat  BY TextTyped
<1>2. step \in [(1 .. N) \X Nat -> Nat]  BY <1>1
<1>3. PICK f : Walks(f, Nat, 0, N, step)
  <2>. HIDE DEF step, N
  <2>1. N \in Nat /\ 0 \in Nat  BY <1>1
  <2>. QED  BY <2>1, <1>2, WalkExists
<1>4. /\ f \in [0 .. N -> Nat] /\ f[0] = 0
      /\ \A n \in 1 .. N : f[n] = f[n - 1] + Width[text[n]]
  <2>1. ASSUME NEW n \in 1 .. N PROVE <<n, f[n - 1]>> \in (1 .. N) \X Nat
    <3>1. n - 1 \in 0 .. N /\ f \in [0 .. N -> Nat]  BY <1>1, <1>3 DEF Walks
    <3>2. f[n - 1] \in Nat  BY <3>1
    <3>. QED  BY <3>2
  <2>. QED  BY <1>3, <2>1 DEF Walks
<1>5. f = [n \in 0 .. N |-> IF n = 0 THEN 0 ELSE f[n - 1] + Width[text[n]]]
  BY <1>1, <1>4
<1>. HIDE DEF step
<1>6. Ends(text) = [n \in 0 .. N |-> IF n = 0 THEN 0 ELSE Ends(text)[n - 1] + Width[text[n]]]
  BY <1>5 DEF Ends
<1>7. /\ DOMAIN Ends(text) = 0 .. N /\ Ends(text)[0] = 0
      /\ \A n \in 1 .. N : Ends(text)[n] = Ends(text)[n - 1] + Width[text[n]]
  BY <1>1, <1>6
<1>8. Nat \subseteq S
  <2>1. 0 \in S  BY <1>7
  <2>2. ASSUME NEW k \in Nat, k \in S PROVE k + 1 \in S
    <3>. SUFFICES ASSUME k + 1 <= N PROVE Ends(text)[k + 1] \in Nat  OBVIOUS
    <3>1. k + 1 \in 1 .. N /\ k + 1 - 1 = k /\ Ends(text)[k] \in Nat  BY <1>1, <2>2
    <3>. QED  BY <1>1, <1>7, <3>1
  <2>. HIDE DEF S
  <2>. QED  BY <2>1, <2>2, FromZeroOn
<1>9. \A n \in 0 .. N : Ends(text)[n] \in Nat  BY <1>1, <1>8
<1>10. Ends(text) \in [0 .. N -> Nat]  BY <1>6, <1>7, <1>9
<1>. QED  BY <1>7, <1>10

\* Every character takes a byte at least.
LEMMA EndsGrow ==
  ASSUME NEW text \in Seq(Char), NEW m \in 0 .. Len(text), NEW n \in m .. Len(text)
  PROVE  /\ Ends(text)[m] \in Nat /\ Ends(text)[n] \in Nat
         /\ Ends(text)[m] + (n - m) <= Ends(text)[n]
<1>. DEFINE E == Ends(text)
            N == Len(text)
            S == {k \in Nat : m + k <= N => E[m] + k <= E[m + k]}
<1>1. /\ N \in Nat /\ \A k \in 0 .. N : E[k] \in Nat
      /\ \A k \in 1 .. N : E[k] = E[k - 1] + Width[text[k]] /\ Width[text[k]] \in 1 .. 4
  BY EndsTyped, TextTyped
<1>. HIDE DEF E, N
<1>2. m \in 0 .. N /\ n \in m .. N  BY DEF N
<1>3. 0 \in S  BY <1>1, <1>2
<1>4. ASSUME NEW k \in Nat, k \in S PROVE k + 1 \in S
  <2>. SUFFICES ASSUME m + (k + 1) <= N PROVE E[m] + (k + 1) <= E[m + (k + 1)]
    OBVIOUS
  <2>1. /\ m + (k + 1) \in 1 .. N /\ m + (k + 1) - 1 = m + k /\ m + k \in 0 .. N
        /\ E[m] + k <= E[m + k]
    BY <1>1, <1>2, <1>4
  <2>2. E[m + (k + 1)] = E[m + k] + Width[text[m + (k + 1)]]
        /\ Width[text[m + (k + 1)]] \in 1 .. 4
    BY <1>1, <2>1
  <2>3. E[m] \in Nat /\ E[m + k] \in Nat  BY <1>1, <1>2, <2>1
  <2>. QED  BY <2>1, <2>2, <2>3
<1>5. n - m \in S
  <2>. HIDE DEF S
  <2>1. n - m \in Nat  BY <1>1, <1>2
  <2>. QED  BY <1>3, <1>4, <2>1, FromZeroOn
<1>. QED  BY <1>1, <1>2, <1>5 DEF E, N

\* Each byte belongs to a character.
LEMMA PlaceOf ==
  ASSUME NEW text \in Seq(Char), NEW j \in 1 .. Bytes(text)
  PROVE  \E i \in 1 .. Len(text) :
           /\ Ends(text)[i - 1] < j /\ j <= Ends(text)[i]
           /\ j - Ends(text)[i - 1] \in 1 .. Width[text[i]]
<1>. DEFINE E == Ends(text)
            N == Len(text)
            S == {i \in 0 .. N : j <= E[i]}
<1>1. /\ N \in Nat /\ E[0] = 0 /\ \A k \in 0 .. N : E[k] \in Nat
      /\ \A k \in 1 .. N : E[k] = E[k - 1] + Width[text[k]] /\ Width[text[k]] \in 1 .. 4
      /\ j \in 1 .. E[N]
  BY EndsTyped, TextTyped DEF Bytes
<1>. HIDE DEF E, N
<1>2. PICK i \in S : \A k \in S : i <= k
  <2>1. S \subseteq Nat /\ N \in S  BY <1>1
  <2>. HIDE DEF S
  <2>. QED  BY <2>1, LeastOf
<1>3. i \in 1 .. N /\ i - 1 \in 0 .. N /\ i - 1 \notin S  BY <1>1, <1>2
<1>4. E[i - 1] < j /\ j <= E[i]  BY <1>1, <1>2, <1>3
<1>5. j - E[i - 1] \in 1 .. Width[text[i]]
  <2>1. E[i] = E[i - 1] + Width[text[i]] /\ Width[text[i]] \in 1 .. 4  BY <1>1, <1>3
  <2>2. E[i - 1] \in Nat /\ j \in Int  BY <1>1, <1>3
  <2>. QED  BY <1>4, <2>1, <2>2
<1>. QED  BY <1>3, <1>4, <1>5 DEF E, N

LEMMA BytesOfTyped ==
  ASSUME NEW c \in Char
  PROVE  /\ BytesOf(c) \in Seq(Byte) /\ Len(BytesOf(c)) = Width[c]
         /\ \A b \in 1 .. Width[c] : BytesOf(c)[b] = [char |-> c, byte |-> b]
<1>. DEFINE W == Width[c]
<1>1. W \in 1 .. 4 /\ W \in Nat  BY WidthTyped
<1>. HIDE DEF W
<1>2. \A b \in 1 .. W : [char |-> c, byte |-> b] \in Byte  BY <1>1 DEF Byte
<1>3. BytesOf(c) = [b \in 1 .. W |-> [char |-> c, byte |-> b]]  BY DEF BytesOf, W
<1>4. BytesOf(c) \in Seq(Byte) /\ Len(BytesOf(c)) = W  BY <1>1, <1>2, <1>3
<1>. QED  BY <1>3, <1>4 DEF W

LEMMA EncodedTyped ==
  ASSUME NEW text \in Seq(Char)
  PROVE  /\ Encoded(text)[0] = << >>
         /\ \A n \in 0 .. Len(text) : Encoded(text)[n] \in Seq(Byte)
         /\ \A n \in 1 .. Len(text) :
              Encoded(text)[n] = Encoded(text)[n - 1] \o BytesOf(text[n])
<1>. DEFINE N == Len(text)
            V == Seq(Byte)
            step == [p \in (1 .. N) \X V |-> p[2] \o BytesOf(text[p[1]])]
            S == {k \in Nat : k <= N => Encoded(text)[k] \in V}
<1>1. /\ N \in Nat /\ << >> \in V
      /\ \A n \in 1 .. N : BytesOf(text[n]) \in V
  BY TextTyped, BytesOfTyped
<1>2. ASSUME NEW n \in 1 .. N, NEW v \in V PROVE v \o BytesOf(text[n]) \in V
  BY <1>1, ConcatProperties
<1>. HIDE DEF V
<1>3. step \in [(1 .. N) \X V -> V]  BY <1>2
<1>4. PICK f : Walks(f, V, << >>, N, step)
  <2>. HIDE DEF step, N
  <2>1. N \in Nat /\ << >> \in V  BY <1>1
  <2>. QED  BY <2>1, <1>3, WalkExists
<1>5. /\ f \in [0 .. N -> V] /\ f[0] = << >>
      /\ \A n \in 1 .. N : f[n] = f[n - 1] \o BytesOf(text[n])
  <2>1. ASSUME NEW n \in 1 .. N PROVE <<n, f[n - 1]>> \in (1 .. N) \X V
    <3>1. n - 1 \in 0 .. N /\ f \in [0 .. N -> V]  BY <1>1, <1>4 DEF Walks
    <3>2. f[n - 1] \in V  BY <3>1
    <3>. QED  BY <3>2
  <2>. QED  BY <1>4, <2>1 DEF Walks
<1>6. f = [n \in 0 .. N |-> IF n = 0 THEN << >> ELSE f[n - 1] \o BytesOf(text[n])]
  BY <1>1, <1>5
<1>. HIDE DEF step
<1>7. Encoded(text) =
        [n \in 0 .. N |-> IF n = 0 THEN << >> ELSE Encoded(text)[n - 1] \o BytesOf(text[n])]
  BY <1>6 DEF Encoded
<1>8. /\ Encoded(text)[0] = << >>
      /\ \A n \in 1 .. N : Encoded(text)[n] = Encoded(text)[n - 1] \o BytesOf(text[n])
  BY <1>1, <1>7
<1>9. Nat \subseteq S
  <2>1. 0 \in S  BY <1>1, <1>8
  <2>2. ASSUME NEW k \in Nat, k \in S PROVE k + 1 \in S
    <3>. SUFFICES ASSUME k + 1 <= N PROVE Encoded(text)[k + 1] \in V  OBVIOUS
    <3>1. k + 1 \in 1 .. N /\ k + 1 - 1 = k /\ Encoded(text)[k] \in V  BY <1>1, <2>2
    <3>2. PICK n \in 1 .. N : n = k + 1 /\ n - 1 = k  BY <3>1
    <3>3. Encoded(text)[n] = Encoded(text)[k] \o BytesOf(text[n])  BY <1>8, <3>2
    <3>. QED  BY <1>2, <3>1, <3>2, <3>3
  <2>. HIDE DEF S
  <2>. QED  BY <2>1, <2>2, FromZeroOn
<1>10. \A n \in 0 .. N : Encoded(text)[n] \in V  BY <1>1, <1>9
<1>. QED  BY <1>8, <1>10 DEF V

\* Where the bytes of each character are.
LEMMA EncodedMeans ==
  ASSUME NEW text \in Seq(Char)
  PROVE  /\ Encode(text) \in Seq(Byte) /\ Len(Encode(text)) = Bytes(text)
         /\ \A i \in 1 .. Len(text) : \A b \in 1 .. Width[text[i]] :
              Encode(text)[Ends(text)[i - 1] + b] = [char |-> text[i], byte |-> b]
<1>. DEFINE E == Ends(text)
            C == Encoded(text)
            N == Len(text)
            Good(k) == /\ Len(C[k]) = E[k]
                       /\ \A i \in 1 .. k : \A b \in 1 .. Width[text[i]] :
                            C[k][E[i - 1] + b] = [char |-> text[i], byte |-> b]
            S == {k \in Nat : k <= N => Good(k)}
<1>1. /\ N \in Nat /\ E[0] = 0 /\ \A k \in 0 .. N : E[k] \in Nat
      /\ \A k \in 1 .. N : E[k] = E[k - 1] + Width[text[k]] /\ Width[text[k]] \in 1 .. 4
      /\ C[0] = << >> /\ \A k \in 0 .. N : C[k] \in Seq(Byte)
      /\ \A k \in 1 .. N : C[k] = C[k - 1] \o BytesOf(text[k])
      /\ \A k \in 1 .. N : text[k] \in Char
  BY EndsTyped, TextTyped, EncodedTyped
<1>. HIDE DEF E, C, N
<1>2. 0 \in S  BY <1>1
<1>3. ASSUME NEW k \in Nat, k \in S PROVE k + 1 \in S
  <2>. SUFFICES ASSUME k + 1 <= N PROVE Good(k + 1)  OBVIOUS
  <2>1. k + 1 \in 1 .. N /\ k + 1 - 1 = k /\ k \in 0 .. N /\ Good(k)  BY <1>1, <1>3
  <2>. DEFINE c == text[k + 1]
  <2>2. /\ BytesOf(c) \in Seq(Byte) /\ Len(BytesOf(c)) = Width[c] /\ Width[c] \in 1 .. 4
        /\ \A b \in 1 .. Width[c] : BytesOf(c)[b] = [char |-> c, byte |-> b]
    BY <1>1, <2>1, BytesOfTyped
  <2>3. /\ C[k + 1] = C[k] \o BytesOf(c) /\ C[k] \in Seq(Byte)
        /\ E[k + 1] = E[k] + Width[c] /\ E[k] \in Nat
    <3>1. PICK n \in 1 .. N : n = k + 1 /\ n - 1 = k  BY <2>1
    <3>2. C[n] = C[k] \o BytesOf(text[n]) /\ E[n] = E[k] + Width[text[n]]
      BY <1>1, <3>1
    <3>3. C[k] \in Seq(Byte) /\ E[k] \in Nat  BY <1>1, <2>1
    <3>. QED  BY <3>1, <3>2, <3>3
  <2>. HIDE DEF c
  <2>4. /\ Len(C[k + 1]) = Len(C[k]) + Len(BytesOf(c))
        /\ \A j \in 1 .. Len(C[k]) + Len(BytesOf(c)) :
             C[k + 1][j] = IF j <= Len(C[k]) THEN C[k][j] ELSE BytesOf(c)[j - Len(C[k])]
    BY <2>2, <2>3, ConcatProperties
  <2>5. Len(C[k + 1]) = E[k + 1]  BY <2>1, <2>2, <2>3, <2>4
  <2>6. ASSUME NEW i \in 1 .. k + 1, NEW b \in 1 .. Width[text[i]]
        PROVE  C[k + 1][E[i - 1] + b] = [char |-> text[i], byte |-> b]
    <3>1. CASE i = k + 1
      <4>1. text[i] = c /\ E[i - 1] = E[k] /\ b \in 1 .. Width[c]  BY <2>1, <3>1 DEF c
      <4>2. /\ E[k] + b \in 1 .. E[k] + Width[c] /\ ~(E[k] + b <= E[k])
            /\ E[k] + b - E[k] = b
        BY <2>2, <2>3, <4>1
      <4>3. C[k + 1][E[k] + b] = BytesOf(c)[b]
        <5>1. Len(C[k]) = E[k] /\ Len(BytesOf(c)) = Width[c]  BY <2>1, <2>2
        <5>2. PICK j \in 1 .. E[k] + Width[c] : j = E[k] + b  BY <4>2
        <5>3. C[k + 1][j] = BytesOf(c)[j - E[k]]  BY <2>4, <4>2, <5>1, <5>2
        <5>4. j - E[k] = b
          <6>1. E[k] \in Int /\ b \in Int  BY <2>2, <2>3, <4>1
          <6>. QED  BY <5>2, <6>1
        <5>. QED  BY <5>2, <5>3, <5>4
      <4>. QED  BY <2>2, <4>1, <4>3
    <3>2. CASE i \in 1 .. k
      <4>1. i \in 1 .. N /\ i - 1 \in 0 .. N /\ E[i - 1] \in Nat /\ E[i] \in Nat
        BY <1>1, <2>1, <3>2
      <4>2. E[i] <= E[k]
        <5>1. i \in 0 .. Len(text) /\ k \in i .. Len(text)  BY <1>1, <2>1, <3>2 DEF N
        <5>2. E[i] + (k - i) <= E[k]  BY <5>1, EndsGrow DEF E
        <5>. QED  BY <2>3, <3>2, <4>1, <5>2
      <4>3. E[i] = E[i - 1] + Width[text[i]] /\ Width[text[i]] \in 1 .. 4  BY <1>1, <4>1
      <4>4. E[i - 1] + b \in 1 .. E[k]
        <5>. DEFINE w == Width[text[i]]
        <5>1. b \in 1 .. w /\ w \in Nat /\ E[i] = E[i - 1] + w  BY <4>3
        <5>. HIDE DEF w
        <5>. QED  BY <2>3, <4>1, <4>2, <5>1
      <4>5. C[k + 1][E[i - 1] + b] = C[k][E[i - 1] + b]
        <5>1. Len(C[k]) = E[k]  BY <2>1
        <5>2. E[i - 1] + b \in 1 .. E[k] + Width[c] /\ E[i - 1] + b <= E[k]
          BY <2>2, <2>3, <4>4
        <5>. QED  BY <2>2, <2>4, <5>1, <5>2
      <4>. QED  BY <2>1, <3>2, <4>5
    <3>. QED  BY <3>1, <3>2
  <2>. QED  BY <2>5, <2>6
<1>4. N \in S
  <2>. HIDE DEF S
  <2>. QED  BY <1>1, <1>2, <1>3, FromZeroOn
<1>5. Good(N) /\ N \in 0 .. N  BY <1>1, <1>4
<1>6. Encode(text) = C[N] /\ Bytes(text) = E[N]  BY DEF Encode, Bytes, C, E, N
<1>. QED  BY <1>1, <1>5, <1>6 DEF E, N

LEMMA DecodedTyped ==
  ASSUME NEW p \in Seq(Byte)
  PROVE  /\ Decoded(p)[0] = << >>
         /\ \A n \in 0 .. Len(p) : Decoded(p)[n] \in Seq(Char)
         /\ \A n \in 1 .. Len(p) :
              Decoded(p)[n] = IF n \in Whole(p) THEN Append(Decoded(p)[n - 1], p[n].char)
                              ELSE Decoded(p)[n - 1]
<1>. DEFINE N == Len(p)
            V == Seq(Char)
            D == Decoded(p)
            After(v, n) == IF n \in Whole(p) THEN Append(v, p[n].char) ELSE v
            step == [q \in (1 .. N) \X V |-> After(q[2], q[1])]
            S == {k \in Nat : k <= N => D[k] \in V}
<1>1. N \in Nat /\ << >> \in V /\ \A n \in 1 .. N : p[n].char \in Char
  <2>1. N \in Nat /\ \A n \in 1 .. N : p[n] \in Byte  OBVIOUS
  <2>2. \A b \in Byte : b.char \in Char  BY DEF Byte
  <2>. QED  BY <2>1, <2>2
<1>2. ASSUME NEW n \in 1 .. N, NEW v \in V PROVE After(v, n) \in V
  BY <1>1
<1>. HIDE DEF V, After
<1>3. step \in [(1 .. N) \X V -> V]  BY <1>2
<1>4. PICK f : Walks(f, V, << >>, N, step)
  <2>. HIDE DEF step, N
  <2>1. N \in Nat /\ << >> \in V  BY <1>1
  <2>. QED  BY <2>1, <1>3, WalkExists
<1>5. /\ f \in [0 .. N -> V] /\ f[0] = << >>
      /\ \A n \in 1 .. N : f[n] = After(f[n - 1], n)
  <2>1. ASSUME NEW n \in 1 .. N PROVE <<n, f[n - 1]>> \in (1 .. N) \X V
    <3>1. n - 1 \in 0 .. N /\ f \in [0 .. N -> V]  BY <1>1, <1>4 DEF Walks
    <3>2. f[n - 1] \in V  BY <3>1
    <3>. QED  BY <3>2
  <2>. QED  BY <1>4, <2>1 DEF Walks
<1>. HIDE DEF step
<1>6. f = [n \in 0 .. N |-> IF n = 0 THEN << >> ELSE After(f[n - 1], n)]
  BY <1>1, <1>5
<1>7. D = [n \in 0 .. N |-> IF n = 0 THEN << >> ELSE After(D[n - 1], n)]
  BY <1>6 DEF Decoded, After
<1>. HIDE DEF D
<1>8. D[0] = << >> /\ \A n \in 1 .. N : D[n] = After(D[n - 1], n)
  BY <1>1, <1>7
<1>9. Nat \subseteq S
  <2>1. 0 \in S  BY <1>1, <1>8
  <2>2. ASSUME NEW k \in Nat, k \in S PROVE k + 1 \in S
    <3>. SUFFICES ASSUME k + 1 <= N PROVE D[k + 1] \in V  OBVIOUS
    <3>1. k + 1 \in 1 .. N /\ k + 1 - 1 = k /\ D[k] \in V  BY <1>1, <2>2
    <3>2. PICK n \in 1 .. N : n = k + 1 /\ n - 1 = k  BY <3>1
    <3>3. D[n] = After(D[k], n)  BY <1>8, <3>2
    <3>. QED  BY <1>2, <3>1, <3>2, <3>3
  <2>. HIDE DEF S
  <2>. QED  BY <2>1, <2>2, FromZeroOn
<1>10. \A n \in 0 .. N : D[n] \in V  BY <1>1, <1>9
<1>. QED  BY <1>8, <1>10 DEF V, D, After

\* p holds the bytes of a text behind the first lo and up to the first hi.
Slice(p, text, lo, hi) ==
  /\ lo \in 0 .. hi /\ hi \in 0 .. Bytes(text)
  /\ p \in Seq(Byte) /\ Len(p) = hi - lo
  /\ \A k \in 1 .. Len(p) : p[k] = Encode(text)[lo + k]

\* The character m is the first that begins behind lo bytes.
FirstAfter(m, text, lo) ==
  /\ m \in 1 .. Len(text) + 1 /\ lo <= Ends(text)[m - 1]
  /\ \A i \in 1 .. m - 1 : Ends(text)[i - 1] < lo

\* The character n is the last that ends within hi bytes.
LastWithin(n, text, hi) ==
  /\ n \in 0 .. Len(text) /\ Ends(text)[n] <= hi
  /\ \A i \in n + 1 .. Len(text) : hi < Ends(text)[i]

\* The bytes of a slice at which a whole character of it begins.
LEMMA WholeMeans ==
  ASSUME NEW text \in Seq(Char), NEW p, NEW lo, NEW hi, Slice(p, text, lo, hi),
         NEW k \in 1 .. Len(p)
  PROVE  /\ p[k].byte = 1 <=> \E i \in 1 .. Len(text) : lo + k = Ends(text)[i - 1] + 1
         /\ \A i \in 1 .. Len(text) :
              lo + k = Ends(text)[i - 1] + 1
                => p[k].char = text[i] /\ (k \in Whole(p) <=> Ends(text)[i] <= hi)
<1>. DEFINE E == Ends(text)
            N == Len(text)
<1>1. /\ N \in Nat /\ \A i \in 0 .. N : E[i] \in Nat
      /\ \A i \in 1 .. N : E[i] = E[i - 1] + Width[text[i]] /\ Width[text[i]] \in 1 .. 4
      /\ lo \in Nat /\ hi \in Nat /\ lo <= hi /\ Len(p) = hi - lo /\ DOMAIN p = 1 .. Len(p)
      /\ lo + k \in 1 .. Bytes(text) /\ p[k] = Encode(text)[lo + k]
  <2>1. Bytes(text) \in Nat
    <3>1. Len(text) \in 0 .. Len(text)  BY TextTyped
    <3>. QED  BY <3>1, EndsTyped DEF Bytes
  <2>2. /\ lo \in Nat /\ hi \in Nat /\ lo <= hi /\ hi <= Bytes(text) /\ Len(p) = hi - lo
        /\ DOMAIN p = 1 .. Len(p)
    BY <2>1 DEF Slice
  <2>3. lo + k \in 1 .. Bytes(text)  BY <2>1, <2>2
  <2>4. p[k] = Encode(text)[lo + k]  BY DEF Slice
  <2>. QED  BY <2>2, <2>3, <2>4, EndsTyped, TextTyped
<1>. HIDE DEF E, N
<1>2. \A i \in 1 .. N : \A b \in 1 .. Width[text[i]] :
        lo + k = E[i - 1] + b => p[k].char = text[i] /\ p[k].byte = b
  <2>. SUFFICES ASSUME NEW i \in 1 .. N, NEW b \in 1 .. Width[text[i]], lo + k = E[i - 1] + b
                PROVE  p[k].char = text[i] /\ p[k].byte = b
    OBVIOUS
  <2>1. Encode(text)[E[i - 1] + b] = [char |-> text[i], byte |-> b]
    BY EncodedMeans DEF E, N
  <2>2. p[k] = [char |-> text[i], byte |-> b]  BY <1>1, <2>1
  <2>. QED  BY <2>2
<1>3. PICK i \in 1 .. N : (lo + k) - E[i - 1] \in 1 .. Width[text[i]]
  BY <1>1, PlaceOf DEF E, N
<1>4. p[k].byte = (lo + k) - E[i - 1]
  <2>1. E[i - 1] \in Nat  BY <1>1
  <2>2. lo + k = E[i - 1] + ((lo + k) - E[i - 1])  BY <1>1, <2>1
  <2>. QED  BY <1>2, <1>3, <2>2
<1>5. p[k].byte = 1 => lo + k = E[i - 1] + 1
  <2>1. E[i - 1] \in Nat  BY <1>1
  <2>. QED  BY <1>1, <1>4, <2>1
<1>6. ASSUME NEW c \in 1 .. N, lo + k = E[c - 1] + 1
      PROVE  /\ p[k].byte = 1 /\ p[k].char = text[c]
             /\ k \in Whole(p) <=> E[c] <= hi
  <2>. DEFINE w == Width[text[c]]
  <2>1. w \in 1 .. 4 /\ E[c] = E[c - 1] + w /\ E[c - 1] \in Nat  BY <1>1
  <2>2. 1 \in 1 .. w  BY <2>1
  <2>3. p[k].byte = 1 /\ p[k].char = text[c]  BY <1>2, <1>6, <2>2
  <2>4. k \in Whole(p) <=> k + w - 1 <= Len(p)  BY <1>1, <2>3 DEF Whole
  <2>. HIDE DEF w
  <2>5. k + w - 1 <= Len(p) <=> E[c] <= hi  BY <1>1, <1>6, <2>1
  <2>. QED  BY <2>3, <2>4, <2>5
<1>. QED  BY <1>3, <1>5, <1>6 DEF E, N

\* Decoding a slice gives its whole characters.
LEMMA SliceDecodes ==
  ASSUME NEW text \in Seq(Char), NEW p, NEW lo, NEW hi, Slice(p, text, lo, hi),
         NEW m, FirstAfter(m, text, lo), NEW n, LastWithin(n, text, hi)
  PROVE  DecodeIgnoring(p) = SubSeq(text, m, n)
<1>. DEFINE E == Ends(text)
            N == Len(text)
            D == Decoded(p)
            \* q is the last of the characters m .. N that are whole by the k-th byte.
            Upto(q, k) == /\ q \in m - 1 .. N /\ D[k] = SubSeq(text, m, q)
                          /\ \A i \in m .. N : i <= q <=> E[i - 1] < lo + k /\ E[i] <= hi
            S == {k \in Nat : k <= Len(p) => \E q \in m - 1 .. N : Upto(q, k)}
<1>1. /\ N \in Nat /\ \A i \in 0 .. N : E[i] \in Nat
      /\ \A i \in 1 .. N : E[i - 1] < E[i]
      /\ \A i, j \in 0 .. N : i < j => E[i] < E[j]
  <2>1. N \in Nat /\ \A i \in 0 .. N : E[i] \in Nat  BY EndsTyped, TextTyped
  <2>2. ASSUME NEW i \in 0 .. N, NEW j \in 0 .. N, i < j PROVE E[i] < E[j]
    <3>1. j \in i .. N /\ j - i \in Nat /\ j - i >= 1  BY <2>1, <2>2
    <3>2. E[i] + (j - i) <= E[j]  BY <3>1, EndsGrow
    <3>. QED  BY <2>1, <3>1, <3>2
  <2>3. ASSUME NEW i \in 1 .. N PROVE E[i - 1] < E[i]
    <3>1. i - 1 \in 0 .. N /\ i \in 0 .. N /\ i - 1 < i  BY <2>1
    <3>. QED  BY <2>2, <3>1
  <2>. QED  BY <2>1, <2>2, <2>3
<1>2. /\ p \in Seq(Byte) /\ lo \in Nat /\ hi \in Nat /\ lo <= hi /\ Len(p) = hi - lo
      /\ m \in 1 .. N + 1 /\ lo <= E[m - 1] /\ \A i \in 1 .. m - 1 : E[i - 1] < lo
      /\ n \in 0 .. N /\ E[n] <= hi /\ \A i \in n + 1 .. N : hi < E[i]
  <2>1. Bytes(text) \in Nat
    <3>1. Len(text) \in 0 .. Len(text)  BY TextTyped
    <3>. QED  BY <3>1, EndsTyped DEF Bytes
  <2>. QED  BY <2>1 DEF Slice, FirstAfter, LastWithin
<1>3. /\ D[0] = << >>
      /\ \A k \in 1 .. Len(p) :
           D[k] = IF k \in Whole(p) THEN Append(D[k - 1], p[k].char) ELSE D[k - 1]
  BY <1>2, DecodedTyped
<1>4. \A k \in 1 .. Len(p) :
        /\ k \in Whole(p) => \E i \in 1 .. N : lo + k = E[i - 1] + 1
        /\ \A i \in 1 .. N :
             lo + k = E[i - 1] + 1 => p[k].char = text[i] /\ (k \in Whole(p) <=> E[i] <= hi)
  <2>1. \A k \in 1 .. Len(p) : k \in Whole(p) => p[k].byte = 1  BY DEF Whole
  <2>. QED  BY <2>1, WholeMeans
<1>5. \A i \in 1 .. N : text[i] \in Char  BY TextTyped
<1>. HIDE DEF E, N, D
<1>6. 0 \in S
  <2>1. m - 1 \in m - 1 .. N  BY <1>1, <1>2
  <2>2. SubSeq(text, m, m - 1) = << >>  BY <1>2, SubSeqEmpty
  <2>3. ASSUME NEW i \in m .. N PROVE ~(i <= m - 1) /\ ~(E[i - 1] < lo + 0)
    <3>1. ~(i <= m - 1) /\ i - 1 \in 0 .. N /\ m - 1 \in 0 .. N  BY <1>1, <1>2
    <3>2. m - 1 = i - 1 \/ m - 1 < i - 1  BY <1>1, <1>2
    <3>3. E[m - 1] <= E[i - 1]  BY <1>1, <3>1, <3>2
    <3>. QED  BY <1>1, <1>2, <3>1, <3>3
  <2>4. Upto(m - 1, 0)  BY <1>3, <2>1, <2>2, <2>3
  <2>. QED  BY <2>1, <2>4
<1>7. ASSUME NEW k \in Nat, k \in S PROVE k + 1 \in S
  <2>. SUFFICES ASSUME k + 1 <= Len(p) PROVE \E q \in m - 1 .. N : Upto(q, k + 1)
    OBVIOUS
  <2>1. PICK j \in 1 .. Len(p) : j = k + 1 /\ j - 1 = k  BY <1>2
  <2>2. PICK q \in m - 1 .. N : Upto(q, k)  BY <1>2, <1>7
  <2>3. \A i \in m .. N : i <= q <=> E[i - 1] < lo + k /\ E[i] <= hi  BY <2>2
  <2>4. CASE j \in Whole(p)
    <3>1. PICK i \in 1 .. N : lo + j = E[i - 1] + 1  BY <1>4, <2>4
    <3>2. p[j].char = text[i] /\ E[i] <= hi /\ E[i - 1] = lo + k
      <4>1. E[i - 1] \in Nat  BY <1>1
      <4>2. E[i - 1] = lo + k  BY <1>2, <2>1, <3>1, <4>1
      <4>. QED  BY <1>4, <2>4, <3>1, <4>2
    <3>3. i \in m .. N
      <4>1. i \notin 1 .. m - 1  BY <1>1, <1>2, <3>2
      <4>. QED  BY <1>1, <1>2, <4>1
    <3>4. q = i - 1
      <4>1. ~(i <= q)  BY <1>1, <1>2, <2>3, <3>2, <3>3
      <4>2. i - 1 <= q
        <5>1. CASE i = m  BY <1>2, <5>1
        <5>2. CASE i # m
          <6>1. i - 1 \in m .. N /\ i - 1 \in 1 .. N /\ (i - 1) - 1 \in 0 .. N
            BY <1>1, <1>2, <3>3, <5>2
          <6>2. E[(i - 1) - 1] < E[i - 1] /\ E[i - 1] < E[i]  BY <1>1, <6>1
          <6>3. /\ E[i - 1] \in Nat /\ E[i] \in Nat
                /\ E[(i - 1) - 1] < lo + k /\ E[i - 1] <= hi
            BY <1>1, <1>2, <3>2, <6>1, <6>2
          <6>. QED  BY <2>3, <6>1, <6>3
        <5>. QED  BY <5>1, <5>2
      <4>. QED  BY <1>2, <4>1, <4>2
    <3>5. D[k + 1] = SubSeq(text, m, i)
      <4>1. D[j] = Append(D[k], text[i])  BY <1>3, <2>1, <2>4, <3>2
      <4>2. D[k] = SubSeq(text, m, i - 1)  BY <2>2, <3>4
      <4>3. SubSeq(text, m, i) = Append(SubSeq(text, m, i - 1), text[i])
        <5>1. m \in 1 .. Len(text) /\ i \in m .. Len(text)  BY <1>1, <1>2, <3>3 DEF N
        <5>. QED  BY <5>1, SubSeqRecursiveSecond, AppendIsConcat
      <4>. QED  BY <2>1, <4>1, <4>2, <4>3
    <3>6. ASSUME NEW c \in m .. N PROVE c <= i <=> E[c - 1] < lo + (k + 1) /\ E[c] <= hi
      <4>1. c - 1 \in 0 .. N /\ c \in 0 .. N /\ i - 1 \in 0 .. N /\ i \in 0 .. N
            /\ i \in Int /\ c \in Int
        BY <1>1, <1>2, <3>3
      <4>2. CASE c <= i - 1
        BY <1>1, <1>2, <2>3, <3>4, <4>1, <4>2
      <4>3. CASE c = i  BY <1>1, <1>2, <3>2, <4>1, <4>3
      <4>4. CASE c > i
        <5>1. i - 1 < c - 1 /\ i <= c - 1  BY <4>1, <4>4
        <5>2. E[i - 1] < E[c - 1] /\ E[i - 1] \in Nat /\ E[c - 1] \in Nat
          BY <1>1, <4>1, <5>1
        <5>. QED  BY <1>2, <3>2, <4>1, <4>4, <5>2
      <4>. QED  BY <4>1, <4>2, <4>3, <4>4
    <3>7. i \in m - 1 .. N  BY <1>1, <1>2, <3>3
    <3>8. Upto(i, k + 1)  BY <3>5, <3>6, <3>7
    <3>. QED  BY <3>7, <3>8
  <2>5. CASE j \notin Whole(p)
    <3>1. D[k + 1] = SubSeq(text, m, q)  BY <1>3, <2>1, <2>2, <2>5
    <3>2. ASSUME NEW c \in m .. N PROVE c <= q <=> E[c - 1] < lo + (k + 1) /\ E[c] <= hi
      <4>1. c \in 1 .. N /\ E[c - 1] \in Nat  BY <1>1, <1>2
      <4>2. lo + j = E[c - 1] + 1 => ~(E[c] <= hi)  BY <1>4, <2>5, <4>1
      <4>3. E[c - 1] < lo + (k + 1) <=> E[c - 1] < lo + k \/ lo + j = E[c - 1] + 1
        BY <1>2, <2>1, <4>1
      <4>. QED  BY <2>3, <4>2, <4>3
    <3>3. Upto(q, k + 1)  BY <3>1, <3>2
    <3>. QED  BY <3>3
  <2>. QED  BY <2>4, <2>5
<1>8. PICK q \in m - 1 .. N : Upto(q, Len(p))
  <2>1. Len(p) \in Nat  BY <1>2
  <2>2. Len(p) \in S
    <3>. HIDE DEF S
    <3>. QED  BY <1>6, <1>7, <2>1, FromZeroOn
  <2>. QED  BY <2>1, <2>2
<1>9. \A i \in m .. N : i <= q <=> E[i] <= hi
  <2>1. ASSUME NEW i \in m .. N PROVE i <= q <=> E[i] <= hi
    <3>1. /\ i \in 1 .. N /\ E[i - 1] < E[i] /\ E[i - 1] \in Nat /\ E[i] \in Nat
          /\ lo + Len(p) = hi
      BY <1>1, <1>2
    <3>2. i <= q <=> E[i - 1] < lo + Len(p) /\ E[i] <= hi  BY <1>8
    <3>. QED  BY <1>2, <3>1, <3>2
  <2>. QED  BY <2>1
<1>10. SubSeq(text, m, q) = SubSeq(text, m, n)
  <2>1. CASE n < m
    <3>1. q = m - 1
      <4>. SUFFICES ASSUME q # m - 1 PROVE FALSE  OBVIOUS
      <4>1. q \in m .. N /\ q \in n + 1 .. N  BY <1>1, <1>2, <2>1
      <4>2. E[q] <= hi /\ hi < E[q] /\ E[q] \in Nat  BY <1>1, <1>2, <1>9, <4>1
      <4>. QED  BY <1>2, <4>2
    <3>2. SubSeq(text, m, q) = << >> /\ SubSeq(text, m, n) = << >>
      BY <1>2, <2>1, <3>1, SubSeqEmpty
    <3>. QED  BY <3>2
  <2>2. CASE m <= n
    <3>1. n \in m .. N /\ n <= q  BY <1>2, <1>9, <2>2
    <3>2. ~(n < q)
      <4>. SUFFICES ASSUME n < q PROVE FALSE  OBVIOUS
      <4>1. q \in m .. N /\ q \in n + 1 .. N  BY <1>1, <1>2, <2>2
      <4>2. E[q] <= hi /\ hi < E[q] /\ E[q] \in Nat  BY <1>1, <1>2, <1>9, <4>1
      <4>. QED  BY <1>2, <4>2
    <3>. QED  BY <1>2, <3>1, <3>2
  <2>. QED  BY <1>2, <2>1, <2>2
<1>. QED  BY <1>8, <1>10 DEF DecodeIgnoring, D

\* The bytes of a part of a text.
LEMMA BytesOfPart ==
  ASSUME NEW text \in Seq(Char), NEW m \in 1 .. Len(text) + 1, NEW n \in m - 1 .. Len(text)
  PROVE  /\ SubSeq(text, m, n) \in Seq(Char) /\ Len(SubSeq(text, m, n)) = n - (m - 1)
         /\ Bytes(SubSeq(text, m, n)) = Ends(text)[n] - Ends(text)[m - 1]
<1>. DEFINE E == Ends(text)
            N == Len(text)
            part == SubSeq(text, m, n)
            L == Len(part)
            F == Ends(part)
            S == {k \in Nat : k <= L => F[k] = E[(m - 1) + k] - E[m - 1]}
<1>1. /\ N \in Nat /\ \A i \in 0 .. N : E[i] \in Nat
      /\ \A i \in 1 .. N : E[i] = E[i - 1] + Width[text[i]]
      /\ \A i \in 1 .. N : text[i] \in Char
  BY EndsTyped, TextTyped
<1>2. /\ part \in Seq(Char) /\ L = n - (m - 1)
      /\ \A k \in 1 .. L : part[k] = text[(m - 1) + k]
  <2>1. m \in Int /\ n \in Int /\ \A i \in m .. n : text[i] \in Char  BY <1>1
  <2>2. /\ part \in Seq(Char) /\ L = IF m <= n THEN n - m + 1 ELSE 0
        /\ \A k \in 1 .. n - m + 1 : part[k] = text[m + k - 1]
    BY <2>1, SubSeqProperties
  <2>3. L = n - (m - 1)  BY <1>1, <2>1, <2>2
  <2>4. ASSUME NEW k \in 1 .. L PROVE part[k] = text[(m - 1) + k]
    <3>1. k \in 1 .. n - m + 1 /\ m + k - 1 = (m - 1) + k  BY <2>1, <2>3
    <3>. QED  BY <2>2, <3>1
  <2>. QED  BY <2>2, <2>3, <2>4
<1>3. /\ L \in Nat /\ F[0] = 0 /\ \A k \in 0 .. L : F[k] \in Nat
      /\ \A k \in 1 .. L : F[k] = F[k - 1] + Width[part[k]]
      /\ \A k \in 1 .. L : Width[part[k]] \in Nat
  BY <1>2, EndsTyped, TextTyped
<1>. HIDE DEF E, N, part, F
<1>. HIDE DEF L
<1>4. m \in 1 .. N + 1 /\ n \in m - 1 .. N /\ m - 1 \in 0 .. N  BY <1>1 DEF N
<1>5. 0 \in S  BY <1>1, <1>3, <1>4
<1>6. ASSUME NEW k \in Nat, k \in S PROVE k + 1 \in S
  <2>. SUFFICES ASSUME k + 1 <= L PROVE F[k + 1] = E[(m - 1) + (k + 1)] - E[m - 1]
    OBVIOUS
  <2>1. PICK j \in 1 .. L : j = k + 1 /\ j - 1 = k  BY <1>3
  <2>2. PICK i \in 1 .. N : i = (m - 1) + j /\ i - 1 = (m - 1) + k
    <3>1. (m - 1) + j \in 1 .. N  BY <1>1, <1>2, <1>3, <1>4, <2>1
    <3>. QED  BY <1>4, <2>1, <3>1
  <2>3. F[j] = F[k] + Width[part[j]] /\ part[j] = text[i]  BY <1>2, <1>3, <2>1, <2>2
  <2>4. E[i] = E[i - 1] + Width[text[i]]  BY <1>1
  <2>5. F[k] = E[(m - 1) + k] - E[m - 1]  BY <1>3, <1>6, <2>1
  <2>. DEFINE w == Width[text[i]]
  <2>6. w \in Nat  BY <1>3, <2>3
  <2>7. E[i - 1] \in Nat /\ E[m - 1] \in Nat  BY <1>1, <1>4, <2>2
  <2>8. F[j] = F[k] + w /\ E[i] = E[i - 1] + w /\ F[k] = E[i - 1] - E[m - 1]
    BY <2>2, <2>3, <2>4, <2>5
  <2>. HIDE DEF w
  <2>9. F[j] = E[i] - E[m - 1]  BY <2>6, <2>7, <2>8
  <2>. QED  BY <2>1, <2>2, <2>9
<1>7. L \in S
  <2>. HIDE DEF S
  <2>. QED  BY <1>3, <1>5, <1>6, FromZeroOn
<1>8. F[L] = E[n] - E[m - 1]
  <2>1. (m - 1) + L = n  BY <1>1, <1>2, <1>4
  <2>2. F[L] = E[(m - 1) + L] - E[m - 1]  BY <1>3, <1>7
  <2>. QED  BY <2>1, <2>2
<1>. QED  BY <1>2, <1>8 DEF Bytes, E, F, L, part

LEMMA MaxIs ==
  ASSUME NEW S, S \subseteq Int, NEW x \in S, \A y \in S : y <= x
  PROVE  Max(S) = x
<1>1. \A y \in S : x >= y  OBVIOUS
<1>2. Max(S) \in S /\ \A y \in S : Max(S) >= y  BY <1>1 DEF Max
<1>3. Max(S) >= x /\ x >= Max(S) /\ Max(S) \in Int /\ x \in Int  BY <1>1, <1>2
<1>. QED  BY <1>3

LEMMA MinIs ==
  ASSUME NEW S, S \subseteq Int, NEW x \in S, \A y \in S : x <= y
  PROVE  Min(S) = x
<1>1. Min(S) \in S /\ \A y \in S : Min(S) <= y  BY DEF Min
<1>2. Min(S) <= x /\ x <= Min(S) /\ Min(S) \in Int /\ x \in Int  BY <1>1
<1>. QED  BY <1>2

LEMMA FirstAfterExists ==
  ASSUME NEW text \in Seq(Char), NEW lo \in 0 .. Bytes(text)
  PROVE  \E m : FirstAfter(m, text, lo)
<1>. DEFINE N == Len(text)
            S == {m \in 1 .. N + 1 : lo <= Ends(text)[m - 1]}
<1>1. N \in Nat /\ \A i \in 0 .. N : Ends(text)[i] \in Nat  BY EndsTyped, TextTyped
<1>2. N + 1 \in S
  <2>1. N + 1 - 1 = N /\ N + 1 \in 1 .. N + 1 /\ N \in 0 .. N  BY <1>1
  <2>2. lo <= Ends(text)[N]  BY <1>1, <2>1 DEF Bytes
  <2>. QED  BY <2>1, <2>2
<1>3. PICK m \in S : \A k \in S : m <= k
  <2>1. S \subseteq Nat  OBVIOUS
  <2>. HIDE DEF S
  <2>. QED  BY <1>2, <2>1, LeastOf
<1>4. ASSUME NEW i \in 1 .. m - 1 PROVE Ends(text)[i - 1] < lo
  <2>1. i \in 1 .. N + 1 /\ ~(m <= i) /\ i - 1 \in 0 .. N  BY <1>1, <1>3
  <2>2. ~(lo <= Ends(text)[i - 1])  BY <1>3, <2>1
  <2>3. Ends(text)[i - 1] \in Nat /\ lo \in Int  BY <1>1, <2>1 DEF Bytes
  <2>. QED  BY <2>2, <2>3
<1>. QED  BY <1>3, <1>4 DEF FirstAfter

LEMMA LastWithinExists ==
  ASSUME NEW text \in Seq(Char), NEW hi \in Nat
  PROVE  \E n : LastWithin(n, text, hi)
<1>. DEFINE N == Len(text)
            S == {i \in 1 .. N + 1 : i = N + 1 \/ hi < Ends(text)[i]}
<1>1. /\ N \in Nat /\ \A i \in 0 .. N : Ends(text)[i] \in Nat
      /\ Ends(text)[0] = 0
  BY EndsTyped, TextTyped
<1>2. N + 1 \in S  BY <1>1
<1>3. PICK m \in S : \A k \in S : m <= k
  <2>1. S \subseteq Nat  OBVIOUS
  <2>. HIDE DEF S
  <2>. QED  BY <1>2, <2>1, LeastOf
<1>4. m - 1 \in 0 .. N  BY <1>1, <1>3
<1>5. Ends(text)[m - 1] <= hi
  <2>1. CASE m = 1  BY <1>1, <2>1
  <2>2. CASE m # 1
    <3>1. m - 1 \in 1 .. N + 1 /\ m - 1 # N + 1 /\ ~(m <= m - 1)  BY <1>1, <1>3, <2>2
    <3>2. ~(hi < Ends(text)[m - 1])  BY <1>3, <3>1
    <3>. QED  BY <1>1, <1>4, <3>2
  <2>. QED  BY <2>1, <2>2
<1>6. ASSUME NEW i \in (m - 1) + 1 .. N PROVE hi < Ends(text)[i]
  <2>1. /\ m \in 1 .. N /\ i \in m .. N /\ (m = N + 1 \/ hi < Ends(text)[m])
        /\ m \in 0 .. N /\ i \in 0 .. N
    BY <1>1, <1>3
  <2>2. hi < Ends(text)[m] /\ Ends(text)[m] + (i - m) <= Ends(text)[i]
    BY <1>1, <2>1, EndsGrow
  <2>3. Ends(text)[m] \in Nat /\ Ends(text)[i] \in Nat  BY <1>1, <2>1
  <2>. QED  BY <2>1, <2>2, <2>3
<1>7. LastWithin(m - 1, text, hi)  BY <1>4, <1>5, <1>6 DEF LastWithin
<1>. QED  BY <1>7

LEMMA BytesTyped ==
  ASSUME NEW text \in Seq(Char)
  PROVE  Bytes(text) \in Nat /\ Encode(text) \in Seq(Byte) /\ Len(Encode(text)) = Bytes(text)
<1>1. Len(text) \in 0 .. Len(text)  BY TextTyped
<1>. QED  BY <1>1, EndsTyped, EncodedMeans DEF Bytes

\* data[:n]
LEMMA LeadingMeans ==
  ASSUME NEW p \in Seq(Byte), NEW n \in Int
  PROVE  \E k \in 0 .. Len(p) :
           /\ n >= 0 => k = IF n <= Len(p) THEN n ELSE Len(p)
           /\ Leading(p, n) \in Seq(Byte) /\ Len(Leading(p, n)) = k
           /\ \A i \in 1 .. k : Leading(p, n)[i] = p[i]
<1>. DEFINE L == Len(p)
            k == IF n < 0 THEN Max({0, L + n}) ELSE Min({n, L})
<1>1. L \in Nat /\ \A i \in 1 .. L : p[i] \in Byte  OBVIOUS
<1>2. k \in 0 .. L /\ (n >= 0 => k = IF n <= L THEN n ELSE L)
  <2>1. CASE n < 0
    <3>. DEFINE x == IF L + n >= 0 THEN L + n ELSE 0
    <3>1. {0, L + n} \subseteq Int /\ x \in {0, L + n} /\ \A y \in {0, L + n} : y <= x
      BY <1>1
    <3>2. Max({0, L + n}) = x
      <4>. HIDE DEF x
      <4>. QED  BY <3>1, MaxIs
    <3>. QED  BY <1>1, <2>1, <3>2
  <2>2. CASE ~(n < 0)
    <3>1. L \in Int  BY <1>1
    <3>2. k = IF n <= L THEN n ELSE L  BY <2>2, <3>1, MinOfTwo
    <3>. QED  BY <1>1, <2>2, <3>2
  <2>. QED  BY <2>1, <2>2
<1>3. Leading(p, n) = SubSeq(p, 1, k)  BY DEF Leading
<1>. HIDE DEF k, L
<1>4. /\ SubSeq(p, 1, k) \in Seq(Byte) /\ Len(SubSeq(p, 1, k)) = k
      /\ \A i \in 1 .. k : SubSeq(p, 1, k)[i] = p[i]
  <2>1. k \in Int /\ \A i \in 1 .. k : p[i] \in Byte  BY <1>1, <1>2
  <2>2. /\ SubSeq(p, 1, k) \in Seq(Byte)
        /\ Len(SubSeq(p, 1, k)) = IF 1 <= k THEN k - 1 + 1 ELSE 0
        /\ \A i \in 1 .. k - 1 + 1 : SubSeq(p, 1, k)[i] = p[1 + i - 1]
    BY <2>1, SubSeqProperties
  <2>3. Len(SubSeq(p, 1, k)) = k  BY <1>1, <1>2, <2>2
  <2>4. ASSUME NEW i \in 1 .. k PROVE SubSeq(p, 1, k)[i] = p[i]
    <3>1. i \in 1 .. k - 1 + 1 /\ 1 + i - 1 = i  BY <2>1
    <3>. QED  BY <2>2, <3>1
  <2>. QED  BY <2>2, <2>3, <2>4
<1>. QED  BY <1>2, <1>3, <1>4 DEF L

\* data[-n:]
LEMMA TrailingMeans ==
  ASSUME NEW p \in Seq(Byte), NEW n \in 0 .. Len(p)
  PROVE  /\ Trailing(p, n) \in Seq(Byte) /\ Len(Trailing(p, n)) = n
         /\ \A i \in 1 .. n : Trailing(p, n)[i] = p[(Len(p) - n) + i]
<1>. DEFINE L == Len(p)
            a == L - n + 1
<1>1. L \in Nat /\ n \in Nat /\ a \in 1 .. L + 1 /\ \A i \in 1 .. L : p[i] \in Byte
  OBVIOUS
<1>2. Max({1, a}) = a
  <2>1. {1, a} \subseteq Int /\ a \in {1, a} /\ \A y \in {1, a} : y <= a  BY <1>1
  <2>. HIDE DEF a
  <2>. QED  BY <2>1, MaxIs
<1>3. Trailing(p, n) = SubSeq(p, a, L)  BY <1>2 DEF Trailing
<1>4. /\ SubSeq(p, a, L) \in Seq(Byte)
      /\ Len(SubSeq(p, a, L)) = IF a <= L THEN L - a + 1 ELSE 0
      /\ \A i \in 1 .. L - a + 1 : SubSeq(p, a, L)[i] = p[a + i - 1]
  <2>1. a \in Int /\ L \in Int /\ \A i \in a .. L : p[i] \in Byte  BY <1>1
  <2>. HIDE DEF a, L
  <2>. QED  BY <2>1, SubSeqProperties
<1>5. Len(SubSeq(p, a, L)) = n  BY <1>1, <1>4
<1>6. ASSUME NEW i \in 1 .. n PROVE SubSeq(p, a, L)[i] = p[(L - n) + i]
  <2>1. i \in 1 .. L - a + 1 /\ a + i - 1 = (L - n) + i  BY <1>1
  <2>. QED  BY <1>4, <2>1
<1>. QED  BY <1>3, <1>4, <1>5, <1>6

LEMMA HeadDecodes ==
  ASSUME NEW text \in Seq(Char), NEW h \in 0 .. Bytes(text), NEW n, LastWithin(n, text, h)
  PROVE  DecodeIgnoring(Leading(Encode(text), h)) = SubSeq(text, 1, n)
<1>1. /\ Encode(text) \in Seq(Byte) /\ Len(Encode(text)) = Bytes(text)
      /\ Bytes(text) \in Nat /\ h \in Nat /\ h <= Bytes(text)
  BY BytesTyped
<1>2. Slice(Leading(Encode(text), h), text, 0, h)
  <2>1. PICK k \in 0 .. Len(Encode(text)) :
          /\ h >= 0 => k = IF h <= Len(Encode(text)) THEN h ELSE Len(Encode(text))
          /\ Leading(Encode(text), h) \in Seq(Byte) /\ Len(Leading(Encode(text), h)) = k
          /\ \A i \in 1 .. k : Leading(Encode(text), h)[i] = Encode(text)[i]
    <3>1. h \in Int  BY <1>1
    <3>. QED  BY <1>1, <3>1, LeadingMeans
  <2>2. k = h /\ h = h - 0 /\ 0 \in 0 .. h  BY <1>1, <2>1
  <2>3. \A i \in 1 .. h : Leading(Encode(text), h)[i] = Encode(text)[0 + i]
    BY <1>1, <2>1, <2>2
  <2>. QED  BY <2>1, <2>2, <2>3 DEF Slice
<1>3. FirstAfter(1, text, 0)
  <2>1. 1 \in 1 .. Len(text) + 1 /\ 1 - 1 = 0 /\ 1 .. 1 - 1 = {}  BY TextTyped
  <2>. QED  BY <2>1, EndsTyped DEF FirstAfter
<1>. QED  BY <1>2, <1>3, SliceDecodes

LEMMA TailDecodes ==
  ASSUME NEW text \in Seq(Char), NEW t \in 0 .. Bytes(text),
         NEW m, FirstAfter(m, text, Bytes(text) - t)
  PROVE  DecodeIgnoring(Trailing(Encode(text), t)) = SubSeq(text, m, Len(text))
<1>1. /\ Encode(text) \in Seq(Byte) /\ Len(Encode(text)) = Bytes(text)
      /\ Bytes(text) \in Nat /\ t \in Nat /\ t <= Bytes(text)
  BY BytesTyped
<1>. DEFINE lo == Bytes(text) - t
<1>2. Slice(Trailing(Encode(text), t), text, lo, Bytes(text))
  <2>1. /\ Trailing(Encode(text), t) \in Seq(Byte) /\ Len(Trailing(Encode(text), t)) = t
        /\ \A i \in 1 .. t : Trailing(Encode(text), t)[i]
                               = Encode(text)[(Len(Encode(text)) - t) + i]
    BY <1>1, TrailingMeans
  <2>2. t = Bytes(text) - lo /\ lo \in 0 .. Bytes(text) /\ Bytes(text) \in 0 .. Bytes(text)
    BY <1>1
  <2>. QED  BY <1>1, <2>1, <2>2 DEF Slice
<1>3. LastWithin(Len(text), text, Bytes(text))
  <2>1. Len(text) \in 0 .. Len(text) /\ Len(text) + 1 .. Len(text) = {}  BY TextTyped
  <2>. QED  BY <1>1, <2>1 DEF LastWithin, Bytes
<1>. QED  BY <1>2, <1>3, SliceDecodes

LEMMA PrefixIs ==
  ASSUME NEW text \in Seq(Char), NEW h \in Nat, NEW n, LastWithin(n, text, h)
  PROVE  LongestPrefix(text, h) = SubSeq(text, 1, n)
<1>. DEFINE N == Len(text)
            S == {k \in 0 .. N : Bytes(SubSeq(text, 1, k)) <= h}
<1>1. /\ N \in Nat /\ Ends(text)[0] = 0 /\ \A k \in 0 .. N : Ends(text)[k] \in Nat
  BY TextTyped, EndsTyped
<1>2. \A k \in 0 .. N : Bytes(SubSeq(text, 1, k)) = Ends(text)[k]
  <2>. SUFFICES ASSUME NEW k \in 0 .. N PROVE Bytes(SubSeq(text, 1, k)) = Ends(text)[k]
    OBVIOUS
  <2>1. 1 \in 1 .. Len(text) + 1 /\ k \in 1 - 1 .. Len(text) /\ 1 - 1 = 0  BY <1>1
  <2>2. Bytes(SubSeq(text, 1, k)) = Ends(text)[k] - Ends(text)[1 - 1]
    BY <2>1, BytesOfPart
  <2>. QED  BY <1>1, <2>1, <2>2
<1>3. n \in S  BY <1>2 DEF LastWithin
<1>4. ASSUME NEW y \in S PROVE y <= n
  <2>. SUFFICES ASSUME ~(y <= n) PROVE FALSE  OBVIOUS
  <2>1. y \in n + 1 .. N  BY <1>1, <1>3
  <2>2. h < Ends(text)[y] /\ Ends(text)[y] <= h /\ Ends(text)[y] \in Nat
    BY <1>1, <1>2, <2>1 DEF LastWithin
  <2>. QED  BY <2>2
<1>5. Max(S) = n
  <2>1. S \subseteq Int  BY <1>1
  <2>. HIDE DEF S
  <2>. QED  BY <1>3, <1>4, <2>1, MaxIs
<1>. QED  BY <1>5 DEF LongestPrefix

LEMMA SuffixIs ==
  ASSUME NEW text \in Seq(Char), NEW t \in 0 .. Bytes(text),
         NEW m, FirstAfter(m, text, Bytes(text) - t)
  PROVE  LongestSuffix(text, t) = SubSeq(text, m, Len(text))
<1>. DEFINE N == Len(text)
            S == {k \in 1 .. N + 1 : Bytes(SubSeq(text, k, N)) <= t}
<1>1. /\ N \in Nat /\ \A k \in 0 .. N : Ends(text)[k] \in Nat
      /\ Bytes(text) = Ends(text)[N] /\ t \in Nat /\ Bytes(text) \in Nat
  BY TextTyped, EndsTyped, BytesTyped DEF Bytes
<1>2. \A k \in 1 .. N + 1 : /\ Bytes(SubSeq(text, k, N)) = Bytes(text) - Ends(text)[k - 1]
                            /\ Ends(text)[k - 1] \in Nat
  <2>. SUFFICES ASSUME NEW k \in 1 .. N + 1
                PROVE  /\ Bytes(SubSeq(text, k, N)) = Bytes(text) - Ends(text)[k - 1]
                       /\ Ends(text)[k - 1] \in Nat
    OBVIOUS
  <2>1. N \in k - 1 .. Len(text) /\ k - 1 \in 0 .. N  BY <1>1
  <2>. QED  BY <1>1, <2>1, BytesOfPart
<1>3. m \in S
  <2>1. m \in 1 .. N + 1 /\ Bytes(text) - t <= Ends(text)[m - 1]  BY DEF FirstAfter
  <2>2. Bytes(text) - Ends(text)[m - 1] <= t  BY <1>1, <1>2, <2>1
  <2>. QED  BY <1>2, <2>1, <2>2
<1>4. ASSUME NEW y \in S PROVE m <= y
  <2>. SUFFICES ASSUME ~(m <= y) PROVE FALSE  OBVIOUS
  <2>1. y \in 1 .. m - 1  BY <1>1, <1>3
  <2>2. Ends(text)[y - 1] < Bytes(text) - t  BY <2>1 DEF FirstAfter
  <2>3. Bytes(text) - Ends(text)[y - 1] <= t  BY <1>2
  <2>4. Ends(text)[y - 1] \in Nat  BY <1>2
  <2>. QED  BY <1>1, <2>2, <2>3, <2>4
<1>5. Min(S) = m
  <2>1. S \subseteq Int  BY <1>1
  <2>. HIDE DEF S
  <2>. QED  BY <1>3, <1>4, <2>1, MinIs
<1>. QED  BY <1>5 DEF LongestSuffix

\* What truncate_output does to any text, under any cap.
LEMMA CutsWell ==
  ASSUME NEW text \in Seq(Char), NEW cap \in Nat
  PROVE  LET cut == Truncate(text, cap) IN
         IF Bytes(text) <= cap THEN cut = Untouched(text)
         ELSE /\ cut.head = LongestPrefix(text, cap \div 2)
              /\ cut.tail = LongestSuffix(text, cap - cap \div 2)
              /\ Len(cut.head) + Len(cut.tail) <= Len(text)
              /\ cut.dropped > 0
              /\ cut.dropped =
                   Bytes(SubSeq(text, Len(cut.head) + 1, Len(text) - Len(cut.tail)))
              /\ cut.head \in Seq(Char) /\ cut.tail \in Seq(Char)
<1>1. CASE Bytes(text) <= cap  BY <1>1 DEF Truncate
<1>2. CASE ~(Bytes(text) <= cap)
  <2>. DEFINE N == Len(text)
              T == Bytes(text)
              E == Ends(text)
              h == cap \div 2
              t == cap - cap \div 2
  <2>1. /\ N \in Nat /\ T \in Nat /\ T = E[N] /\ \A i \in 0 .. N : E[i] \in Nat
        /\ E[0] = 0
    BY TextTyped, EndsTyped, BytesTyped DEF Bytes
  <2>2. h \in Nat /\ t \in Nat /\ h + t = cap /\ h \in 0 .. T /\ t \in 0 .. T
        /\ T - t \in 0 .. T /\ h < T - t
    BY <1>2, <2>1
  <2>3. PICK n : LastWithin(n, text, h)  BY <2>2, LastWithinExists
  <2>4. PICK m : FirstAfter(m, text, T - t)  BY <2>2, FirstAfterExists
  <2>5. /\ n \in 0 .. N /\ E[n] <= h /\ \A i \in n + 1 .. N : h < E[i]
        /\ m \in 1 .. N + 1 /\ T - t <= E[m - 1]
    BY <2>3, <2>4 DEF LastWithin, FirstAfter
  <2>. DEFINE head == SubSeq(text, 1, n)
              tail == SubSeq(text, m, N)
              cut == Truncate(text, cap)
  <2>6. /\ DecodeIgnoring(Leading(Encode(text), h)) = head
        /\ head = LongestPrefix(text, h)
    BY <2>2, <2>3, HeadDecodes, PrefixIs
  <2>7. /\ DecodeIgnoring(Trailing(Encode(text), t)) = tail
        /\ tail = LongestSuffix(text, t)
    BY <2>2, <2>4, TailDecodes, SuffixIs
  <2>8. cut = [head |-> head, dropped |-> T - (Bytes(head) + Bytes(tail)), tail |-> tail]
    BY <1>2, <2>6, <2>7 DEF Truncate, TailBudget
  <2>9. head \in Seq(Char) /\ Len(head) = n /\ Bytes(head) = E[n]
    <3>1. 1 \in 1 .. Len(text) + 1 /\ n \in 1 - 1 .. Len(text) /\ 1 - 1 = 0  BY <2>1, <2>5
    <3>2. /\ head \in Seq(Char) /\ Len(head) = n - (1 - 1)
          /\ Bytes(head) = E[n] - E[1 - 1]
      BY <3>1, BytesOfPart
    <3>3. E[n] \in Nat /\ n \in Nat  BY <2>1, <2>5
    <3>. QED  BY <2>1, <3>1, <3>2, <3>3
  <2>10. tail \in Seq(Char) /\ Len(tail) = N - (m - 1) /\ Bytes(tail) = T - E[m - 1]
    <3>1. m \in 1 .. Len(text) + 1 /\ N \in m - 1 .. Len(text)  BY <2>1, <2>5
    <3>. QED  BY <2>1, <3>1, BytesOfPart
  <2>. HIDE DEF head, tail, h, t, T, E, N, cut
  <2>11. E[n] < E[m - 1] /\ E[n] \in Nat /\ E[m - 1] \in Nat /\ m - 1 \in 0 .. N
    <3>1. m - 1 \in 0 .. N  BY <2>1, <2>5
    <3>. QED  BY <2>1, <2>2, <2>5, <3>1
  <2>12. n < m - 1
    <3>. SUFFICES ASSUME m - 1 <= n PROVE FALSE  BY <2>5, <2>11
    <3>1. m - 1 \in 0 .. Len(text) /\ n \in m - 1 .. Len(text)
      BY <2>1, <2>5, <2>11 DEF N
    <3>2. E[m - 1] + (n - (m - 1)) <= E[n]  BY <3>1, EndsGrow DEF E
    <3>. QED  BY <2>5, <2>11, <3>1, <3>2
  <2>13. cut.head = head /\ cut.tail = tail /\ cut.dropped = T - (Bytes(head) + Bytes(tail))
    BY <2>8
  <2>14. Len(head) + Len(tail) <= N  BY <2>1, <2>5, <2>9, <2>10, <2>12
  <2>15. cut.dropped = E[m - 1] - E[n]  BY <2>1, <2>9, <2>10, <2>11, <2>13
  <2>16. Bytes(SubSeq(text, Len(head) + 1, N - Len(tail))) = E[m - 1] - E[n]
    <3>1. Len(head) + 1 = n + 1 /\ N - Len(tail) = m - 1
      BY <2>1, <2>5, <2>9, <2>10
    <3>2. n + 1 \in 1 .. Len(text) + 1 /\ m - 1 \in (n + 1) - 1 .. Len(text)
          /\ (n + 1) - 1 = n
      BY <2>1, <2>5, <2>11, <2>12 DEF N
    <3>3. Bytes(SubSeq(text, n + 1, m - 1)) = E[m - 1] - E[(n + 1) - 1]
      BY <3>2, BytesOfPart DEF E
    <3>. QED  BY <3>1, <3>2, <3>3
  <2>17. cut.dropped > 0  BY <2>11, <2>15
  <2>. QED  BY <1>2, <2>6, <2>7, <2>9, <2>10, <2>13, <2>14, <2>15, <2>16, <2>17
            DEF cut, h, t, N, T
<1>. QED  BY <1>1, <1>2

\* All the bytes of a text decode to it, and none is left over.
LEMMA WholeDecodes ==
  ASSUME NEW text \in Seq(Char), NEW p, Slice(p, text, 0, Bytes(text))
  PROVE  DecodeReplacing(p) = text
<1>1. Bytes(text) \in Nat /\ Len(text) \in Nat /\ Len(p) = Bytes(text) /\ DOMAIN p = 1 .. Len(p)
  BY BytesTyped, TextTyped DEF Slice
<1>2. FirstAfter(1, text, 0)
  <2>1. 1 \in 1 .. Len(text) + 1 /\ 1 - 1 = 0 /\ 1 .. 1 - 1 = {}  BY <1>1
  <2>. QED  BY <2>1, EndsTyped DEF FirstAfter
<1>3. LastWithin(Len(text), text, Bytes(text))
  <2>1. Len(text) \in 0 .. Len(text) /\ Len(text) + 1 .. Len(text) = {}  BY <1>1
  <2>. QED  BY <1>1, <2>1 DEF LastWithin, Bytes
<1>4. DecodeIgnoring(p) = text
  <2>1. DecodeIgnoring(p) = SubSeq(text, 1, Len(text))  BY <1>2, <1>3, SliceDecodes
  <2>. QED  BY <2>1, SubSeqFull
<1>5. ASSUME NEW k \in DOMAIN p, p[k].byte = 1 PROVE k \in Whole(p)
  <2>1. k \in 1 .. Len(p)  BY <1>1
  <2>2. PICK i \in 1 .. Len(text) : 0 + k = Ends(text)[i - 1] + 1
    BY <1>5, <2>1, WholeMeans
  <2>3. k \in Whole(p) <=> Ends(text)[i] <= Bytes(text)
    BY <2>1, <2>2, WholeMeans
  <2>4. Ends(text)[i] <= Bytes(text)
    <3>1. i \in 0 .. Len(text) /\ Len(text) \in i .. Len(text)  BY <1>1
    <3>2. /\ Ends(text)[i] \in Nat /\ Ends(text)[Len(text)] \in Nat
          /\ Ends(text)[i] + (Len(text) - i) <= Ends(text)[Len(text)]
      BY <3>1, EndsGrow
    <3>. QED  BY <3>1, <3>2 DEF Bytes
  <2>. QED  BY <2>3, <2>4
<1>. QED  BY <1>4, <1>5, ConcatEmptySeq DEF DecodeReplacing

LEMMA DecodesTyped ==
  ASSUME NEW p \in Seq(Byte)
  PROVE  DecodeIgnoring(p) \in Seq(Char) /\ DecodeReplacing(p) \in Seq(Char)
<1>1. Len(p) \in 0 .. Len(p)  OBVIOUS
<1>2. DecodeIgnoring(p) \in Seq(Char)  BY <1>1, DecodedTyped DEF DecodeIgnoring
<1>3. <<"replacement">> \in Seq(Char) /\ << >> \in Seq(Char)  BY DEF Char, Width
<1>4. DecodeReplacing(p) \in Seq(Char)
  <2>1. \E rest \in Seq(Char) : DecodeReplacing(p) = DecodeIgnoring(p) \o rest
    BY <1>3 DEF DecodeReplacing
  <2>. QED  BY <1>2, <2>1, ConcatProperties
<1>. QED  BY <1>2, <1>4

\* What the script prints, and whether it says that there is more.
LEMMA ReadsWhole ==
  ASSUME NEW file \in Seq(Char), NEW limit \in Int
  PROVE  LET read == ReadPast(file, limit) IN
         /\ DecodeReplacing(Leading(read, limit)) \in Seq(Char)
         /\ Len(read) > limit \/ DecodeReplacing(Leading(read, limit)) = file
<1>. DEFINE T == Bytes(file)
            e == Encode(file)
            read == ReadPast(file, limit)
<1>1. T \in Nat /\ e \in Seq(Byte) /\ Len(e) = T  BY BytesTyped
<1>2. read = IF limit + 1 < 0 THEN e ELSE Leading(e, limit + 1)  BY DEF ReadPast
<1>. HIDE DEF T, e, read
<1>3. read \in Seq(Byte)
  <2>1. limit + 1 \in Int  OBVIOUS
  <2>2. Leading(e, limit + 1) \in Seq(Byte)  BY <1>1, <2>1, LeadingMeans
  <2>. QED  BY <1>1, <1>2, <2>2
<1>4. DecodeReplacing(Leading(read, limit)) \in Seq(Char)
  <2>1. Leading(read, limit) \in Seq(Byte)  BY <1>3, LeadingMeans
  <2>. QED  BY <2>1, DecodesTyped
<1>5. ASSUME ~(Len(read) > limit) PROVE DecodeReplacing(Leading(read, limit)) = file
  <2>1. Len(read) \in Nat /\ Len(read) <= limit /\ limit >= 0  BY <1>3, <1>5
  <2>2. read = Leading(e, limit + 1)  BY <1>2, <2>1
  <2>3. Len(read) = T /\ \A i \in 1 .. T : read[i] = e[i]
    <3>1. limit + 1 \in Int /\ limit + 1 >= 0  BY <2>1
    <3>2. PICK k \in 0 .. Len(e) :
            /\ k = IF limit + 1 <= Len(e) THEN limit + 1 ELSE Len(e)
            /\ Len(read) = k /\ \A i \in 1 .. k : read[i] = e[i]
      BY <1>1, <2>2, <3>1, LeadingMeans
    <3>3. k = T  BY <1>1, <2>1, <3>2
    <3>. QED  BY <3>2, <3>3
  <2>4. /\ Leading(read, limit) \in Seq(Byte) /\ Len(Leading(read, limit)) = T
        /\ \A i \in 1 .. T : Leading(read, limit)[i] = e[i]
    <3>1. PICK k \in 0 .. Len(read) :
            /\ k = IF limit <= Len(read) THEN limit ELSE Len(read)
            /\ Leading(read, limit) \in Seq(Byte) /\ Len(Leading(read, limit)) = k
            /\ \A i \in 1 .. k : Leading(read, limit)[i] = read[i]
      BY <1>3, <2>1, LeadingMeans
    <3>2. k = T  BY <2>1, <2>3, <3>1
    <3>. QED  BY <2>3, <3>1, <3>2
  <2>5. Slice(Leading(read, limit), file, 0, T)
    <3>1. 0 \in 0 .. T /\ T \in 0 .. T /\ T = T - 0 /\ \A i \in 1 .. T : 0 + i = i  BY <1>1
    <3>. QED  BY <2>4, <3>1 DEF Slice, T, e
  <2>. QED  BY <2>5, WholeDecodes DEF T
<1>. QED  BY <1>4, <1>5 DEF read

-----------------------------------------------------------------------------
\* The types of the variables, and what has come of the output so far.
OutputTypeOK ==
  /\ max_bytes \in Nat /\ data \in Seq(Char) /\ requested \in Int
  /\ tool \in {"run_python", "read_file"} /\ stage \in {"started", "ran", "rendered"}
  /\ stdout \in Seq(Char) /\ stderr \in Seq(Char)

ToldOrWhole ==
  stage # "started" /\ tool = "read_file" => stderr = Notice \/ stdout = data

Rendered == stage = "rendered" => content = Envelope(stdout, stderr)

OutputInv == OutputTypeOK /\ ToldOrWhole /\ Rendered

LEMMA OutputInvInit == OutputInit => OutputInv
<1>. SUFFICES ASSUME OutputInit PROVE OutputInv  OBVIOUS
<1>1. << >> \in Seq(Char)  OBVIOUS
<1>2. max_bytes \in Nat /\ data \in Seq(Char) /\ requested \in Int
  BY TextsAssumption, BytesAssumption DEF OutputInit
<1>. QED  BY <1>1, <1>2 DEF OutputInit, OutputInv, OutputTypeOK, ToldOrWhole, Rendered

LEMMA OutputInvNext == OutputInv /\ [OutputNext]_output_vars => OutputInv'
<1>. SUFFICES ASSUME OutputInv, [OutputNext]_output_vars PROVE OutputInv'  OBVIOUS
<1>. USE DEF OutputInv, OutputTypeOK, ToldOrWhole, Rendered
<1>1. CASE RunPython
  <2>1. stderr' \in Seq(Char)  BY <1>1, TextsAssumption DEF RunPython
  <2>. QED  BY <1>1, <2>1 DEF RunPython
<1>2. CASE ReadFile
  <2>. DEFINE read == ReadPast(data, requested)
  <2>1. /\ DecodeReplacing(Leading(read, requested)) \in Seq(Char)
        /\ Len(read) > requested \/ DecodeReplacing(Leading(read, requested)) = data
    BY ReadsWhole
  <2>2. /\ stdout' = DecodeReplacing(Leading(read, requested))
        /\ stderr' = IF Len(read) > requested THEN Notice ELSE << >>
        /\ stage' = "ran" /\ UNCHANGED <<max_bytes, tool, requested, data, content>>
    BY <1>2 DEF ReadFile
  <2>3. Notice \in Seq(Char) /\ << >> \in Seq(Char)  BY DEF Notice, Char, Width
  <2>. HIDE DEF read
  <2>. QED  BY <2>1, <2>2, <2>3
<1>3. CASE Render
  BY <1>3 DEF Render, Envelope
<1>4. CASE UNCHANGED output_vars
  BY <1>4 DEF output_vars, Envelope
<1>. QED  BY <1>1, <1>2, <1>3, <1>4 DEF OutputNext

LEMMA OutputInvHolds == OutputSpec => []OutputInv
BY OutputInvInit, OutputInvNext, PTL DEF OutputSpec

\* For every text and every cap, the bytes of truncate_output are cut where a
\* cut between characters would be, the two halves do not overlap, and the
\* marker names what is missing (core/truncate.py:14-50).
THEOREM CutsAreClean == OutputSpec => []CutsBetweenCharacters
<1>1. ASSUME OutputInv PROVE CutsBetweenCharacters
  <2>1. max_bytes \in Nat /\ \A text \in {stdout, stderr} : text \in Seq(Char)
    BY <1>1 DEF OutputInv, OutputTypeOK
  <2>. QED  BY <2>1, CutsWell DEF CutsBetweenCharacters
<1>. QED  BY <1>1, OutputInvHolds, PTL

\* For every file and every max_bytes the model may ask for, negative ones too,
\* it sees the whole file or is told that it does not (runtime.py:50-93).
THEOREM NothingIsDroppedSilently == OutputSpec => []NothingDroppedSilently
<1>1. ASSUME OutputInv PROVE NothingDroppedSilently
  <2>1. max_bytes \in Nat /\ stdout \in Seq(Char) /\ Bytes(stdout) \in Nat
    BY <1>1, BytesTyped DEF OutputInv, OutputTypeOK
  <2>2. Bytes(stdout) > max_bytes <=> Truncate(stdout, max_bytes).dropped > 0
    <3>1. CASE Bytes(stdout) <= max_bytes
      <4>1. Truncate(stdout, max_bytes) = Untouched(stdout)  BY <2>1, <3>1, CutsWell
      <4>. QED  BY <2>1, <3>1, <4>1 DEF Untouched
    <3>2. CASE ~(Bytes(stdout) <= max_bytes)
      <4>1. Truncate(stdout, max_bytes).dropped > 0  BY <2>1, <3>2, CutsWell
      <4>. QED  BY <2>1, <3>2, <4>1
    <3>. QED  BY <3>1, <3>2
  <2>. QED  BY <1>1, <2>2 DEF OutputInv, ToldOrWhole, NothingDroppedSilently
<1>. QED  BY <1>1, OutputInvHolds, PTL

-----------------------------------------------------------------------------
(* The envelope.                                                             *)

\* A text without the delimiters' brackets.
Harmless(text) ==
  text \in Seq(Char) /\ \A i \in 1 .. Len(text) : text[i] # "lt" /\ text[i] # "gt"

LEMMA ShownHarmless ==
  ASSUME NEW text \in Seq(Char), NEW cap \in Nat
  PROVE  Harmless(Shown(Truncate(text, cap)))
<1>1. ASSUME NEW t \in Seq(Char) PROVE Harmless(Neutralize(t))
  <2>1. Len(t) \in Nat /\ DOMAIN t = 1 .. Len(t) /\ \A i \in 1 .. Len(t) : t[i] \in Char
    BY TextTyped
  <2>2. "x" \in Char  BY DEF Char, Width
  <2>. QED  BY <2>1, <2>2 DEF Harmless, Neutralize
<1>. DEFINE cut == Truncate(text, cap)
<1>2. cut.head \in Seq(Char) /\ (cut.dropped # 0 => cut.tail \in Seq(Char))
  <2>1. CASE Bytes(text) <= cap
    <3>1. cut = Untouched(text)  BY <2>1, CutsWell
    <3>. QED  BY <3>1 DEF Untouched
  <2>2. CASE ~(Bytes(text) <= cap)  BY <2>2, CutsWell
  <2>. QED  BY <2>1, <2>2
<1>. HIDE DEF cut
<1>3. (IF cut.dropped = 0 THEN cut.head ELSE cut.head \o <<"x">> \o cut.tail) \in Seq(Char)
  <2>1. <<"x">> \in Seq(Char)  BY DEF Char, Width
  <2>. QED  BY <1>2, <2>1, ConcatProperties
<1>. QED  BY <1>1, <1>3 DEF Shown, cut

LEMMA Joined ==
  ASSUME NEW s \in Seq(Char), NEW t \in Seq(Char)
  PROVE  /\ s \o t \in Seq(Char) /\ Len(s \o t) = Len(s) + Len(t)
         /\ \A i \in 1 .. Len(s) : (s \o t)[i] = s[i]
         /\ \A k \in 1 .. Len(t) : (s \o t)[Len(s) + k] = t[k]
<1>1. /\ s \o t \in Seq(Char) /\ Len(s \o t) = Len(s) + Len(t)
      /\ \A i \in 1 .. Len(s) + Len(t) :
           (s \o t)[i] = IF i <= Len(s) THEN s[i] ELSE t[i - Len(s)]
  BY ConcatProperties
<1>2. Len(s) \in Nat /\ Len(t) \in Nat  OBVIOUS
<1>3. ASSUME NEW i \in 1 .. Len(s) PROVE (s \o t)[i] = s[i]
  <2>1. i \in 1 .. Len(s) + Len(t) /\ i <= Len(s)  BY <1>2
  <2>. QED  BY <1>1, <2>1
<1>4. ASSUME NEW k \in 1 .. Len(t) PROVE (s \o t)[Len(s) + k] = t[k]
  <2>1. PICK i \in 1 .. Len(s) + Len(t) :
          i = Len(s) + k /\ ~(i <= Len(s)) /\ i - Len(s) = k
    BY <1>2
  <2>2. (s \o t)[i] = t[i - Len(s)]  BY <1>1, <2>1
  <2>. QED  BY <2>1, <2>2
<1>. QED  BY <1>1, <1>3, <1>4

LEMMA Delimiters ==
  ASSUME NEW s \in {"stdout", "stderr"}
  PROVE  /\ Open(s) \in Seq(Char) /\ Len(Open(s)) = 3
         /\ Open(s)[1] = "lt" /\ Open(s)[2] = s /\ Open(s)[3] = "gt"
         /\ Close(s) \in Seq(Char) /\ Len(Close(s)) = 4
         /\ Close(s)[1] = "lt" /\ Close(s)[2] = "slash" /\ Close(s)[3] = s /\ Close(s)[4] = "gt"
BY DEF Open, Close, Char, Width

\* What is behind a text when a delimiter is added to it, or another text.
LEMMA OpenAdded ==
  ASSUME NEW t \in Seq(Char), NEW n \in Nat, Len(t) = n, NEW s \in {"stdout", "stderr"}
  PROVE  LET u == t \o Open(s) IN
         /\ u \in Seq(Char) /\ Len(u) = n + 3 /\ \A i \in 1 .. n : u[i] = t[i]
         /\ u[n + 1] = "lt" /\ u[n + 2] = s /\ u[n + 3] = "gt"
<1>1. 1 \in 1 .. 3 /\ 2 \in 1 .. 3 /\ 3 \in 1 .. 3  OBVIOUS
<1>2. \A k \in 1 .. 3 : (t \o Open(s))[n + k] = Open(s)[k]  BY Joined, Delimiters
<1>3. /\ t \o Open(s) \in Seq(Char) /\ Len(t \o Open(s)) = Len(t) + Len(Open(s))
      /\ \A i \in 1 .. Len(t) : (t \o Open(s))[i] = t[i]
  BY Joined, Delimiters
<1>. QED  BY <1>1, <1>2, <1>3, Delimiters

LEMMA CloseAdded ==
  ASSUME NEW t \in Seq(Char), NEW n \in Nat, Len(t) = n, NEW s \in {"stdout", "stderr"}
  PROVE  LET u == t \o Close(s) IN
         /\ u \in Seq(Char) /\ Len(u) = n + 4 /\ \A i \in 1 .. n : u[i] = t[i]
         /\ u[n + 1] = "lt" /\ u[n + 2] = "slash" /\ u[n + 3] = s /\ u[n + 4] = "gt"
<1>1. 1 \in 1 .. 4 /\ 2 \in 1 .. 4 /\ 3 \in 1 .. 4 /\ 4 \in 1 .. 4  OBVIOUS
<1>2. \A k \in 1 .. 4 : (t \o Close(s))[n + k] = Close(s)[k]  BY Joined, Delimiters
<1>3. /\ t \o Close(s) \in Seq(Char) /\ Len(t \o Close(s)) = Len(t) + Len(Close(s))
      /\ \A i \in 1 .. Len(t) : (t \o Close(s))[i] = t[i]
  BY Joined, Delimiters
<1>. QED  BY <1>1, <1>2, <1>3, Delimiters

\* The envelope of two texts, named so that a step may speak of it unopened.
Enveloped(out, err) == Open("stdout") \o out \o Close("stdout")
                         \o Open("stderr") \o err \o Close("stderr")

\* What is where in an envelope.
LEMMA EnvelopeLaidOut ==
  ASSUME NEW out \in Seq(Char), NEW err \in Seq(Char)
  PROVE  LET all == Open("stdout") \o out \o Close("stdout")
                      \o Open("stderr") \o err \o Close("stderr")
             a == Len(out)
             b == Len(err)
         IN /\ all \in Seq(Char) /\ Len(all) = a + b + 14
            /\ all[1] = "lt" /\ all[2] = "stdout" /\ all[3] = "gt"
            /\ \A k \in 1 .. a : all[3 + k] = out[k]
            /\ all[a + 4] = "lt" /\ all[a + 5] = "slash"
            /\ all[a + 6] = "stdout" /\ all[a + 7] = "gt"
            /\ all[a + 8] = "lt" /\ all[a + 9] = "stderr" /\ all[a + 10] = "gt"
            /\ \A k \in 1 .. b : all[(a + 10) + k] = err[k]
            /\ all[a + b + 11] = "lt" /\ all[a + b + 12] = "slash"
            /\ all[a + b + 13] = "stderr" /\ all[a + b + 14] = "gt"
<1>. DEFINE a == Len(out)
            b == Len(err)
            t1 == Open("stdout") \o out
            t2 == t1 \o Close("stdout")
            t3 == t2 \o Open("stderr")
            t4 == t3 \o err
            t5 == t4 \o Close("stderr")
<1>1. a \in Nat /\ b \in Nat  OBVIOUS
<1>2. /\ t1 \in Seq(Char) /\ Len(t1) = a + 3
      /\ t1[1] = "lt" /\ t1[2] = "stdout" /\ t1[3] = "gt"
      /\ \A k \in 1 .. a : t1[3 + k] = out[k]
  <2>1. /\ Open("stdout") \in Seq(Char) /\ Len(Open("stdout")) = 3
        /\ Open("stdout")[1] = "lt" /\ Open("stdout")[2] = "stdout" /\ Open("stdout")[3] = "gt"
    BY Delimiters
  <2>2. /\ t1 \in Seq(Char) /\ Len(t1) = Len(Open("stdout")) + a
        /\ \A i \in 1 .. Len(Open("stdout")) : t1[i] = Open("stdout")[i]
        /\ \A k \in 1 .. a : t1[Len(Open("stdout")) + k] = out[k]
    BY <2>1, Joined
  <2>. HIDE DEF t1, a
  <2>3. /\ t1 \in Seq(Char) /\ Len(t1) = 3 + a
        /\ \A i \in 1 .. 3 : t1[i] = Open("stdout")[i]
        /\ \A k \in 1 .. a : t1[3 + k] = out[k]
    BY <2>1, <2>2
  <2>4. 1 \in 1 .. 3 /\ 2 \in 1 .. 3 /\ 3 \in 1 .. 3 /\ 3 + a = a + 3  BY <1>1
  <2>. QED  BY <2>1, <2>3, <2>4
<1>. HIDE DEF t1
<1>3. /\ t2 \in Seq(Char) /\ Len(t2) = a + 7 /\ \A i \in 1 .. a + 3 : t2[i] = t1[i]
      /\ t2[a + 4] = "lt" /\ t2[a + 5] = "slash" /\ t2[a + 6] = "stdout" /\ t2[a + 7] = "gt"
  <2>. DEFINE n == a + 3
  <2>1. n \in Nat /\ Len(t1) = n /\ t1 \in Seq(Char)  BY <1>1, <1>2
  <2>2. n + 1 = a + 4 /\ n + 2 = a + 5 /\ n + 3 = a + 6 /\ n + 4 = a + 7  BY <1>1
  <2>. HIDE DEF n, a
  <2>3. /\ t2 \in Seq(Char) /\ Len(t2) = n + 4 /\ \A i \in 1 .. n : t2[i] = t1[i]
        /\ t2[n + 1] = "lt" /\ t2[n + 2] = "slash" /\ t2[n + 3] = "stdout" /\ t2[n + 4] = "gt"
    BY <2>1, CloseAdded
  <2>. HIDE DEF t2
  <2>. QED  BY <2>2, <2>3 DEF n
<1>. HIDE DEF t2
<1>4. /\ t3 \in Seq(Char) /\ Len(t3) = a + 10 /\ \A i \in 1 .. a + 7 : t3[i] = t2[i]
      /\ t3[a + 8] = "lt" /\ t3[a + 9] = "stderr" /\ t3[a + 10] = "gt"
  <2>. DEFINE n == a + 7
  <2>1. n \in Nat /\ Len(t2) = n /\ t2 \in Seq(Char)  BY <1>1, <1>3
  <2>2. n + 1 = a + 8 /\ n + 2 = a + 9 /\ n + 3 = a + 10  BY <1>1
  <2>. HIDE DEF n, a
  <2>3. /\ t3 \in Seq(Char) /\ Len(t3) = n + 3 /\ \A i \in 1 .. n : t3[i] = t2[i]
        /\ t3[n + 1] = "lt" /\ t3[n + 2] = "stderr" /\ t3[n + 3] = "gt"
    BY <2>1, OpenAdded
  <2>. HIDE DEF t3
  <2>. QED  BY <2>2, <2>3 DEF n
<1>. HIDE DEF t3
<1>5. /\ t4 \in Seq(Char) /\ Len(t4) = (a + 10) + b
      /\ \A i \in 1 .. a + 10 : t4[i] = t3[i]
      /\ \A k \in 1 .. b : t4[(a + 10) + k] = err[k]
  <2>1. t3 \in Seq(Char) /\ Len(t3) = a + 10  BY <1>4
  <2>2. /\ t4 \in Seq(Char) /\ Len(t4) = Len(t3) + b
        /\ \A i \in 1 .. Len(t3) : t4[i] = t3[i]
        /\ \A k \in 1 .. b : t4[Len(t3) + k] = err[k]
    BY <2>1, Joined
  <2>. HIDE DEF t4, a, b
  <2>. QED  BY <2>1, <2>2
<1>. HIDE DEF t4
<1>6. /\ t5 \in Seq(Char) /\ Len(t5) = a + b + 14
      /\ \A i \in 1 .. a + b + 10 : t5[i] = t4[i]
      /\ t5[a + b + 11] = "lt" /\ t5[a + b + 12] = "slash"
      /\ t5[a + b + 13] = "stderr" /\ t5[a + b + 14] = "gt"
  <2>. DEFINE n == a + b + 10
  <2>1. n \in Nat /\ Len(t4) = n /\ t4 \in Seq(Char)  BY <1>1, <1>5
  <2>2. n + 1 = a + b + 11 /\ n + 2 = a + b + 12 /\ n + 3 = a + b + 13 /\ n + 4 = a + b + 14
    BY <1>1
  <2>. HIDE DEF n, a, b
  <2>3. /\ t5 \in Seq(Char) /\ Len(t5) = n + 4 /\ \A i \in 1 .. n : t5[i] = t4[i]
        /\ t5[n + 1] = "lt" /\ t5[n + 2] = "slash" /\ t5[n + 3] = "stderr" /\ t5[n + 4] = "gt"
    BY <2>1, CloseAdded
  <2>. HIDE DEF t5
  <2>. QED  BY <2>2, <2>3 DEF n
<1>7. t5 = Open("stdout") \o out \o Close("stdout") \o Open("stderr") \o err \o Close("stderr")
  BY DEF t1, t2, t3, t4
<1>. HIDE DEF t5, a, b
<1>8. \A i \in 1 .. a + 10 : t5[i] = t3[i]
  <2>1. \A i \in 1 .. a + 10 : i \in 1 .. a + b + 10  BY <1>1
  <2>. QED  BY <1>5, <1>6, <2>1
<1>9. \A i \in 1 .. a + 7 : t5[i] = t2[i]
  <2>1. \A i \in 1 .. a + 7 : i \in 1 .. a + 10  BY <1>1
  <2>. QED  BY <1>4, <1>8, <2>1
<1>10. \A i \in 1 .. a + 3 : t5[i] = t1[i]
  <2>1. \A i \in 1 .. a + 3 : i \in 1 .. a + 7  BY <1>1
  <2>. QED  BY <1>3, <1>9, <2>1
<1>11. \A k \in 1 .. b : t5[(a + 10) + k] = err[k]
  <2>1. \A k \in 1 .. b : (a + 10) + k \in 1 .. a + b + 10  BY <1>1
  <2>. QED  BY <1>5, <1>6, <2>1
<1>12. \A k \in 1 .. a : t5[3 + k] = out[k]
  <2>1. \A k \in 1 .. a : 3 + k \in 1 .. a + 3  BY <1>1
  <2>. QED  BY <1>2, <1>10, <2>1
<1>13. t5[1] = "lt" /\ t5[2] = "stdout" /\ t5[3] = "gt"
  <2>1. 1 \in 1 .. a + 3 /\ 2 \in 1 .. a + 3 /\ 3 \in 1 .. a + 3  BY <1>1
  <2>. QED  BY <1>2, <1>10, <2>1
<1>14. t5[a + 4] = "lt" /\ t5[a + 5] = "slash" /\ t5[a + 6] = "stdout" /\ t5[a + 7] = "gt"
  <2>1. /\ a + 4 \in 1 .. a + 7 /\ a + 5 \in 1 .. a + 7
        /\ a + 6 \in 1 .. a + 7 /\ a + 7 \in 1 .. a + 7
    BY <1>1
  <2>. QED  BY <1>3, <1>9, <2>1
<1>15. t5[a + 8] = "lt" /\ t5[a + 9] = "stderr" /\ t5[a + 10] = "gt"
  <2>1. a + 8 \in 1 .. a + 10 /\ a + 9 \in 1 .. a + 10 /\ a + 10 \in 1 .. a + 10  BY <1>1
  <2>. QED  BY <1>4, <1>8, <2>1
<1>. QED  BY <1>6, <1>7, <1>11, <1>12, <1>13, <1>14, <1>15 DEF a, b

\* A delimiter is where its characters are.
LEMMA OpenFound ==
  ASSUME NEW all \in Seq(Char), NEW s \in {"stdout", "stderr"}, NEW i \in Int
  PROVE  i \in Occurrences(Open(s), all)
           <=> /\ i \in 1 .. Len(all) - 2
               /\ all[i] = "lt" /\ all[i + 1] = s /\ all[i + 2] = "gt"
<1>1. i \in Occurrences(Open(s), all)
        <=> i \in 1 .. Len(all) - 3 + 1 /\ SubSeq(all, i, i + 3 - 1) = Open(s)
  BY Delimiters DEF Occurrences
<1>2. Len(all) \in Nat /\ \A k \in 1 .. Len(all) : all[k] \in Char  BY TextTyped
<1>3. 1 .. Len(all) - 3 + 1 = 1 .. Len(all) - 2 /\ i + 3 - 1 = i + 2  BY <1>2
<1>4. ASSUME i \in 1 .. Len(all) - 2
      PROVE  SubSeq(all, i, i + 2) = Open(s)
               <=> all[i] = "lt" /\ all[i + 1] = s /\ all[i + 2] = "gt"
  <2>. DEFINE u == SubSeq(all, i, i + 2)
  <2>1. /\ u \in Seq(Char) /\ Len(u) = 3
        /\ u[1] = all[i] /\ u[2] = all[i + 1] /\ u[3] = all[i + 2]
    <3>1. i + 2 \in Int /\ \A k \in i .. i + 2 : all[k] \in Char  BY <1>2, <1>4
    <3>2. /\ u \in Seq(Char) /\ Len(u) = IF i <= i + 2 THEN (i + 2) - i + 1 ELSE 0
          /\ \A k \in 1 .. (i + 2) - i + 1 : u[k] = all[i + k - 1]
      BY <3>1, SubSeqProperties
    <3>3. (i + 2) - i + 1 = 3 /\ i <= i + 2 /\ i + 1 - 1 = i /\ i + 2 - 1 = i + 1
          /\ i + 3 - 1 = i + 2 /\ 1 \in 1 .. 3 /\ 2 \in 1 .. 3 /\ 3 \in 1 .. 3
      OBVIOUS
    <3>. HIDE DEF u
    <3>. QED  BY <3>2, <3>3
  <2>. HIDE DEF u
  <2>2. ASSUME u[1] = "lt", u[2] = s, u[3] = "gt" PROVE u = Open(s)
    <3>1. \A k \in 1 .. Len(u) : k = 1 \/ k = 2 \/ k = 3  BY <2>1
    <3>2. \A k \in 1 .. Len(u) : u[k] = Open(s)[k]  BY <2>2, <3>1, Delimiters
    <3>3. Len(u) = Len(Open(s)) /\ Open(s) \in Seq(Char)  BY <2>1, Delimiters
    <3>. QED  BY <2>1, <3>2, <3>3, SeqEqual
  <2>. QED  BY <2>1, <2>2, Delimiters DEF u
<1>. QED  BY <1>1, <1>3, <1>4

LEMMA CloseFound ==
  ASSUME NEW all \in Seq(Char), NEW s \in {"stdout", "stderr"}, NEW i \in Int
  PROVE  i \in Occurrences(Close(s), all)
           <=> /\ i \in 1 .. Len(all) - 3
               /\ all[i] = "lt" /\ all[i + 1] = "slash" /\ all[i + 2] = s /\ all[i + 3] = "gt"
<1>1. i \in Occurrences(Close(s), all)
        <=> i \in 1 .. Len(all) - 4 + 1 /\ SubSeq(all, i, i + 4 - 1) = Close(s)
  BY Delimiters DEF Occurrences
<1>2. Len(all) \in Nat /\ \A k \in 1 .. Len(all) : all[k] \in Char  BY TextTyped
<1>3. 1 .. Len(all) - 4 + 1 = 1 .. Len(all) - 3 /\ i + 4 - 1 = i + 3  BY <1>2
<1>4. ASSUME i \in 1 .. Len(all) - 3
      PROVE  SubSeq(all, i, i + 3) = Close(s)
               <=> all[i] = "lt" /\ all[i + 1] = "slash" /\ all[i + 2] = s /\ all[i + 3] = "gt"
  <2>. DEFINE u == SubSeq(all, i, i + 3)
  <2>1. /\ u \in Seq(Char) /\ Len(u) = 4 /\ u[1] = all[i]
        /\ u[2] = all[i + 1] /\ u[3] = all[i + 2] /\ u[4] = all[i + 3]
    <3>1. i + 3 \in Int /\ \A k \in i .. i + 3 : all[k] \in Char  BY <1>2, <1>4
    <3>2. /\ u \in Seq(Char) /\ Len(u) = IF i <= i + 3 THEN (i + 3) - i + 1 ELSE 0
          /\ \A k \in 1 .. (i + 3) - i + 1 : u[k] = all[i + k - 1]
      BY <3>1, SubSeqProperties
    <3>3. (i + 3) - i + 1 = 4 /\ i <= i + 3 /\ i + 1 - 1 = i /\ i + 2 - 1 = i + 1
          /\ i + 3 - 1 = i + 2 /\ i + 4 - 1 = i + 3
          /\ 1 \in 1 .. 4 /\ 2 \in 1 .. 4 /\ 3 \in 1 .. 4 /\ 4 \in 1 .. 4
      OBVIOUS
    <3>. HIDE DEF u
    <3>. QED  BY <3>2, <3>3
  <2>. HIDE DEF u
  <2>2. ASSUME u[1] = "lt", u[2] = "slash", u[3] = s, u[4] = "gt" PROVE u = Close(s)
    <3>1. \A k \in 1 .. Len(u) : k = 1 \/ k = 2 \/ k = 3 \/ k = 4  BY <2>1
    <3>2. \A k \in 1 .. Len(u) : u[k] = Close(s)[k]  BY <2>2, <3>1, Delimiters
    <3>3. Len(u) = Len(Close(s)) /\ Close(s) \in Seq(Char)  BY <2>1, Delimiters
    <3>. QED  BY <2>1, <3>2, <3>3, SeqEqual
  <2>. QED  BY <2>1, <2>2, Delimiters DEF u
<1>. QED  BY <1>1, <1>3, <1>4

\* The part of a sequence in which another one stands.
LEMMA PartIs ==
  ASSUME NEW all \in Seq(Char), NEW part \in Seq(Char), NEW n \in Nat,
         n + Len(part) <= Len(all), \A k \in 1 .. Len(part) : all[n + k] = part[k]
  PROVE  SubSeq(all, n + 1, n + Len(part)) = part
<1>. DEFINE L == Len(part)
            u == SubSeq(all, n + 1, n + L)
<1>1. L \in Nat /\ Len(all) \in Nat /\ \A k \in 1 .. Len(all) : all[k] \in Char  BY TextTyped
<1>2. n + 1 \in Int /\ n + L \in Int /\ \A k \in n + 1 .. n + L : all[k] \in Char  BY <1>1
<1>3. /\ u \in Seq(Char)
      /\ Len(u) = IF n + 1 <= n + L THEN (n + L) - (n + 1) + 1 ELSE 0
      /\ \A k \in 1 .. (n + L) - (n + 1) + 1 : u[k] = all[(n + 1) + k - 1]
  <2>. HIDE DEF L
  <2>. QED  BY <1>2, SubSeqProperties
<1>. HIDE DEF u
<1>4. Len(u) = L  BY <1>1, <1>3
<1>5. ASSUME NEW k \in 1 .. L PROVE u[k] = part[k]
  <2>1. k \in 1 .. (n + L) - (n + 1) + 1 /\ (n + 1) + k - 1 = n + k  BY <1>1
  <2>. QED  BY <1>3, <2>1
<1>6. u = part  BY <1>3, <1>4, <1>5, SeqEqual
<1>. QED  BY <1>6 DEF u

\* A text has each of the stream's two delimiters once, and inside between them.
Between(text, stream, inside) ==
  \E i, j \in 1 .. Len(text) :
    /\ Occurrences(Open(stream), text) = {i}
    /\ Occurrences(Close(stream), text) = {j}
    /\ SubSeq(text, i + 3, j - 1) = inside

LEMMA ReadsBack ==
  ASSUME NEW out, Harmless(out), NEW err, Harmless(err)
  PROVE  /\ Between(Enveloped(out, err), "stdout", out)
         /\ Between(Enveloped(out, err), "stderr", err)
<1>. DEFINE all == Enveloped(out, err)
            a == Len(out)
            b == Len(err)
            L == Len(all)
<1>1. /\ out \in Seq(Char) /\ err \in Seq(Char) /\ a \in Nat /\ b \in Nat
      /\ \A k \in 1 .. a : out[k] # "lt"
      /\ \A k \in 1 .. b : err[k] # "lt"
  BY DEF Harmless
<1>2. /\ all \in Seq(Char) /\ L = a + b + 14
      /\ all[1] = "lt" /\ all[2] = "stdout" /\ all[3] = "gt"
      /\ \A k \in 1 .. a : all[3 + k] = out[k]
      /\ all[a + 4] = "lt" /\ all[a + 5] = "slash"
      /\ all[a + 6] = "stdout" /\ all[a + 7] = "gt"
      /\ all[a + 8] = "lt" /\ all[a + 9] = "stderr" /\ all[a + 10] = "gt"
      /\ \A k \in 1 .. b : all[(a + 10) + k] = err[k]
      /\ all[a + b + 11] = "lt" /\ all[a + b + 12] = "slash"
      /\ all[a + b + 13] = "stderr" /\ all[a + b + 14] = "gt"
  BY <1>1, EnvelopeLaidOut DEF Enveloped
<1>. HIDE DEF all, a, b
<1>3. ASSUME NEW i \in 1 .. L, all[i] = "lt"
      PROVE  i \in {1, a + 4, a + 8, a + b + 11}
  <2>1. i \notin 4 .. a + 3
    <3>. SUFFICES ASSUME i \in 4 .. a + 3 PROVE FALSE  OBVIOUS
    <3>1. PICK k \in 1 .. a : i = 3 + k
      <4>1. i - 3 \in 1 .. a /\ i = 3 + (i - 3)  BY <1>1
      <4>. QED  BY <4>1
    <3>2. all[3 + k] = out[k] /\ out[k] # "lt"  BY <1>1, <1>2
    <3>. QED  BY <1>3, <3>1, <3>2
  <2>2. i \notin a + 11 .. a + b + 10
    <3>. SUFFICES ASSUME i \in a + 11 .. a + b + 10 PROVE FALSE  OBVIOUS
    <3>1. PICK k \in 1 .. b : i = (a + 10) + k
      <4>1. i - (a + 10) \in 1 .. b /\ i = (a + 10) + (i - (a + 10))  BY <1>1
      <4>. QED  BY <4>1
    <3>2. all[(a + 10) + k] = err[k] /\ err[k] # "lt"  BY <1>1, <1>2
    <3>. QED  BY <1>3, <3>1, <3>2
  <2>3. /\ i # 2 /\ i # 3 /\ i # a + 5 /\ i # a + 6 /\ i # a + 7 /\ i # a + 9 /\ i # a + 10
        /\ i # a + b + 12 /\ i # a + b + 13 /\ i # a + b + 14
    BY <1>2, <1>3
  <2>. QED  BY <1>1, <1>2, <2>1, <2>2, <2>3
<1>4. /\ 1 \in Int /\ a + 4 \in Int /\ a + 8 \in Int /\ a + b + 11 \in Int
      /\ {1, a + 4, a + 8, a + b + 11} \subseteq 1 .. L
  BY <1>1, <1>2
<1>5. /\ Occurrences(Open("stdout"), all) = {1}
      /\ Occurrences(Open("stderr"), all) = {a + 8}
  <2>1. /\ \A s \in {"stdout", "stderr"} : Occurrences(Open(s), all) \subseteq Int
        /\ \A s \in {"stdout", "stderr"} : \A i \in Int :
             i \in Occurrences(Open(s), all)
               <=> /\ i \in 1 .. L - 2
                   /\ all[i] = "lt" /\ all[i + 1] = s /\ all[i + 2] = "gt"
    <3>1. \A s \in {"stdout", "stderr"} : Occurrences(Open(s), all) \subseteq Int
      BY DEF Occurrences
    <3>2. all \in Seq(Char)  BY <1>2
    <3>. QED  BY <3>1, <3>2, OpenFound
  <2>2. \A s \in {"stdout", "stderr"} : \A i \in Occurrences(Open(s), all) :
          i \in {1, a + 4, a + 8, a + b + 11} /\ all[i + 1] = s
    <3>1. \A i \in 1 .. L - 2 : i \in 1 .. L  BY <1>1, <1>2
    <3>. QED  BY <1>3, <2>1, <3>1
  <2>3. /\ 1 + 1 = 2 /\ 1 + 2 = 3 /\ (a + 4) + 1 = a + 5 /\ (a + 8) + 1 = a + 9
        /\ (a + 8) + 2 = a + 10 /\ (a + b + 11) + 1 = a + b + 12
        /\ 1 \in 1 .. L - 2 /\ a + 8 \in 1 .. L - 2
    BY <1>1, <1>2
  <2>4. /\ all[1 + 1] = "stdout" /\ all[1 + 2] = "gt" /\ all[(a + 4) + 1] = "slash"
        /\ all[(a + 8) + 1] = "stderr" /\ all[(a + 8) + 2] = "gt"
        /\ all[(a + b + 11) + 1] = "slash"
    BY <1>2, <2>3
  <2>5. 1 \in Occurrences(Open("stdout"), all)  BY <1>2, <1>4, <2>1, <2>3, <2>4
  <2>6. a + 8 \in Occurrences(Open("stderr"), all)  BY <1>2, <1>4, <2>1, <2>3, <2>4
  <2>7. \A i \in Occurrences(Open("stdout"), all) : i = 1  BY <2>2, <2>4
  <2>8. \A i \in Occurrences(Open("stderr"), all) : i = a + 8  BY <2>2, <2>4
  <2>. QED  BY <2>5, <2>6, <2>7, <2>8
<1>6. /\ Occurrences(Close("stdout"), all) = {a + 4}
      /\ Occurrences(Close("stderr"), all) = {a + b + 11}
  <2>1. /\ \A s \in {"stdout", "stderr"} : Occurrences(Close(s), all) \subseteq Int
        /\ \A s \in {"stdout", "stderr"} : \A i \in Int :
             i \in Occurrences(Close(s), all)
               <=> /\ i \in 1 .. L - 3
                   /\ all[i] = "lt" /\ all[i + 1] = "slash"
                   /\ all[i + 2] = s /\ all[i + 3] = "gt"
    <3>1. \A s \in {"stdout", "stderr"} : Occurrences(Close(s), all) \subseteq Int
      BY DEF Occurrences
    <3>2. all \in Seq(Char)  BY <1>2
    <3>. QED  BY <3>1, <3>2, CloseFound
  <2>2. \A s \in {"stdout", "stderr"} : \A i \in Occurrences(Close(s), all) :
          i \in {1, a + 4, a + 8, a + b + 11} /\ all[i + 1] = "slash" /\ all[i + 2] = s
    <3>1. \A i \in 1 .. L - 3 : i \in 1 .. L  BY <1>1, <1>2
    <3>. QED  BY <1>3, <2>1, <3>1
  <2>3. /\ 1 + 1 = 2 /\ (a + 4) + 1 = a + 5 /\ (a + 4) + 2 = a + 6 /\ (a + 4) + 3 = a + 7
        /\ (a + 8) + 1 = a + 9 /\ (a + b + 11) + 1 = a + b + 12
        /\ (a + b + 11) + 2 = a + b + 13 /\ (a + b + 11) + 3 = a + b + 14
        /\ a + 4 \in 1 .. L - 3 /\ a + b + 11 \in 1 .. L - 3
    BY <1>1, <1>2
  <2>4. /\ all[1 + 1] = "stdout" /\ all[(a + 8) + 1] = "stderr"
        /\ all[(a + 4) + 1] = "slash" /\ all[(a + 4) + 2] = "stdout"
        /\ all[(a + 4) + 3] = "gt" /\ all[(a + b + 11) + 1] = "slash"
        /\ all[(a + b + 11) + 2] = "stderr" /\ all[(a + b + 11) + 3] = "gt"
    BY <1>2, <2>3
  <2>5. a + 4 \in Occurrences(Close("stdout"), all)  BY <1>2, <1>4, <2>1, <2>3, <2>4
  <2>6. a + b + 11 \in Occurrences(Close("stderr"), all)  BY <1>2, <1>4, <2>1, <2>3, <2>4
  <2>7. \A i \in Occurrences(Close("stdout"), all) : i = a + 4  BY <2>2, <2>4
  <2>8. \A i \in Occurrences(Close("stderr"), all) : i = a + b + 11  BY <2>2, <2>4
  <2>. QED  BY <2>5, <2>6, <2>7, <2>8
<1>7. SubSeq(all, 1 + 3, (a + 4) - 1) = out
  <2>1. 3 + a <= L /\ 3 \in Nat /\ 3 + 1 = 1 + 3 /\ 3 + a = (a + 4) - 1  BY <1>1, <1>2
  <2>2. SubSeq(all, 3 + 1, 3 + a) = out  BY <1>1, <1>2, <2>1, PartIs DEF a
  <2>. QED  BY <2>1, <2>2
<1>8. SubSeq(all, (a + 8) + 3, (a + b + 11) - 1) = err
  <2>1. /\ (a + 10) + b <= L /\ a + 10 \in Nat
        /\ (a + 10) + 1 = (a + 8) + 3 /\ (a + 10) + b = (a + b + 11) - 1
    BY <1>1, <1>2
  <2>2. SubSeq(all, (a + 10) + 1, (a + 10) + b) = err  BY <1>1, <1>2, <2>1, PartIs DEF b
  <2>. QED  BY <2>1, <2>2
<1>9. Between(all, "stdout", out)  BY <1>4, <1>5, <1>6, <1>7 DEF Between
<1>10. Between(all, "stderr", err)  BY <1>4, <1>5, <1>6, <1>8 DEF Between
<1>. QED  BY <1>9, <1>10 DEF all

\* For every output and every cap, each delimiter of the envelope is in it once
\* and in order, and between them is what was put there (runtime.py:97-135).
THEOREM EnvelopesReadBack == OutputSpec => []EnvelopeReadsBack
<1>1. ASSUME OutputInv PROVE EnvelopeReadsBack
  <2>. SUFFICES ASSUME stage = "rendered", NEW stream \in {"stdout", "stderr"}
                PROVE  Between(content, stream,
                               Shown(Truncate(IF stream = "stdout" THEN stdout ELSE stderr,
                                              max_bytes)))
    BY DEF EnvelopeReadsBack, Between
  <2>. DEFINE out == Shown(Truncate(stdout, max_bytes))
              err == Shown(Truncate(stderr, max_bytes))
  <2>1. Harmless(out) /\ Harmless(err)
    BY <1>1, ShownHarmless DEF OutputInv, OutputTypeOK
  <2>2. content = Enveloped(out, err)
    BY <1>1 DEF OutputInv, Rendered, Envelope, Enveloped
  <2>3. Between(content, "stdout", out) /\ Between(content, "stderr", err)
    <3>. HIDE DEF out, err
    <3>. QED  BY <2>1, <2>2, ReadsBack
  <2>4. CASE stream = "stdout"  BY <2>3, <2>4
  <2>5. CASE stream = "stderr"  BY <2>3, <2>5
  <2>. QED  BY <2>4, <2>5
<1>. QED  BY <1>1, OutputInvHolds, PTL
=============================================================================
