------------------------------- MODULE Intake -------------------------------
(***************************************************************************)
(* What is asked of the files of a batch on their way in: by the drop zone *)
(* of the panel (DropZone.tsx, lib/validate.ts), by POST /submissions       *)
(* before and while the bodies are read (routes_submissions.py, s3.py), and *)
(* what becomes of their names (naming.py).  validate_batch                 *)
(* (validation.py), which no caller uses, is the reference.                 *)
(*                                                                          *)
(* A name is a sequence of tokens: "dot", "/", "\\", "ext" (the letters of  *)
(* an allowed extension in any case), "word" (other letters a key may       *)
(* have), "other" (what it may not).                                        *)
(***************************************************************************)
EXTENDS Integers, Sequences, FiniteSetsExt, SequencesExt

CONSTANTS
  Batches,     \* the files somebody wants analysed, as sequences
  Settings,    \* configurations of the API
  Chunk,       \* bytes boto3 asks for at a time
  MaxNameLen   \* _MAX_NAME_LEN

Token == {"dot", "/", "\\", "ext", "word", "other"}
File == [name : Seq(Token), size : Nat]

ASSUME BatchesAssumption == Batches \subseteq Seq(File)
ASSUME SettingsAssumption ==
  \A s \in Settings : {s.max_files, s.max_file_bytes, s.max_submission_bytes} \subseteq Nat
ASSUME SizesAssumption == {Chunk, MaxNameLen} \subseteq Nat \ {0}

VARIABLES
  settings,
  origin,       \* who sends the request: the "panel" or another "client"
  files,        \* dropped, then staged, then sent
  at,           \* "dropped", "staged", "sent", "uploading" or "answered"
  next,         \* the file whose body is read
  bytes_read,   \* of _CappedReader
  total_bytes,
  answer        \* the error of the response, or "accepted"

vars == <<settings, origin, files, at, next, bytes_read, total_bytes, answer>>

\* The bytes of the files up to each place of a batch.
Sums(batch) ==
  LET sum[n \in 0 .. Len(batch)] == IF n = 0 THEN 0 ELSE sum[n - 1] + batch[n].size
  IN sum

Total(batch) == Sums(batch)[Len(batch)]

-----------------------------------------------------------------------------
(* Names.                                                                   *)

\* The parts of a POSIX path, as intervals: empty ones and "." do not count.
Parts(name) ==
  {p \in (1 .. Len(name)) \X (1 .. Len(name)) :
     /\ p[1] <= p[2] /\ \A i \in p[1] .. p[2] : name[i] # "/"
     /\ p[1] = 1 \/ name[p[1] - 1] = "/"
     /\ p[2] = Len(name) \/ name[p[2] + 1] = "/"
     /\ SubSeq(name, p[1], p[2]) # <<"dot">>}

PosixName(name) ==
  IF Parts(name) = {} THEN << >>
  ELSE LET last == CHOOSE p \in Parts(name) : \A q \in Parts(name) : q[1] <= p[1]
       IN SubSeq(name, last[1], last[2])

Dots(name) == {i \in DOMAIN name : name[i] = "dot"}

\* PurePosixPath(name).suffix: from the last dot, unless it is first or last.
Extension(name) ==
  LET part == PosixName(name)
      inside == Dots(part) \ {1}
  IN IF inside = {} \/ Max(Dots(part)) = Len(part) THEN << >>
     ELSE SubSeq(part, Max(inside), Len(part))

ValidExtension(name) == Extension(name) = <<"dot", "ext">>

EndsWithExtension(name) == IsSuffix(<<"dot", "ext">>, name)

\* Fault: any name that ends in the letters will do.
PanelExtensionLettersOnly(name) == IsSuffix(<<"ext">>, name)

\* lower.endsWith(ext)
PanelExtension(name) == EndsWithExtension(name)

LeadingDots(name) == CHOOSE n \in 0 .. Len(name) :
  (\A i \in 1 .. n : name[i] = "dot") /\ (n = Len(name) \/ name[n + 1] # "dot")

\* The final segment of a name, behind separators of either kind.
Base(name) ==
  LET seps == {i \in DOMAIN name : name[i] \in {"/", "\\"}}
  IN IF seps = {} THEN name ELSE SubSeq(name, Max(seps) + 1, Len(name))

\* Fault: the cut comes before the final segment is taken.
SanitizeCutFirst(name) ==
  LET cut == Base(SubSeq(name, 1, Min({MaxNameLen, Len(name)})))
  IN [i \in DOMAIN cut |-> IF cut[i] = "other" THEN "word" ELSE cut[i]]

\* sanitize_filename: what is not allowed becomes "_", and so do leading dots
\* unless there is just one.
Sanitize(name) ==
  LET base == IF Base(name) = << >> THEN <<"word">> ELSE Base(name)
      dots == LeadingDots(base)
      sanitized == [i \in DOMAIN base |->
                      IF base[i] = "other" \/ (dots >= 2 /\ i <= dots) THEN "word" ELSE base[i]]
  IN SubSeq(sanitized, 1, Min({MaxNameLen, Len(sanitized)}))

-----------------------------------------------------------------------------
\* validate_batch: the first violation, or "accepted".
ValidateBatch(batch) ==
  IF batch = << >> THEN "NO_FILES"
  ELSE IF Len(batch) > settings.max_files THEN "TOO_MANY_FILES"
  ELSE IF \E f \in ToSet(batch) : ~ValidExtension(f.name) THEN "UNSUPPORTED_EXTENSION"
  ELSE IF \E f \in ToSet(batch) : f.size > settings.max_file_bytes THEN "FILE_TOO_LARGE"
  ELSE IF Total(batch) > settings.max_submission_bytes THEN "SUBMISSION_TOO_LARGE"
  ELSE "accepted"

\* The limit is a literal of the panel, the default of the API's setting.
PanelSize(f) == f.size <= settings.max_file_bytes

PanelAccepts(f) == PanelExtension(f.name) /\ PanelSize(f)

\* What acceptFiles has pushed after each file it has gone through.
Accepted(batch) ==
  LET accepted[n \in 0 .. Len(batch)] ==
        IF n = 0 THEN << >>
        ELSE IF PanelAccepts(batch[n]) THEN Append(accepted[n - 1], batch[n])
        ELSE accepted[n - 1]
  IN accepted

Init ==
  /\ settings \in Settings
  /\ files \in Batches
  /\ origin \in {"panel", "client"}
  /\ at = IF origin = "panel" THEN "dropped" ELSE "sent"
  /\ next = 0 /\ bytes_read = 0 /\ total_bytes = 0 /\ answer = "none"

\* acceptFiles stages what passes, and only reports that there are too many.
AcceptFiles ==
  /\ at = "dropped"
  /\ files' = Accepted(files)[Len(files)]
  /\ at' = "staged"
  /\ UNCHANGED <<settings, origin, next, bytes_read, total_bytes, answer>>

\* handleSubmit
Submit ==
  /\ at = "staged" /\ files # << >>
  /\ at' = "sent"
  /\ UNCHANGED <<settings, origin, files, next, bytes_read, total_bytes, answer>>

Respond(what) == at' = "answered" /\ answer' = what

\* Refused by number and name, before any body is read.
Check ==
  /\ at = "sent"
  /\ \/ /\ files = << >>
        /\ Respond("NO_FILES") /\ UNCHANGED next
     \/ /\ Len(files) > settings.max_files
        /\ Respond("TOO_MANY_FILES") /\ UNCHANGED next
     \/ /\ Len(files) \in 1 .. settings.max_files
        /\ \E f \in ToSet(files) : ~ValidExtension(f.name)
        /\ Respond("UNSUPPORTED_EXTENSION") /\ UNCHANGED next
     \/ /\ Len(files) \in 1 .. settings.max_files
        /\ \A f \in ToSet(files) : ValidExtension(f.name)
        /\ at' = "uploading" /\ next' = 1 /\ UNCHANGED answer
  /\ UNCHANGED <<settings, origin, files, bytes_read, total_bytes>>

\* Fault: the cap is taken for a bound it may not reach.
OverCapReached(bytes, cap) == bytes >= cap

OverCap(bytes, cap) == bytes > cap

\* _CappedReader.read: a chunk is counted once it has been read.
Read ==
  /\ at = "uploading" /\ bytes_read < files[next].size
  /\ bytes_read' = Min({bytes_read + Chunk, files[next].size})
  /\ IF OverCap(bytes_read', settings.max_file_bytes)
       THEN Respond("FILE_TOO_LARGE")
       ELSE UNCHANGED <<at, answer>>
  /\ UNCHANGED <<settings, origin, files, next, total_bytes>>

\* The body is read to its end, and the next one follows.
Uploaded ==
  /\ at = "uploading" /\ bytes_read = files[next].size
  /\ total_bytes' = total_bytes + bytes_read
  /\ bytes_read' = 0
  /\ IF OverCap(total_bytes', settings.max_submission_bytes)
       THEN Respond("SUBMISSION_TOO_LARGE") /\ UNCHANGED next
       ELSE IF next < Len(files) THEN next' = next + 1 /\ UNCHANGED <<at, answer>>
       ELSE Respond("accepted") /\ UNCHANGED next
  /\ UNCHANGED <<settings, origin, files>>

\* Answered, or nothing is staged.
Over == at = "answered" \/ (at = "staged" /\ files = << >>)

Next == AcceptFiles \/ Submit \/ Check \/ Read \/ Uploaded \/ (Over /\ UNCHANGED vars)

Spec == Init /\ [][Next]_vars

-----------------------------------------------------------------------------
\* The types of the variables: what is sent stays a sequence of files, and the
\* file whose body is read is one of them (routes_submissions.py:193-252).
TypeOK ==
  /\ settings \in Settings /\ origin \in {"panel", "client"} /\ files \in Seq(File)
  /\ at \in {"dropped", "staged", "sent", "uploading", "answered"}
  /\ next \in 0 .. Len(files) /\ bytes_read \in Nat /\ total_bytes \in Nat
  /\ answer \in {"none", "accepted", "NO_FILES", "TOO_MANY_FILES", "UNSUPPORTED_EXTENSION",
                 "FILE_TOO_LARGE", "SUBMISSION_TOO_LARGE"}

\* A name as a browser gives it: no path.
Plain(name) == \A i \in DOMAIN name : name[i] \notin {"/", "\\"}

\* The request, which counts bytes as they come, is refused exactly when the
\* whole batch violates a rule of validate_batch, and for the violation found
\* first there; it may only meet the total before a file that is too large
\* (routes_submissions.py:193-252, s3.py:54-123, validation.py:85-112).
StreamDecides ==
  at = "answered" =>
    \/ answer = ValidateBatch(files)
    \/ answer = "SUBMISSION_TOO_LARGE" /\ ValidateBatch(files) = "FILE_TOO_LARGE"

\* The panel and the API agree about each file: what the panel lets through is
\* refused for the number of files at most, or for their total if that is set
\* below what so many files may have; what the API accepts the panel would have
\* staged.  Names that are an extension and nothing else are the exception
\* (lib/validate.ts:17-38 against routes_submissions.py:193-252).
PanelMirrors ==
  at = "answered" =>
    /\ origin = "panel" =>
         \/ answer \in {"accepted", "TOO_MANY_FILES"}
         \/ /\ answer = "SUBMISSION_TOO_LARGE"
            /\ settings.max_submission_bytes < settings.max_files * settings.max_file_bytes
         \/ /\ answer = "UNSUPPORTED_EXTENSION"
            /\ \E f \in ToSet(files) : PosixName(f.name) = <<"dot", "ext">>
    /\ answer = "accepted" => \A f \in ToSet(files) : Plain(f.name) => PanelAccepts(f)

\* The key and the path in the sandbox of an accepted file end in one name of
\* bounded length without separators, and its extension, by which the model
\* tells what it reads, is still there: unless the final segment has none, is
\* too long, or has only dots before it (naming.py:18-50, sandbox.py:76-77).
NamesSurvive ==
  answer = "accepted" => \A f \in ToSet(files) :
    LET stored == Sanitize(f.name) IN
    /\ Plain(stored) /\ stored # << >> /\ Len(stored) <= MaxNameLen
    /\ EndsWithExtension(Base(f.name)) /\ Len(Base(f.name)) <= MaxNameLen
         => \/ EndsWithExtension(stored)
            \/ LeadingDots(Base(f.name)) = Len(Base(f.name)) - 1
=============================================================================
