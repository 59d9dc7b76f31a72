----------------------------- MODULE ToolOutput -----------------------------
(***************************************************************************)
(* From the bytes a program in the sandbox prints to the text the model     *)
(* reads: the script read_file runs there, the decoding of its output, the  *)
(* truncation of each stream (core/truncate.py) and the envelope            *)
(* (agent/runtime.py).                                                      *)
(*                                                                          *)
(* A text is a sequence of characters.  What the code tells apart are the   *)
(* number of bytes of each in UTF-8 and the delimiters of the envelope,     *)
(* whose letters only matter together: a name is one character here.        *)
(***************************************************************************)
EXTENDS Integers, Sequences, FiniteSetsExt, SequencesExt

CONSTANTS
  Texts,      \* contents of files, outputs of programs
  MaxBytes,   \* values of settings.tool_output_max_bytes
  Requests    \* values the model gives max_bytes of read_file

\* A character and its bytes in UTF-8.
Width == [x |-> 1, slash |-> 1, stdout |-> 1, stderr |-> 1, lt |-> 1, gt |-> 1,
          two |-> 2, four |-> 4, replacement |-> 3]
Char == DOMAIN Width

ASSUME TextsAssumption == Texts \subseteq Seq(Char)
ASSUME BytesAssumption == MaxBytes \subseteq Nat /\ Requests \subseteq Int

Notice == <<"x">>    \* "[read_file: output truncated at max_bytes]"

VARIABLES
  max_bytes,   \* settings.tool_output_max_bytes
  tool,        \* "run_python" or "read_file"
  requested,   \* max_bytes of read_file
  data,        \* what the file holds, or the program prints
  stage,       \* "started", "ran" or "rendered"
  stdout,      \* of the process, decoded
  stderr,
  content      \* ExecToolResult.content

output_vars == <<max_bytes, tool, requested, data, stage, stdout, stderr, content>>

-----------------------------------------------------------------------------
(* Bytes.                                                                   *)

\* The bytes of the first characters of a text, for any number of them.
Ends(text) ==
  LET ends[n \in 0 .. Len(text)] == IF n = 0 THEN 0 ELSE ends[n - 1] + Width[text[n]]
  IN ends

Bytes(text) == Ends(text)[Len(text)]

\* The bytes of a character, each with its place.
BytesOf(char) == [b \in 1 .. Width[char] |-> [char |-> char, byte |-> b]]

\* text.encode("utf-8"), after each character.
Encoded(text) ==
  LET encoded[n \in 0 .. Len(text)] ==
        IF n = 0 THEN << >> ELSE encoded[n - 1] \o BytesOf(text[n])
  IN encoded

Encode(text) == Encoded(text)[Len(text)]

\* data[:n] and data[-n:]; a negative n leaves out the last bytes.
Leading(bytes, n) ==
  SubSeq(bytes, 1, IF n < 0 THEN Max({0, Len(bytes) + n}) ELSE Min({n, Len(bytes)}))
Trailing(bytes, n) == SubSeq(bytes, Max({1, Len(bytes) - n + 1}), Len(bytes))

\* The bytes at which a whole character begins.
Whole(bytes) ==
  {i \in DOMAIN bytes : bytes[i].byte = 1 /\ i + Width[bytes[i].char] - 1 <= Len(bytes)}

\* decode("utf-8", errors="ignore"), after each byte.
Decoded(bytes) ==
  LET decoded[i \in 0 .. Len(bytes)] ==
        IF i = 0 THEN << >>
        ELSE IF i \in Whole(bytes) THEN Append(decoded[i - 1], bytes[i].char)
        ELSE decoded[i - 1]
  IN decoded

DecodeIgnoring(bytes) == Decoded(bytes)[Len(bytes)]

\* decode("utf-8", errors="replace") of bytes that may end inside a character
DecodeReplacing(bytes) ==
  DecodeIgnoring(bytes)
    \o (IF \E i \in DOMAIN bytes : bytes[i].byte = 1 /\ i \notin Whole(bytes)
          THEN <<"replacement">> ELSE << >>)

-----------------------------------------------------------------------------
\* What truncate_output returns: the text, or the parts around a marker.
Untouched(text) == [head |-> text, dropped |-> 0, tail |-> << >>]

\* Fault: both halves are rounded up.
TailBudgetRoundedUp(cap) == (cap + 1) \div 2 + 1

TailBudget(cap) == cap - cap \div 2

Truncate(text, cap) ==
  LET encoded == Encode(text)
      head == DecodeIgnoring(Leading(encoded, cap \div 2))
      tail == DecodeIgnoring(Trailing(encoded, TailBudget(cap)))
  IN IF Bytes(text) <= cap THEN Untouched(text)
     ELSE [head |-> head, dropped |-> Bytes(text) - (Bytes(head) + Bytes(tail)), tail |-> tail]

\* Fault: the output is put in as it is.
NeutralizeNothing(text) == text

\* _neutralize_delimiters: "&lt;" and "&gt;" are harmless characters.
Neutralize(text) ==
  [i \in DOMAIN text |-> IF text[i] = "lt" THEN "x" ELSE IF text[i] = "gt" THEN "x" ELSE text[i]]

\* The marker is one character of the text.
Shown(truncated) ==
  Neutralize(IF truncated.dropped = 0 THEN truncated.head
             ELSE truncated.head \o <<"x">> \o truncated.tail)

Open(stream) == <<"lt", stream, "gt">>
Close(stream) == <<"lt", "slash", stream, "gt">>

\* render_tool_output, without the line that names the exit code.
Envelope(out, err) ==
  Open("stdout") \o Shown(Truncate(out, max_bytes)) \o Close("stdout")
    \o Open("stderr") \o Shown(Truncate(err, max_bytes)) \o Close("stderr")

OutputInit ==
  /\ max_bytes \in MaxBytes /\ data \in Texts
  /\ tool \in {"run_python", "read_file"}
  /\ requested \in IF tool = "read_file" THEN Requests \cup {max_bytes} ELSE {max_bytes}
  /\ stage = "started" /\ stdout = << >> /\ stderr = << >> /\ content = << >>

\* Fault: the file is read up to the limit and no further, so that one which
\* goes on looks like one which ends there.
ReadToLimit(file, limit) == Leading(Encode(file), limit)

\* f.read(max_bytes + 1); a negative size reads everything.
ReadPast(file, limit) ==
  IF limit + 1 < 0 THEN Encode(file) ELSE Leading(Encode(file), limit + 1)

\* The program of the model prints what it likes.
RunPython ==
  /\ stage = "started" /\ tool = "run_python"
  /\ stdout' = data
  /\ stderr' \in Texts
  /\ stage' = "ran"
  /\ UNCHANGED <<max_bytes, tool, requested, data, content>>

\* The generated script; the SDK decodes what it prints.
ReadFile ==
  LET read == ReadPast(data, requested) IN
  /\ stage = "started" /\ tool = "read_file"
  /\ stdout' = DecodeReplacing(Leading(read, requested))
  /\ stderr' = IF Len(read) > requested THEN Notice ELSE << >>
  /\ stage' = "ran"
  /\ UNCHANGED <<max_bytes, tool, requested, data, content>>

Render ==
  /\ stage = "ran"
  /\ content' = Envelope(stdout, stderr)
  /\ stage' = "rendered"
  /\ UNCHANGED <<max_bytes, tool, requested, data, stdout, stderr>>

OutputNext == RunPython \/ ReadFile \/ Render \/ (stage = "rendered" /\ UNCHANGED output_vars)

OutputSpec == OutputInit /\ [][OutputNext]_output_vars

-----------------------------------------------------------------------------
LongestPrefix(text, cap) ==
  SubSeq(text, 1, Max({n \in 0 .. Len(text) : Bytes(SubSeq(text, 1, n)) <= cap}))

LongestSuffix(text, cap) ==
  SubSeq(text, Min({n \in 1 .. Len(text) + 1 : Bytes(SubSeq(text, n, Len(text))) <= cap}), Len(text))

\* Cutting bytes and decoding what is left gives what a cut between characters
\* would: the longest beginning and the longest end that fit in half of the cap
\* each, which do not overlap, and the marker names what lies between them
\* (core/truncate.py:14-50).
CutsBetweenCharacters ==
  \A text \in {stdout, stderr} :
    LET cut == Truncate(text, max_bytes) IN
    IF Bytes(text) <= max_bytes THEN cut = Untouched(text)
    ELSE /\ cut.head = LongestPrefix(text, max_bytes \div 2)
         /\ cut.tail = LongestSuffix(text, max_bytes - max_bytes \div 2)
         /\ Len(cut.head) + Len(cut.tail) <= Len(text)
         /\ cut.dropped > 0
         /\ cut.dropped =
              Bytes(SubSeq(text, Len(cut.head) + 1, Len(text) - Len(cut.tail)))

\* If the model is not shown the whole of a file it is told so, by the notice
\* of the script or by the marker of the second truncation, for every
\* max_bytes it may ask for (runtime.py:50-93, 114-135).
NothingDroppedSilently ==
  stage # "started" /\ tool = "read_file" =>
    \/ stderr = Notice
    \/ stdout = data /\ (Bytes(data) > max_bytes <=> Truncate(stdout, max_bytes).dropped > 0)

Occurrences(part, text) ==
  {i \in 1 .. Len(text) - Len(part) + 1 : SubSeq(text, i, i + Len(part) - 1) = part}

\* Whatever a program prints, truncated or not, each delimiter of the envelope
\* is in it once, in order, and between them is what was put there
\* (runtime.py:97-135).
EnvelopeReadsBack ==
  stage = "rendered" =>
    \A stream \in {"stdout", "stderr"} :
      \E i, j \in 1 .. Len(content) :
        /\ Occurrences(Open(stream), content) = {i}
        /\ Occurrences(Close(stream), content) = {j}
        /\ SubSeq(content, i + 3, j - 1) =
             Shown(Truncate(IF stream = "stdout" THEN stdout ELSE stderr, max_bytes))
=============================================================================
