--------------------------- MODULE MCFileAnalysis ---------------------------
(* FileAnalysis on a small instance, for TLC. *)
EXTENDS FileAnalysis

\* A cell, a report before a block that can fail, and a report the validation
\* rejects, each of them on any turn, the last one included.
MCResponses == {<<"run_python">>, <<"write_report", "read_file">>, <<"bad_report">>}
=============================================================================
