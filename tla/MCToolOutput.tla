---------------------------- MODULE MCToolOutput ----------------------------
(* Instances of ToolOutput for TLC. *)
EXTENDS ToolOutput

\* Characters of every width that may be cut, and a delimiter whose parts a cut
\* or another stream may bring together.
MCTexts ==
  UNION {[1 .. n -> {"x", "two", "four"}] : n \in 0 .. 4}
    \cup {<<"lt", "slash", "stdout", "gt">>, <<"lt", "stderr", "gt", "two">>,
          <<"lt", "slash">>, <<"stdout", "gt", "x">>, <<"lt", "x", "x", "slash", "stdout", "gt">>}

\* Sizes the script's arithmetic treats apart: everything but the end, nothing,
\* less and more than a file has.
MCRequests == {-2, -1, 0, 3, 5, 20}
=============================================================================
