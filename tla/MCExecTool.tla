---------------------------- MODULE MCExecTool ----------------------------
(* Instances of ExecTool for TLC. *)
EXTENDS ExecTool

\* Two calls in one turn, then one in the next.
MCTurnOf == <<1, 1, 2>>
=============================================================================
