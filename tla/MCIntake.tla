------------------------------ MODULE MCIntake ------------------------------
(* Instances of Intake for TLC. *)
EXTENDS Intake

Named(name, size) == [name |-> name, size |-> size]

\* Every name of up to four tokens, alone.
ByName == {<<Named(name, 1)>> : name \in UNION {[1 .. n -> Token] : n \in 0 .. 4}}

\* Up to three files of sizes at and around the limits, or of a wrong type.
Sample == {Named(<<"word", "dot", "ext">>, size) : size \in {0, 2, 3, 4}}
            \cup {Named(<<"word">>, 1)}

MCBatches == ByName \cup UNION {[1 .. n -> Sample] : n \in 0 .. 3}

\* The defaults have room for as many files of the largest size as there may be.
Setting(total) == [max_files |-> 2, max_file_bytes |-> 3, max_submission_bytes |-> total]
MCSettings == {Setting(6), Setting(4)}
=============================================================================
