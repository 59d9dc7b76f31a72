------------------------------- MODULE Batches -------------------------------
(***************************************************************************)
(* What POST /submissions promises: to its clients, a map from keys to     *)
(* batches that is written once and tells them of a batch only when it     *)
(* runs; to everyone else, that a workflow is a batch of the database, and *)
(* that a batch whose start is on record is not run again.                 *)
(*                                                                         *)
(* There are no requests here, no uploads, and nothing Temporal remembers  *)
(* or forgets.  SubmitApi implements this.                                 *)
(***************************************************************************)
EXTENDS Naturals

CONSTANTS
  Key, NoKey,   \* Idempotency-Keys; a batch without one
  Sub           \* submission ids

VARIABLES
  committed,    \* the batches there are
  key_of,       \* the key each was sent under
  starts,       \* executions of its workflow
  run_id,       \* its start is on record
  answers       \* batches each key has been answered with

vars == <<committed, key_of, starts, run_id, answers>>

Init ==
  /\ committed = {}
  /\ key_of = [s \in Sub |-> NoKey]
  /\ starts = [s \in Sub |-> 0]
  /\ run_id = [s \in Sub |-> FALSE]
  /\ answers = [k \in Key |-> {}]

\* A batch comes to be, under a key that has none; without a key, at any time.
Create(s, k) ==
  /\ s \notin committed
  /\ k = NoKey \/ \A t \in committed : key_of[t] # k
  /\ committed' = committed \cup {s}
  /\ key_of' = [key_of EXCEPT ![s] = k]
  /\ UNCHANGED <<starts, run_id, answers>>

\* It runs; again, only if nobody has put its start on record.
Start(s) ==
  /\ s \in committed /\ ~run_id[s]
  /\ starts' = [starts EXCEPT ![s] = @ + 1]
  /\ UNCHANGED <<committed, key_of, run_id, answers>>

\* A client hears of a batch that runs: under the key of the batch, if it has
\* one.  The start may go on record by it.
Accept(s) ==
  /\ s \in committed /\ starts[s] > 0
  /\ \E confirmed \in BOOLEAN : run_id' = [run_id EXCEPT ![s] = @ \/ confirmed]
  /\ answers' = IF key_of[s] = NoKey THEN answers
                ELSE [answers EXCEPT ![key_of[s]] = @ \cup {s}]
  /\ UNCHANGED <<committed, key_of, starts>>

Next ==
  \E s \in Sub : (\E k \in Key \cup {NoKey} : Create(s, k)) \/ Start(s) \/ Accept(s)

Spec == Init /\ [][Next]_vars
=============================================================================
