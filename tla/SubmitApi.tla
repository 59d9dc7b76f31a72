------------------------------ MODULE SubmitApi ------------------------------
(***************************************************************************)
(* POST /submissions of one tenant (api/routes_submissions.py): the check  *)
(* of the Idempotency-Key, the uploads to S3, the transaction that inserts *)
(* the batch, and the start of its workflow (temporal/client.py).          *)
(*                                                                         *)
(* A handler is one request being served; a step goes from one await, or   *)
(* one S3 call, to the next.  Three stores are written one after another   *)
(* and no transaction spans them.  A client whose connection broke repeats *)
(* its request under the same key while the first may still be served.     *)
(* A request that is refused before any upload (400) changes nothing and   *)
(* has no action; error_message is left out.                               *)
(***************************************************************************)
EXTENDS Naturals

CONSTANTS
  Handler,    \* requests served at once
  Key,        \* Idempotency-Keys of the tenant
  NoKey,      \* a request without the header
  Sub,        \* submission ids: uuid4, so a new one has no trace anywhere
  NoSub,
  Files,      \* files per batch
  MaxFaults   \* bound on faults of S3, Postgres, Temporal and the API process

ASSUME NullAssumption == NoKey \notin Key /\ NoSub \notin Sub
ASSUME NumbersAssumption == Files \in Nat \ {0} /\ MaxFaults \in Nat

VARIABLES
  request,    \* what each handler is doing
  \* Postgres
  committed,  \* submissions whose rows are there
  key_of,     \* submissions.idempotency_key
  run_id,     \* submissions.run_id is not null
  \* S3
  objects,    \* the files of each submission that are stored
  \* Temporal
  workflow,   \* the execution with id submission-<sub>
  \* history, read by no action except `faults`
  starts,     \* executions started with that id
  answers,    \* submissions each key has been answered with a 200 or 202
  leaked,     \* objects left by a fault before the batch was inserted
  undecided,  \* the insert was reported failed and took effect
  faults

database == <<committed, key_of, run_id>>
temporal == <<workflow, starts>>
vars == <<request, committed, key_of, run_id, objects, workflow, starts, answers,
          leaked, undecided, faults>>

Request == [pc: {"idle", "upload", "insert", "start", "record"},
            key: Key \cup {NoKey}, sub: Sub \cup {NoSub},
            uploaded: 0..Files, confirmed: BOOLEAN]
Serve(pc, k, s) == [pc |-> pc, key |-> k, sub |-> s, uploaded |-> 0, confirmed |-> FALSE]
Idle == Serve("idle", NoKey, NoSub)

TypeOK ==
  /\ request \in [Handler -> Request]
  /\ committed \in SUBSET Sub
  /\ key_of \in [Sub -> Key \cup {NoKey}]
  /\ run_id \in [Sub -> BOOLEAN]
  /\ objects \in [Sub -> SUBSET (1..Files)]
  /\ workflow \in [Sub -> {"none", "running", "closed", "forgotten"}]
  /\ starts \in [Sub -> Nat]
  /\ answers \in [Key -> SUBSET Sub]
  /\ leaked \in SUBSET Sub
  /\ undecided \in SUBSET Sub
  /\ faults \in 0..MaxFaults

Init ==
  /\ request = [h \in Handler |-> Idle]
  /\ committed = {}
  /\ key_of = [s \in Sub |-> NoKey]
  /\ run_id = [s \in Sub |-> FALSE]
  /\ objects = [s \in Sub |-> {}]
  /\ workflow = [s \in Sub |-> "none"]
  /\ starts = [s \in Sub |-> 0]
  /\ answers = [k \in Key |-> {}]
  /\ leaked = {} /\ undecided = {} /\ faults = 0

-----------------------------------------------------------------------------
At(h, pc) == request[h].pc = pc
Serving(s) == {g \in Handler : request[g].sub = s}
Fresh == {s \in Sub : /\ s \notin committed /\ objects[s] = {}
                      /\ workflow[s] = "none" /\ Serving(s) = {}}
BatchesOf(k) == {s \in committed : key_of[s] = k}

Faults(n) == faults + n <= MaxFaults /\ faults' = faults + n
Finish(h) == request' = [request EXCEPT ![h] = Idle]
Go(h, pc) == request' = [request EXCEPT ![h].pc = pc]

\* A 200 or 202 that names s.
Answer(k, s) ==
  answers' = IF k = NoKey THEN answers ELSE [answers EXCEPT ![k] = @ \cup {s}]

\* Fault: a batch that is in the database is taken to be started.
NeedsStartNever(s) == FALSE

\* `existing.run_id is None`
NeedsStart(s) == ~run_id[s]

\* The key is known: no upload, and a start only if none was ever confirmed.
Replay(h, k) ==
  /\ At(h, "idle")
  /\ \E s \in BatchesOf(k) :
       \/ /\ NeedsStart(s)
          /\ request' = [request EXCEPT ![h] = Serve("start", k, s)]
          /\ UNCHANGED answers
       \/ /\ ~NeedsStart(s)
          /\ Answer(k, s)
          /\ UNCHANGED request
  /\ UNCHANGED <<database, objects, temporal, leaked, undecided, faults>>

\* No key, or one that nothing is committed under yet.
NewBatch(h, k) ==
  /\ At(h, "idle")
  /\ k # NoKey => BatchesOf(k) = {}
  /\ \E s \in Fresh :
       request' = [request EXCEPT ![h] = Serve("upload", k, s)]
  /\ UNCHANGED <<database, objects, temporal, answers, leaked, undecided, faults>>

-----------------------------------------------------------------------------
\* Fault: the loop over `files` ends one file early.
AllUploadedEarly(n) == n >= Files - 1

AllUploaded(n) == n >= Files

\* upload_fileobj_capped for the next file.
Upload(h) ==
  LET r == request[h]
      n == r.uploaded + 1
  IN
  /\ At(h, "upload")
  /\ objects' = [objects EXCEPT ![r.sub] = @ \cup {n}]
  /\ request' = [request EXCEPT
       ![h] = [r EXCEPT !.uploaded = n,
                        !.pc = IF AllUploaded(n) THEN "insert" ELSE "upload"]]
  /\ UNCHANGED <<database, temporal, answers, leaked, undecided, faults>>

\* Fault: the objects of a batch that comes to nothing are kept.
DiscardNothing(h, upto, n) ==
  Faults(n) /\ UNCHANGED <<objects, leaked>>

\* delete_objects on the files 1..upto of the request, which swallows errors:
\* what it could not delete stays.  `n` is the number of faults that led here.
Discard(h, upto, n) ==
  LET s == request[h].sub IN
  \/ /\ objects' = [objects EXCEPT ![s] = {}]
     /\ Faults(n) /\ UNCHANGED leaked
  \/ \E kept \in SUBSET (1..upto) \ {{}} :
       /\ objects' = [objects EXCEPT ![s] = kept]
       /\ leaked' = leaked \cup {s}
       /\ Faults(n + 1)

\* 413: a file, or the files so far, exceed their cap.
TooLarge(h) ==
  /\ At(h, "upload")
  /\ Discard(h, request[h].uploaded + 1, 0)
  /\ Finish(h)
  /\ UNCHANGED <<database, temporal, answers, undecided>>

\* Any other exception of the upload: nothing is deleted.
UploadFails(h) ==
  /\ At(h, "upload")
  /\ Faults(1)
  /\ leaked' = leaked \cup {request[h].sub}
  /\ Finish(h)
  /\ UNCHANGED <<database, objects, temporal, answers, undecided>>

-----------------------------------------------------------------------------
\* Fault: no unique constraint.
KeyIsFreeAlways(k) == TRUE

\* uq_submissions_tenant_idempotency_key; nulls are distinct.
KeyIsFree(k) == k = NoKey \/ BatchesOf(k) = {}

\* The transaction: the submissions row and all files rows.
Insert(h) ==
  LET r == request[h] IN
  /\ committed' = committed \cup {r.sub}
  /\ key_of' = [key_of EXCEPT ![r.sub] = r.key]
  /\ UNCHANGED run_id

InsertCommits(h) ==
  /\ At(h, "insert") /\ KeyIsFree(request[h].key)
  /\ Insert(h)
  /\ Go(h, "start")
  /\ UNCHANGED <<objects, temporal, answers, leaked, undecided, faults>>

\* The constraint, or a database error: rollback, and 500.
InsertFails(h) ==
  /\ At(h, "insert")
  /\ Discard(h, Files, IF KeyIsFree(request[h].key) THEN 1 ELSE 0)
  /\ Finish(h)
  /\ UNCHANGED <<database, temporal, answers, undecided>>

\* The connection breaks while the COMMIT is answered: the handler takes it
\* for a failure.
InsertUndecided(h) ==
  /\ At(h, "insert") /\ KeyIsFree(request[h].key)
  /\ Insert(h)
  /\ Discard(h, Files, 1)
  /\ undecided' = undecided \cup {request[h].sub}
  /\ Finish(h)
  /\ UNCHANGED <<temporal, answers>>

-----------------------------------------------------------------------------
\* Fault: WorkflowIDReusePolicy.ALLOW_DUPLICATE.
StartableAgain(s) == workflow[s] # "running"

\* REJECT_DUPLICATE: no execution with this id, as far as Temporal remembers.
Startable(s) == workflow[s] \in {"none", "forgotten"}

StartExecution(s) ==
  /\ workflow' = [workflow EXCEPT ![s] = "running"]
  /\ starts' = [starts EXCEPT ![s] = @ + 1]

StartWorkflow(h) ==
  LET s == request[h].sub IN
  /\ At(h, "start") /\ Startable(s)
  /\ StartExecution(s)
  /\ request' = [request EXCEPT ![h].pc = "record", ![h].confirmed = TRUE]
  /\ UNCHANGED <<database, objects, answers, leaked, undecided, faults>>

\* WorkflowAlreadyStartedError is success, but brings no run id.
AlreadyStarted(h) ==
  /\ At(h, "start") /\ ~Startable(request[h].sub)
  /\ Go(h, "record")
  /\ UNCHANGED <<database, objects, temporal, answers, leaked, undecided, faults>>

\* Any other exception: 502.  The execution may have been started.
StartFails(h) ==
  LET s == request[h].sub IN
  /\ At(h, "start")
  /\ Faults(1)
  /\ \/ UNCHANGED temporal
     \/ Startable(s) /\ StartExecution(s)
  /\ Finish(h)
  /\ UNCHANGED <<database, objects, answers, leaked, undecided>>

\* The last commit, and the answer.
Record(h) ==
  LET r == request[h] IN
  /\ At(h, "record")
  /\ run_id' = [run_id EXCEPT ![r.sub] = @ \/ r.confirmed]
  /\ Answer(r.key, r.sub)
  /\ Finish(h)
  /\ UNCHANGED <<committed, key_of, objects, temporal, leaked, undecided, faults>>

\* The API process ends, at any await or S3 call of the handler.
HandlerDies(h) ==
  LET r == request[h] IN
  /\ r.pc # "idle"
  /\ Faults(1)
  /\ leaked' = IF r.pc \in {"upload", "insert"} THEN leaked \cup {r.sub} ELSE leaked
  /\ Finish(h)
  /\ UNCHANGED <<database, objects, temporal, answers, undecided>>

\* The submission ends, as Submission has it.
WorkflowCloses(s) ==
  /\ workflow[s] = "running"
  /\ workflow' = [workflow EXCEPT ![s] = "closed"]
  /\ UNCHANGED <<request, database, objects, starts, answers, leaked, undecided, faults>>

\* Temporal drops a closed execution, and its id, after the namespace's
\* retention period: days, so longer than any request.
WorkflowForgotten(s) ==
  /\ workflow[s] = "closed" /\ Serving(s) = {}
  /\ workflow' = [workflow EXCEPT ![s] = "forgotten"]
  /\ UNCHANGED <<request, database, objects, starts, answers, leaked, undecided, faults>>

\* What a handler does if nothing goes wrong.
Handle(h) ==
  Upload(h) \/ TooLarge(h) \/ InsertCommits(h) \/ InsertFails(h)
  \/ StartWorkflow(h) \/ AlreadyStarted(h) \/ Record(h)

Next ==
  \/ \E h \in Handler :
       \/ \E k \in Key : Replay(h, k)
       \/ \E k \in Key \cup {NoKey} : NewBatch(h, k)
       \/ Handle(h)
       \/ UploadFails(h) \/ InsertUndecided(h) \/ StartFails(h) \/ HandlerDies(h)
  \/ \E s \in Sub : WorkflowCloses(s) \/ WorkflowForgotten(s)

Spec == Init /\ [][Next]_vars

\* A request that is being served gets on, and a client that was not told of
\* success sends its request again until it is (TenantPanel.tsx:53-78 keeps the
\* key).  Faults stop: there are at most MaxFaults.
FairSpec ==
  /\ Spec
  /\ \A h \in Handler : WF_vars(Handle(h))
  /\ \A k \in Key : SF_vars(\E h \in Handler : Replay(h, k))

-----------------------------------------------------------------------------
\* One key, one batch: however many requests carry it at once, whichever of
\* them loses the race to insert, and whatever is repeated after a fault, all
\* that are answered with success name the same submission
\* (routes_submissions.py:160-191, 264-292; models.py:57-61).
OneBatchPerKey ==
  \A k \in Key : /\ \A s, t \in BatchesOf(k) : s = t
                 /\ answers[k] \subseteq BatchesOf(k)

\* No client is told its batch was accepted while no workflow was ever started
\* for it, also when the one that inserted it failed to start it
\* (routes_submissions.py:98-144, 168-191).
AcceptedIsStarted ==
  \A k \in Key : \A s \in answers[k] : starts[s] > 0

\* Once the start of a batch is on record it is never run again, even after
\* Temporal has forgotten the id that would have rejected the duplicate, and
\* whatever requests overlap (client.py:46-52, routes_submissions.py:169).
RecordedRunsOnce ==
  [][\A s \in Sub : run_id[s] => starts'[s] = starts[s]]_vars

\* This module implements Batches: requests, uploads and what Temporal keeps are
\* hidden, and no order of them shows a client or Temporal more than a map of keys
\* written once (routes_submissions.py:98-191, 264-298).
Batch == INSTANCE Batches

ImplementsBatches == Batch!Spec

\* A workflow is started only for a batch that is in the database, and one that
\* is there has all its files in S3 for good, whatever other requests clean up.
\* The exception: an insert that was reported failed and took effect, whose
\* files the cleanup has deleted and which a replay still starts
\* (routes_submissions.py:222-298).
StartedIsWhole ==
  /\ \A s \in Sub : starts[s] > 0 => s \in committed
  /\ \A s \in committed \ undecided : objects[s] = 1..Files

\* A request that ends without a batch leaves nothing in S3, unless a fault kept
\* it from cleaning up (routes_submissions.py:229-252, 289-292; s3.py:120-146).
NoOrphans ==
  \A s \in Sub :
    objects[s] # {} /\ s \notin committed \cup leaked =>
      \E h \in Serving(s) : request[h].pc \in {"upload", "insert"}

\* The docstring of _ensure_workflow_started: a batch with a key never stays
\* without a workflow, as long as its client repeats the request
\* (routes_submissions.py:108-112).
NeverStuck ==
  \A k \in Key : \A s \in Sub : s \in BatchesOf(k) ~> starts[s] > 0
=============================================================================
