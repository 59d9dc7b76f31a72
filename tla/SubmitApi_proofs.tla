--------------------------- MODULE SubmitApi_proofs ---------------------------
(***************************************************************************)
(* Proofs about SubmitApi for any number of handlers, keys, ids, files and *)
(* faults.                                                                 *)
(***************************************************************************)
EXTENDS SubmitApi, TLAPS

Uploading(h) == request[h].pc \in {"upload", "insert"}
Starting(h) == request[h].pc \in {"start", "record"}
Remembered(s) == workflow[s] \in {"running", "closed"}

\* What a handler's place in create_submission says of the batch it serves.
HandlerKnown(h) ==
  /\ At(h, "idle") => request[h].sub = NoSub
  /\ ~At(h, "idle") => request[h].sub \in Sub
  /\ At(h, "upload") => request[h].uploaded < Files
  /\ At(h, "insert") => request[h].uploaded = Files
  /\ Uploading(h) => /\ request[h].sub \notin committed
                     /\ objects[request[h].sub] = 1..request[h].uploaded
  /\ Starting(h) => /\ request[h].sub \in committed
                    /\ key_of[request[h].sub] = request[h].key

HandlersKnown == \A h \in Handler : HandlerKnown(h)

\* A batch that is not inserted yet is served by one handler only.
Exclusive ==
  \A g, h \in Handler : Uploading(h) /\ request[g].sub = request[h].sub => g = h

\* What the stores say of each other.
StoresAgree ==
  \A s \in Sub :
    /\ s \notin committed => workflow[s] = "none"
    /\ workflow[s] = "none" => starts[s] = 0 /\ ~run_id[s]
    /\ workflow[s] # "none" => starts[s] > 0

\* While a start that is on record is tried again, Temporal remembers it.
StartsRemembered ==
  \A h \in Handler :
    /\ At(h, "record") => Remembered(request[h].sub)
    /\ At(h, "start") /\ run_id[request[h].sub] => Remembered(request[h].sub)

ApiInv ==
  /\ TypeOK /\ HandlersKnown /\ Exclusive /\ StoresAgree /\ StartsRemembered
  /\ OneBatchPerKey /\ AcceptedIsStarted /\ StartedIsWhole /\ NoOrphans

-----------------------------------------------------------------------------
\* A step of one handler changes its own request only.
LEMMA OneHandler ==
  ASSUME TypeOK, NEW h \in Handler, NEW r \in Request,
         request' = [request EXCEPT ![h] = r]
  PROVE  /\ request' \in [Handler -> Request] /\ request'[h] = r
         /\ \A g \in Handler : g # h => request'[g] = request[g]
BY DEF TypeOK

LEMMA ServeType ==
  ASSUME NEW pc \in {"idle", "upload", "insert", "start", "record"},
         NEW k \in Key \cup {NoKey}, NEW s \in Sub \cup {NoSub}
  PROVE  Serve(pc, k, s) \in Request
<1>1. 0 \in 0..Files
  BY NumbersAssumption
<1>2. QED
  BY <1>1 DEF Serve, Request

LEMMA IdleType == Idle \in Request
BY ServeType DEF Idle

LEMMA ApiInit == Init => ApiInv
<1> SUFFICES ASSUME Init PROVE ApiInv
  OBVIOUS
<1>1. TypeOK
  BY IdleType, NumbersAssumption DEF Init, TypeOK
<1>2. \A h \in Handler : request[h] = Idle
  BY DEF Init
<1>3. HandlersKnown /\ Exclusive /\ StartsRemembered
  BY <1>2 DEF HandlersKnown, HandlerKnown, Exclusive, StartsRemembered, At, Uploading, Starting, Idle, Serve
<1>4. StoresAgree /\ OneBatchPerKey /\ AcceptedIsStarted /\ StartedIsWhole /\ NoOrphans
  BY DEF Init, StoresAgree, OneBatchPerKey, BatchesOf, AcceptedIsStarted, StartedIsWhole,
         NoOrphans
<1>5. QED
  BY <1>1, <1>3, <1>4 DEF ApiInv

\* A new request: the handler was idle, nothing is stored.
LEMMA ReplayStep ==
  ASSUME ApiInv, NEW h \in Handler, NEW k \in Key, Replay(h, k)
  PROVE  ApiInv'
<1>1. TypeOK /\ At(h, "idle")
  BY DEF ApiInv, Replay
<1>2. UNCHANGED <<committed, key_of, run_id, objects, workflow, starts, leaked, undecided, faults>>
  BY DEF Replay, database, temporal
<1>3. PICK s \in BatchesOf(k) :
        \/ /\ NeedsStart(s)
           /\ request' = [request EXCEPT ![h] = Serve("start", k, s)]
           /\ UNCHANGED answers
        \/ /\ ~NeedsStart(s)
           /\ Answer(k, s)
           /\ UNCHANGED request
  BY DEF Replay
<1>4. s \in committed /\ s \in Sub /\ key_of[s] = k /\ k # NoKey
  BY <1>1, <1>3, NullAssumption DEF BatchesOf, TypeOK
<1>5. CASE /\ NeedsStart(s)
           /\ request' = [request EXCEPT ![h] = Serve("start", k, s)]
           /\ UNCHANGED answers
  <2> DEFINE r == Serve("start", k, s)
  <2>1. /\ r \in Request /\ r.pc = "start" /\ r.key = k /\ r.sub = s
    BY <1>4, ServeType DEF Serve, Request, Idle
  <2>2. /\ request' \in [Handler -> Request] /\ request'[h] = r
        /\ \A g \in Handler : g # h => request'[g] = request[g]
    BY <1>1, <1>5, <2>1, OneHandler
  <2> HIDE DEF r
  <2>3. ~run_id[s]
    BY <1>5 DEF NeedsStart
  <2>4. TypeOK'
    BY <1>1, <1>2, <1>5, <2>2 DEF TypeOK
  <2>5. HandlersKnown' /\ Exclusive' /\ StartsRemembered'
    BY <1>1, <1>2, <1>4, <2>1, <2>2, <2>3
       DEF ApiInv, HandlersKnown, HandlerKnown, Exclusive, StartsRemembered, At, Uploading, Starting, Remembered
  <2>6. StoresAgree' /\ OneBatchPerKey' /\ AcceptedIsStarted' /\ StartedIsWhole'
    BY <1>2, <1>5 DEF ApiInv, StoresAgree, OneBatchPerKey, BatchesOf, AcceptedIsStarted,
                      StartedIsWhole
  <2>7. NoOrphans'
    BY <1>1, <1>2, <2>2 DEF ApiInv, NoOrphans, Serving, At, HandlersKnown, HandlerKnown, Uploading
  <2>8. QED
    BY <2>4, <2>5, <2>6, <2>7 DEF ApiInv
<1>6. CASE ~NeedsStart(s) /\ Answer(k, s) /\ UNCHANGED request
  <2>1. /\ answers' \in [Key -> SUBSET Sub] /\ answers'[k] = answers[k] \cup {s}
        /\ \A j \in Key : j # k => answers'[j] = answers[j]
    BY <1>1, <1>4, <1>6 DEF Answer, TypeOK
  <2>2. starts[s] > 0
    BY <1>1, <1>4, <1>6 DEF NeedsStart, ApiInv, StoresAgree, TypeOK
  <2>3. TypeOK'
    BY <1>1, <1>2, <1>6, <2>1 DEF TypeOK
  <2>4. /\ HandlersKnown' /\ Exclusive' /\ StartsRemembered' /\ StoresAgree'
        /\ StartedIsWhole' /\ NoOrphans'
    BY <1>2, <1>6 DEF ApiInv, StoresAgree, StartedIsWhole, NoOrphans, Serving, HandlersKnown, HandlerKnown, Exclusive, StartsRemembered, At, Uploading, Starting, Remembered
  <2>5. OneBatchPerKey' /\ AcceptedIsStarted'
    BY <1>2, <1>3, <2>1, <2>2 DEF ApiInv, OneBatchPerKey, BatchesOf, AcceptedIsStarted
  <2>6. QED
    BY <2>3, <2>4, <2>5 DEF ApiInv
<1>7. QED
  BY <1>3, <1>5, <1>6

LEMMA NewBatchStep ==
  ASSUME ApiInv, NEW h \in Handler, NEW k \in Key \cup {NoKey}, NewBatch(h, k)
  PROVE  ApiInv'
<1>1. TypeOK /\ At(h, "idle")
  BY DEF ApiInv, NewBatch
<1>2. UNCHANGED <<committed, key_of, run_id, objects, workflow, starts, answers, leaked,
                  undecided, faults>>
  BY DEF NewBatch, database, temporal
<1>3. PICK s \in Fresh :
        request' = [request EXCEPT ![h] = Serve("upload", k, s)]
  BY DEF NewBatch
<1>4. /\ s \in Sub /\ s \notin committed /\ objects[s] = {}
      /\ \A g \in Handler : request[g].sub # s
  BY <1>3 DEF Fresh, Serving
<1> DEFINE r == Serve("upload", k, s)
<1>5. r \in Request /\ r.pc = "upload" /\ r.key = k /\ r.sub = s /\ r.uploaded = 0
  BY <1>4, ServeType DEF Serve, Request, Idle
<1>6. /\ request' \in [Handler -> Request] /\ request'[h] = r
      /\ \A g \in Handler : g # h => request'[g] = request[g]
  BY <1>1, <1>3, <1>5, OneHandler
<1> HIDE DEF r
<1>7. TypeOK'
  BY <1>1, <1>2, <1>6 DEF TypeOK
<1>8. HandlersKnown' /\ Exclusive' /\ StartsRemembered'
  <2>1. 1..0 = {} /\ 0 < Files
    BY NumbersAssumption
  <2>2. HandlersKnown'
    BY <1>1, <1>2, <1>4, <1>5, <1>6, <2>1 DEF ApiInv, HandlersKnown, HandlerKnown, At, Uploading, Starting
  <2>3. Exclusive'
    BY <1>2, <1>4, <1>5, <1>6 DEF ApiInv, Exclusive, Uploading
  <2>4. StartsRemembered'
    BY <1>2, <1>5, <1>6 DEF ApiInv, StartsRemembered, At, Remembered
  <2>5. QED
    BY <2>2, <2>3, <2>4
<1>9. StoresAgree' /\ OneBatchPerKey' /\ AcceptedIsStarted' /\ StartedIsWhole'
  BY <1>2 DEF ApiInv, StoresAgree, OneBatchPerKey, BatchesOf, AcceptedIsStarted, StartedIsWhole
<1>10. NoOrphans'
  BY <1>1, <1>2, <1>6 DEF ApiInv, NoOrphans, Serving, At, HandlersKnown, HandlerKnown, Uploading
<1>11. QED
  BY <1>7, <1>8, <1>9, <1>10 DEF ApiInv

LEMMA NextFile == ASSUME NEW n \in Nat PROVE (1..n) \cup {n + 1} = 1..(n + 1)
OBVIOUS

\* The next file: the id is this handler's alone.
LEMMA UploadStep ==
  ASSUME ApiInv, NEW h \in Handler, Upload(h)
  PROVE  ApiInv'
<1> DEFINE s == request[h].sub
           m == request[h].uploaded
           pc == IF AllUploaded(m + 1) THEN "insert" ELSE "upload"
           r == [request[h] EXCEPT !.uploaded = m + 1, !.pc = pc]
<1>1. /\ TypeOK /\ At(h, "upload")
      /\ UNCHANGED <<committed, key_of, run_id, workflow, starts, answers, leaked,
                     undecided, faults>>
      /\ objects' = [objects EXCEPT ![s] = @ \cup {m + 1}]
      /\ request' = [request EXCEPT ![h] = r]
  BY DEF ApiInv, Upload, database, temporal
<1>2. /\ s \in Sub /\ s \notin committed /\ objects[s] = 1..m
      /\ request[h] \in Request /\ m \in Nat /\ m < Files
      /\ \A g \in Handler : g # h => request[g].sub # s
  BY <1>1, NumbersAssumption
     DEF ApiInv, HandlersKnown, HandlerKnown, Exclusive, At, Uploading, TypeOK, Request
<1>3. /\ m + 1 \in 0..Files /\ m + 1 \in 1..Files
      /\ \/ pc = "insert" /\ m + 1 = Files
         \/ pc = "upload" /\ m + 1 < Files
  BY <1>2, NumbersAssumption DEF AllUploaded
<1>4. r \in Request /\ r.sub = s /\ r.uploaded = m + 1 /\ r.pc = pc
  <2> HIDE DEF pc
  <2>1. pc \in {"upload", "insert"}
    BY <1>3
  <2> HIDE DEF m
  <2>2. QED
    BY <1>2, <1>3, <2>1 DEF Request
<1>5. /\ request' \in [Handler -> Request] /\ request'[h] = r
      /\ \A g \in Handler : g # h => request'[g] = request[g]
  <2> HIDE DEF r
  <2>1. QED
    BY <1>1, <1>4, OneHandler
<1>6. /\ objects' \in [Sub -> SUBSET (1..Files)] /\ objects'[s] = 1..(m + 1)
      /\ \A t \in Sub : t # s => objects'[t] = objects[t]
  <2>1. objects[s] \cup {m + 1} = 1..(m + 1) /\ objects[s] \cup {m + 1} \subseteq 1..Files
    BY <1>2, <1>3, NextFile, NumbersAssumption
  <2> HIDE DEF m, s
  <2>2. QED
    BY <1>1, <1>2, <2>1 DEF TypeOK
<1> HIDE DEF r, s, pc
<1>7. TypeOK'
  BY <1>1, <1>5, <1>6 DEF TypeOK
<1>8. HandlersKnown' /\ Exclusive' /\ StartsRemembered'
  <2>1. HandlersKnown'
    <3>1. HandlerKnown(h)'
      BY <1>1, <1>2, <1>3, <1>4, <1>5, <1>6 DEF HandlerKnown, At, Uploading, Starting
    <3>2. ASSUME NEW g \in Handler, g # h PROVE HandlerKnown(g)'
      BY <1>1, <1>2, <1>5, <1>6, <3>2
         DEF ApiInv, HandlersKnown, HandlerKnown, At, Uploading, Starting
    <3>3. QED
      BY <3>1, <3>2 DEF HandlersKnown
  <2>2. Exclusive'
    BY <1>1, <1>2, <1>4, <1>5 DEF ApiInv, Exclusive, Uploading, At
  <2>3. StartsRemembered'
    BY <1>1, <1>3, <1>4, <1>5 DEF ApiInv, StartsRemembered, At, Remembered
  <2>4. QED
    BY <2>1, <2>2, <2>3
<1>9. StoresAgree' /\ OneBatchPerKey' /\ AcceptedIsStarted'
  BY <1>1 DEF ApiInv, StoresAgree, OneBatchPerKey, BatchesOf, AcceptedIsStarted
<1>10. StartedIsWhole'
  BY <1>1, <1>2, <1>6 DEF ApiInv, StartedIsWhole, TypeOK
<1>11. NoOrphans'
  <2> SUFFICES ASSUME NEW t \in Sub, objects'[t] # {}, t \notin committed \cup leaked
               PROVE  \E g \in Handler : /\ request'[g].sub = t
                                         /\ request'[g].pc \in {"upload", "insert"}
    BY <1>1 DEF NoOrphans, Serving
  <2>1. CASE t = s
    BY <1>3, <1>4, <1>5, <2>1
  <2>2. CASE t # s
    <3>1. PICK g \in Handler : request[g].sub = t /\ request[g].pc \in {"upload", "insert"}
      BY <1>6, <2>2 DEF ApiInv, NoOrphans, Serving
    <3>2. request'[g] = request[g]
      BY <1>5, <2>2, <3>1 DEF s
    <3>3. QED
      BY <3>1, <3>2
  <2>3. QED
    BY <2>1, <2>2
<1>12. QED
  BY <1>7, <1>8, <1>9, <1>10, <1>11 DEF ApiInv

-----------------------------------------------------------------------------
\* Ends of a request.
LEMMA FinishEffect ==
  ASSUME TypeOK, NEW h \in Handler, Finish(h)
  PROVE  /\ request' \in [Handler -> Request] /\ request'[h] = Idle
         /\ request'[h].pc = "idle" /\ request'[h].sub = NoSub
         /\ \A g \in Handler : g # h => request'[g] = request[g]
BY OneHandler, IdleType DEF Finish, Idle, Serve

LEMMA FaultsEffect ==
  ASSUME TypeOK, NEW n \in Nat, Faults(n) PROVE faults' \in 0..MaxFaults
BY NumbersAssumption DEF Faults, TypeOK

\* What is left of the files of a batch is recorded as leaked.
LEMMA DiscardEffect ==
  ASSUME TypeOK, NEW h \in Handler, request[h].sub \in Sub,
         NEW upto \in 0..Files, NEW n \in Nat, Discard(h, upto, n)
  PROVE  /\ objects' \in [Sub -> SUBSET (1..Files)]
         /\ \A t \in Sub : t # request[h].sub => objects'[t] = objects[t]
         /\ leaked \subseteq leaked' /\ leaked' \in SUBSET Sub
         /\ objects'[request[h].sub] = {} \/ request[h].sub \in leaked'
         /\ faults' \in 0..MaxFaults
<1>1. CASE /\ objects' = [objects EXCEPT ![request[h].sub] = {}]
           /\ Faults(n) /\ UNCHANGED leaked
  BY <1>1, FaultsEffect DEF TypeOK
<1>2. ASSUME NEW kept \in SUBSET (1..upto) \ {{}},
             objects' = [objects EXCEPT ![request[h].sub] = kept],
             leaked' = leaked \cup {request[h].sub},
             Faults(n + 1)
      PROVE  /\ objects' \in [Sub -> SUBSET (1..Files)]
             /\ \A t \in Sub : t # request[h].sub => objects'[t] = objects[t]
             /\ leaked \subseteq leaked' /\ leaked' \in SUBSET Sub
             /\ request[h].sub \in leaked'
             /\ faults' \in 0..MaxFaults
  <2>1. kept \in SUBSET (1..Files)
    BY <1>2, NumbersAssumption
  <2>2. faults' \in 0..MaxFaults
    <3>1. n + 1 \in Nat
      OBVIOUS
    <3>2. QED
      BY <1>2, <3>1, FaultsEffect
  <2>3. QED
    BY <1>2, <2>1, <2>2 DEF TypeOK
<1>3. QED
  BY <1>1, <1>2 DEF Discard

\* A request that ends and leaves database and workflows alone: whatever it has
\* stored for a batch that is not inserted is deleted or leaked.
LEMMA EndStep ==
  ASSUME ApiInv, NEW h \in Handler, ~At(h, "idle"), Finish(h),
         UNCHANGED <<committed, key_of, run_id, workflow, starts, answers, undecided>>,
         faults' \in 0..MaxFaults,
         objects' \in [Sub -> SUBSET (1..Files)],
         \A t \in Sub : t # request[h].sub => objects'[t] = objects[t],
         leaked \subseteq leaked', leaked' \in SUBSET Sub,
         Uploading(h) => objects'[request[h].sub] = {} \/ request[h].sub \in leaked',
         ~Uploading(h) => UNCHANGED objects
  PROVE  ApiInv'
<1>1. TypeOK /\ request[h].sub \in Sub
  BY DEF ApiInv, HandlersKnown, HandlerKnown
<1>2. /\ request' \in [Handler -> Request] /\ request'[h].pc = "idle"
      /\ request'[h].sub = NoSub
      /\ \A g \in Handler : g # h => request'[g] = request[g]
  BY <1>1, FinishEffect
<1>3. TypeOK'
  BY <1>1, <1>2 DEF TypeOK
<1>4. HandlersKnown'
  <2>1. HandlerKnown(h)'
    BY <1>2 DEF HandlerKnown, At, Uploading, Starting
  <2>2. ASSUME NEW g \in Handler, g # h PROVE HandlerKnown(g)'
    BY <1>1, <1>2, <2>2 DEF ApiInv, HandlersKnown, HandlerKnown, Exclusive, At, Uploading, Starting
  <2>3. QED
    BY <2>1, <2>2 DEF HandlersKnown
<1>5. Exclusive' /\ StartsRemembered'
  <2>1. Exclusive'
    BY <1>2, NullAssumption
       DEF ApiInv, Exclusive, HandlersKnown, HandlerKnown, Uploading, At
  <2>2. StartsRemembered'
    BY <1>2 DEF ApiInv, StartsRemembered, At, Remembered
  <2>3. QED
    BY <2>1, <2>2
<1>6. StoresAgree' /\ OneBatchPerKey' /\ AcceptedIsStarted'
  BY DEF ApiInv, StoresAgree, OneBatchPerKey, BatchesOf, AcceptedIsStarted
<1>7. StartedIsWhole'
  BY <1>1 DEF ApiInv, StartedIsWhole, HandlersKnown, HandlerKnown, TypeOK
<1>8. NoOrphans'
  BY <1>1, <1>2 DEF ApiInv, NoOrphans, Serving, Uploading
<1>9. QED
  BY <1>3, <1>4, <1>5, <1>6, <1>7, <1>8 DEF ApiInv

LEMMA FailureStep ==
  ASSUME ApiInv, NEW h \in Handler,
         TooLarge(h) \/ UploadFails(h) \/ InsertFails(h) \/ HandlerDies(h)
  PROVE  ApiInv'
<1>1. TypeOK /\ HandlerKnown(h) /\ request[h] \in Request
  BY DEF ApiInv, HandlersKnown, TypeOK
<1>2. CASE TooLarge(h)
  <2>1. At(h, "upload") /\ request[h].uploaded + 1 \in 0..Files /\ request[h].sub \in Sub
    BY <1>1, <1>2, NumbersAssumption DEF TooLarge, HandlerKnown, At, Request
  <2>2. QED
    BY <1>1, <1>2, <2>1, DiscardEffect, EndStep
       DEF TooLarge, At, Uploading, database, temporal
<1>3. CASE InsertFails(h)
  <2> DEFINE n == IF KeyIsFree(request[h].key) THEN 1 ELSE 0
  <2>1. /\ At(h, "insert") /\ request[h].sub \in Sub /\ Files \in 0..Files /\ n \in Nat
        /\ Discard(h, Files, n)
    BY <1>1, <1>3, NumbersAssumption DEF InsertFails, HandlerKnown, At
  <2> HIDE DEF n
  <2>2. QED
    BY <1>1, <1>3, <2>1, DiscardEffect, EndStep
       DEF InsertFails, At, Uploading, database, temporal
<1>4. CASE UploadFails(h)
  <2>1. faults' \in 0..MaxFaults
    BY <1>1, <1>4, FaultsEffect DEF UploadFails
  <2>2. QED
    BY <1>1, <1>4, <2>1, EndStep
       DEF UploadFails, HandlerKnown, At, Uploading, TypeOK, database, temporal
<1>5. CASE HandlerDies(h)
  <2>1. faults' \in 0..MaxFaults
    BY <1>1, <1>5, FaultsEffect DEF HandlerDies
  <2>2. QED
    BY <1>1, <1>5, <2>1, EndStep
       DEF HandlerDies, HandlerKnown, At, Uploading, TypeOK, database, temporal
<1>6. QED
  BY <1>2, <1>3, <1>4, <1>5

-----------------------------------------------------------------------------
\* The insert of a batch nobody else serves, under a key nothing has.
LEMMA InsertEffect ==
  ASSUME ApiInv, NEW h \in Handler, At(h, "insert"), KeyIsFree(request[h].key), Insert(h),
         UNCHANGED <<workflow, starts, answers>>
  PROVE  /\ request[h].sub \in Sub /\ request[h].sub \notin committed
         /\ committed' = committed \cup {request[h].sub} /\ committed' \in SUBSET Sub
         /\ key_of' \in [Sub -> Key \cup {NoKey}] /\ key_of'[request[h].sub] = request[h].key
         /\ \A t \in Sub : t # request[h].sub => key_of'[t] = key_of[t]
         /\ run_id' = run_id /\ ~run_id[request[h].sub]
         /\ objects[request[h].sub] = 1..Files
         /\ \A g \in Handler : g # h => request[g].sub # request[h].sub
         /\ StoresAgree' /\ OneBatchPerKey' /\ AcceptedIsStarted'
<1> DEFINE s == request[h].sub
<1>1. TypeOK /\ HandlerKnown(h) /\ request[h] \in Request
  BY DEF ApiInv, HandlersKnown, TypeOK
<1>2. /\ s \in Sub /\ s \notin committed /\ objects[s] = 1..Files
      /\ \A g \in Handler : g # h => request[g].sub # s
  BY <1>1 DEF ApiInv, Exclusive, HandlerKnown, At, Uploading
<1>3. request[h].key \in Key \cup {NoKey} /\ ~run_id[s]
  BY <1>1, <1>2 DEF Request, ApiInv, StoresAgree
<1>4. /\ committed' = committed \cup {s} /\ run_id' = run_id
      /\ key_of' \in [Sub -> Key \cup {NoKey}] /\ key_of'[s] = request[h].key
      /\ \A t \in Sub : t # s => key_of'[t] = key_of[t]
  BY <1>1, <1>2, <1>3 DEF Insert, TypeOK
<1>5. StoresAgree' /\ AcceptedIsStarted'
  BY <1>4 DEF ApiInv, StoresAgree, AcceptedIsStarted
<1>6. OneBatchPerKey'
  <2> SUFFICES ASSUME NEW k \in Key
               PROVE  /\ \A t, u \in BatchesOf(k)' : t = u
                      /\ answers'[k] \subseteq BatchesOf(k)'
    BY DEF OneBatchPerKey
  <2>1. CASE k = request[h].key
    <3>1. BatchesOf(k) = {}
      BY <2>1, NullAssumption DEF KeyIsFree
    <3>2. answers[k] = {}
      BY <3>1 DEF ApiInv, OneBatchPerKey
    <3>3. BatchesOf(k)' = {s}
      BY <1>1, <1>2, <1>4, <2>1, <3>1 DEF BatchesOf, TypeOK
    <3>4. QED
      BY <3>2, <3>3
  <2>2. CASE k # request[h].key
    <3>1. BatchesOf(k)' = BatchesOf(k)
      BY <1>1, <1>2, <1>4, <2>2 DEF BatchesOf, TypeOK
    <3>2. QED
      BY <3>1 DEF ApiInv, OneBatchPerKey
  <2>3. QED
    BY <2>1, <2>2
<1>7. QED
  BY <1>1, <1>2, <1>3, <1>4, <1>5, <1>6 DEF TypeOK

LEMMA InsertStep ==
  ASSUME ApiInv, NEW h \in Handler, InsertCommits(h) \/ InsertUndecided(h)
  PROVE  ApiInv'
<1> DEFINE s == request[h].sub
<1>1. /\ TypeOK /\ request[h] \in Request
      /\ At(h, "insert") /\ KeyIsFree(request[h].key) /\ Insert(h)
      /\ UNCHANGED <<workflow, starts, answers>>
  BY DEF ApiInv, TypeOK, InsertCommits, InsertUndecided, temporal
<1>2. /\ s \in Sub /\ s \notin committed
      /\ committed' = committed \cup {s} /\ committed' \in SUBSET Sub
      /\ key_of' \in [Sub -> Key \cup {NoKey}] /\ key_of'[s] = request[h].key
      /\ \A t \in Sub : t # s => key_of'[t] = key_of[t]
      /\ run_id' = run_id /\ ~run_id[s]
      /\ objects[s] = 1..Files
      /\ \A g \in Handler : g # h => request[g].sub # s
      /\ StoresAgree' /\ OneBatchPerKey' /\ AcceptedIsStarted'
  BY <1>1, InsertEffect
<1>3. CASE InsertCommits(h)
  <2> DEFINE r == [request[h] EXCEPT !.pc = "start"]
  <2>1. /\ request' = [request EXCEPT ![h].pc = "start"]
        /\ UNCHANGED <<objects, leaked, undecided, faults>>
    BY <1>3 DEF InsertCommits, Go
  <2>2. r \in Request /\ r.pc = "start" /\ r.sub = s /\ r.key = request[h].key
    BY <1>1 DEF Request
  <2>3. /\ request' \in [Handler -> Request] /\ request'[h] = r
        /\ \A g \in Handler : g # h => request'[g] = request[g]
    <3>1. request' = [request EXCEPT ![h] = r]
      BY <2>1
    <3> HIDE DEF r
    <3>2. QED
      BY <1>1, <2>2, <3>1, OneHandler
  <2> HIDE DEF r, s
  <2>4. TypeOK'
    BY <1>1, <1>2, <2>1, <2>3 DEF TypeOK
  <2>5. HandlersKnown'
    <3>1. HandlerKnown(h)'
      BY <1>2, <2>2, <2>3 DEF HandlerKnown, At, Uploading, Starting
    <3>2. ASSUME NEW g \in Handler, g # h PROVE HandlerKnown(g)'
      BY <1>1, <1>2, <2>1, <2>3, <3>2
         DEF s, ApiInv, HandlersKnown, HandlerKnown, At, Uploading, Starting
    <3>3. QED
      BY <3>1, <3>2 DEF HandlersKnown
  <2>6. Exclusive'
    BY <1>2, <2>2, <2>3 DEF ApiInv, Exclusive, Uploading
  <2>7. StartsRemembered'
    BY <1>1, <1>2, <2>2, <2>3 DEF ApiInv, StartsRemembered, At, Remembered
  <2>8. StartedIsWhole'
    BY <1>1, <1>2, <2>1 DEF ApiInv, StartedIsWhole, TypeOK
  <2>9. NoOrphans'
    BY <1>1, <1>2, <2>1, <2>3 DEF s, ApiInv, NoOrphans, Serving
  <2>10. QED
    BY <1>2, <2>4, <2>5, <2>6, <2>7, <2>8, <2>9 DEF ApiInv
<1>4. CASE InsertUndecided(h)
  <2>1. /\ Finish(h) /\ undecided' = undecided \cup {s} /\ Discard(h, Files, 1)
        /\ Files \in 0..Files /\ 1 \in Nat
    BY <1>4, NumbersAssumption DEF InsertUndecided
  <2>2. /\ request' \in [Handler -> Request] /\ request'[h].pc = "idle"
        /\ request'[h].sub = NoSub
        /\ \A g \in Handler : g # h => request'[g] = request[g]
    BY <1>1, <2>1, FinishEffect
  <2>3. /\ objects' \in [Sub -> SUBSET (1..Files)]
        /\ \A t \in Sub : t # s => objects'[t] = objects[t]
        /\ leaked \subseteq leaked' /\ leaked' \in SUBSET Sub
        /\ faults' \in 0..MaxFaults
    BY <1>1, <1>2, <2>1, DiscardEffect
  <2> HIDE DEF s
  <2>4. TypeOK'
    BY <1>1, <1>2, <2>1, <2>2, <2>3 DEF TypeOK
  <2>5. HandlersKnown'
    <3>1. HandlerKnown(h)'
      BY <2>2 DEF HandlerKnown, At, Uploading, Starting
    <3>2. ASSUME NEW g \in Handler, g # h PROVE HandlerKnown(g)'
      BY <1>1, <1>2, <2>2, <2>3, <3>2
         DEF s, ApiInv, HandlersKnown, HandlerKnown, At, Uploading, Starting
    <3>3. QED
      BY <3>1, <3>2 DEF HandlersKnown
  <2>6. Exclusive'
    BY <2>2, NullAssumption
       DEF ApiInv, Exclusive, HandlersKnown, HandlerKnown, Uploading, At
  <2>7. StartsRemembered'
    BY <1>1, <1>2, <2>2 DEF ApiInv, StartsRemembered, At, Remembered
  <2>8. StartedIsWhole'
    BY <1>1, <1>2, <2>1, <2>3 DEF ApiInv, StartedIsWhole, TypeOK
  <2>9. NoOrphans'
    BY <1>1, <1>2, <2>2, <2>3 DEF s, ApiInv, NoOrphans, Serving
  <2>10. QED
    BY <1>2, <2>4, <2>5, <2>6, <2>7, <2>8, <2>9 DEF ApiInv
<1>5. QED
  BY <1>3, <1>4

-----------------------------------------------------------------------------
\* A new execution of a batch that is in the database.
LEMMA StartEffect ==
  ASSUME ApiInv, NEW s \in committed, StartExecution(s),
         UNCHANGED <<committed, key_of, run_id, answers>>
  PROVE  /\ s \in Sub /\ workflow' \in [Sub -> {"none", "running", "closed", "forgotten"}]
         /\ starts' \in [Sub -> Nat] /\ workflow'[s] = "running"
         /\ \A t \in Sub : t # s => workflow'[t] = workflow[t] /\ starts'[t] = starts[t]
         /\ StoresAgree' /\ OneBatchPerKey' /\ AcceptedIsStarted'
<1>1. TypeOK /\ s \in Sub
  BY DEF ApiInv, TypeOK
<1>2. /\ workflow' \in [Sub -> {"none", "running", "closed", "forgotten"}]
      /\ starts' \in [Sub -> Nat] /\ workflow'[s] = "running" /\ starts'[s] = starts[s] + 1
      /\ starts[s] \in Nat
      /\ \A t \in Sub : t # s => workflow'[t] = workflow[t] /\ starts'[t] = starts[t]
  BY <1>1 DEF StartExecution, TypeOK
<1>3. StoresAgree'
  BY <1>1, <1>2 DEF ApiInv, StoresAgree
<1>4. OneBatchPerKey'
  BY DEF ApiInv, OneBatchPerKey, BatchesOf
<1>5. AcceptedIsStarted'
  BY <1>1, <1>2 DEF ApiInv, AcceptedIsStarted, TypeOK
<1>6. QED
  BY <1>1, <1>2, <1>3, <1>4, <1>5

LEMMA StartStep ==
  ASSUME ApiInv, NEW h \in Handler, StartWorkflow(h) \/ AlreadyStarted(h)
  PROVE  ApiInv'
<1> DEFINE s == request[h].sub
<1>1. /\ TypeOK /\ HandlerKnown(h) /\ request[h] \in Request /\ At(h, "start")
      /\ UNCHANGED <<committed, key_of, run_id, objects, answers, leaked, undecided, faults>>
  BY DEF ApiInv, HandlersKnown, TypeOK, StartWorkflow, AlreadyStarted, database
<1>2. s \in committed /\ s \in Sub /\ key_of[s] = request[h].key
  BY <1>1 DEF HandlerKnown, At, Starting
<1>3. PICK r \in Request :
        /\ r.pc = "record" /\ r.sub = s /\ r.key = request[h].key
        /\ request' = [request EXCEPT ![h] = r]
  <2>1. CASE StartWorkflow(h)
    <3> DEFINE r == [request[h] EXCEPT !.pc = "record", !.confirmed = TRUE]
    <3>1. r \in Request /\ r.pc = "record" /\ r.sub = s /\ r.key = request[h].key
      BY <1>1 DEF Request
    <3>2. request' = [request EXCEPT ![h] = r]
      BY <1>1, <2>1 DEF StartWorkflow, TypeOK
    <3>3. QED
      BY <3>1, <3>2
  <2>2. CASE AlreadyStarted(h)
    <3> DEFINE r == [request[h] EXCEPT !.pc = "record"]
    <3>1. r \in Request /\ r.pc = "record" /\ r.sub = s /\ r.key = request[h].key
      BY <1>1 DEF Request
    <3>2. request' = [request EXCEPT ![h] = r]
      BY <1>1, <2>2 DEF AlreadyStarted, Go, TypeOK
    <3>3. QED
      BY <3>1, <3>2
  <2>3. QED
    BY <2>1, <2>2
<1>4. /\ request' \in [Handler -> Request] /\ request'[h] = r
      /\ \A g \in Handler : g # h => request'[g] = request[g]
  BY <1>1, <1>3, OneHandler
<1>5. /\ workflow' \in [Sub -> {"none", "running", "closed", "forgotten"}]
      /\ starts' \in [Sub -> Nat]
      /\ workflow'[s] \in {"running", "closed"}
      /\ \A t \in Sub : t # s => workflow'[t] = workflow[t] /\ starts'[t] = starts[t]
      /\ StoresAgree' /\ OneBatchPerKey' /\ AcceptedIsStarted'
  <2>1. CASE StartWorkflow(h)
    BY <1>1, <1>2, <2>1, StartEffect DEF StartWorkflow
  <2>2. CASE AlreadyStarted(h)
    BY <1>1, <1>2, <2>2
       DEF AlreadyStarted, Startable, temporal, TypeOK, ApiInv, StoresAgree, OneBatchPerKey,
           BatchesOf, AcceptedIsStarted
  <2>3. QED
    BY <2>1, <2>2
<1> HIDE DEF s
<1>6. TypeOK'
  BY <1>1, <1>4, <1>5 DEF TypeOK
<1>7. HandlersKnown'
  <2>1. HandlerKnown(h)'
    BY <1>1, <1>2, <1>3, <1>4 DEF HandlerKnown, At, Uploading, Starting
  <2>2. ASSUME NEW g \in Handler, g # h PROVE HandlerKnown(g)'
    BY <1>1, <1>4, <2>2 DEF ApiInv, HandlersKnown, HandlerKnown, At, Uploading, Starting
  <2>3. QED
    BY <2>1, <2>2 DEF HandlersKnown
<1>8. Exclusive'
  <2>1. ASSUME NEW g \in Handler, g # h, Uploading(g) PROVE request[g].sub # s
    BY <1>2, <2>1 DEF ApiInv, HandlersKnown, HandlerKnown
  <2>2. QED
    BY <1>3, <1>4, <2>1 DEF ApiInv, Exclusive, Uploading
<1>9. StartsRemembered'
  <2> SUFFICES ASSUME NEW g \in Handler
               PROVE  /\ At(g, "record")' => Remembered(request[g].sub)'
                      /\ At(g, "start")' /\ run_id'[request'[g].sub] => Remembered(request[g].sub)'
    BY DEF StartsRemembered
  <2>1. CASE g = h
    BY <1>3, <1>4, <1>5, <2>1 DEF At, Remembered
  <2>2. CASE g # h
    BY <1>1, <1>4, <1>5, <2>2
       DEF ApiInv, HandlersKnown, HandlerKnown, StartsRemembered, At, Remembered
  <2>3. QED
    BY <2>1, <2>2
<1>10. StartedIsWhole'
  BY <1>1, <1>2, <1>5 DEF ApiInv, StartedIsWhole
<1>11. NoOrphans'
  BY <1>1, <1>4 DEF ApiInv, NoOrphans, Serving, At
<1>12. QED
  BY <1>5, <1>6, <1>7, <1>8, <1>9, <1>10, <1>11 DEF ApiInv

LEMMA StartFailsStep ==
  ASSUME ApiInv, NEW h \in Handler, StartFails(h)
  PROVE  ApiInv'
<1> DEFINE s == request[h].sub
<1>1. /\ TypeOK /\ HandlerKnown(h) /\ At(h, "start") /\ Finish(h) /\ Faults(1)
      /\ UNCHANGED <<committed, key_of, run_id, objects, answers, leaked, undecided>>
      /\ \/ UNCHANGED <<workflow, starts>>
         \/ Startable(s) /\ StartExecution(s)
  BY DEF ApiInv, HandlersKnown, StartFails, database, temporal
<1>2. s \in committed /\ s \in Sub /\ faults' \in 0..MaxFaults
  BY <1>1, FaultsEffect DEF HandlerKnown, At, Starting
<1>3. CASE UNCHANGED <<workflow, starts>>
  BY <1>1, <1>2, <1>3, EndStep DEF TypeOK, At, Uploading
<1>4. CASE Startable(s) /\ StartExecution(s)
  <2>1. /\ workflow' \in [Sub -> {"none", "running", "closed", "forgotten"}]
        /\ starts' \in [Sub -> Nat] /\ workflow'[s] = "running"
        /\ \A t \in Sub : t # s => workflow'[t] = workflow[t] /\ starts'[t] = starts[t]
        /\ StoresAgree' /\ OneBatchPerKey' /\ AcceptedIsStarted'
    BY <1>1, <1>2, <1>4, StartEffect
  <2>2. /\ request' \in [Handler -> Request] /\ request'[h].pc = "idle"
        /\ request'[h].sub = NoSub
        /\ \A g \in Handler : g # h => request'[g] = request[g]
    BY <1>1, FinishEffect
  <2> HIDE DEF s
  <2>3. TypeOK'
    BY <1>1, <1>2, <2>1, <2>2 DEF TypeOK
  <2>4. HandlersKnown'
    <3>1. HandlerKnown(h)'
      BY <2>2 DEF HandlerKnown, At, Uploading, Starting
    <3>2. ASSUME NEW g \in Handler, g # h PROVE HandlerKnown(g)'
      BY <1>1, <2>2, <3>2 DEF ApiInv, HandlersKnown, HandlerKnown, At, Uploading, Starting
    <3>3. QED
      BY <3>1, <3>2 DEF HandlersKnown
  <2>5. Exclusive'
    BY <2>2, NullAssumption
       DEF ApiInv, Exclusive, HandlersKnown, HandlerKnown, Uploading, At
  <2>6. StartsRemembered'
    BY <1>1, <2>1, <2>2
       DEF ApiInv, HandlersKnown, HandlerKnown, StartsRemembered, At, Remembered
  <2>7. StartedIsWhole'
    BY <1>1, <1>2, <2>1 DEF ApiInv, StartedIsWhole
  <2>8. NoOrphans'
    BY <1>1, <2>2 DEF ApiInv, NoOrphans, Serving, At
  <2>9. QED
    BY <2>1, <2>3, <2>4, <2>5, <2>6, <2>7, <2>8 DEF ApiInv
<1>5. QED
  BY <1>1, <1>3, <1>4

LEMMA RecordStep ==
  ASSUME ApiInv, NEW h \in Handler, Record(h)
  PROVE  ApiInv'
<1> DEFINE s == request[h].sub
           k == request[h].key
<1>1. /\ TypeOK /\ HandlerKnown(h) /\ request[h] \in Request /\ At(h, "record") /\ Finish(h)
      /\ run_id' = [run_id EXCEPT ![s] = @ \/ request[h].confirmed]
      /\ Answer(k, s)
      /\ UNCHANGED <<committed, key_of, objects, workflow, starts, leaked, undecided, faults>>
  BY DEF ApiInv, HandlersKnown, TypeOK, Record, temporal
<1>2. /\ s \in committed /\ s \in Sub /\ key_of[s] = k /\ k \in Key \cup {NoKey}
      /\ Remembered(s) /\ starts[s] > 0
  <2>1. s \in committed /\ s \in Sub /\ key_of[s] = k /\ k \in Key \cup {NoKey}
    BY <1>1 DEF HandlerKnown, At, Starting, Request
  <2>2. Remembered(s)
    BY <1>1 DEF ApiInv, StartsRemembered
  <2>3. starts[s] > 0
    BY <2>1, <2>2 DEF ApiInv, StoresAgree, Remembered
  <2>4. QED
    BY <2>1, <2>2, <2>3
<1>3. /\ request' \in [Handler -> Request] /\ request'[h].pc = "idle"
      /\ request'[h].sub = NoSub
      /\ \A g \in Handler : g # h => request'[g] = request[g]
  BY <1>1, FinishEffect
<1>4. /\ run_id' \in [Sub -> BOOLEAN]
      /\ \A t \in Sub : t # s => run_id'[t] = run_id[t]
  BY <1>1, <1>2 DEF TypeOK, Request
<1>5. /\ answers' \in [Key -> SUBSET Sub]
      /\ \A j \in Key : answers'[j] \subseteq answers[j] \cup (IF j = k THEN {s} ELSE {})
  BY <1>1, <1>2 DEF Answer, TypeOK
<1> HIDE DEF s, k
<1>6. TypeOK'
  BY <1>1, <1>3, <1>4, <1>5 DEF TypeOK
<1>7. HandlersKnown'
  <2>1. HandlerKnown(h)'
    BY <1>3 DEF HandlerKnown, At, Uploading, Starting
  <2>2. ASSUME NEW g \in Handler, g # h PROVE HandlerKnown(g)'
    BY <1>1, <1>3, <2>2 DEF ApiInv, HandlersKnown, HandlerKnown, At, Uploading, Starting
  <2>3. QED
    BY <2>1, <2>2 DEF HandlersKnown
<1>8. Exclusive'
  BY <1>3, NullAssumption
     DEF ApiInv, Exclusive, HandlersKnown, HandlerKnown, Uploading, At
<1>9. StartsRemembered'
  <2> SUFFICES ASSUME NEW g \in Handler
               PROVE  /\ At(g, "record")' => Remembered(request[g].sub)'
                      /\ At(g, "start")' /\ run_id'[request'[g].sub] => Remembered(request[g].sub)'
    BY DEF StartsRemembered
  <2>1. CASE g = h
    BY <1>3, <2>1 DEF At
  <2>2. CASE g # h
    BY <1>1, <1>2, <1>3, <1>4, <2>2
       DEF ApiInv, HandlersKnown, HandlerKnown, StartsRemembered, At, Remembered
  <2>3. QED
    BY <2>1, <2>2
<1>10. StoresAgree'
  BY <1>1, <1>2, <1>4 DEF ApiInv, StoresAgree, Remembered
<1>11. OneBatchPerKey' /\ AcceptedIsStarted'
  <2>1. OneBatchPerKey'
    BY <1>1, <1>2, <1>5 DEF ApiInv, OneBatchPerKey, BatchesOf, TypeOK
  <2>2. AcceptedIsStarted'
    BY <1>1, <1>2, <1>5 DEF ApiInv, AcceptedIsStarted
  <2>3. QED
    BY <2>1, <2>2
<1>12. StartedIsWhole'
  BY <1>1 DEF ApiInv, StartedIsWhole
<1>13. NoOrphans'
  BY <1>1, <1>3 DEF ApiInv, NoOrphans, Serving, At
<1>14. QED
  BY <1>6, <1>7, <1>8, <1>9, <1>10, <1>11, <1>12, <1>13 DEF ApiInv

\* What Temporal does by itself; it forgets no execution while a request for
\* its batch is being served.
LEMMA TemporalStep ==
  ASSUME ApiInv, NEW s \in Sub, WorkflowCloses(s) \/ WorkflowForgotten(s)
  PROVE  ApiInv'
<1>1. /\ TypeOK /\ workflow[s] \in {"running", "closed"}
      /\ UNCHANGED <<request, committed, key_of, run_id, objects, starts, answers, leaked,
                     undecided, faults>>
  BY DEF ApiInv, WorkflowCloses, WorkflowForgotten, database
<1>2. /\ workflow' \in [Sub -> {"none", "running", "closed", "forgotten"}]
      /\ workflow'[s] # "none"
      /\ workflow'[s] = "closed" \/ \A g \in Handler : request[g].sub # s
      /\ \A t \in Sub : t # s => workflow'[t] = workflow[t]
  BY <1>1 DEF WorkflowCloses, WorkflowForgotten, Serving, TypeOK
<1>3. TypeOK'
  BY <1>1, <1>2 DEF TypeOK
<1>4. HandlersKnown' /\ Exclusive'
  BY <1>1 DEF ApiInv, HandlersKnown, HandlerKnown, Exclusive, At, Uploading, Starting
<1>5. StartsRemembered'
  BY <1>1, <1>2 DEF ApiInv, StartsRemembered, HandlersKnown, HandlerKnown, At, Remembered
<1>6. StoresAgree'
  BY <1>1, <1>2 DEF ApiInv, StoresAgree
<1>7. OneBatchPerKey' /\ AcceptedIsStarted' /\ StartedIsWhole' /\ NoOrphans'
  BY <1>1 DEF ApiInv, OneBatchPerKey, BatchesOf, AcceptedIsStarted, StartedIsWhole, NoOrphans,
              Serving
<1>8. QED
  BY <1>3, <1>4, <1>5, <1>6, <1>7 DEF ApiInv

-----------------------------------------------------------------------------
LEMMA ApiStep == ASSUME ApiInv, [Next]_vars PROVE ApiInv'
<1>1. ASSUME NEW h \in Handler, NEW k \in Key, Replay(h, k) PROVE ApiInv'
  BY <1>1, ReplayStep
<1>2. ASSUME NEW h \in Handler, NEW k \in Key \cup {NoKey}, NewBatch(h, k) PROVE ApiInv'
  BY <1>2, NewBatchStep
<1>3. ASSUME NEW h \in Handler, Handle(h) PROVE ApiInv'
  BY <1>3, UploadStep, FailureStep, InsertStep, StartStep, RecordStep DEF Handle
<1>4. ASSUME NEW h \in Handler,
             UploadFails(h) \/ InsertUndecided(h) \/ StartFails(h) \/ HandlerDies(h)
      PROVE  ApiInv'
  BY <1>4, FailureStep, InsertStep, StartFailsStep
<1>5. ASSUME NEW s \in Sub, WorkflowCloses(s) \/ WorkflowForgotten(s) PROVE ApiInv'
  BY <1>5, TemporalStep
<1>6. CASE UNCHANGED vars
  BY <1>6 DEF vars, database, temporal, ApiInv, TypeOK, HandlersKnown, HandlerKnown, Exclusive,
              StoresAgree, StartsRemembered, OneBatchPerKey, BatchesOf, AcceptedIsStarted,
              StartedIsWhole, NoOrphans, Serving, At, Uploading, Starting, Remembered
<1>7. QED
  BY <1>1, <1>2, <1>3, <1>4, <1>5, <1>6 DEF Next

LEMMA ApiCorrect == Spec => []ApiInv
BY ApiInit, ApiStep, PTL DEF Spec

\* Every variable keeps its type, for any number of requests at once.
THEOREM ApiTypeCorrect == Spec => []TypeOK
<1>1. ApiInv => TypeOK
  BY DEF ApiInv
<1>2. QED
  BY <1>1, ApiCorrect, PTL

\* However many requests carry a key, one batch comes of it, and every success
\* names that batch (routes_submissions.py:160-191, 264-292).
THEOREM KeysAreIdempotent == Spec => []OneBatchPerKey
<1>1. ApiInv => OneBatchPerKey
  BY DEF ApiInv
<1>2. QED
  BY <1>1, ApiCorrect, PTL

\* No success is answered for a batch without a workflow
\* (routes_submissions.py:98-144).
THEOREM AcceptedAreStarted == Spec => []AcceptedIsStarted
<1>1. ApiInv => AcceptedIsStarted
  BY DEF ApiInv
<1>2. QED
  BY <1>1, ApiCorrect, PTL

\* Inserted batches have all their files, and only they are started
\* (routes_submissions.py:222-298).
THEOREM StartedAreWhole == Spec => []StartedIsWhole
<1>1. ApiInv => StartedIsWhole
  BY DEF ApiInv
<1>2. QED
  BY <1>1, ApiCorrect, PTL

\* A refused request leaves no object behind but by a fault
\* (routes_submissions.py:229-252, 289-292).
THEOREM NothingOrphaned == Spec => []NoOrphans
<1>1. ApiInv => NoOrphans
  BY DEF ApiInv
<1>2. QED
  BY <1>1, ApiCorrect, PTL

\* A start that is on record is the last one (client.py:46-52): requests that
\* were already at the start find the execution remembered, and later ones do
\* not get there.
THEOREM RecordedStartsAreLast == Spec => RecordedRunsOnce
<1>1. ASSUME ApiInv, [Next]_vars
      PROVE  [\A s \in Sub : run_id[s] => starts'[s] = starts[s]]_vars
  <2> SUFFICES ASSUME NEW s \in Sub, run_id[s], starts'[s] # starts[s]
               PROVE  FALSE
    OBVIOUS
  <2>1. PICK h \in Handler :
          /\ At(h, "start") /\ Startable(request[h].sub) /\ StartExecution(request[h].sub)
    BY <1>1 DEF Next, Replay, NewBatch, Handle, Upload, TooLarge, InsertCommits, InsertFails,
                StartWorkflow, AlreadyStarted, Record, UploadFails, InsertUndecided, StartFails,
                HandlerDies, WorkflowCloses, WorkflowForgotten, temporal, vars
  <2>2. request[h].sub = s
    BY <1>1, <2>1 DEF StartExecution, ApiInv, TypeOK
  <2>3. Remembered(s)
    BY <1>1, <2>1, <2>2 DEF ApiInv, StartsRemembered
  <2>4. QED
    BY <2>1, <2>2, <2>3 DEF Startable, Remembered
<1>2. QED
  BY <1>1, ApiCorrect, PTL DEF Spec, RecordedRunsOnce

-----------------------------------------------------------------------------
(* Batches: a step that inserts is Create, one that starts an execution is   *)
(* Start, one that answers with success is Accept; the others are hidden.    *)
LEMMA CreateStep ==
  ASSUME ApiInv, NEW h \in Handler, At(h, "insert"), KeyIsFree(request[h].key), Insert(h),
         UNCHANGED <<starts, answers>>
  PROVE  Batch!Next
<1> DEFINE r == request[h]
<1>1. r \in Request /\ HandlerKnown(h)
  BY DEF ApiInv, TypeOK, HandlersKnown
<1>2. r.sub \in Sub /\ r.sub \notin committed /\ r.key \in Key \cup {NoKey}
  BY <1>1 DEF HandlerKnown, At, Uploading, Request
<1>3. r.key = NoKey \/ \A t \in committed : key_of[t] # r.key
  BY DEF KeyIsFree, BatchesOf
<1>4. Batch!Create(r.sub, r.key)
  BY <1>2, <1>3 DEF Insert, Batch!Create
<1>5. QED
  BY <1>2, <1>4 DEF Batch!Next

LEMMA ExecutionStep ==
  ASSUME ApiInv, NEW h \in Handler, At(h, "start"), Startable(request[h].sub),
         StartExecution(request[h].sub), UNCHANGED <<committed, key_of, run_id, answers>>
  PROVE  Batch!Next
<1> DEFINE s == request[h].sub
<1>1. HandlerKnown(h)
  BY DEF ApiInv, HandlersKnown
<1>2. s \in Sub /\ s \in committed
  BY <1>1 DEF HandlerKnown, At, Starting
<1>3. ~run_id[s]
  BY DEF ApiInv, StartsRemembered, Remembered, Startable
<1>4. Batch!Start(s)
  BY <1>2, <1>3 DEF StartExecution, Batch!Start
<1>5. QED
  BY <1>2, <1>4 DEF Batch!Next

LEMMA AcceptStep ==
  ASSUME ApiInv, NEW s \in Sub, s \in committed, workflow[s] # "none",
         NEW confirmed \in BOOLEAN, run_id' = [run_id EXCEPT ![s] = @ \/ confirmed],
         Answer(key_of[s], s), UNCHANGED <<committed, key_of, starts>>
  PROVE  Batch!Next
<1>1. starts[s] > 0
  BY DEF ApiInv, StoresAgree
<1>2. Batch!Accept(s)
  BY <1>1 DEF Answer, Batch!Accept
<1>3. QED
  BY <1>2 DEF Batch!Next

LEMMA BatchStep == ApiInv /\ [Next]_vars => [Batch!Next]_(Batch!vars)
<1> SUFFICES ASSUME ApiInv, [Next]_vars
             PROVE  Batch!Next \/ UNCHANGED <<committed, key_of, starts, run_id, answers>>
  BY DEF Batch!vars
<1>1. ASSUME NEW h \in Handler, NEW k \in Key, Replay(h, k)
      PROVE  Batch!Next \/ UNCHANGED <<committed, key_of, starts, run_id, answers>>
  <2>1. PICK s \in BatchesOf(k) :
          \/ UNCHANGED answers
          \/ ~NeedsStart(s) /\ Answer(k, s)
    BY <1>1 DEF Replay
  <2>2. UNCHANGED <<committed, key_of, run_id, workflow, starts>>
    BY <1>1 DEF Replay, database, temporal
  <2>3. CASE UNCHANGED answers
    BY <2>2, <2>3
  <2>4. CASE ~NeedsStart(s) /\ Answer(k, s)
    <3>1. s \in Sub /\ s \in committed /\ key_of[s] = k
      BY DEF BatchesOf, ApiInv, TypeOK
    <3>2. run_id[s] /\ workflow[s] # "none"
      BY <2>4, <3>1 DEF NeedsStart, ApiInv, StoresAgree
    <3>3. run_id' = [run_id EXCEPT ![s] = @ \/ FALSE]
      BY <2>2, <3>1 DEF ApiInv, TypeOK
    <3>4. QED
      BY <2>2, <2>4, <3>1, <3>2, <3>3, AcceptStep
  <2>5. QED
    BY <2>1, <2>3, <2>4
<1>2. ASSUME NEW h \in Handler, InsertCommits(h) \/ InsertUndecided(h)
      PROVE  Batch!Next
  BY <1>2, CreateStep DEF InsertCommits, InsertUndecided, temporal
<1>3. ASSUME NEW h \in Handler, StartWorkflow(h) \/ StartFails(h)
      PROVE  Batch!Next \/ UNCHANGED <<committed, key_of, starts, run_id, answers>>
  BY <1>3, ExecutionStep DEF StartWorkflow, StartFails, database, temporal
<1>4. ASSUME NEW h \in Handler, Record(h)
      PROVE  Batch!Next
  <2> DEFINE r == request[h]
  <2>1. r \in Request /\ HandlerKnown(h)
    BY DEF ApiInv, TypeOK, HandlersKnown
  <2>2. r.sub \in Sub /\ r.sub \in committed /\ key_of[r.sub] = r.key
    BY <1>4, <2>1 DEF Record, HandlerKnown, At, Starting
  <2>3. workflow[r.sub] # "none" /\ r.confirmed \in BOOLEAN
    BY <1>4, <2>1 DEF Record, ApiInv, StartsRemembered, Remembered, Request
  <2>4. QED
    BY <1>4, <2>2, <2>3, AcceptStep DEF Record, temporal
<1>5. ASSUME NEW h \in Handler,
             \/ \E k \in Key \cup {NoKey} : NewBatch(h, k)
             \/ Upload(h) \/ TooLarge(h) \/ InsertFails(h) \/ AlreadyStarted(h)
             \/ UploadFails(h) \/ HandlerDies(h)
      PROVE  UNCHANGED <<committed, key_of, starts, run_id, answers>>
  BY <1>5 DEF NewBatch, Upload, TooLarge, InsertFails, AlreadyStarted, UploadFails, HandlerDies,
              database, temporal
<1>6. ASSUME NEW s \in Sub, WorkflowCloses(s) \/ WorkflowForgotten(s)
      PROVE  UNCHANGED <<committed, key_of, starts, run_id, answers>>
  BY <1>6 DEF WorkflowCloses, WorkflowForgotten, database
<1>7. CASE UNCHANGED vars
  BY <1>7 DEF vars
<1>8. QED
  BY <1>1, <1>2, <1>3, <1>4, <1>5, <1>6, <1>7 DEF Next, Handle

\* For any number of requests at once, and whatever is forgotten, fails or is
\* repeated, clients and workflows see a map of keys that is written once and
\* batches that run as it says (routes_submissions.py:98-191, 264-298).
THEOREM RefinesBatches == Spec => ImplementsBatches
<1>1. Init => Batch!Init
  BY DEF Init, Batch!Init
<1>2. QED
  BY <1>1, BatchStep, ApiCorrect, PTL DEF Spec, ImplementsBatches, Batch!Spec
=============================================================================
