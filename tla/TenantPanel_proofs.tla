------------------------- MODULE TenantPanel_proofs -------------------------
(***************************************************************************)
(* Proofs about TenantPanel for any number of files, keys and thresholds.  *)
(***************************************************************************)
EXTENDS TenantPanel, TLAPS

\* Keys no later click will send.
Retired == {p.key : p \in sent} \ {idempotencyKey}

NoPolls == [answers |-> 0, errors |-> 0]

\* The hook has nothing to do with k so far.
Untouched(k) ==
  /\ polls[k] = NoPolls
  /\ effect # k
  /\ \A f \in fetches : f.of # k

\* What is staged was never sent under a retired key.
FormKnown ==
  /\ posts \subseteq sent
  /\ post # None => post \in sent /\ post.key = idempotencyKey
  /\ staged \subseteq picked
  /\ \A p \in sent : p.files \subseteq picked
  /\ \A p \in sent : p.files \cap staged # {} => p.key = idempotencyKey
  /\ \A p, q \in sent : p.key # q.key => p.files \cap q.files = {}
  /\ \A k \in Key : batch[k] # {} => \E p \in sent : p.key = k /\ p.files = batch[k]

\* A batch is polled only after it has been made active, and once it has been,
\* its key is retired: no effect comes back to a batch.
KeysKnown ==
  /\ activeSubmissionId # None => activeSubmissionId \in Retired
  /\ activeSubmissionId = None => effect = None
  /\ \A k \in Key \ Retired : Untouched(k)
  /\ ~Settled => Untouched(activeSubmissionId)

\* The refs hold what the current effect has put there.
PollsKnown ==
  /\ submission # None => submission.id = effect
  /\ effect # None => /\ pollCount = polls[effect].answers
                      /\ errorCount = polls[effect].errors
  /\ \A t \in timers : t.of = effect /\ ~inFlight
  /\ \A f \in fetches : f.aborted <=> f.of # effect
  /\ \A f \in Live : inFlight

\* What has been read is what the server had then, and is no older than what
\* is shown.
ReadsKnown ==
  /\ \A f \in fetches : f.read \notin {None, "PENDING"} => status[f.of] # "PENDING"
  /\ submission # None /\ submission.status # "PENDING" =>
       /\ status[submission.id] # "PENDING"
       /\ \A f \in Live : f.read # "PENDING"

PanelInv ==
  TypeOK /\ FormKnown /\ KeysKnown /\ PollsKnown /\ ReadsKnown /\ OnePoller /\ OwnPace

-----------------------------------------------------------------------------
LEMMA ThresholdFacts ==
  /\ LongThreshold \in Nat /\ ErrorThreshold \in Nat
  /\ 0 \in 0..LongThreshold /\ 0 \in 0..ErrorThreshold
  /\ LongThreshold > 0 /\ ErrorThreshold > 0
BY ThresholdsAssumption

LEMMA PanelInit == Init => PanelInv
<1> SUFFICES ASSUME Init PROVE PanelInv
  OBVIOUS
<1>1. TypeOK
  BY ThresholdFacts DEF Init, TypeOK, Status
<1>2. FormKnown
  BY DEF Init, FormKnown
<1>3. KeysKnown
  BY NoneAssumption DEF Init, KeysKnown, Untouched, NoPolls, Settled
<1>4. PollsKnown /\ ReadsKnown /\ OnePoller /\ OwnPace
  BY DEF Init, PollsKnown, ReadsKnown, OnePoller, OwnPace, Live
<1>5. QED
  BY <1>1, <1>2, <1>3, <1>4 DEF PanelInv

\* The hook sees of the form only the active id and the retired keys.
LEMMA HookKept ==
  ASSUME PanelInv, UNCHANGED hook, UNCHANGED status,
         UNCHANGED activeSubmissionId, Retired' = Retired
  PROVE  KeysKnown' /\ PollsKnown' /\ ReadsKnown' /\ OnePoller' /\ OwnPace'
<1>1. UNCHANGED <<effect, submission, pollCount, errorCount, inFlight, timers, fetches, polls>>
  BY DEF hook
<1>2. KeysKnown'
  BY <1>1 DEF PanelInv, KeysKnown, Untouched, Settled
<1>3. PollsKnown' /\ ReadsKnown' /\ OnePoller' /\ OwnPace'
  BY <1>1 DEF PanelInv, PollsKnown, ReadsKnown, OnePoller, OwnPace, Live
<1>4. QED
  BY <1>2, <1>3

LEMMA FilesAddedStep ==
  ASSUME PanelInv, NEW e \in Entry, FilesAdded(e)
  PROVE  PanelInv'
<1>1. /\ e \notin picked /\ staged' = staged \cup {e} /\ picked' = picked \cup {e}
      /\ UNCHANGED <<idempotencyKey, activeSubmissionId, post, sent, posts, batch, status>>
      /\ UNCHANGED hook
  BY DEF FilesAdded, server
<1>2. TypeOK'
  BY <1>1 DEF PanelInv, TypeOK, hook
<1>3. FormKnown'
  BY <1>1 DEF PanelInv, FormKnown
<1>4. Retired' = Retired
  BY <1>1 DEF Retired
<1>5. QED
  BY <1>1, <1>2, <1>3, <1>4, HookKept DEF PanelInv

LEMMA RemoveStep ==
  ASSUME PanelInv, NEW es, Remove(es)
  PROVE  PanelInv'
<1>1. /\ staged' = staged \ es
      /\ UNCHANGED <<idempotencyKey, activeSubmissionId, post, picked, sent, posts, batch, status>>
      /\ UNCHANGED hook
  BY DEF Remove, server
<1>2. TypeOK'
  BY <1>1 DEF PanelInv, TypeOK, hook
<1>3. FormKnown'
  BY <1>1 DEF PanelInv, FormKnown
<1>4. Retired' = Retired
  BY <1>1 DEF Retired
<1>5. QED
  BY <1>1, <1>2, <1>3, <1>4, HookKept DEF PanelInv

\* A click sends a new key, or the one that is not retired.
LEMMA SubmitClickedStep ==
  ASSUME PanelInv, NEW k \in Key, SubmitClicked(k)
  PROVE  PanelInv'
<1> DEFINE p == [key |-> k, files |-> staged]
<1>1. /\ p \in Post /\ p.key = k /\ p.files = staged
      /\ KeyFor(k) /\ idempotencyKey' = k /\ post' = p
      /\ posts' = posts \cup {p} /\ sent' = sent \cup {p}
      /\ UNCHANGED <<staged, activeSubmissionId, picked, batch, status>>
      /\ UNCHANGED hook
  BY DEF SubmitClicked, Post, PanelInv, TypeOK
<1> HIDE DEF p
<1>2. TypeOK'
  BY <1>1 DEF PanelInv, TypeOK, hook
<1>3. \/ idempotencyKey = None /\ \A q \in sent : q.key # k
      \/ idempotencyKey = k
  BY <1>1 DEF KeyFor, Unused
<1>4. \A q \in sent : q.key # None
  BY NoneAssumption DEF PanelInv, TypeOK, Post
<1>5. \A q \in sent : q.files \cap staged # {} => q.key = k
  BY <1>3, <1>4 DEF PanelInv, FormKnown
<1>6. FormKnown'
  BY <1>1, <1>5 DEF PanelInv, FormKnown
<1>7. Retired' = Retired
  <2>1. ASSUME NEW j PROVE j \in Retired' <=> j \in Retired
    BY <1>1, <1>3, <1>4 DEF Retired
  <2>2. QED
    BY <2>1 DEF Retired
<1>8. QED
  BY <1>1, <1>2, <1>6, <1>7, HookKept DEF PanelInv

\* The key of the answer retires and becomes active: no effect has seen it.
LEMMA SubmitSucceedsStep ==
  ASSUME PanelInv, SubmitSucceeds
  PROVE  PanelInv'
<1>1. /\ post # None /\ activeSubmissionId' = post.key
      /\ staged' = {} /\ idempotencyKey' = None /\ post' = None
      /\ UNCHANGED <<picked, sent, posts, batch, status>>
      /\ UNCHANGED <<effect, submission, pollCount, errorCount, inFlight, timers, fetches, polls>>
  BY DEF SubmitSucceeds, hook, server
<1>2. post \in sent /\ post.key = idempotencyKey /\ post.key \in Key
  BY <1>1 DEF PanelInv, FormKnown, TypeOK, Post
<1>3. TypeOK'
  BY <1>1, <1>2 DEF PanelInv, TypeOK
<1>4. FormKnown'
  BY <1>1 DEF PanelInv, FormKnown
<1>5. /\ post.key \in Retired' /\ post.key \notin Retired
      /\ \A j \in Key \ Retired' : j \in Key \ Retired
  BY <1>1, <1>2, NoneAssumption DEF Retired
<1>6. KeysKnown'
  <2>1. \A j \in Key \ Retired : Untouched(j) /\ Untouched(j)'
    BY <1>1 DEF PanelInv, KeysKnown, Untouched
  <2>2. QED
    BY <1>1, <1>2, <1>5, <2>1, NoneAssumption DEF KeysKnown, Settled
<1>7. PollsKnown' /\ ReadsKnown' /\ OnePoller' /\ OwnPace'
  BY <1>1 DEF PanelInv, PollsKnown, ReadsKnown, OnePoller, OwnPace, Live
<1>8. QED
  BY <1>3, <1>4, <1>6, <1>7 DEF PanelInv

LEMMA SubmitFailsStep ==
  ASSUME PanelInv, SubmitFails
  PROVE  PanelInv'
<1>1. /\ post' = None
      /\ UNCHANGED <<idempotencyKey, staged, activeSubmissionId, picked, sent, posts, batch, status>>
      /\ UNCHANGED hook
  BY DEF SubmitFails, KeyAfterFailure, server
<1>2. TypeOK'
  BY <1>1 DEF PanelInv, TypeOK, hook
<1>3. FormKnown'
  BY <1>1 DEF PanelInv, FormKnown
<1>4. Retired' = Retired
  BY <1>1 DEF Retired
<1>5. QED
  BY <1>1, <1>2, <1>3, <1>4, HookKept DEF PanelInv

LEMMA ServeStep ==
  ASSUME PanelInv, NEW p \in posts, Serve(p)
  PROVE  PanelInv'
<1>1. /\ posts' = posts \ {p}
      /\ batch' = [batch EXCEPT ![p.key] = IF @ = {} THEN p.files ELSE @]
      /\ UNCHANGED <<idempotencyKey, staged, activeSubmissionId, post, picked, sent, status>>
      /\ UNCHANGED hook
  BY DEF Serve, form
<1>2. p \in sent /\ p.key \in Key /\ p.files \in SUBSET Entry
  BY DEF PanelInv, FormKnown, TypeOK, Post
<1>3. TypeOK'
  BY <1>1, <1>2 DEF PanelInv, TypeOK, hook
<1>4. FormKnown'
  <2>1. \A k \in Key : batch'[k] # {} =>
          \E q \in sent : q.key = k /\ q.files = batch'[k]
    BY <1>1, <1>2 DEF PanelInv, FormKnown, TypeOK
  <2>2. QED
    BY <1>1, <2>1 DEF PanelInv, FormKnown
<1>5. Retired' = Retired
  BY <1>1 DEF Retired
<1>6. QED
  BY <1>1, <1>3, <1>4, <1>5, HookKept DEF PanelInv

LEMMA AdvanceStep ==
  ASSUME PanelInv, NEW k \in Key, Advance(k)
  PROVE  PanelInv'
<1>1. PICK s \in Status :
        /\ s # "PENDING" /\ status' = [status EXCEPT ![k] = s]
        /\ UNCHANGED <<posts, batch>> /\ UNCHANGED form /\ UNCHANGED hook
  BY DEF Advance, Terminal
<1>2. /\ UNCHANGED <<staged, idempotencyKey, activeSubmissionId, post, picked, sent>>
      /\ UNCHANGED <<effect, submission, pollCount, errorCount, inFlight, timers, fetches, polls>>
  BY <1>1 DEF form, hook
<1>3. TypeOK'
  BY <1>1, <1>2 DEF PanelInv, TypeOK
<1>4. FormKnown' /\ KeysKnown'
  BY <1>1, <1>2 DEF PanelInv, FormKnown, KeysKnown, Retired, Untouched, Settled
<1>5. PollsKnown' /\ OnePoller' /\ OwnPace'
  BY <1>2 DEF PanelInv, PollsKnown, OnePoller, OwnPace, Live
<1>6. \A j \in Key : status[j] # "PENDING" => status'[j] # "PENDING"
  BY <1>1 DEF PanelInv, TypeOK
<1>7. ReadsKnown'
  BY <1>2, <1>6 DEF PanelInv, ReadsKnown, Live, TypeOK, Fetch, Shown
<1>8. QED
  BY <1>3, <1>4, <1>5, <1>7 DEF PanelInv

-----------------------------------------------------------------------------
\* The hook's steps leave the form and the server alone.
LEMMA FormKept ==
  ASSUME PanelInv, UNCHANGED form, UNCHANGED server
  PROVE  /\ FormKnown' /\ Retired' = Retired
         /\ UNCHANGED <<staged, idempotencyKey, activeSubmissionId, post, picked, sent,
                        posts, batch, status>>
<1>1. UNCHANGED <<staged, idempotencyKey, activeSubmissionId, post, picked, sent,
                  posts, batch, status>>
  BY DEF form, server
<1>2. FormKnown' /\ Retired' = Retired
  BY <1>1 DEF PanelInv, FormKnown, Retired
<1>3. QED
  BY <1>1, <1>2

LEMMA AskType ==
  ASSUME NEW k \in Key
  PROVE  /\ Ask(k) \in Fetch
         /\ Ask(k).of = k /\ Ask(k).read = None /\ ~Ask(k).aborted
BY DEF Ask, Fetch

LEMMA Aborting ==
  ASSUME TypeOK
  PROVE  /\ AbortLatest \subseteq Fetch
         /\ \A g \in AbortLatest : \E f \in fetches :
              g.of = f.of /\ g.read = f.read /\ (g.aborted <=> f.aborted \/ f.of = effect)
<1> SUFFICES ASSUME NEW g \in AbortLatest
             PROVE  /\ g \in Fetch
                    /\ \E f \in fetches : /\ g.of = f.of /\ g.read = f.read
                                          /\ g.aborted <=> f.aborted \/ f.of = effect
  OBVIOUS
<1>1. PICK f \in fetches : g = [f EXCEPT !.aborted = @ \/ f.of = effect]
  BY DEF AbortLatest
<1>2. f \in Fetch
  BY DEF TypeOK
<1>3. QED
  BY <1>1, <1>2 DEF Fetch

\* The new effect starts from nothing, on a batch no effect has polled before.
LEMMA EffectRunsStep ==
  ASSUME PanelInv, EffectRuns
  PROVE  PanelInv'
<1> DEFINE k == activeSubmissionId
<1>1. /\ k # effect /\ effect' = k /\ submission' = None
      /\ pollCount' = 0 /\ errorCount' = 0
      /\ timers' = {t \in timers : t.of # effect}
      /\ inFlight' = (k # None)
      /\ fetches' = AbortLatest \cup (IF k = None THEN {} ELSE {Ask(k)})
      /\ UNCHANGED polls /\ UNCHANGED form /\ UNCHANGED server
  BY DEF EffectRuns, ErrorsAtStart
<1>2. /\ FormKnown' /\ Retired' = Retired
      /\ UNCHANGED <<staged, idempotencyKey, activeSubmissionId, post, picked, sent,
                     posts, batch, status>>
  BY <1>1, FormKept
<1>3. k \in Key /\ k \in Retired /\ Untouched(k)
  BY <1>1 DEF PanelInv, KeysKnown, Settled, TypeOK
<1>4. /\ k # None /\ inFlight' = TRUE /\ timers' = {}
      /\ fetches' = AbortLatest \cup {Ask(k)}
  BY <1>1, <1>3, NoneAssumption DEF PanelInv, PollsKnown
<1> HIDE DEF k
<1>5. /\ fetches' \subseteq Fetch
      /\ \A g \in fetches' :
           \/ g = Ask(k)
           \/ /\ g.of # k /\ g.aborted
              /\ \E f \in fetches : g.of = f.of /\ g.read = f.read
  <2>1. AbortLatest \subseteq Fetch
    BY Aborting DEF PanelInv
  <2>2. ASSUME NEW g \in AbortLatest
        PROVE  /\ g.of # k /\ g.aborted
               /\ \E f \in fetches : g.of = f.of /\ g.read = f.read
    <3>1. PICK f \in fetches :
            /\ g.of = f.of /\ g.read = f.read
            /\ g.aborted <=> f.aborted \/ f.of = effect
      BY Aborting DEF PanelInv
    <3>2. QED
      BY <1>3, <3>1 DEF PanelInv, PollsKnown, Untouched
  <2>3. QED
    BY <1>3, <1>4, <2>1, <2>2, AskType
<1>6. TypeOK'
  BY <1>1, <1>2, <1>3, <1>4, <1>5, ThresholdFacts DEF PanelInv, TypeOK, k
<1>7. KeysKnown'
  <2>1. activeSubmissionId' = k /\ Settled'
    BY <1>1, <1>2 DEF Settled, k
  <2>2. ASSUME NEW j \in Key \ Retired PROVE Untouched(j)'
    BY <1>1, <1>3, <1>5, <2>2, AskType DEF PanelInv, KeysKnown, Untouched, k
  <2>3. QED
    BY <1>2, <1>3, <1>4, <2>1, <2>2 DEF KeysKnown
<1>8. PollsKnown'
  <2>1. 0 = polls'[k].answers /\ 0 = polls'[k].errors
    BY <1>1, <1>3 DEF Untouched, NoPolls
  <2>2. effect' = k
    BY <1>1 DEF k
  <2>3. QED
    BY <1>1, <1>3, <1>4, <1>5, <2>1, <2>2, AskType DEF PollsKnown, Live
<1>9. ReadsKnown'
  BY <1>1, <1>2, <1>3, <1>5, AskType DEF PanelInv, ReadsKnown
<1>10. OnePoller' /\ OwnPace'
  BY <1>1, <1>4, <1>5 DEF OnePoller, OwnPace, Live
<1>11. QED
  BY <1>2, <1>6, <1>7, <1>8, <1>9, <1>10 DEF PanelInv

\* A pending timer is the current effect's, and nothing is under way.
LEMMA TimerFiresStep ==
  ASSUME PanelInv, NEW t \in timers, TimerFires(t)
  PROVE  PanelInv'
<1>1. t \in Timer /\ t.of = effect /\ effect \in Key /\ ~inFlight /\ Live = {}
  BY DEF PanelInv, TypeOK, PollsKnown, Timer
<1>2. /\ timers' = {} /\ fetches' = fetches \cup {Ask(effect)} /\ inFlight' = TRUE
      /\ UNCHANGED <<effect, submission, pollCount, errorCount, polls>>
      /\ UNCHANGED form /\ UNCHANGED server
  BY <1>1 DEF TimerFires, Poll, Cancelled, PanelInv, PollsKnown
<1>3. /\ FormKnown' /\ Retired' = Retired
      /\ UNCHANGED <<staged, idempotencyKey, activeSubmissionId, post, picked, sent,
                     posts, batch, status>>
  BY <1>2, FormKept
<1>4. Live' = {Ask(effect)}
  BY <1>1, <1>2, AskType DEF Live
<1>5. TypeOK'
  BY <1>1, <1>2, <1>3, AskType DEF PanelInv, TypeOK
<1>6. KeysKnown'
  BY <1>1, <1>2, <1>3, AskType DEF PanelInv, KeysKnown, Untouched, Settled
<1>7. PollsKnown'
  BY <1>1, <1>2, AskType DEF PanelInv, PollsKnown
<1>8. ReadsKnown'
  BY <1>1, <1>2, <1>3, <1>4, AskType, NoneAssumption DEF PanelInv, ReadsKnown, Status
<1>9. OnePoller' /\ OwnPace'
  <2>1. submission # None => submission.status \notin Terminal
    BY DEF PanelInv, OnePoller
  <2>2. QED
    BY <1>2, <1>4, <2>1 DEF OnePoller, OwnPace
<1>10. QED
  BY <1>3, <1>5, <1>6, <1>7, <1>8, <1>9 DEF PanelInv

LEMMA ReadStep ==
  ASSUME PanelInv, NEW f \in fetches, Read(f)
  PROVE  PanelInv'
<1> DEFINE g == [f EXCEPT !.read = status[f.of]]
<1>1. /\ f \in Fetch /\ f.read = None /\ fetches' = (fetches \ {f}) \cup {g}
      /\ UNCHANGED <<effect, submission, pollCount, errorCount, inFlight, timers, polls>>
      /\ UNCHANGED form /\ UNCHANGED server
  BY DEF PanelInv, TypeOK, Read
<1>2. /\ FormKnown' /\ Retired' = Retired
      /\ UNCHANGED <<staged, idempotencyKey, activeSubmissionId, post, picked, sent,
                     posts, batch, status>>
  BY <1>1, FormKept
<1>3. /\ g \in Fetch /\ g.of = f.of /\ g.aborted = f.aborted /\ g.read = status[f.of]
  BY <1>1 DEF Fetch, PanelInv, TypeOK
<1> HIDE DEF g
<1>4. Live' = IF f.aborted THEN Live ELSE (Live \ {f}) \cup {g}
  BY <1>1, <1>3 DEF Live
<1>5. TypeOK'
  BY <1>1, <1>2, <1>3 DEF PanelInv, TypeOK
<1>6. KeysKnown'
  BY <1>1, <1>2, <1>3 DEF PanelInv, KeysKnown, Untouched, Settled
<1>7. PollsKnown'
  BY <1>1, <1>3, <1>4 DEF PanelInv, PollsKnown, Live
<1>8. ReadsKnown'
  <2>1. \A h \in fetches' : h.read \notin {None, "PENDING"} => status[h.of] # "PENDING"
    BY <1>1, <1>3 DEF PanelInv, ReadsKnown
  <2>2. ASSUME submission # None, submission.status # "PENDING", ~f.aborted
        PROVE  g.read # "PENDING"
    BY <1>3, <2>2 DEF PanelInv, ReadsKnown, PollsKnown
  <2>3. QED
    BY <1>1, <1>2, <1>4, <2>1, <2>2 DEF PanelInv, ReadsKnown
<1>9. OnePoller' /\ OwnPace'
  BY <1>1, <1>3, <1>4 DEF PanelInv, OnePoller, OwnPace, Live
<1>10. QED
  BY <1>2, <1>5, <1>6, <1>7, <1>8, <1>9 DEF PanelInv

\* The continuation of a read that is not cancelled: it is the live one.
LEMMA LiveOne ==
  ASSUME PanelInv, NEW f \in fetches, ~Cancelled(f.of)
  PROVE  /\ f \in Fetch /\ f.of = effect /\ effect \in Key /\ ~f.aborted
         /\ Live = {f} /\ timers = {} /\ inFlight
         /\ effect \in Retired /\ ~Untouched(effect)
         /\ effect # None /\ (submission # None => submission.status \notin Terminal)
<1>1. f \in Fetch /\ f.of = effect /\ effect \in Key
  BY DEF PanelInv, TypeOK, Cancelled, Fetch
<1>2. ~f.aborted /\ Live = {f} /\ inFlight
  BY <1>1 DEF PanelInv, PollsKnown, OnePoller, Live
<1>3. timers = {} /\ (submission # None => submission.status \notin Terminal)
  BY <1>2 DEF PanelInv, OnePoller
<1>4. ~Untouched(effect)
  BY DEF Untouched
<1>5. effect \in Retired
  BY <1>1, <1>4 DEF PanelInv, KeysKnown
<1>6. effect # None
  BY <1>1, NoneAssumption
<1>7. QED
  BY <1>1, <1>2, <1>3, <1>4, <1>5, <1>6

\* What an answer or an error leaves: no read, at most one timer, and counts
\* that are this batch's.
LEMMA PollEnds ==
  ASSUME PanelInv, NEW f \in fetches, ~Cancelled(f.of),
         NEW n \in 0..LongThreshold, NEW e \in 0..ErrorThreshold,
         fetches' = fetches \ {f}, pollCount' = n, errorCount' = e, inFlight' = FALSE,
         polls' = [polls EXCEPT ![f.of] = [answers |-> n, errors |-> e]],
         timers' = {} \/ \E d \in Delay :
           /\ timers' = {[of |-> effect, delay |-> d]}
           /\ d = IF e >= ErrorThreshold THEN "ERROR_BACKOFF"
                  ELSE IF e = 0 /\ n >= LongThreshold THEN "LONG_BATCH" ELSE "NORMAL",
         UNCHANGED effect, UNCHANGED form, UNCHANGED server
  PROVE  /\ FormKnown' /\ KeysKnown' /\ OwnPace' /\ Live' = {}
         /\ timers' \in SUBSET Timer /\ (\A t, u \in timers' : t = u)
         /\ polls' \in [Key -> [answers: 0..LongThreshold, errors: 0..ErrorThreshold]]
         /\ pollCount' = polls'[effect].answers /\ errorCount' = polls'[effect].errors
         /\ \A t \in timers' : t.of = effect
         /\ \A g \in fetches' : g.aborted <=> g.of # effect
<1>1. /\ FormKnown' /\ Retired' = Retired /\ UNCHANGED activeSubmissionId
  BY FormKept
<1>2. /\ f.of = effect /\ effect \in Key /\ Live = {f} /\ effect \in Retired
      /\ ~Untouched(effect) /\ effect # None
  BY LiveOne
<1>3. Live' = {}
  BY <1>2 DEF Live
<1> DEFINE r == [answers |-> n, errors |-> e]
<1>4. /\ polls' \in [Key -> [answers: 0..LongThreshold, errors: 0..ErrorThreshold]]
      /\ polls'[effect] = r /\ r.answers = n /\ r.errors = e
      /\ \A j \in Key : j # effect => polls'[j] = polls[j]
  BY <1>2 DEF PanelInv, TypeOK
<1> HIDE DEF r
<1>5. KeysKnown'
  BY <1>1, <1>2, <1>4 DEF PanelInv, KeysKnown, Untouched, Settled, TypeOK
<1>6. /\ timers' \in SUBSET Timer /\ (\A t, u \in timers' : t = u)
      /\ \A t \in timers' : t.of = effect
  BY <1>2 DEF Timer
<1>7. OwnPace'
  BY <1>2, <1>4 DEF OwnPace
<1>8. QED
  BY <1>1, <1>3, <1>4, <1>5, <1>6, <1>7 DEF PanelInv, PollsKnown

LEMMA AnsweredStep ==
  ASSUME PanelInv, NEW f \in fetches, Answered(f)
  PROVE  PanelInv'
<1> DEFINE n == AtMost(pollCount + 1, LongThreshold)
           shown == [id |-> f.of, status |-> f.read]
<1>1. /\ f.read # None /\ ~Cancelled(f.of)
      /\ fetches' = fetches \ {f} /\ pollCount' = n /\ errorCount' = 0
      /\ submission' = shown /\ inFlight' = FALSE
      /\ timers' = timers \cup AfterAnswer(f.read)
      /\ polls' = [polls EXCEPT ![f.of] =
                     [answers |-> AtMost(@.answers + 1, LongThreshold), errors |-> 0]]
      /\ UNCHANGED effect /\ UNCHANGED form /\ UNCHANGED server
  BY DEF Answered
<1>2. /\ f \in Fetch /\ f.of = effect /\ effect \in Key /\ ~f.aborted
      /\ Live = {f} /\ timers = {} /\ effect # None
  BY <1>1, LiveOne
<1>3. n \in 0..LongThreshold /\ n > 0
  BY ThresholdFacts DEF AtMost, PanelInv, TypeOK
<1>4. polls' = [polls EXCEPT ![f.of] = [answers |-> n, errors |-> 0]]
  BY <1>1, <1>2 DEF PanelInv, PollsKnown, TypeOK
<1> HIDE DEF n
<1>5. IF IsTerminal(f.read) THEN timers' = {}
      ELSE \E d \in Delay :
             /\ timers' = {[of |-> effect, delay |-> d]}
             /\ d = IF n >= LongThreshold THEN "LONG_BATCH" ELSE "NORMAL"
  BY <1>1, <1>2 DEF AfterAnswer, Delay
<1>6. timers' = {} \/ \E d \in Delay :
        /\ timers' = {[of |-> effect, delay |-> d]}
        /\ d = IF 0 >= ErrorThreshold THEN "ERROR_BACKOFF"
               ELSE IF 0 = 0 /\ n >= LongThreshold THEN "LONG_BATCH" ELSE "NORMAL"
  BY <1>5, ThresholdFacts
<1>7. /\ FormKnown' /\ KeysKnown' /\ OwnPace' /\ Live' = {}
      /\ timers' \in SUBSET Timer /\ (\A t, u \in timers' : t = u)
      /\ polls' \in [Key -> [answers: 0..LongThreshold, errors: 0..ErrorThreshold]]
      /\ pollCount' = polls'[effect].answers /\ errorCount' = polls'[effect].errors
      /\ \A t \in timers' : t.of = effect
      /\ \A g \in fetches' : g.aborted <=> g.of # effect
  BY <1>1, <1>3, <1>4, <1>6, ThresholdFacts, PollEnds
<1>8. shown \in Shown /\ shown.id = effect /\ shown.status = f.read
  BY <1>1, <1>2 DEF Shown, Fetch
<1> HIDE DEF shown
<1>9. UNCHANGED <<staged, idempotencyKey, activeSubmissionId, post, picked, sent,
                  posts, batch, status>>
  BY <1>1, FormKept
<1>10. TypeOK'
  BY <1>1, <1>3, <1>7, <1>8, <1>9, ThresholdFacts DEF PanelInv, TypeOK
<1>11. PollsKnown'
  BY <1>1, <1>7, <1>8 DEF PollsKnown
<1>12. ReadsKnown'
  BY <1>1, <1>2, <1>7, <1>8, <1>9 DEF PanelInv, ReadsKnown
<1>13. OnePoller'
  BY <1>1, <1>5, <1>7, <1>8 DEF OnePoller, IsTerminal
<1>14. QED
  BY <1>7, <1>10, <1>11, <1>12, <1>13 DEF PanelInv

LEMMA FetchFailsStep ==
  ASSUME PanelInv, NEW f \in fetches, FetchFails(f)
  PROVE  PanelInv'
<1> DEFINE e == AtMost(errorCount + 1, ErrorThreshold)
<1>1. /\ ~Cancelled(f.of)
      /\ fetches' = fetches \ {f} /\ errorCount' = e /\ inFlight' = FALSE
      /\ timers' = timers \cup
           {[of |-> effect,
             delay |-> IF e >= ErrorThreshold THEN "ERROR_BACKOFF" ELSE "NORMAL"]}
      /\ polls' = [polls EXCEPT ![f.of].errors = AtMost(@ + 1, ErrorThreshold)]
      /\ UNCHANGED <<effect, submission, pollCount>> /\ UNCHANGED form /\ UNCHANGED server
  BY DEF FetchFails, FlagAfterError
<1>2. /\ f \in Fetch /\ f.of = effect /\ effect \in Key /\ Live = {f} /\ timers = {}
      /\ effect # None /\ (submission # None => submission.status \notin Terminal)
  BY <1>1, LiveOne
<1>3. e \in 0..ErrorThreshold /\ e > 0 /\ pollCount \in 0..LongThreshold
  BY ThresholdFacts DEF AtMost, PanelInv, TypeOK
<1>4. polls' = [polls EXCEPT ![f.of] = [answers |-> pollCount, errors |-> e]]
  <2>1. /\ polls[effect] \in [answers: 0..LongThreshold, errors: 0..ErrorThreshold]
        /\ polls[effect].answers = pollCount /\ polls[effect].errors = errorCount
    BY <1>2 DEF PanelInv, PollsKnown, TypeOK
  <2>2. [polls[effect] EXCEPT !.errors = e] = [answers |-> pollCount, errors |-> e]
    <3> HIDE DEF e
    <3>1. QED
      BY <2>1
  <2>3. polls' = [polls EXCEPT ![effect] = [polls[effect] EXCEPT !.errors = e]]
    BY <1>1, <1>2, <2>1
  <2>4. QED
    BY <1>2, <2>2, <2>3
<1> HIDE DEF e
<1>5. \E d \in Delay :
        /\ timers' = {[of |-> effect, delay |-> d]}
        /\ d = IF e >= ErrorThreshold THEN "ERROR_BACKOFF"
               ELSE IF e = 0 /\ pollCount >= LongThreshold THEN "LONG_BATCH" ELSE "NORMAL"
  BY <1>1, <1>2, <1>3 DEF Delay
<1>6. /\ FormKnown' /\ KeysKnown' /\ OwnPace' /\ Live' = {}
      /\ timers' \in SUBSET Timer /\ (\A t, u \in timers' : t = u)
      /\ polls' \in [Key -> [answers: 0..LongThreshold, errors: 0..ErrorThreshold]]
      /\ pollCount' = polls'[effect].answers /\ errorCount' = polls'[effect].errors
      /\ \A t \in timers' : t.of = effect
      /\ \A g \in fetches' : g.aborted <=> g.of # effect
  BY <1>1, <1>3, <1>4, <1>5, PollEnds
<1>7. UNCHANGED <<staged, idempotencyKey, activeSubmissionId, post, picked, sent,
                  posts, batch, status>>
  BY <1>1, FormKept
<1>8. TypeOK'
  BY <1>1, <1>3, <1>6, <1>7 DEF PanelInv, TypeOK
<1>9. PollsKnown'
  BY <1>1, <1>6 DEF PanelInv, PollsKnown
<1>10. ReadsKnown'
  BY <1>1, <1>6, <1>7 DEF PanelInv, ReadsKnown
<1>11. OnePoller'
  BY <1>1, <1>2, <1>6 DEF OnePoller
<1>12. QED
  BY <1>6, <1>8, <1>9, <1>10, <1>11 DEF PanelInv

LEMMA IgnoredStep ==
  ASSUME PanelInv, NEW f \in fetches, Ignored(f)
  PROVE  PanelInv'
<1>1. /\ f.of # effect /\ fetches' = fetches \ {f}
      /\ UNCHANGED <<effect, submission, pollCount, errorCount, inFlight, timers, polls>>
      /\ UNCHANGED form /\ UNCHANGED server
  BY DEF Ignored, Cancelled
<1>2. /\ FormKnown' /\ Retired' = Retired
      /\ UNCHANGED <<staged, idempotencyKey, activeSubmissionId, post, picked, sent,
                     posts, batch, status>>
  BY <1>1, FormKept
<1>3. Live' = Live
  BY <1>1 DEF PanelInv, PollsKnown, Live
<1>4. TypeOK'
  BY <1>1, <1>2 DEF PanelInv, TypeOK
<1>5. KeysKnown'
  BY <1>1, <1>2 DEF PanelInv, KeysKnown, Untouched, Settled
<1>6. PollsKnown' /\ ReadsKnown' /\ OnePoller' /\ OwnPace'
  BY <1>1, <1>2, <1>3 DEF PanelInv, PollsKnown, ReadsKnown, OnePoller, OwnPace
<1>7. QED
  BY <1>2, <1>4, <1>5, <1>6 DEF PanelInv

-----------------------------------------------------------------------------
LEMMA PanelStep ==
  ASSUME PanelInv, [Next]_vars
  PROVE  PanelInv'
<1>1. CASE \E e \in Entry : FilesAdded(e)
  BY <1>1, FilesAddedStep
<1>2. CASE \E es \in SUBSET Entry : Remove(es)
  BY <1>2, RemoveStep
<1>3. CASE \E k \in Key : SubmitClicked(k)
  BY <1>3, SubmitClickedStep
<1>4. CASE SubmitSucceeds
  BY <1>4, SubmitSucceedsStep
<1>5. CASE SubmitFails
  BY <1>5, SubmitFailsStep
<1>6. CASE \E p \in posts : Serve(p)
  BY <1>6, ServeStep
<1>7. CASE \E k \in Key : Advance(k)
  BY <1>7, AdvanceStep
<1>8. CASE EffectRuns
  BY <1>8, EffectRunsStep
<1>9. CASE \E t \in timers : TimerFires(t)
  BY <1>9, TimerFiresStep
<1>10. CASE \E f \in fetches : Read(f) \/ Answered(f) \/ FetchFails(f) \/ Ignored(f)
  BY <1>10, ReadStep, AnsweredStep, FetchFailsStep, IgnoredStep
<1>11. CASE UNCHANGED vars
  <2>1. UNCHANGED form /\ UNCHANGED hook /\ UNCHANGED server
    BY <1>11 DEF vars
  <2>2. /\ FormKnown' /\ Retired' = Retired
        /\ UNCHANGED <<staged, idempotencyKey, activeSubmissionId, post, picked, sent,
                       posts, batch, status>>
    BY <2>1, FormKept
  <2>3. TypeOK'
    BY <2>1, <2>2 DEF PanelInv, TypeOK, hook
  <2>4. QED
    BY <2>1, <2>2, <2>3, HookKept DEF PanelInv
<1>12. QED
  BY <1>1, <1>2, <1>3, <1>4, <1>5, <1>6, <1>7, <1>8, <1>9, <1>10, <1>11 DEF Next

LEMMA PanelAlways == Spec => []PanelInv
BY PanelInit, PanelStep, PTL DEF Spec

\* Every variable of the panel, the hook and the server keeps its type
\* (TenantPanel.tsx, useSubmissionPolling.ts).
THEOREM PanelTypeCorrect == Spec => []TypeOK
BY PanelAlways, PTL DEF PanelInv

\* Nothing of an earlier batch is shown once the effect of the last change has
\* run, however many changes came before (useSubmissionPolling.ts:40-70).
THEOREM ShownAlwaysActive == Spec => []ShownIsActive
<1>1. PanelInv => ShownIsActive
  BY DEF PanelInv, PollsKnown, ShownIsActive, Settled
<1>2. QED
  BY <1>1, PanelAlways, PTL

\* Polls never overlap and stop at a terminal status, over any sequence of
\* batches that share the refs (useSubmissionPolling.ts:20-23).
THEOREM OnePollerOnly == Spec => []OnePoller
BY PanelAlways, PTL DEF PanelInv

\* Each batch is polled at its own pace (useSubmissionPolling.ts:34-45, 82-100).
THEOREM PaceIsOwn == Spec => []OwnPace
BY PanelAlways, PTL DEF PanelInv

\* No staged entry ends up in two batches (TenantPanel.tsx:27-29, 53-78).
THEOREM DoubleSubmitIsSafe == Spec => []NoDoubleBatch
<1>1. PanelInv => NoDoubleBatch
  <2> SUFFICES ASSUME PanelInv, NEW j \in Key, NEW k \in Key, j # k
               PROVE  batch[j] \cap batch[k] = {}
    BY DEF NoDoubleBatch
  <2>1. CASE batch[j] = {} \/ batch[k] = {}
    BY <2>1
  <2>2. CASE batch[j] # {} /\ batch[k] # {}
    <3>1. PICK p \in sent : p.key = j /\ p.files = batch[j]
      BY <2>2 DEF PanelInv, FormKnown
    <3>2. PICK q \in sent : q.key = k /\ q.files = batch[k]
      BY <2>2 DEF PanelInv, FormKnown
    <3>3. QED
      BY <3>1, <3>2 DEF PanelInv, FormKnown
  <2>3. QED
    BY <2>1, <2>2
<1>2. QED
  BY <1>1, PanelAlways, PTL

\* The steps that show an answer are those of live reads, of which there is none
\* after a terminal one and none that is older (useSubmissionPolling.ts:58-104).
THEOREM ShownNeverGoesBack == Spec => ShownGoesForward
<1> DEFINE Forward ==
  submission # None /\ submission' # None /\ submission'.id = submission.id =>
    /\ submission.status \in Terminal => submission' = submission
    /\ submission.status = "RUNNING" => submission'.status # "PENDING"
<1>1. PanelInv /\ [Next]_vars => [Forward]_vars
  <2> SUFFICES ASSUME PanelInv, [Next]_vars PROVE Forward
    OBVIOUS
  <2>1. CASE UNCHANGED submission
    BY <2>1
  <2>2. CASE EffectRuns
    BY <2>2 DEF EffectRuns
  <2>3. ASSUME NEW f \in fetches, Answered(f) PROVE Forward
    <3>1. ~Cancelled(f.of) /\ f.read # None /\ submission' = [id |-> f.of, status |-> f.read]
      BY <2>3 DEF Answered
    <3>2. f \in Live /\ (submission # None => submission.status \notin Terminal)
      BY <3>1, LiveOne
    <3>3. submission # None /\ submission.status = "RUNNING" => f.read # "PENDING"
      BY <3>2 DEF PanelInv, ReadsKnown
    <3>4. QED
      BY <3>1, <3>2, <3>3
  <2>4. QED
    BY <2>1, <2>2, <2>3
       DEF Next, FilesAdded, Remove, SubmitClicked, SubmitSucceeds, SubmitFails, Serve,
           Advance, TimerFires, Read, FetchFails, Ignored, hook, vars
<1>2. QED
  BY <1>1, PanelAlways, PTL DEF Spec, ShownGoesForward
=============================================================================
