------------------------ MODULE RuntimeAnswersProofs ------------------------
(***************************************************************************)
(* Proofs about the answers of RuntimeCalls and about its cancellation and *)
(* shutdown, for every membership, every set of calls and every value of   *)
(* the limits: each accepted request is answered from one place, completion *)
(* always finds the entry it expects, the dedup table knows what it         *)
(* retains, a Stopped runtime is empty, and a cancellation never reaches a  *)
(* waiter.                                                                  *)
(***************************************************************************)
EXTENDS RuntimeCallsProofs, FiniteSetTheorems

-----------------------------------------------------------------------------
(* The response queue.                                                     *)

\* What Append and Tail leave at each index.
LEMMA AppendElements ==
  ASSUME NEW T, NEW s \in Seq(T), NEW e \in T
  PROVE  /\ DOMAIN s = 1..Len(s) /\ Len(s) \in Nat
         /\ DOMAIN Append(s, e) = 1..(Len(s) + 1)
         /\ \A i \in 1..Len(s) : Append(s, e)[i] = s[i]
         /\ Append(s, e)[Len(s) + 1] = e
  OBVIOUS

LEMMA TailElements ==
  ASSUME NEW T, NEW s \in Seq(T), s # << >>
  PROVE  /\ DOMAIN s = 1..Len(s) /\ Len(s) \in Nat \ {0}
         /\ Head(s) = s[1]
         /\ DOMAIN Tail(s) = 1..(Len(s) - 1)
         /\ \A i \in 1..(Len(s) - 1) : Tail(s)[i] = s[i + 1]
  OBVIOUS

\* The three things a step can do to the response queues.
QueuesAnswer ==
  \E r \in Request, k \in ResponseKind, cache \in BOOLEAN :
    (cache => ~IsLocal(r)) /\ QueueResponse(Dest[r], r, k, cache)
TakesResponse ==
  \E l \in Locality :
    responses[l] # << >> /\ responses' = [responses EXCEPT ![l] = Tail(@)]

\* A response waits at the locality that the request was sent to, and a cached
\* one answers a remote call.
ResponsesHome ==
  \A l \in Locality : \A i \in DOMAIN responses[l] :
    /\ Dest[responses[l][i].request] = l
    /\ responses[l][i].cache => ~IsLocal(responses[l][i].request)

LEMMA CompletionQueues ==
  ASSUME NEW r \in Request, HandleCompletion(r)
  PROVE  UNCHANGED responses \/ QueuesAnswer
  <1>1. PICK s \in Finished : AnswerCompletion(Dest[r], r, KindOf(s))
    BY DEF HandleCompletion
  <1>2. KindOf(s) \in ResponseKind
    BY KindOfType
  <1> QED BY <1>1, <1>2 DEF AnswerCompletion, QueuesAnswer

LEMMA RequestQueues ==
  ASSUME TypeOK, ExecutionInv, NEW r \in Request, HandleRequest(r)
  PROVE  UNCHANGED responses \/ QueuesAnswer
  <1>1. ~IsLocal(r)
    <2>1. net[<<"Request", r>>] > 0
      BY DEF HandleRequest, Arrives
    <2> QED BY <2>1 DEF ExecutionInv
  <1>2. ASSUME NEW k \in ResponseKind, Reply(Dest[r], r, k) PROVE UNCHANGED responses \/ QueuesAnswer
    BY <1>2 DEF Reply, QueuesAnswer
  <1>3. CASE RequestRejected(r)
    BY <1>2, <1>3 DEF RequestRejected, ResponseKind
  <1>4. CASE RequestNew(r)
    BY <1>1, <1>4 DEF RequestNew, QueueFailure, QueuesAnswer, ResponseKind
  <1>5. CASE RequestDuplicate(r)
    <2>1. dedup[r] \in DedupEntry /\ dedup[r].st # "none"
      BY <1>5 DEF TypeOK, DedupType, RequestDuplicate
    <2> QED BY <1>2, <1>5, <2>1, DispositionType DEF RequestDuplicate
  <1> QED BY <1>3, <1>4, <1>5 DEF HandleRequest

LEMMA ResponseSteps ==
  ASSUME TypeOK, ExecutionInv, [Next]_vars
  PROVE  UNCHANGED responses \/ QueuesAnswer \/ TakesResponse
  <1>1. CASE OwnerStep
    <2>1. ASSUME NEW r \in Request,
                 ExpirePending(r) \/ DispatchLocal(r) \/ HandleCancel(r) \/ HandleResponse(r)
                   \/ DedupExpire(r)
          PROVE  UNCHANGED responses
      BY <2>1 DEF ExpirePending, DispatchLocal, HandleCancel, HandleResponse, DedupExpire, tableVars
    <2>2. ASSUME NEW l \in Locality,
                 ShutdownBegin(l) \/ ShutdownFinish(l) \/ ShutdownTimeout(l) \/ DropRuntime(l)
          PROVE  UNCHANGED responses
      BY <2>2 DEF ShutdownBegin, ShutdownFinish, ShutdownTimeout, DropRuntime, tableVars
    <2>3. ASSUME NEW l \in Locality, SendResponse(l) PROVE TakesResponse
      BY <2>3 DEF SendResponse, TakesResponse
    <2> QED BY <1>1, <2>1, <2>2, <2>3, CompletionQueues, RequestQueues DEF OwnerStep
  <1>2. CASE ClientStep
    BY <1>2 DEF ClientStep, SpawnCheck, SpawnInsert, SpawnSubmit, Poll, DropFuture, tableVars
  <1>3. CASE WorkerStep
    BY <1>3 DEF WorkerStep, StartJob, FinishJob, tableVars
  <1>4. CASE NetworkStep
    BY <1>4 DEF NetworkStep, DuplicateMessage, SendFailed, TransportFails, tableVars
  <1>5. CASE UNCHANGED vars
    BY <1>5 DEF vars, tableVars
  <1> QED BY <1>1, <1>2, <1>3, <1>4, <1>5 DEF Next

LEMMA HomeStep ==
  ASSUME TypeOK, ExecutionInv, ResponsesHome, [Next]_vars PROVE ResponsesHome'
  <1> SUFFICES ASSUME NEW m \in Locality, NEW i \in DOMAIN responses'[m]
               PROVE  /\ Dest[responses'[m][i].request] = m
                      /\ responses'[m][i].cache => ~IsLocal(responses'[m][i].request)
    BY DEF ResponsesHome, IsLocal
  <1>0. responses \in [Locality -> Seq(Queued)]
    BY DEF TypeOK, ResponseType
  <1>1. CASE UNCHANGED responses
    BY <1>1 DEF ResponsesHome
  <1>2. CASE QueuesAnswer
    <2>1. PICK r \in Request, k \in ResponseKind, cache \in BOOLEAN :
             (cache => ~IsLocal(r)) /\ QueueResponse(Dest[r], r, k, cache)
      BY <1>2 DEF QueuesAnswer
    <2> DEFINE q == [request |-> r, kind |-> k, cache |-> cache]
    <2>2. q \in Queued /\ q.request = r /\ q.cache = cache
      BY DEF Queued
    <2>3. responses' = [responses EXCEPT ![Dest[r]] = Append(@, q)]
      BY <2>1 DEF QueueResponse
    <2> HIDE DEF q
    <2>4. CASE m # Dest[r]
      BY <1>0, <2>3, <2>4 DEF ResponsesHome
    <2>5. CASE m = Dest[r]
      <3>1. responses'[m] = Append(responses[m], q)
        BY <1>0, <2>3, <2>5
      <3>2. i = Len(responses[m]) + 1 \/ i \in DOMAIN responses[m]
        BY <1>0, <2>2, <3>1, AppendElements
      <3>3. CASE i = Len(responses[m]) + 1
        BY <1>0, <2>1, <2>2, <2>5, <3>1, <3>3, AppendElements
      <3>4. CASE i \in DOMAIN responses[m]
        <4>1. responses'[m][i] = responses[m][i]
          BY <1>0, <2>2, <3>1, <3>4, AppendElements
        <4> QED BY <3>4, <4>1 DEF ResponsesHome
      <3> QED BY <3>2, <3>3, <3>4
    <2> QED BY <2>4, <2>5
  <1>3. CASE TakesResponse
    <2>1. PICK l \in Locality : responses[l] # << >> /\ responses' = [responses EXCEPT ![l] = Tail(@)]
      BY <1>3 DEF TakesResponse
    <2>2. CASE m # l
      BY <1>0, <2>1, <2>2 DEF ResponsesHome
    <2>3. CASE m = l
      <3>1. i + 1 \in DOMAIN responses[m] /\ responses'[m][i] = responses[m][i + 1]
        BY <1>0, <2>1, <2>3, TailElements
      <3> QED BY <3>1 DEF ResponsesHome
    <2> QED BY <2>2, <2>3
  <1> QED BY <1>1, <1>2, <1>3, ResponseSteps

\* Every response is queued where its request was handled.
LEMMA HomeInvariant == Spec => []ResponsesHome
  <1>1. Init => ResponsesHome
    BY DEF Init, ResponsesHome
  <1>2. TypeOK /\ ExecutionInv /\ ResponsesHome /\ [Next]_vars => ResponsesHome'
    BY HomeStep
  <1> QED BY <1>1, <1>2, TypeCorrect, ExecutionInvariant, PTL DEF Spec

-----------------------------------------------------------------------------
(* One answer per accepted request.  The answer of a running dedup entry   *)
(* wanders from the domain queue to a worker, to the completion channel and *)
(* to the response queue; it is never at two places, and it is at one       *)
(* unless the locality has failed and dropped it.                          *)

HasJob(r) == \E s \in Stage : jobs[<<r, s>>] > 0

AnswerOf(r) ==
  /\ \A s \in Stage : jobs[<<r, s>>] <= 1
  /\ \A s, t \in Stage : jobs[<<r, s>>] > 0 /\ jobs[<<r, t>>] > 0 => s = t
  /\ \A i, j \in CachedResponses(r) : i = j
  /\ HasJob(r) => CachedResponses(r) = {}
  /\ HasJob(r) \/ CachedResponses(r) # {} => dedup[r].st = "running"
  /\ dedup[r].st = "running" /\ broken[Dest[r]] = "none" => HasJob(r) \/ CachedResponses(r) # {}

AnswerInv == \A r \in Request : ~IsLocal(r) => AnswerOf(r)

\* A failed locality stays marked as failed.
BrokenStays(r) == broken'[Dest[r]] = "none" => broken[Dest[r]] = "none"

LEMMA FailBreaks ==
  ASSUME TypeOK, NEW l \in Locality, NEW why \in {"responses full", "protocol", "transport"},
         Fail(l, why)
  PROVE  broken'[l] # "none" /\ \A r \in Request : BrokenStays(r)
  BY CallsAssumption DEF Fail, TypeOK, LifecycleType, BrokenStays

\* A step that leaves the answer of r where it is.
SameAnswer(r) ==
  /\ \A s \in Stage : jobs'[<<r, s>>] = jobs[<<r, s>>]
  /\ responses'[Dest[r]] = responses[Dest[r]]
  /\ dedup'[r].st = "running" <=> dedup[r].st = "running"
  /\ BrokenStays(r)

LEMMA SameAnswerKept ==
  ASSUME NEW r \in Request, SameAnswer(r), AnswerOf(r) PROVE AnswerOf(r)'
  <1>1. CachedResponses(r)' = CachedResponses(r)
    BY DEF SameAnswer, CachedResponses
  <1>2. HasJob(r)' = HasJob(r)
    BY DEF SameAnswer, HasJob
  <1> QED BY <1>1, <1>2 DEF SameAnswer, AnswerOf, BrokenStays

\* A new response of request q: only a cached one is a place of its answer.
LEMMA QueuedPlace ==
  ASSUME TypeOK, NEW q \in Request, NEW k \in ResponseKind, NEW cache \in BOOLEAN,
         QueueResponse(Dest[q], q, k, cache), NEW r \in Request
  PROVE  /\ r # q \/ ~cache => CachedResponses(r)' = CachedResponses(r)
         /\ r = q /\ cache => \E n : CachedResponses(r)' = CachedResponses(r) \cup {n}
  <1> DEFINE e == [request |-> q, kind |-> k, cache |-> cache]
             n == Len(responses[Dest[q]]) + 1
  <1>0. responses \in [Locality -> Seq(Queued)] /\ Dest[q] \in Locality /\ Dest[r] \in Locality
    BY CallsAssumption DEF TypeOK, ResponseType
  <1>1. e \in Queued /\ e.request = q /\ e.cache = cache
    BY DEF Queued
  <1>2. responses' = [responses EXCEPT ![Dest[q]] = Append(@, e)]
    BY DEF QueueResponse
  <1> HIDE DEF e
  <1>3. CASE Dest[r] # Dest[q]
    BY <1>0, <1>2, <1>3 DEF CachedResponses
  <1>4. CASE Dest[r] = Dest[q]
    <2>1. responses'[Dest[r]] = Append(responses[Dest[r]], e)
      BY <1>0, <1>2, <1>4
    <2>2. /\ DOMAIN responses[Dest[r]] = 1..(n - 1)
          /\ DOMAIN responses'[Dest[r]] = 1..n /\ n \in Nat \ {0}
          /\ \A i \in 1..(n - 1) : responses'[Dest[r]][i] = responses[Dest[r]][i]
          /\ responses'[Dest[r]][n] = e
      BY <1>0, <1>1, <1>4, <2>1, AppendElements
    <2> HIDE DEF n
    <2>3. \A i : i \in 1..n <=> i \in 1..(n - 1) \/ i = n
      BY <2>2
    <2>4. n \notin 1..(n - 1)
      BY <2>2
    <2>5. ASSUME r # q \/ ~cache PROVE CachedResponses(r)' = CachedResponses(r)
      BY <1>1, <2>2, <2>3, <2>5 DEF CachedResponses
    <2>6. ASSUME r = q, cache PROVE CachedResponses(r)' = CachedResponses(r) \cup {n}
      BY <1>1, <2>2, <2>3, <2>6 DEF CachedResponses
    <2> QED BY <2>5, <2>6
  <1> QED BY <1>3, <1>4

\* The job of a remote call moves on from one stage to the next.
LEMMA MovedAnswer ==
  ASSUME TypeOK, AnswerInv, NEW q \in Request, NEW s \in Stage, NEW t \in Stage, s # t,
         jobs[<<q, s>>] > 0,
         jobs' = [jobs EXCEPT ![<<q, s>>] = @ - 1, ![<<q, t>>] = @ + 1],
         UNCHANGED <<responses, dedup, broken>>
  PROVE  AnswerInv'
  <1> SUFFICES ASSUME NEW r \in Request, ~IsLocal(r) PROVE AnswerOf(r)'
    BY DEF AnswerInv, IsLocal
  <1>0. AnswerOf(r)
    BY DEF AnswerInv
  <1>1. CASE r # q
    <2>1. SameAnswer(r)
      BY <1>1 DEF SameAnswer, BrokenStays, TypeOK, JobType
    <2> QED BY <1>0, <2>1, SameAnswerKept
  <1>2. CASE r = q
    <2>0. \A u \in Stage : jobs[<<r, u>>] \in Nat
      BY DEF TypeOK, JobType
    <2>1. jobs[<<r, s>>] = 1 /\ \A u \in Stage : u # s => jobs[<<r, u>>] = 0
      BY <1>0, <1>2, <2>0 DEF AnswerOf
    <2> DEFINE now(u) == jobs'[<<r, u>>]
    <2>2. /\ now(s) = jobs[<<r, s>>] - 1
          /\ now(t) = jobs[<<r, t>>] + 1
          /\ \A u \in Stage \ {s, t} : now(u) = jobs[<<r, u>>]
      BY <1>2 DEF TypeOK, JobType
    <2>3. /\ \A u \in Stage : now(u) <= 1
          /\ \A u, v \in Stage : now(u) > 0 /\ now(v) > 0 => u = v
          /\ now(t) > 0
      <3> HIDE DEF now
      <3>1. now(s) = 0
        BY <2>1, <2>2
      <3>2. now(t) = 1
        BY <2>1, <2>2
      <3>3. \A u \in Stage \ {s, t} : now(u) = 0
        BY <2>1, <2>2
      <3> QED BY <3>1, <3>2, <3>3
    <2>4. HasJob(r) /\ HasJob(r)'
      BY <1>2, <2>3 DEF HasJob
    <2>5. CachedResponses(r)' = CachedResponses(r)
      BY DEF CachedResponses
    <2> QED BY <1>0, <2>3, <2>4, <2>5 DEF AnswerOf
  <1> QED BY <1>1, <1>2

LEMMA WorkerAnswers ==
  ASSUME TypeOK, AnswerInv, WorkerStep PROVE AnswerInv'
  <1>1. ASSUME NEW q \in Request, StartJob(q) PROVE AnswerInv'
    <2>1. PICK stage \in Busy : StartJobEffect(q, stage)
      BY <1>1, StartJobEffects
    <2>2. UNCHANGED <<responses, dedup, broken>>
      BY <1>1 DEF StartJob, tableVars
    <2>3. "queued" \in Stage /\ stage \in Stage /\ stage # "queued"
      BY DEF Busy, Stage
    <2> QED BY <2>1, <2>2, <2>3, MovedAnswer DEF StartJobEffect
  <1>2. ASSUME NEW q \in Request, FinishJob(q) PROVE AnswerInv'
    <2>1. PICK s \in FinishStep :
             /\ jobs[<<q, s[1]>>] > 0
             /\ jobs' = [jobs EXCEPT ![<<q, s[1]>>] = @ - 1, ![<<q, s[2]>>] = @ + 1]
      BY <1>2 DEF FinishJob
    <2>2. UNCHANGED <<responses, dedup, broken>>
      BY <1>2 DEF FinishJob, tableVars, historyVars
    <2>3. s[1] \in Stage /\ s[2] \in Stage /\ s[1] # s[2]
      BY DEF FinishStep, Stage
    <2> QED BY <2>1, <2>2, <2>3, MovedAnswer
  <1> QED BY <1>1, <1>2 DEF WorkerStep

\* A step that gives the jobs of other requests back unchanged.
LEMMA OtherJobs ==
  ASSUME TypeOK, NEW q \in Request, NEW s \in Stage, NEW n,
         jobs' = [jobs EXCEPT ![<<q, s>>] = n], NEW r \in Request, r # q
  PROVE  \A u \in Stage : jobs'[<<r, u>>] = jobs[<<r, u>>]
  BY DEF TypeOK, JobType

\* DispatchLocal submits a job of a local call only.
LEMMA DispatchAnswers ==
  ASSUME TypeOK, ExecutionInv, AnswerInv, NEW q \in Request, DispatchLocal(q) PROVE AnswerInv'
  <1> SUFFICES ASSUME NEW r \in Request, ~IsLocal(r) PROVE AnswerOf(r)'
    BY DEF AnswerInv, IsLocal
  <1>1. q # r
    BY DEF ExecutionInv, DispatchLocal
  <1>2. \A u \in Stage : jobs'[<<r, u>>] = jobs[<<r, u>>]
    <2>1. CASE Submit(q)
      BY <1>1, <2>1, OtherJobs DEF Submit, Stage
    <2> QED BY <2>1 DEF DispatchLocal
  <1>3. SameAnswer(r)
    BY <1>2 DEF SameAnswer, BrokenStays, DispatchLocal, tableVars, historyVars
  <1> QED BY <1>3, SameAnswerKept DEF AnswerInv

\* A completion becomes a response to be cached, or is lost with the locality.
LEMMA CompletionAnswers ==
  ASSUME TypeOK, AnswerInv, NEW q \in Request, HandleCompletion(q) PROVE AnswerInv'
  <1> SUFFICES ASSUME NEW r \in Request, ~IsLocal(r) PROVE AnswerOf(r)'
    BY DEF AnswerInv, IsLocal
  <1>0. AnswerOf(r) /\ Dest[q] \in Locality /\ Dest[r] \in Locality
    BY CallsAssumption DEF AnswerInv
  <1>1. PICK s \in Finished : /\ jobs[<<q, s>>] > 0
                              /\ jobs' = [jobs EXCEPT ![<<q, s>>] = @ - 1]
                              /\ AnswerCompletion(Dest[q], q, KindOf(s))
    BY DEF HandleCompletion
  <1>2. s \in Stage /\ KindOf(s) \in ResponseKind
    BY KindOfType DEF Finished, Stage
  <1>3. UNCHANGED dedup
    BY DEF HandleCompletion
  <1>4. BrokenStays(r)
    BY <1>0, <1>1, FailBreaks DEF AnswerCompletion, NoFail, BrokenStays
  <1>5. CASE r # q
    <2>1. \A u \in Stage : jobs'[<<r, u>>] = jobs[<<r, u>>]
      BY <1>1, <1>2, <1>5, OtherJobs
    <2>2. CachedResponses(r)' = CachedResponses(r)
      <3>1. CASE UNCHANGED responses
        BY <3>1 DEF CachedResponses
      <3>2. CASE QueueResponse(Dest[q], q, KindOf(s), TRUE)
        BY <1>2, <1>5, <3>2, QueuedPlace
      <3> QED BY <1>1, <3>1, <3>2 DEF AnswerCompletion
    <2>3. HasJob(r)' = HasJob(r)
      BY <2>1 DEF HasJob
    <2> QED BY <1>0, <1>3, <1>4, <2>1, <2>2, <2>3 DEF AnswerOf, BrokenStays
  <1>6. CASE r = q
    <2>0. \A u \in Stage : jobs[<<r, u>>] \in Nat
      BY DEF TypeOK, JobType
    <2>1. jobs[<<r, s>>] = 1 /\ \A u \in Stage : u # s => jobs[<<r, u>>] = 0
      BY <1>0, <1>1, <1>2, <1>6, <2>0 DEF AnswerOf
    <2> DEFINE now(u) == jobs'[<<r, u>>]
    <2>2. now(s) = jobs[<<r, s>>] - 1 /\ \A u \in Stage \ {s} : now(u) = jobs[<<r, u>>]
      BY <1>1, <1>2, <1>6 DEF TypeOK, JobType
    <2>3. \A u \in Stage : now(u) = 0 /\ ~(now(u) > 0)
      <3> HIDE DEF now
      <3>1. now(s) = 0
        BY <2>1, <2>2
      <3>2. \A u \in Stage \ {s} : now(u) = 0
        BY <2>1, <2>2
      <3> QED BY <3>1, <3>2
    <2>4. ~HasJob(r)'
      BY <2>3 DEF HasJob
    <2>5. HasJob(r) /\ CachedResponses(r) = {} /\ dedup[r].st = "running"
      <3>1. HasJob(r)
        BY <1>1, <1>2, <1>6 DEF HasJob
      <3> QED BY <1>0, <3>1 DEF AnswerOf
    <2>6. CASE QueueResponse(Dest[q], q, KindOf(s), TRUE)
      <3>1. PICK n : CachedResponses(r)' = CachedResponses(r) \cup {n}
        BY <1>2, <1>6, <2>6, QueuedPlace
      <3> QED BY <1>3, <2>3, <2>4, <2>5, <3>1 DEF AnswerOf
    <2>7. CASE Fail(Dest[q], "responses full") /\ UNCHANGED responses
      <3>1. CachedResponses(r)' = {}
        BY <2>5, <2>7 DEF CachedResponses
      <3>2. broken'[Dest[r]] # "none"
        BY <1>0, <1>6, <2>7, FailBreaks
      <3> QED BY <2>3, <2>4, <3>1, <3>2 DEF AnswerOf
    <2> QED BY <1>1, <1>6, <2>6, <2>7 DEF AnswerCompletion
  <1> QED BY <1>5, <1>6

\* A step that may queue uncached answers and fail the locality.
LEMMA UncachedAnswers ==
  ASSUME TypeOK, AnswerInv, NEW q \in Request, NEW k \in ResponseKind,
         UNCHANGED <<jobs, dedup>>,
         Reply(Dest[q], q, k) \/ (NoFail /\ UNCHANGED responses)
  PROVE  AnswerInv'
  <1> SUFFICES ASSUME NEW r \in Request, ~IsLocal(r) PROVE AnswerOf(r)'
    BY DEF AnswerInv, IsLocal
  <1>0. AnswerOf(r) /\ Dest[q] \in Locality
    BY CallsAssumption DEF AnswerInv
  <1>1. CachedResponses(r)' = CachedResponses(r)
    <2>1. CASE UNCHANGED responses
      BY <2>1 DEF CachedResponses
    <2>2. CASE QueueResponse(Dest[q], q, k, FALSE)
      BY <2>2, QueuedPlace
    <2> QED BY <2>1, <2>2 DEF Reply
  <1>2. BrokenStays(r)
    BY <1>0, FailBreaks DEF Reply, NoFail, BrokenStays
  <1>3. HasJob(r)' = HasJob(r)
    BY DEF HasJob
  <1> QED BY <1>0, <1>1, <1>2, <1>3 DEF AnswerOf, BrokenStays

\* DedupTable::begin: the new entry comes with its job or its failure.
LEMMA NewAnswers ==
  ASSUME TypeOK, ExecutionInv, AnswerInv, NEW q \in Request, HandleRequest(q), RequestNew(q)
  PROVE  AnswerInv'
  <1> SUFFICES ASSUME NEW r \in Request, ~IsLocal(r) PROVE AnswerOf(r)'
    BY DEF AnswerInv, IsLocal
  <1>0. AnswerOf(r) /\ Dest[q] \in Locality /\ Dest[r] \in Locality
    BY CallsAssumption DEF AnswerInv
  <1>1. dedup' = [dedup EXCEPT ![q] = RunningEntry] /\ dedup[q].st = "none"
    BY DEF RequestNew
  <1>2. \/ Submit(q) /\ NoFail /\ UNCHANGED responses
        \/ QueueResponse(Dest[q], q, "Failure", TRUE) /\ NoFail /\ UNCHANGED jobs
        \/ Fail(Dest[q], "responses full") /\ UNCHANGED <<jobs, responses>>
    BY DEF RequestNew, QueueFailure
  <1>3. BrokenStays(r)
    BY <1>0, <1>2, FailBreaks DEF NoFail, BrokenStays
  <1>4. "Failure" \in ResponseKind /\ "queued" \in Stage
    BY DEF ResponseKind, Stage
  <1>5. CASE r # q
    <2>1. dedup'[r] = dedup[r]
      BY <1>1, <1>5 DEF TypeOK, DedupType
    <2>2. CachedResponses(r)' = CachedResponses(r)
      <3>1. CASE UNCHANGED responses
        BY <3>1 DEF CachedResponses
      <3>2. CASE QueueResponse(Dest[q], q, "Failure", TRUE)
        BY <1>4, <1>5, <3>2, QueuedPlace
      <3> QED BY <1>2, <3>1, <3>2
    <2>3. \A u \in Stage : jobs'[<<r, u>>] = jobs[<<r, u>>]
      BY <1>2, <1>4, <1>5, OtherJobs DEF Submit
    <2>4. HasJob(r)' = HasJob(r)
      BY <2>3 DEF HasJob
    <2> QED BY <1>0, <1>3, <2>1, <2>2, <2>3, <2>4 DEF AnswerOf, BrokenStays
  <1>6. CASE r = q
    <2>1. dedup'[r].st = "running"
      BY <1>1, <1>6 DEF TypeOK, DedupType, RunningEntry
    <2>2. ~HasJob(r) /\ CachedResponses(r) = {}
      BY <1>0, <1>1, <1>6 DEF AnswerOf
    <2>3. \A u \in Stage : jobs[<<r, u>>] = 0 /\ ~(jobs[<<r, u>>] > 0)
      BY <2>2 DEF HasJob, TypeOK, JobType
    <2>4. CASE Submit(q) /\ UNCHANGED responses
      <3> DEFINE now(u) == jobs'[<<r, u>>]
      <3>1. now("queued") = jobs[<<r, "queued">>] + 1
        BY <1>4, <1>6, <2>4 DEF Submit, TypeOK, JobType
      <3>2. \A u \in Stage \ {"queued"} : now(u) = jobs[<<r, u>>]
        BY <1>4, <1>6, <2>4 DEF Submit, TypeOK, JobType
      <3>3. /\ \A u \in Stage : now(u) <= 1
            /\ \A u, v \in Stage : now(u) > 0 /\ now(v) > 0 => u = v
            /\ now("queued") > 0
        <4> HIDE DEF now
        <4>1. now("queued") = 1
          BY <1>4, <2>3, <3>1
        <4>2. \A u \in Stage \ {"queued"} : now(u) = 0
          BY <2>3, <3>2
        <4>3. \A u \in Stage : now(u) <= 1
          BY <4>1, <4>2
        <4>4. ASSUME NEW u \in Stage, now(u) > 0 PROVE u = "queued"
          BY <4>2, <4>4
        <4> QED BY <4>1, <4>3, <4>4
      <3>4. HasJob(r)' /\ CachedResponses(r)' = {}
        BY <1>4, <2>2, <2>4, <3>3 DEF HasJob, CachedResponses
      <3> QED BY <2>1, <3>3, <3>4 DEF AnswerOf
    <2>5. CASE QueueResponse(Dest[q], q, "Failure", TRUE) /\ UNCHANGED jobs
      <3>1. PICK n : CachedResponses(r)' = CachedResponses(r) \cup {n}
        BY <1>4, <1>6, <2>5, QueuedPlace
      <3>2. ~HasJob(r)'
        BY <2>2, <2>5 DEF HasJob
      <3> QED BY <2>1, <2>2, <2>3, <2>5, <3>1, <3>2 DEF AnswerOf
    <2>6. CASE Fail(Dest[q], "responses full") /\ UNCHANGED <<jobs, responses>>
      <3>1. ~HasJob(r)' /\ CachedResponses(r)' = {}
        BY <2>2, <2>6 DEF HasJob, CachedResponses
      <3>2. broken'[Dest[r]] # "none"
        BY <1>0, <1>6, <2>6, FailBreaks
      <3>3. \A u \in Stage : jobs'[<<r, u>>] <= 1 /\ ~(jobs'[<<r, u>>] > 0)
        <4>1. jobs' = jobs
          BY <2>6
        <4>2. \A u \in Stage : jobs[<<r, u>>] <= 1 /\ ~(jobs[<<r, u>>] > 0)
          BY <2>3
        <4> QED BY <4>1, <4>2
      <3> QED BY <3>1, <3>2, <3>3 DEF AnswerOf
    <2> QED BY <1>2, <2>4, <2>5, <2>6
  <1> QED BY <1>5, <1>6

LEMMA RequestAnswers ==
  ASSUME TypeOK, ExecutionInv, AnswerInv, NEW q \in Request, HandleRequest(q) PROVE AnswerInv'
  <1>1. CASE RequestNew(q)
    BY <1>1, NewAnswers
  <1>2. CASE RequestRejected(q)
    BY <1>2, UncachedAnswers DEF RequestRejected, ResponseKind
  <1>3. CASE RequestDuplicate(q)
    <2>1. dedup[q] \in DedupEntry /\ dedup[q].st # "none"
      BY <1>3 DEF TypeOK, DedupType, RequestDuplicate
    <2>2. CASE NoFail /\ UNCHANGED responses
      BY <1>3, <2>2, UncachedAnswers DEF RequestDuplicate, ResponseKind
    <2>3. CASE Disposition(dedup[q]) # "none" /\ Reply(Dest[q], q, Disposition(dedup[q]))
      BY <1>3, <2>1, <2>3, DispositionType, UncachedAnswers DEF RequestDuplicate
    <2> QED BY <1>3, <2>2, <2>3 DEF RequestDuplicate
  <1> QED BY <1>1, <1>2, <1>3 DEF HandleRequest

\* Taking the front of the queue of l shifts the places of the other answers.
LEMMA ShiftedPlace ==
  ASSUME TypeOK, NEW l \in Locality, responses[l] # << >>,
         responses' = [responses EXCEPT ![l] = Tail(@)], NEW r \in Request, Dest[r] = l
  PROVE  /\ 1 \in CachedResponses(r) <=> Head(responses[l]).request = r /\ Head(responses[l]).cache
         /\ \A i : i \in CachedResponses(r)' <=> i + 1 \in CachedResponses(r) /\ i \in Nat \ {0}
         /\ CachedResponses(r) \subseteq Nat \ {0}
  <1> DEFINE n == Len(responses[l])
  <1>1. /\ DOMAIN responses[l] = 1..n /\ n \in Nat \ {0}
        /\ Head(responses[l]) = responses[l][1]
        /\ DOMAIN responses'[l] = 1..(n - 1)
        /\ \A i \in 1..(n - 1) : responses'[l][i] = responses[l][i + 1]
    BY TailElements DEF TypeOK, ResponseType
  <1> HIDE DEF n
  <1>2. 1 \in CachedResponses(r) <=> Head(responses[l]).request = r /\ Head(responses[l]).cache
    BY <1>1 DEF CachedResponses
  <1>3. CachedResponses(r) \subseteq Nat \ {0}
    BY <1>1 DEF CachedResponses
  <1>4. ASSUME NEW i, i \in CachedResponses(r)' PROVE i + 1 \in CachedResponses(r) /\ i \in Nat \ {0}
    BY <1>1, <1>4 DEF CachedResponses
  <1>5. ASSUME NEW i \in Nat \ {0}, i + 1 \in CachedResponses(r) PROVE i \in CachedResponses(r)'
    <2>1. i \in 1..(n - 1)
      BY <1>1, <1>5 DEF CachedResponses
    <2> QED BY <1>1, <1>5, <2>1 DEF CachedResponses
  <1> QED BY <1>2, <1>3, <1>4, <1>5

\* drain_responses completes the entry whose answer it takes: complete finds the
\* entry running, so that its two protocol errors cannot be raised.
LEMMA SendMatches ==
  ASSUME TypeOK, ResponsesHome, AnswerInv, NEW l \in Locality, SendResponse(l),
         Head(responses[l]).cache
  PROVE  dedup[Head(responses[l]).request].st = "running"
  <1> DEFINE q == Head(responses[l])
  <1>1. responses[l] # << >> /\ responses' = [responses EXCEPT ![l] = Tail(@)]
    BY DEF SendResponse
  <1>2. q \in Queued /\ q = responses[l][1] /\ 1 \in DOMAIN responses[l]
    BY <1>1, TailElements DEF TypeOK, ResponseType
  <1>3. q.request \in Request /\ Dest[q.request] = l /\ ~IsLocal(q.request)
    BY <1>2 DEF ResponsesHome, Queued
  <1>4. 1 \in CachedResponses(q.request)
    BY <1>2, <1>3 DEF CachedResponses
  <1> QED BY <1>3, <1>4 DEF AnswerInv, AnswerOf

LEMMA SendAnswers ==
  ASSUME TypeOK, ResponsesHome, AnswerInv, NEW l \in Locality, SendResponse(l) PROVE AnswerInv'
  <1> SUFFICES ASSUME NEW r \in Request, ~IsLocal(r) PROVE AnswerOf(r)'
    BY DEF AnswerInv, IsLocal
  <1> DEFINE q == Head(responses[l])
  <1>0. AnswerOf(r)
    BY DEF AnswerInv
  <1>1. responses[l] # << >> /\ responses' = [responses EXCEPT ![l] = Tail(@)]
    BY DEF SendResponse
  <1>2. q \in Queued /\ Dest[q.request] = l
    BY <1>1, TailElements DEF TypeOK, ResponseType, ResponsesHome
  <1>3. UNCHANGED jobs
    BY DEF SendResponse
  <1>4. \/ NoFail /\ ~q.cache /\ UNCHANGED dedup
        \/ NoFail /\ q.cache /\ Complete(l, q)
        \/ Fail(l, "transport") /\ UNCHANGED dedup
    BY SendMatches DEF SendResponse
  <1> HIDE DEF q
  <1>5. BrokenStays(r)
    BY <1>4, FailBreaks DEF NoFail, BrokenStays
  <1>6. HasJob(r)' = HasJob(r)
    BY <1>3 DEF HasJob
  <1>7. ASSUME ~(q.request = r /\ q.cache) PROVE dedup'[r] = dedup[r]
    BY <1>2, <1>4, <1>7 DEF Complete, Queued, TypeOK, DedupType
  <1>8. CASE Dest[r] # l
    <2>1. responses'[Dest[r]] = responses[Dest[r]]
      BY <1>1, <1>8, CallsAssumption DEF TypeOK, ResponseType
    <2>2. SameAnswer(r)
      BY <1>2, <1>3, <1>5, <1>7, <1>8, <2>1 DEF SameAnswer
    <2> QED BY <1>0, <2>2, SameAnswerKept
  <1>9. CASE Dest[r] = l /\ ~(q.request = r /\ q.cache)
    <2>1. 1 \notin CachedResponses(r)
      BY <1>1, <1>9, ShiftedPlace DEF q
    <2>2. /\ \A i : i \in CachedResponses(r)' <=> i + 1 \in CachedResponses(r) /\ i \in Nat \ {0}
          /\ CachedResponses(r) \subseteq Nat \ {0}
      BY <1>1, <1>9, ShiftedPlace
    <2>3. CachedResponses(r)' = {} <=> CachedResponses(r) = {}
      <3>1. ASSUME NEW i \in CachedResponses(r) PROVE CachedResponses(r)' # {}
        <4>1. i - 1 \in Nat \ {0} /\ (i - 1) + 1 = i
          BY <2>1, <2>2
        <4> QED BY <2>2, <4>1
      <3> QED BY <2>2, <3>1
    <2>4. \A i, j \in CachedResponses(r)' : i = j
      <3> SUFFICES ASSUME NEW i \in CachedResponses(r)', NEW j \in CachedResponses(r)' PROVE i = j
        OBVIOUS
      <3>1. i \in Nat /\ j \in Nat /\ i + 1 \in CachedResponses(r) /\ j + 1 \in CachedResponses(r)
        BY <2>2
      <3>2. i + 1 = j + 1
        BY <1>0, <3>1 DEF AnswerOf
      <3> QED BY <3>1, <3>2
    <2> QED BY <1>0, <1>3, <1>5, <1>6, <1>7, <1>9, <2>3, <2>4 DEF AnswerOf, BrokenStays
  <1>10. CASE q.request = r /\ q.cache
    <2>0. Dest[r] = l
      BY <1>2, <1>10
    <2>1. 1 \in CachedResponses(r)
      BY <1>1, <1>10, <2>0, ShiftedPlace DEF q
    <2>2. CachedResponses(r) = {1} /\ ~HasJob(r)
      BY <1>0, <2>1 DEF AnswerOf
    <2>3. CachedResponses(r)' = {}
      <3>1. \A i : i \in CachedResponses(r)' => i + 1 \in {1} /\ i \in Nat \ {0}
        BY <1>1, <2>0, <2>2, ShiftedPlace
      <3> QED BY <3>1
    <2>4. dedup'[r].st # "running" \/ broken'[Dest[r]] # "none"
      <3>1. CASE Complete(l, q)
        BY <1>10, <3>1 DEF Complete, TypeOK, DedupType
      <3>2. CASE Fail(l, "transport")
        BY <2>0, <3>2, FailBreaks
      <3> QED BY <1>4, <1>10, <3>1, <3>2
    <2> QED BY <1>0, <1>3, <1>6, <2>2, <2>3, <2>4 DEF AnswerOf
  <1> QED BY <1>8, <1>9, <1>10

\* shutdown clears the dedup table of a locality that has nothing to answer.
LEMMA FinishAnswers ==
  ASSUME TypeOK, AnswerInv, NEW l \in Locality, ShutdownFinish(l) PROVE AnswerInv'
  <1> SUFFICES ASSUME NEW r \in Request, ~IsLocal(r) PROVE AnswerOf(r)'
    BY DEF AnswerInv, IsLocal
  <1>0. AnswerOf(r)
    BY DEF AnswerInv
  <1>1. UNCHANGED <<responses, jobs, broken>>
    BY DEF ShutdownFinish, historyVars
  <1>2. dedup'[r] = IF Dest[r] = l THEN NoEntry ELSE dedup[r]
    BY DEF ShutdownFinish
  <1>3. CASE Dest[r] # l
    <2>1. SameAnswer(r)
      BY <1>1, <1>2, <1>3 DEF SameAnswer, BrokenStays
    <2> QED BY <1>0, <2>1, SameAnswerKept
  <1>4. CASE Dest[r] = l
    <2>1. ~HasJob(r) /\ CachedResponses(r) = {}
      <3>1. At(l, Stage) = {} /\ responses[l] = << >>
        BY DEF ShutdownFinish, Drained
      <3>2. ASSUME NEW s \in Stage PROVE ~(jobs[<<r, s>>] > 0)
        <4>1. <<r, s>> \in Request \X Stage /\ <<r, s>>[1] = r
          OBVIOUS
        <4> QED BY <1>4, <3>1, <4>1 DEF At
      <3>3. DOMAIN responses[Dest[r]] = {}
        BY <1>4, <3>1
      <3> QED BY <3>2, <3>3 DEF HasJob, CachedResponses
    <2>2. ~HasJob(r)' /\ CachedResponses(r)' = {}
      BY <1>1, <2>1 DEF HasJob, CachedResponses
    <2>3. dedup'[r].st = "none"
      BY <1>2, <1>4 DEF NoEntry
    <2> QED BY <1>0, <1>1, <2>2, <2>3 DEF AnswerOf
  <1> QED BY <1>3, <1>4

\* The steps that touch no job, response or running entry.
LEMMA QuietAnswers ==
  ASSUME AnswerInv, UNCHANGED <<jobs, responses>>,
         \A r \in Request : dedup'[r].st = "running" <=> dedup[r].st = "running",
         \A r \in Request : BrokenStays(r)
  PROVE  AnswerInv'
  <1>1. \A r \in Request : SameAnswer(r)
    BY DEF SameAnswer
  <1> QED BY <1>1, SameAnswerKept DEF AnswerInv, IsLocal

LEMMA OwnerAnswers ==
  ASSUME TypeOK, ExecutionInv, ResponsesHome, AnswerInv, OwnerStep PROVE AnswerInv'
  <1>1. ASSUME NEW r \in Request, ExpirePending(r) \/ HandleResponse(r) PROVE AnswerInv'
    BY <1>1, QuietAnswers DEF ExpirePending, HandleResponse, BrokenStays, tableVars, historyVars
  <1>2. ASSUME NEW q \in Request, HandleCancel(q) PROVE AnswerInv'
    <2>1. PICK room : dedup' = [dedup EXCEPT ![q] = AfterCancel(@, room)]
      BY <1>2 DEF HandleCancel
    <2>2. \A r \in Request : dedup'[r].st = "running" <=> dedup[r].st = "running"
      BY <2>1 DEF AfterCancel, CancelledEntry, TypeOK, DedupType
    <2> QED BY <1>2, <2>2, QuietAnswers DEF HandleCancel, BrokenStays, historyVars
  <1>3. ASSUME NEW q \in Request, DedupExpire(q) PROVE AnswerInv'
    <2>1. \A r \in Request : dedup'[r].st = "running" <=> dedup[r].st = "running"
      BY <1>3 DEF DedupExpire, Expirable, NoEntry, TypeOK, DedupType
    <2> QED BY <1>3, <2>1, QuietAnswers DEF DedupExpire, BrokenStays
  <1>4. ASSUME NEW l \in Locality, ShutdownBegin(l) \/ ShutdownTimeout(l) \/ DropRuntime(l)
        PROVE  AnswerInv'
    BY <1>4, QuietAnswers
    DEF ShutdownBegin, ShutdownTimeout, DropRuntime, BrokenStays, tableVars, historyVars
  <1> QED BY <1>1, <1>2, <1>3, <1>4, DispatchAnswers, CompletionAnswers, RequestAnswers,
             SendAnswers, FinishAnswers DEF OwnerStep

LEMMA OtherAnswers ==
  ASSUME TypeOK, AnswerInv, ClientStep \/ NetworkStep PROVE AnswerInv'
  <1>1. UNCHANGED <<jobs, responses, dedup>>
    BY DEF ClientStep, SpawnCheck, SpawnInsert, SpawnSubmit, Poll, DropFuture,
           NetworkStep, DuplicateMessage, SendFailed, TransportFails, tableVars
  <1>2. \A r \in Request : BrokenStays(r)
    <2>1. CASE ClientStep
      BY <2>1 DEF ClientStep, SpawnCheck, SpawnInsert, SpawnSubmit, Poll, DropFuture, BrokenStays,
                  historyVars
    <2>2. ASSUME NEW m \in Message, DuplicateMessage(m) PROVE \A r \in Request : BrokenStays(r)
      BY <2>2 DEF DuplicateMessage, BrokenStays
    <2>3. ASSUME NEW m \in Message, SendFailed(m) PROVE \A r \in Request : BrokenStays(r)
      <3> DEFINE l == IF m[1] \in {"Request", "Cancel"} THEN Origin[m[2]] ELSE Dest[m[2]]
      <3>1. l \in Locality
        BY <2>3, EndsType
      <3>2. UNCHANGED broken \/ Fail(l, "transport")
        BY <2>3 DEF SendFailed, NoFail
      <3> HIDE DEF l
      <3> QED BY <3>1, <3>2, FailBreaks DEF BrokenStays
    <2>4. ASSUME NEW l \in Locality, TransportFails(l) PROVE \A r \in Request : BrokenStays(r)
      BY <2>4, FailBreaks DEF TransportFails
    <2> QED BY <2>1, <2>2, <2>3, <2>4 DEF NetworkStep
  <1> QED BY <1>1, <1>2, QuietAnswers

LEMMA AnswerInvariant == Spec => []AnswerInv
  <1>1. Init => AnswerInv
    <2> SUFFICES ASSUME Init, NEW r \in Request PROVE AnswerOf(r)
      BY DEF AnswerInv
    <2>1. \A s \in Stage : jobs[<<r, s>>] = 0 /\ ~(jobs[<<r, s>>] > 0) /\ jobs[<<r, s>>] <= 1
      BY DEF Init
    <2>2. CachedResponses(r) = {}
      BY CallsAssumption DEF Init, CachedResponses
    <2>3. dedup[r].st = "none"
      BY DEF Init, NoEntry
    <2> QED BY <2>1, <2>2, <2>3 DEF AnswerOf, HasJob
  <1>2. TypeOK /\ ExecutionInv /\ ResponsesHome /\ AnswerInv /\ [Next]_vars => AnswerInv'
    <2> SUFFICES ASSUME TypeOK, ExecutionInv, ResponsesHome, AnswerInv, [Next]_vars
                 PROVE  AnswerInv'
      OBVIOUS
    <2>1. CASE UNCHANGED vars
      BY <2>1, QuietAnswers DEF vars, tableVars, historyVars, BrokenStays
    <2> QED BY <2>1, OwnerAnswers, OtherAnswers, WorkerAnswers DEF Next
  <1> QED BY <1>1, <1>2, TypeCorrect, ExecutionInvariant, HomeInvariant, PTL DEF Spec

\* A request that its receiver has accepted is answered from exactly one place
\* for as long as its dedup entry is running and the locality has not failed,
\* and from none otherwise, for any number of duplicates, cancellations and
\* expiries and any capacity of queues, workers and channels.
THEOREM AcceptedRequestHasOneAnswer == Spec => []OneAnswerPerEntry
  <1>1. AnswerInv => OneAnswerPerEntry
    <2> SUFFICES ASSUME AnswerInv, NEW r \in Request, ~IsLocal(r), broken[Dest[r]] = "none"
                 PROVE  LET places == {<<s, 0>> : s \in {s \in Stage : jobs[<<r, s>>] > 0}}
                                        \cup {<<"response", i>> : i \in CachedResponses(r)}
                        IN  /\ Cardinality(places) = IF dedup[r].st = "running" THEN 1 ELSE 0
                            /\ \A s \in Stage : jobs[<<r, s>>] <= 1
      BY DEF OneAnswerPerEntry
    <2> DEFINE working == {s \in Stage : jobs[<<r, s>>] > 0}
               places == {<<s, 0>> : s \in working}
                           \cup {<<"response", i>> : i \in CachedResponses(r)}
    <2>1. AnswerOf(r)
      BY DEF AnswerInv
    <2>2. \A s \in Stage : jobs[<<r, s>>] <= 1
      BY <2>1 DEF AnswerOf
    <2>3. HasJob(r) <=> working # {}
      BY DEF HasJob
    <2>4. CASE dedup[r].st # "running"
      <3>1. places = {}
        BY <2>1, <2>3, <2>4 DEF AnswerOf
      <3> QED BY <2>2, <2>4, <3>1, FS_EmptySet
    <2>5. CASE dedup[r].st = "running"
      <3>1. \E p : places = {p}
        <4>1. CASE HasJob(r)
          <5>1. PICK s : working = {s}
            BY <2>1, <4>1 DEF HasJob, AnswerOf
          <5>2. CachedResponses(r) = {}
            BY <2>1, <4>1 DEF AnswerOf
          <5> HIDE DEF working
          <5> QED BY <5>1, <5>2
        <4>2. CASE ~HasJob(r)
          <5>1. PICK i : CachedResponses(r) = {i}
            BY <2>1, <2>5, <4>2 DEF AnswerOf
          <5>2. working = {}
            BY <2>3, <4>2
          <5> HIDE DEF working
          <5>3. places = {<<"response", i>>}
            BY <5>1, <5>2
          <5> QED BY <5>3
        <4> QED BY <4>1, <4>2
      <3> HIDE DEF places
      <3>2. Cardinality(places) = 1
        BY <3>1, FS_Singleton
      <3> QED BY <2>2, <2>5, <3>2 DEF places
    <2> QED BY <2>4, <2>5
  <1> QED BY <1>1, AnswerInvariant, PTL

\* DedupTable::complete never meets an entry that is missing or already
\* completed, so its protocol errors never fail a runtime: not even one that
\* has failed, has dropped answers and is drained by shutdown afterwards.
THEOREM CompletionAlwaysMatches == Spec => []CompletionNeverMismatches
  <1>1. Init => CompletionNeverMismatches
    BY DEF Init, CompletionNeverMismatches
  <1>2. ASSUME TypeOK, ResponsesHome, AnswerInv, CompletionNeverMismatches, [Next]_vars
        PROVE  CompletionNeverMismatches'
    <2>1. UNCHANGED broken \/ \E l \in Locality, why \in {"responses full", "transport"} : Fail(l, why)
      <3>1. ASSUME NEW r \in Request, HandleRequest(r)
            PROVE  UNCHANGED broken \/ Fail(Dest[r], "responses full")
        BY <3>1 DEF HandleRequest, RequestRejected, RequestNew, RequestDuplicate, Reply, NoFail
      <3>2. ASSUME NEW r \in Request, HandleCompletion(r)
            PROVE  UNCHANGED broken \/ Fail(Dest[r], "responses full")
        BY <3>2 DEF HandleCompletion, AnswerCompletion, NoFail
      <3>3. ASSUME NEW l \in Locality, SendResponse(l)
            PROVE  UNCHANGED broken \/ Fail(l, "transport")
        BY <1>2, <3>3, SendMatches DEF SendResponse, NoFail
      <3>4. ASSUME NEW m \in Message, SendFailed(m)
            PROVE  UNCHANGED broken \/ \E l \in Locality : Fail(l, "transport")
        BY <3>4, EndsType DEF SendFailed, NoFail
      <3>5. CASE OwnerStep
        <4>1. ASSUME NEW r \in Request,
                     ExpirePending(r) \/ DispatchLocal(r) \/ HandleCancel(r) \/ HandleResponse(r)
                       \/ DedupExpire(r)
              PROVE  UNCHANGED broken
          BY <4>1 DEF ExpirePending, DispatchLocal, HandleCancel, HandleResponse, DedupExpire,
                      historyVars
        <4>2. ASSUME NEW l \in Locality,
                     ShutdownBegin(l) \/ ShutdownFinish(l) \/ ShutdownTimeout(l) \/ DropRuntime(l)
              PROVE  UNCHANGED broken
          BY <4>2 DEF ShutdownBegin, ShutdownFinish, ShutdownTimeout, DropRuntime, historyVars
        <4> QED BY <3>1, <3>2, <3>3, <3>5, <4>1, <4>2, CallsAssumption DEF OwnerStep
      <3>6. CASE ClientStep \/ WorkerStep
        BY <3>6 DEF ClientStep, SpawnCheck, SpawnInsert, SpawnSubmit, Poll, DropFuture, WorkerStep,
                    StartJob, FinishJob, historyVars
      <3>7. CASE NetworkStep
        BY <3>4, <3>7 DEF NetworkStep, DuplicateMessage, TransportFails
      <3>8. CASE UNCHANGED vars
        BY <3>8 DEF vars, historyVars
      <3> QED BY <1>2, <3>5, <3>6, <3>7, <3>8 DEF Next
    <2> QED BY <1>2, <2>1 DEF Fail, CompletionNeverMismatches, TypeOK, LifecycleType
  <1> QED BY <1>1, <1>2, TypeCorrect, HomeInvariant, AnswerInvariant, PTL DEF Spec

-----------------------------------------------------------------------------
(* The bytes that the dedup table retains.                                 *)

\* The entry of r holds a response that is charged.
Charged(r) == dedup[r].st = "completed" /\ Weight(dedup[r].resp) = 1
ChargedAt(l) == {r \in Request : Dest[r] = l /\ Charged(r)}

\* An entry without a result holds no response, so that forgetting it gives
\* nothing back.
RetainedInv ==
  /\ \A r \in Request : dedup[r].st # "completed" => dedup[r].resp = "none"
  /\ \A l \in Locality : retained[l] = Cardinality(ChargedAt(l)) /\ retained[l] <= MaxBytes

LEMMA WeightRange == \A k : Weight(k) \in {0, 1}
  BY DEF Weight

\* A step that charges and discharges nothing.
LEMMA SameCharge ==
  ASSUME RetainedInv, UNCHANGED retained,
         \A r \in Request : Charged(r)' = Charged(r),
         \A r \in Request : dedup'[r].st # "completed" => dedup'[r].resp = "none"
  PROVE  RetainedInv'
  <1>1. \A l \in Locality : ChargedAt(l)' = ChargedAt(l)
    BY DEF ChargedAt
  <1> QED BY <1>1 DEF RetainedInv

\* DedupTable::complete charges the response if it fits, and drops it if not.
LEMMA CompleteCharge ==
  ASSUME TypeOK, RetainedInv, NEW l \in Locality, NEW q \in Queued, Dest[q.request] = l,
         dedup[q.request].st # "completed", Complete(l, q)
  PROVE  RetainedInv'
  <1> DEFINE fits == retained[l] + Weight(q.kind) <= MaxBytes
             x == q.request
  <1>0. x \in Request /\ IsFiniteSet(Request) /\ MaxBytes \in Nat
    BY CallsAssumption DEF Queued
  <1>1. dedup' = [dedup EXCEPT ![x] = [st |-> "completed", resp |-> IF fits THEN q.kind ELSE "none"]]
    BY DEF Complete
  <1>2. retained' = [retained EXCEPT ![l] = IF fits THEN @ + Weight(q.kind) ELSE @]
    BY DEF Complete
  <1>3. \A r \in Request : r # x => dedup'[r] = dedup[r]
    BY <1>1
  <1>4. dedup'[x].st = "completed" /\ dedup'[x].resp = IF fits THEN q.kind ELSE "none"
    BY <1>0, <1>1 DEF TypeOK, DedupType
  <1>5. \A r \in Request : dedup'[r].st # "completed" => dedup'[r].resp = "none"
    BY <1>3, <1>4 DEF RetainedInv
  <1>6. ~Charged(x) /\ (Charged(x)' <=> fits /\ Weight(q.kind) = 1)
    BY <1>4 DEF Charged, Weight
  <1>7. \A r \in Request : r # x => Charged(r)' = Charged(r)
    BY <1>3 DEF Charged
  <1>8. \A m \in Locality : m # l => ChargedAt(m)' = ChargedAt(m) /\ retained'[m] = retained[m]
    BY <1>2, <1>7 DEF ChargedAt, TypeOK, DedupType
  <1>9. retained'[l] = (IF fits THEN retained[l] + Weight(q.kind) ELSE retained[l])
        /\ retained[l] \in Nat
    BY <1>2 DEF TypeOK, DedupType
  <1> HIDE DEF fits
  <1>10. retained'[l] = Cardinality(ChargedAt(l)') /\ retained'[l] <= MaxBytes
    <2>1. CASE fits /\ Weight(q.kind) = 1
      <3>1. ChargedAt(l)' = ChargedAt(l) \cup {x} /\ x \notin ChargedAt(l)
        BY <1>0, <1>6, <1>7, <2>1 DEF ChargedAt
      <3>2. IsFiniteSet(ChargedAt(l))
        BY <1>0, FS_Subset DEF ChargedAt
      <3>3. Cardinality(ChargedAt(l)') = Cardinality(ChargedAt(l)) + 1
        BY <3>1, <3>2, FS_AddElement
      <3>4. retained'[l] = retained[l] + 1
        BY <1>9, <2>1
      <3>5. retained[l] + 1 <= MaxBytes
        BY <2>1 DEF fits
      <3> QED BY <3>3, <3>4, <3>5 DEF RetainedInv
    <2>2. CASE ~(fits /\ Weight(q.kind) = 1)
      <3>1. ChargedAt(l)' = ChargedAt(l)
        BY <1>6, <1>7, <2>2 DEF ChargedAt
      <3>2. retained'[l] = retained[l]
        BY <1>9, <2>2, WeightRange
      <3> QED BY <3>1, <3>2 DEF RetainedInv
    <2> QED BY <2>1, <2>2
  <1> QED BY <1>5, <1>8, <1>10 DEF RetainedInv

\* DedupTable::expire gives back exactly what the entry was charged.
LEMMA ExpireCharge ==
  ASSUME TypeOK, RetainedInv, NEW x \in Request, DedupExpire(x) PROVE RetainedInv'
  <1> DEFINE l == Dest[x]
  <1>0. l \in Locality /\ IsFiniteSet(Request)
    BY CallsAssumption
  <1>1. dedup' = [dedup EXCEPT ![x] = NoEntry]
    BY DEF DedupExpire
  <1>2. retained' = [retained EXCEPT ![l] = SaturatingSub(@, Weight(dedup[x].resp))]
    BY DEF DedupExpire
  <1>3. dedup'[x] = NoEntry /\ \A r \in Request : r # x => dedup'[r] = dedup[r]
    BY <1>1 DEF TypeOK, DedupType
  <1>4. \A r \in Request : dedup'[r].st # "completed" => dedup'[r].resp = "none"
    BY <1>3 DEF RetainedInv, NoEntry
  <1>5. ~Charged(x)' /\ \A r \in Request : r # x => Charged(r)' = Charged(r)
    BY <1>3 DEF Charged, NoEntry
  <1>6. \A m \in Locality : m # l => ChargedAt(m)' = ChargedAt(m) /\ retained'[m] = retained[m]
    BY <1>2, <1>5 DEF ChargedAt, TypeOK, DedupType
  <1>7. retained'[l] = SaturatingSub(retained[l], Weight(dedup[x].resp)) /\ retained[l] \in Nat
    BY <1>0, <1>2 DEF TypeOK, DedupType
  <1>8. IsFiniteSet(ChargedAt(l))
    BY <1>0, FS_Subset DEF ChargedAt
  <1>9. retained'[l] = Cardinality(ChargedAt(l)') /\ retained'[l] <= retained[l]
    <2>1. CASE Charged(x)
      <3>1. x \in ChargedAt(l) /\ ChargedAt(l)' = ChargedAt(l) \ {x}
        BY <1>5, <2>1 DEF ChargedAt
      <3>2. Cardinality(ChargedAt(l)') = Cardinality(ChargedAt(l)) - 1
        BY <1>8, <3>1, FS_RemoveElement
      <3>3. Cardinality(ChargedAt(l)) # 0
        BY <1>8, <3>1, FS_EmptySet
      <3>4. retained[l] = Cardinality(ChargedAt(l)) /\ Weight(dedup[x].resp) = 1
        BY <1>0, <2>1 DEF RetainedInv, Charged
      <3>5. retained'[l] = retained[l] - 1
        BY <1>7, <3>3, <3>4 DEF SaturatingSub
      <3> QED BY <1>7, <3>2, <3>4, <3>5
    <2>2. CASE ~Charged(x)
      <3>1. ChargedAt(l)' = ChargedAt(l)
        BY <1>5, <2>2 DEF ChargedAt
      <3>2. Weight(dedup[x].resp) = 0
        <4>1. CASE dedup[x].st = "completed"
          BY <2>2, <4>1, WeightRange DEF Charged
        <4>2. CASE dedup[x].st # "completed"
          BY <4>2 DEF RetainedInv, Weight
        <4> QED BY <4>1, <4>2
      <3>3. retained'[l] = retained[l]
        BY <1>7, <3>2 DEF SaturatingSub
      <3> QED BY <1>0, <1>7, <3>1, <3>3 DEF RetainedInv
    <2> QED BY <2>1, <2>2
  <1>10. retained'[l] <= MaxBytes
    <2>1. retained[l] <= MaxBytes /\ MaxBytes \in Nat
      BY <1>0, CallsAssumption DEF RetainedInv
    <2>2. retained'[l] \in Nat
      BY <1>7, WeightRange DEF SaturatingSub
    <2> QED BY <1>7, <1>9, <2>1, <2>2
  <1> HIDE DEF l
  <1> QED BY <1>4, <1>6, <1>9, <1>10 DEF RetainedInv

LEMMA FinishCharge ==
  ASSUME TypeOK, RetainedInv, NEW l \in Locality, ShutdownFinish(l) PROVE RetainedInv'
  <1>1. dedup' = [r \in Request |-> IF Dest[r] = l THEN NoEntry ELSE dedup[r]]
    BY DEF ShutdownFinish
  <1>2. retained' = [retained EXCEPT ![l] = 0]
    BY DEF ShutdownFinish
  <1>3. \A r \in Request : dedup'[r].st # "completed" => dedup'[r].resp = "none"
    BY <1>1 DEF RetainedInv, NoEntry
  <1>4. \A r \in Request : Charged(r)' <=> Dest[r] # l /\ Charged(r)
    BY <1>1 DEF Charged, NoEntry
  <1>5. ChargedAt(l)' = {} /\ \A m \in Locality : m # l => ChargedAt(m)' = ChargedAt(m)
    BY <1>4 DEF ChargedAt
  <1>6. retained'[l] = 0 /\ \A m \in Locality : m # l => retained'[m] = retained[m]
    BY <1>2 DEF TypeOK, DedupType
  <1>7. Cardinality(ChargedAt(l)') = 0 /\ 0 <= MaxBytes
    BY <1>5, FS_EmptySet, CallsAssumption
  <1> QED BY <1>3, <1>5, <1>6, <1>7 DEF RetainedInv

LEMMA RequestCharge ==
  ASSUME TypeOK, RetainedInv, NEW q \in Request, HandleRequest(q) PROVE RetainedInv'
  <1>1. UNCHANGED retained
    BY DEF HandleRequest
  <1>2. UNCHANGED dedup \/ (dedup[q].st = "none" /\ dedup' = [dedup EXCEPT ![q] = RunningEntry])
    BY DEF HandleRequest, RequestRejected, RequestNew, RequestDuplicate
  <1>3. \A r \in Request : Charged(r)' = Charged(r)
    BY <1>2 DEF Charged, RunningEntry, TypeOK, DedupType
  <1>4. \A r \in Request : dedup'[r].st # "completed" => dedup'[r].resp = "none"
    BY <1>2 DEF RetainedInv, RunningEntry, TypeOK, DedupType
  <1> QED BY <1>1, <1>3, <1>4, SameCharge

LEMMA CancelCharge ==
  ASSUME TypeOK, RetainedInv, NEW q \in Request, HandleCancel(q) PROVE RetainedInv'
  <1>1. UNCHANGED retained
    BY DEF HandleCancel
  <1>2. PICK room : dedup' = [dedup EXCEPT ![q] = AfterCancel(@, room)]
    BY DEF HandleCancel
  <1>3. \A r \in Request : dedup'[r] = dedup[r] \/ (dedup[r].st = "none" /\ dedup'[r] = CancelledEntry)
    BY <1>2 DEF AfterCancel, TypeOK, DedupType
  <1>4. \A r \in Request : Charged(r)' = Charged(r)
    BY <1>3 DEF Charged, CancelledEntry
  <1>5. \A r \in Request : dedup'[r].st # "completed" => dedup'[r].resp = "none"
    BY <1>3 DEF RetainedInv, CancelledEntry
  <1> QED BY <1>1, <1>4, <1>5, SameCharge

LEMMA SendCharge ==
  ASSUME TypeOK, ResponsesHome, AnswerInv, RetainedInv, NEW l \in Locality, SendResponse(l)
  PROVE  RetainedInv'
  <1> DEFINE q == Head(responses[l])
  <1>1. q \in Queued /\ Dest[q.request] = l
    BY TailElements DEF SendResponse, TypeOK, ResponseType, ResponsesHome
  <1>2. CASE q.cache /\ Complete(l, q)
    <2>1. dedup[q.request].st # "completed"
      BY <1>2, SendMatches
    <2> HIDE DEF q
    <2> QED BY <1>1, <1>2, <2>1, CompleteCharge
  <1>3. CASE UNCHANGED <<dedup, retained>>
    BY <1>3, SameCharge DEF Charged, RetainedInv
  <1> QED BY <1>2, <1>3 DEF SendResponse

\* DedupTable::retained_bytes is what the table holds, and within its budget,
\* through completion, expiry, failure and shutdown, for every budget: the
\* subtraction of expire never saturates.
THEOREM RetainedBytesAreExact == Spec => []RetainedBytesExact
  <1>1. Init => RetainedInv
    <2> SUFFICES ASSUME Init PROVE RetainedInv
      OBVIOUS
    <2>1. \A l \in Locality : ChargedAt(l) = {}
      BY DEF Init, ChargedAt, Charged, NoEntry
    <2>2. \A l \in Locality : retained[l] = 0 /\ Cardinality(ChargedAt(l)) = 0 /\ 0 <= MaxBytes
      <3>1. Cardinality({}) = 0
        BY FS_EmptySet
      <3>2. 0 <= MaxBytes
        BY CallsAssumption
      <3>3. \A l \in Locality : retained[l] = 0
        BY DEF Init
      <3> QED BY <2>1, <3>1, <3>2, <3>3
    <2>3. \A r \in Request : dedup[r].resp = "none"
      BY DEF Init, NoEntry
    <2> QED BY <2>2, <2>3 DEF RetainedInv
  <1>2. ASSUME TypeOK, ResponsesHome, AnswerInv, RetainedInv, [Next]_vars PROVE RetainedInv'
    <2>0. ASSUME UNCHANGED <<dedup, retained>> PROVE RetainedInv'
      BY <1>2, <2>0, SameCharge DEF Charged, RetainedInv
    <2>1. ASSUME NEW r \in Request,
                 ExpirePending(r) \/ DispatchLocal(r) \/ HandleCompletion(r) \/ HandleResponse(r)
          PROVE  UNCHANGED <<dedup, retained>>
      BY <2>1 DEF ExpirePending, DispatchLocal, HandleCompletion, HandleResponse, tableVars
    <2>2. ASSUME NEW l \in Locality, ShutdownBegin(l) \/ ShutdownTimeout(l) \/ DropRuntime(l)
          PROVE  UNCHANGED <<dedup, retained>>
      BY <2>2 DEF ShutdownBegin, ShutdownTimeout, DropRuntime, tableVars
    <2>3. CASE ClientStep \/ WorkerStep \/ NetworkStep
      <3>1. UNCHANGED <<dedup, retained>>
        BY <2>3 DEF ClientStep, SpawnCheck, SpawnInsert, SpawnSubmit, Poll, DropFuture, WorkerStep,
                    StartJob, FinishJob, NetworkStep, DuplicateMessage, SendFailed, TransportFails,
                    tableVars
      <3> QED BY <2>0, <3>1
    <2>4. CASE OwnerStep
      BY <1>2, <2>0, <2>1, <2>2, <2>4, RequestCharge, CancelCharge, ExpireCharge, SendCharge,
         FinishCharge DEF OwnerStep
    <2>5. CASE UNCHANGED vars
      BY <2>0, <2>5 DEF vars, tableVars
    <2> QED BY <1>2, <2>3, <2>4, <2>5 DEF Next
  <1>3. RetainedInv => RetainedBytesExact
    <2>1. \A l : ChargedAt(l) = {r \in Request : /\ Dest[r] = l
                                                 /\ dedup[r].st = "completed"
                                                 /\ Weight(dedup[r].resp) = 1}
      BY DEF ChargedAt, Charged
    <2> QED BY <2>1 DEF RetainedInv, RetainedBytesExact
  <1> QED BY <1>1, <1>2, <1>3, TypeCorrect, HomeInvariant, AnswerInvariant, PTL DEF Spec

-----------------------------------------------------------------------------
(* What waits for what: a spawn that has passed its check holds the work   *)
(* gate of its locality, and the pending table and the local channel hold  *)
(* calls of their own locality only.                                       *)

Known(r) == call[r] \notin {"unborn", "checked"}

SpawnInv ==
  /\ \A r \in Request : call[r] \in {"checked", "inserted"} => gate[Origin[r]] = r
  /\ \A l \in Locality : \A r \in pending[l] : Origin[r] = l /\ Known(r)
  /\ \A l \in Locality : \A r \in localq[l] : Origin[r] = l /\ ~Unsent(r)

\* A step that admits no call: tables shrink, calls end.
Shrinks ==
  /\ UNCHANGED gate
  /\ \A l \in Locality : pending'[l] \subseteq pending[l] /\ localq'[l] \subseteq localq[l]
  /\ \A r \in Request :
       call'[r] = call[r] \/ (call[r] = "live" /\ call'[r] \in {"done", "dropped"})

LEMMA ShrinksKeeps ==
  ASSUME TypeOK, SpawnInv, Shrinks PROVE SpawnInv'
  <1>1. \A r \in Request : call'[r] \in {"checked", "inserted"} => gate'[Origin[r]] = r
    BY DEF SpawnInv, Shrinks
  <1>2. \A r \in Request : (Known(r) => Known(r)') /\ (~Unsent(r) => ~Unsent(r)')
    BY DEF Shrinks, Known, Unsent
  <1>3. \A l \in Locality : \A r \in pending'[l] : Origin[r] = l /\ Known(r)'
    BY <1>2 DEF SpawnInv, Shrinks, TypeOK, WaiterType
  <1>4. \A l \in Locality : \A r \in localq'[l] : Origin[r] = l /\ ~Unsent(r)'
    BY <1>2 DEF SpawnInv, Shrinks, TypeOK, SpawnType
  <1> QED BY <1>1, <1>3, <1>4 DEF SpawnInv, Known, Unsent

LEMMA FailShrinks ==
  ASSUME TypeOK, NEW l \in Locality, NEW why, Fail(l, why) \/ NoFail, UNCHANGED <<gate, call, localq>>
  PROVE  Shrinks
  BY DEF Fail, NoFail, Shrinks, TypeOK, WaiterType

LEMMA OwnerShrinks ==
  ASSUME TypeOK, OwnerStep PROVE Shrinks
  <1>1. ASSUME NEW r \in Request, ExpirePending(r) \/ HandleResponse(r) PROVE Shrinks
    BY <1>1, CallsAssumption DEF ExpirePending, HandleResponse, Shrinks, TypeOK, WaiterType
  <1>2. ASSUME NEW r \in Request, DispatchLocal(r) PROVE Shrinks
    <2>1. UNCHANGED <<gate, call>>
      BY <1>2 DEF DispatchLocal
    <2>2. \A l \in Locality : localq'[l] \subseteq localq[l]
      BY <1>2, CallsAssumption DEF DispatchLocal, TypeOK, SpawnType
    <2>3. \A l \in Locality : pending'[l] \subseteq pending[l]
      BY <1>2, CallsAssumption DEF DispatchLocal, TypeOK, WaiterType
    <2> QED BY <2>1, <2>2, <2>3 DEF Shrinks
  <1>3. ASSUME NEW r \in Request, HandleCompletion(r) PROVE Shrinks
    <2>1. UNCHANGED <<gate, call, localq>> /\ Dest[r] \in Locality
      BY <1>3, CallsAssumption DEF HandleCompletion
    <2>2. \/ pending' = [pending EXCEPT ![Dest[r]] = @ \ {r}]
          \/ NoFail \/ Fail(Dest[r], "responses full")
      BY <1>3 DEF HandleCompletion, AnswerCompletion
    <2>3. CASE pending' = [pending EXCEPT ![Dest[r]] = @ \ {r}]
      BY <2>1, <2>3 DEF Shrinks, TypeOK, WaiterType
    <2> QED BY <2>1, <2>2, <2>3, FailShrinks
  <1>4. ASSUME NEW r \in Request, HandleRequest(r) PROVE Shrinks
    <2>1. NoFail \/ Fail(Dest[r], "responses full")
      BY <1>4 DEF HandleRequest, RequestRejected, RequestNew, RequestDuplicate, Reply
    <2> QED BY <1>4, <2>1, FailShrinks, CallsAssumption DEF HandleRequest
  <1>5. ASSUME NEW r \in Request, HandleCancel(r) \/ DedupExpire(r) PROVE Shrinks
    BY <1>5 DEF HandleCancel, DedupExpire, clientVars, Shrinks
  <1>6. ASSUME NEW l \in Locality, SendResponse(l) PROVE Shrinks
    <2>1. NoFail \/ Fail(l, "protocol") \/ Fail(l, "transport")
      BY <1>6 DEF SendResponse
    <2> QED BY <1>6, <2>1, FailShrinks DEF SendResponse
  <1>7. ASSUME NEW l \in Locality, ShutdownBegin(l) PROVE Shrinks
    BY <1>7 DEF ShutdownBegin, Shrinks, TypeOK, SpawnType, WaiterType
  <1>8. ASSUME NEW l \in Locality, DropRuntime(l) PROVE Shrinks
    BY <1>8 DEF DropRuntime, Shrinks, TypeOK, WaiterType
  <1>9. ASSUME NEW l \in Locality, ShutdownFinish(l) \/ ShutdownTimeout(l) PROVE Shrinks
    BY <1>9 DEF ShutdownFinish, ShutdownTimeout, clientVars, Shrinks
  <1> QED BY <1>1, <1>2, <1>3, <1>4, <1>5, <1>6, <1>7, <1>8, <1>9 DEF OwnerStep

LEMMA NetworkShrinks ==
  ASSUME TypeOK, NetworkStep PROVE Shrinks
  <1>1. ASSUME NEW m \in Message, DuplicateMessage(m) PROVE Shrinks
    BY <1>1 DEF DuplicateMessage, clientVars, Shrinks
  <1>2. ASSUME NEW m \in Message, SendFailed(m) PROVE Shrinks
    <2> DEFINE l == IF m[1] \in {"Request", "Cancel"} THEN Origin[m[2]] ELSE Dest[m[2]]
    <2>1. l \in Locality
      BY <1>2, EndsType
    <2>2. UNCHANGED <<gate, call, localq>>
      BY <1>2 DEF SendFailed
    <2>3. NoFail \/ Fail(l, "transport") \/ pending' = [pending EXCEPT ![l] = @ \ {m[2]}]
      BY <1>2 DEF SendFailed
    <2> HIDE DEF l
    <2>4. CASE pending' = [pending EXCEPT ![l] = @ \ {m[2]}]
      BY <2>1, <2>2, <2>4 DEF Shrinks, TypeOK, WaiterType
    <2> QED BY <2>1, <2>2, <2>3, <2>4, FailShrinks
  <1>3. ASSUME NEW l \in Locality, TransportFails(l) PROVE Shrinks
    BY <1>3, FailShrinks DEF TransportFails
  <1> QED BY <1>1, <1>2, <1>3 DEF NetworkStep

\* The steps that are no spawn.
Admits(r) == SpawnCheck(r) \/ SpawnInsert(r) \/ SpawnSubmit(r)

LEMMA ShrinkSteps ==
  ASSUME TypeOK, [Next]_vars PROVE Shrinks \/ \E r \in Request : Admits(r)
  <1>1. ASSUME NEW r \in Request, Poll(r) PROVE Shrinks
    BY <1>1 DEF Poll, Shrinks, TypeOK, SpawnType
  <1>2. ASSUME NEW r \in Request, DropFuture(r) PROVE Shrinks
    BY <1>2, CallsAssumption DEF DropFuture, Shrinks, TypeOK, SpawnType, WaiterType
  <1>3. CASE WorkerStep
    BY <1>3 DEF WorkerStep, StartJob, FinishJob, clientVars, Shrinks
  <1>4. CASE UNCHANGED vars
    BY <1>4 DEF vars, clientVars, Shrinks
  <1> QED BY <1>1, <1>2, <1>3, <1>4, OwnerShrinks, NetworkShrinks DEF Next, ClientStep, Admits

LEMMA AdmitsKeeps ==
  ASSUME TypeOK, ExecutionInv, SpawnInv, NEW q \in Request, Admits(q) PROVE SpawnInv'
  <1>0. \A r \in Request : Origin[r] \in Locality
    BY CallsAssumption
  <1>1. CASE SpawnCheck(q)
    <2>1. UNCHANGED <<pending, localq>>
      BY <1>1 DEF SpawnCheck
    <2>2. \A r \in Request : r # q => call'[r] = call[r]
      BY <1>1 DEF SpawnCheck, TypeOK, SpawnType
    <2>3. call'[q] \in {"checked", "refused"} /\ call[q] = "unborn"
      BY <1>1 DEF SpawnCheck, TypeOK, SpawnType
    <2>4. ASSUME NEW r \in Request, call'[r] \in {"checked", "inserted"} PROVE gate'[Origin[r]] = r
      <3>1. CASE r = q
        BY <1>0, <1>1, <2>4, <3>1 DEF SpawnCheck, TypeOK, SpawnType
      <3>2. CASE r # q
        <4>1. gate[Origin[r]] = r /\ gate[Origin[q]] = NoRequest /\ NoRequest \notin Request
          BY <1>1, <2>2, <2>4, <3>2, CallsAssumption DEF SpawnInv, SpawnCheck
        <4>2. Origin[r] # Origin[q]
          BY <4>1
        <4> QED BY <1>0, <1>1, <4>1, <4>2 DEF SpawnCheck, TypeOK, SpawnType
      <3> QED BY <3>1, <3>2
    <2>5. \A l \in Locality : q \notin pending[l] /\ q \notin localq[l]
      BY <2>3 DEF SpawnInv, Known, Unsent
    <2> QED BY <2>1, <2>2, <2>4, <2>5 DEF SpawnInv, Known, Unsent, TypeOK, WaiterType, SpawnType
  <1>2. CASE SpawnInsert(q)
    <2>1. UNCHANGED localq /\ call[q] = "checked" /\ gate[Origin[q]] = q
      BY <1>2 DEF SpawnInsert, SpawnInv
    <2>2. \A r \in Request : r # q => call'[r] = call[r]
      BY <1>2 DEF SpawnInsert, TypeOK, SpawnType
    <2>3. call'[q] \in {"inserted", "refused"}
      BY <1>2 DEF SpawnInsert, TypeOK, SpawnType
    <2>4. ASSUME NEW r \in Request, call'[r] \in {"checked", "inserted"} PROVE gate'[Origin[r]] = r
      <3>1. CASE r = q
        BY <1>0, <1>2, <2>1, <2>4, <3>1 DEF SpawnInsert, TypeOK, SpawnType
      <3>2. CASE r # q
        <4>1. gate[Origin[r]] = r
          BY <2>2, <2>4, <3>2 DEF SpawnInv
        <4>2. Origin[r] # Origin[q]
          BY <2>1, <3>2, <4>1
        <4> QED BY <1>0, <1>2, <4>1, <4>2 DEF SpawnInsert, TypeOK, SpawnType
      <3> QED BY <3>1, <3>2
    <2>5. ASSUME NEW l \in Locality, NEW r \in pending'[l] PROVE Origin[r] = l /\ Known(r)'
      <3>1. r \in pending[l] \/ (r = q /\ l = Origin[q] /\ call'[q] = "inserted")
        BY <1>0, <1>2 DEF SpawnInsert, TypeOK, WaiterType, SpawnType
      <3>2. r \in Request
        BY <3>1 DEF TypeOK, WaiterType
      <3> QED BY <2>2, <2>3, <3>1, <3>2 DEF SpawnInv, Known
    <2>6. \A l \in Locality : q \notin localq[l]
      BY <2>1 DEF SpawnInv, Unsent
    <2> QED BY <2>1, <2>2, <2>4, <2>5, <2>6 DEF SpawnInv, Unsent, TypeOK, SpawnType
  <1>3. CASE SpawnSubmit(q)
    <2>1. call[q] = "inserted" /\ gate[Origin[q]] = q
      BY <1>3 DEF SpawnSubmit, SpawnInv
    <2>2. \A r \in Request : r # q => call'[r] = call[r]
      BY <1>3 DEF SpawnSubmit, TypeOK, SpawnType
    <2>3. call'[q] \in {"live", "refused"}
      BY <1>3 DEF SpawnSubmit, TypeOK, SpawnType
    <2>4. ASSUME NEW r \in Request, call'[r] \in {"checked", "inserted"} PROVE gate'[Origin[r]] = r
      <3>1. r # q
        BY <2>3, <2>4
      <3>2. gate[Origin[r]] = r
        BY <2>2, <2>4, <3>1 DEF SpawnInv
      <3>3. Origin[r] # Origin[q]
        BY <2>1, <3>1, <3>2
      <3> QED BY <1>0, <1>3, <3>2, <3>3 DEF SpawnSubmit, TypeOK, SpawnType
    <2>5. ASSUME NEW l \in Locality, NEW r \in pending'[l] PROVE Origin[r] = l /\ Known(r)'
      <3>1. r \in pending[l]
        BY <1>0, <1>3 DEF SpawnSubmit, TypeOK, WaiterType
      <3>2. r \in Request
        BY <3>1 DEF TypeOK, WaiterType
      <3> QED BY <2>2, <2>3, <3>1, <3>2 DEF SpawnInv, Known
    <2>6. ASSUME NEW l \in Locality, NEW r \in localq'[l] PROVE Origin[r] = l /\ ~Unsent(r)'
      <3>1. r \in localq[l] \/ (r = q /\ l = Origin[q])
        BY <1>0, <1>3 DEF SpawnSubmit, TypeOK, SpawnType
      <3>2. r \in Request
        BY <3>1 DEF TypeOK, SpawnType
      <3> QED BY <2>2, <2>3, <3>1, <3>2 DEF SpawnInv, Unsent
    <2> QED BY <2>4, <2>5, <2>6 DEF SpawnInv
  <1> QED BY <1>1, <1>2, <1>3 DEF Admits

LEMMA SpawnInvariant == Spec => []SpawnInv
  <1>1. Init => SpawnInv
    BY DEF Init, SpawnInv
  <1>2. TypeOK /\ ExecutionInv /\ SpawnInv /\ [Next]_vars => SpawnInv'
    BY ShrinkSteps, ShrinksKeeps, AdmitsKeeps
  <1> QED BY <1>1, <1>2, TypeCorrect, ExecutionInvariant, PTL DEF Spec

-----------------------------------------------------------------------------
(* Shutdown.  Draining is entered with the work gate free, so that no spawn *)
(* is under way, and empties the tables that spawns fill; Stopped is entered *)
(* from there, once domain and responses are drained.                      *)

StopGate ==
  \A l \in Locality :
    state[l] \in {"Draining", "Stopped"} => gate[l] = NoRequest /\ pending[l] = {}

Closing(l) == owner[l] = "closing" /\ state[l] = "Draining"
StopLocal ==
  \A l \in Locality : Closing(l) \/ state[l] = "Stopped" => localq[l] = {}

Cleared(r) == dedup[r].st = "none" /\ ~HasJob(r)
StopTables ==
  \A l \in Locality : state[l] = "Stopped" =>
    /\ \A r \in Request : Dest[r] = l => Cleared(r)
    /\ responses[l] = << >>
    /\ retained[l] = 0

StopInv == StopGate /\ StopLocal /\ StopTables

\* What a step does to the lifecycle of a locality.
LifecycleStep(l) ==
  \/ state'[l] = state[l] /\ owner'[l] = owner[l]
  \/ state'[l] = "Failed"
  \/ ShutdownBegin(l)
  \/ ShutdownFinish(l)
  \/ DropRuntime(l)

LEMMA FailLifecycle ==
  ASSUME TypeOK, NEW m \in Locality, NEW why, Fail(m, why) \/ NoFail
  PROVE  \A l \in Locality : LifecycleStep(l)
  BY DEF Fail, NoFail, LifecycleStep, TypeOK, LifecycleType

LEMMA LifecycleSteps ==
  ASSUME TypeOK, [Next]_vars PROVE \A l \in Locality : LifecycleStep(l)
  <1>0. ASSUME UNCHANGED <<state, owner>> PROVE \A l \in Locality : LifecycleStep(l)
    BY <1>0 DEF LifecycleStep
  <1>1. CASE ClientStep
    <2>1. UNCHANGED <<state, owner>>
      BY <1>1 DEF ClientStep, SpawnCheck, SpawnInsert, SpawnSubmit, Poll, DropFuture
    <2> QED BY <1>0, <2>1
  <1>2. CASE WorkerStep
    <2>1. UNCHANGED <<state, owner>>
      BY <1>2 DEF WorkerStep, StartJob, FinishJob
    <2> QED BY <1>0, <2>1
  <1>3. CASE NetworkStep
    <2>1. ASSUME NEW m \in Message, DuplicateMessage(m) PROVE \A l \in Locality : LifecycleStep(l)
      BY <1>0, <2>1 DEF DuplicateMessage
    <2>2. ASSUME NEW m \in Message, SendFailed(m) PROVE \A l \in Locality : LifecycleStep(l)
      <3> DEFINE n == IF m[1] \in {"Request", "Cancel"} THEN Origin[m[2]] ELSE Dest[m[2]]
      <3>1. n \in Locality
        BY EndsType
      <3>2. UNCHANGED <<state, owner>> \/ NoFail \/ Fail(n, "transport")
        BY <2>2 DEF SendFailed
      <3> HIDE DEF n
      <3> QED BY <1>0, <3>1, <3>2, FailLifecycle
    <2>3. ASSUME NEW m \in Locality, TransportFails(m) PROVE \A l \in Locality : LifecycleStep(l)
      BY <2>3, FailLifecycle DEF TransportFails
    <2> QED BY <1>3, <2>1, <2>2, <2>3 DEF NetworkStep
  <1>4. CASE OwnerStep
    <2>1. ASSUME NEW r \in Request,
                 ExpirePending(r) \/ DispatchLocal(r) \/ HandleCancel(r) \/ HandleResponse(r)
                   \/ DedupExpire(r)
          PROVE  UNCHANGED <<state, owner>>
      BY <2>1 DEF ExpirePending, DispatchLocal, HandleCancel, HandleResponse, DedupExpire
    <2>2. ASSUME NEW r \in Request, HandleCompletion(r) PROVE \A l \in Locality : LifecycleStep(l)
      <3>1. UNCHANGED <<state, owner>> \/ NoFail \/ Fail(Dest[r], "responses full")
        BY <2>2 DEF HandleCompletion, AnswerCompletion
      <3> QED BY <1>0, <3>1, FailLifecycle, CallsAssumption
    <2>3. ASSUME NEW r \in Request, HandleRequest(r) PROVE \A l \in Locality : LifecycleStep(l)
      <3>1. NoFail \/ Fail(Dest[r], "responses full")
        BY <2>3 DEF HandleRequest, RequestRejected, RequestNew, RequestDuplicate, Reply
      <3> QED BY <3>1, FailLifecycle, CallsAssumption
    <2>4. ASSUME NEW m \in Locality, SendResponse(m) PROVE \A l \in Locality : LifecycleStep(l)
      <3>1. NoFail \/ Fail(m, "protocol") \/ Fail(m, "transport")
        BY <2>4 DEF SendResponse
      <3> QED BY <3>1, FailLifecycle
    <2>5. ASSUME NEW m \in Locality, ShutdownBegin(m) PROVE \A l \in Locality : LifecycleStep(l)
      <3>1. \A l \in Locality : l # m => state'[l] = state[l] /\ owner'[l] = owner[l]
        BY <2>5 DEF ShutdownBegin, TypeOK, LifecycleType
      <3> QED BY <2>5, <3>1 DEF LifecycleStep
    <2>6. ASSUME NEW m \in Locality, ShutdownFinish(m) PROVE \A l \in Locality : LifecycleStep(l)
      <3>1. \A l \in Locality : l # m => state'[l] = state[l] /\ owner'[l] = owner[l]
        BY <2>6 DEF ShutdownFinish, TypeOK, LifecycleType
      <3> QED BY <2>6, <3>1 DEF LifecycleStep
    <2>7. ASSUME NEW m \in Locality, DropRuntime(m) PROVE \A l \in Locality : LifecycleStep(l)
      <3>1. \A l \in Locality : l # m => state'[l] = state[l] /\ owner'[l] = owner[l]
        BY <2>7 DEF DropRuntime, TypeOK, LifecycleType
      <3> QED BY <2>7, <3>1 DEF LifecycleStep
    <2>8. ASSUME NEW m \in Locality, ShutdownTimeout(m) PROVE \A l \in Locality : LifecycleStep(l)
      BY <2>8 DEF ShutdownTimeout, LifecycleStep, TypeOK, LifecycleType
    <2> QED BY <1>0, <1>4, <2>1, <2>2, <2>3, <2>4, <2>5, <2>6, <2>7, <2>8 DEF OwnerStep
  <1>5. CASE UNCHANGED vars
    BY <1>0, <1>5 DEF vars
  <1> QED BY <1>1, <1>2, <1>3, <1>4, <1>5 DEF Next

\* The tables that spawns fill.
LEMMA StopSpawnStep ==
  ASSUME TypeOK, SpawnInv, StopGate, StopLocal, [Next]_vars
  PROVE  StopGate' /\ StopLocal'
  <1>1. CASE Shrinks
    <2> SUFFICES ASSUME NEW l \in Locality
                 PROVE  /\ state'[l] \in {"Draining", "Stopped"}
                             => gate'[l] = NoRequest /\ pending'[l] = {}
                        /\ Closing(l)' \/ state'[l] = "Stopped" => localq'[l] = {}
      BY DEF StopGate, StopLocal
    <2>0. gate'[l] = gate[l] /\ pending'[l] \subseteq pending[l] /\ localq'[l] \subseteq localq[l]
      BY <1>1 DEF Shrinks
    <2>1. CASE state'[l] = state[l] /\ owner'[l] = owner[l]
      BY <2>0, <2>1 DEF StopGate, StopLocal, Closing
    <2>2. CASE state'[l] = "Failed"
      BY <2>2 DEF Closing
    <2>3. CASE ShutdownBegin(l)
      BY <2>0, <2>3 DEF ShutdownBegin, TypeOK, SpawnType, WaiterType
    <2>4. CASE ShutdownFinish(l)
      <3>1. state[l] = "Draining" /\ Closing(l)
        BY <2>4 DEF ShutdownFinish, Closing
      <3> QED BY <2>0, <3>1 DEF StopGate, StopLocal
    <2>5. CASE DropRuntime(l)
      <3>1. owner'[l] = "gone"
        BY <2>5 DEF DropRuntime, TypeOK, LifecycleType
      <3>2. CASE state[l] \in {"Stopped", "Failed"}
        BY <2>0, <2>5, <3>1, <3>2 DEF DropRuntime, StopGate, StopLocal, Closing
      <3>3. CASE state[l] \notin {"Stopped", "Failed"}
        <4>1. state'[l] = "Draining" /\ gate[l] = NoRequest /\ pending'[l] = {}
          BY <2>5, <3>3 DEF DropRuntime, TypeOK, LifecycleType, WaiterType
        <4> QED BY <2>0, <3>1, <4>1 DEF Closing
      <3> QED BY <3>2, <3>3
    <2> QED BY <2>1, <2>2, <2>3, <2>4, <2>5, LifecycleSteps DEF LifecycleStep
  <1>2. ASSUME NEW q \in Request, Admits(q) PROVE StopGate' /\ StopLocal'
    <2>0. UNCHANGED <<state, owner>> /\ Origin[q] \in Locality /\ NoRequest # q
      BY <1>2, CallsAssumption DEF Admits, SpawnCheck, SpawnInsert, SpawnSubmit
    <2>1. state[Origin[q]] \in {"Draining", "Stopped"} => SpawnCheck(q)
      BY <1>2, <2>0 DEF Admits, SpawnInv, StopGate, SpawnInsert, SpawnSubmit
    <2>2. CASE SpawnCheck(q)
      <3>1. UNCHANGED <<pending, localq>>
        BY <2>2 DEF SpawnCheck
      <3>2. \A l \in Locality : gate'[l] = gate[l] \/ state[l] = "Running"
        BY <2>0, <2>2 DEF SpawnCheck, TypeOK, SpawnType
      <3> QED BY <2>0, <3>1, <3>2 DEF StopGate, StopLocal, Closing
    <2>3. CASE state[Origin[q]] \notin {"Draining", "Stopped"}
      <3>1. \A l \in Locality : l # Origin[q] =>
               gate'[l] = gate[l] /\ pending'[l] = pending[l] /\ localq'[l] = localq[l]
        BY <1>2, <2>0 DEF Admits, SpawnCheck, SpawnInsert, SpawnSubmit, TypeOK, SpawnType, WaiterType
      <3> QED BY <2>0, <2>3, <3>1 DEF StopGate, StopLocal, Closing
    <2> QED BY <2>1, <2>2, <2>3
  <1> QED BY <1>1, <1>2, ShrinkSteps

\* The tables of a locality whose owner does not progress.
TablesKept(l) ==
  /\ responses'[l] = responses[l]
  /\ retained'[l] = retained[l]
  /\ \A r \in Request : Dest[r] = l => dedup'[r] = dedup[r] /\ (HasJob(r)' => HasJob(r))

\* A step that touches the jobs and the entry of q and the queue of m only.
LEMMA ElsewhereKeeps ==
  ASSUME TypeOK, NEW l \in Locality, NEW q \in Request, Dest[q] # l,
         NEW m \in Locality, m # l,
         \A r \in Request : r # q => dedup'[r] = dedup[r],
         \A r \in Request, s \in Stage : r # q => jobs'[<<r, s>>] = jobs[<<r, s>>],
         \A n \in Locality : n # m => responses'[n] = responses[n] /\ retained'[n] = retained[n]
  PROVE  TablesKept(l)
  BY DEF TablesKept, HasJob

LEMMA ReplyElsewhere ==
  ASSUME TypeOK, NEW m \in Locality, NEW r, NEW k, Reply(m, r, k)
  PROVE  \A n \in Locality : n # m => responses'[n] = responses[n]
  BY DEF Reply, QueueResponse, TypeOK, ResponseType

LEMMA OwnerKeepsTables ==
  ASSUME TypeOK, ExecutionInv, ResponsesHome, NEW l \in Locality, ~CanProgress(l), OwnerStep
  PROVE  TablesKept(l) \/ ShutdownFinish(l)
  <1>0. ASSUME UNCHANGED <<dedup, retained, responses, jobs>> PROVE TablesKept(l)
    BY <1>0 DEF TablesKept, HasJob
  <1>1. ASSUME NEW q \in Request, ExpirePending(q) \/ HandleResponse(q) PROVE TablesKept(l)
    BY <1>0, <1>1 DEF ExpirePending, HandleResponse, tableVars
  <1>2. ASSUME NEW q \in Request, DispatchLocal(q) PROVE TablesKept(l)
    <2>1. Dest[q] # l /\ Dest[q] \in Locality
      BY <1>2, CallsAssumption DEF DispatchLocal, ExecutionInv, IsLocal
    <2>2. UNCHANGED <<dedup, retained, responses>>
      BY <1>2 DEF DispatchLocal, tableVars
    <2>3. \A r \in Request, s \in Stage : r # q => jobs'[<<r, s>>] = jobs[<<r, s>>]
      BY <1>2 DEF DispatchLocal, Submit, TypeOK, JobType
    <2> QED BY <2>1, <2>2, <2>3, ElsewhereKeeps
  <1>3. ASSUME NEW q \in Request, HandleCompletion(q) PROVE TablesKept(l)
    <2>1. Dest[q] # l /\ Dest[q] \in Locality
      BY <1>3, CallsAssumption DEF HandleCompletion
    <2>2. UNCHANGED <<dedup, retained>>
      BY <1>3 DEF HandleCompletion
    <2>3. \A r \in Request, s \in Stage : r # q => jobs'[<<r, s>>] = jobs[<<r, s>>]
      BY <1>3 DEF HandleCompletion, TypeOK, JobType
    <2>4. \A n \in Locality : n # Dest[q] => responses'[n] = responses[n]
      BY <1>3 DEF HandleCompletion, AnswerCompletion, QueueResponse, TypeOK, ResponseType
    <2> QED BY <2>1, <2>2, <2>3, <2>4, ElsewhereKeeps
  <1>4. ASSUME NEW q \in Request, HandleRequest(q) PROVE TablesKept(l)
    <2>1. Dest[q] # l /\ Dest[q] \in Locality
      BY <1>4, CallsAssumption DEF HandleRequest
    <2>2. UNCHANGED retained
      BY <1>4 DEF HandleRequest
    <2>3. \A r \in Request : r # q => dedup'[r] = dedup[r]
      BY <1>4 DEF HandleRequest, RequestRejected, RequestNew, RequestDuplicate, TypeOK, DedupType
    <2>4. \A r \in Request, s \in Stage : r # q => jobs'[<<r, s>>] = jobs[<<r, s>>]
      BY <1>4 DEF HandleRequest, RequestRejected, RequestNew, RequestDuplicate, Submit, TypeOK, JobType
    <2>5. \A n \in Locality : n # Dest[q] => responses'[n] = responses[n]
      <3>1. CASE RequestRejected(q)
        BY <2>1, <3>1, ReplyElsewhere DEF RequestRejected
      <3>2. CASE RequestDuplicate(q)
        BY <2>1, <3>2, ReplyElsewhere DEF RequestDuplicate
      <3>3. CASE RequestNew(q)
        BY <3>3 DEF RequestNew, QueueFailure, QueueResponse, TypeOK, ResponseType
      <3> QED BY <1>4, <3>1, <3>2, <3>3 DEF HandleRequest
    <2> QED BY <2>1, <2>2, <2>3, <2>4, <2>5, ElsewhereKeeps
  <1>5. ASSUME NEW q \in Request, HandleCancel(q) \/ DedupExpire(q) PROVE TablesKept(l)
    <2>1. Dest[q] # l /\ Dest[q] \in Locality
      BY <1>5, CallsAssumption DEF HandleCancel, DedupExpire
    <2>2. UNCHANGED <<responses, jobs>>
      BY <1>5 DEF HandleCancel, DedupExpire
    <2>3. \A r \in Request : r # q => dedup'[r] = dedup[r]
      BY <1>5 DEF HandleCancel, DedupExpire, TypeOK, DedupType
    <2>4. \A n \in Locality : n # Dest[q] => retained'[n] = retained[n]
      BY <1>5 DEF HandleCancel, DedupExpire, TypeOK, DedupType
    <2> QED BY <2>1, <2>2, <2>3, <2>4, ElsewhereKeeps
  <1>6. ASSUME NEW m \in Locality, SendResponse(m) PROVE TablesKept(l)
    <2> DEFINE q == Head(responses[m])
    <2>0. q \in Queued /\ Dest[q.request] = m
      BY <1>6, TailElements DEF SendResponse, TypeOK, ResponseType, ResponsesHome
    <2>1. q.request \in Request /\ Dest[q.request] = m
      BY <2>0 DEF Queued
    <2>2. m # l
      BY <1>6 DEF SendResponse
    <2>3. UNCHANGED jobs
      BY <1>6 DEF SendResponse
    <2>4. (\A r \in Request : r # q.request => dedup'[r] = dedup[r])
           /\ \A n \in Locality : n # m => retained'[n] = retained[n]
      <3>1. UNCHANGED <<dedup, retained>> \/ Complete(m, q)
        BY <1>6 DEF SendResponse
      <3> HIDE DEF q
      <3> QED BY <3>1 DEF Complete, TypeOK, DedupType
    <2>5. \A n \in Locality : n # m => responses'[n] = responses[n]
      BY <1>6 DEF SendResponse, TypeOK, ResponseType
    <2> HIDE DEF q
    <2> QED BY <2>1, <2>2, <2>3, <2>4, <2>5, ElsewhereKeeps
  <1>7. ASSUME NEW m \in Locality, ShutdownBegin(m) \/ ShutdownTimeout(m) \/ DropRuntime(m)
        PROVE  TablesKept(l)
    BY <1>0, <1>7 DEF ShutdownBegin, ShutdownTimeout, DropRuntime, tableVars
  <1>8. ASSUME NEW m \in Locality, m # l, ShutdownFinish(m) PROVE TablesKept(l)
    <2>1. UNCHANGED <<responses, jobs>>
      BY <1>8 DEF ShutdownFinish
    <2>2. retained'[l] = retained[l] /\ \A r \in Request : Dest[r] = l => dedup'[r] = dedup[r]
      BY <1>8 DEF ShutdownFinish, TypeOK, DedupType
    <2> QED BY <2>1, <2>2 DEF TablesKept, HasJob
  <1> QED BY <1>1, <1>2, <1>3, <1>4, <1>5, <1>6, <1>7, <1>8 DEF OwnerStep

LEMMA TablesAtRest ==
  ASSUME TypeOK, ExecutionInv, ResponsesHome, NEW l \in Locality, ~CanProgress(l), [Next]_vars
  PROVE  TablesKept(l) \/ ShutdownFinish(l)
  <1>1. CASE ClientStep \/ NetworkStep \/ UNCHANGED vars
    <2>1. UNCHANGED <<dedup, retained, responses, jobs>>
      <3>1. CASE ClientStep
        BY <3>1 DEF ClientStep, SpawnCheck, SpawnInsert, SpawnSubmit, Poll, DropFuture, tableVars
      <3>2. CASE NetworkStep
        BY <3>2 DEF NetworkStep, DuplicateMessage, SendFailed, TransportFails, tableVars
      <3> QED BY <1>1, <3>1, <3>2 DEF vars, tableVars
    <2> QED BY <2>1 DEF TablesKept, HasJob
  <1>2. CASE WorkerStep
    <2>1. PICK q \in Request : StartJob(q) \/ FinishJob(q)
      BY <1>2 DEF WorkerStep
    <2>2. UNCHANGED <<dedup, retained, responses>>
      BY <2>1 DEF StartJob, FinishJob, tableVars
    <2>3. HasJob(q) /\ \A r \in Request, s \in Stage : r # q => jobs'[<<r, s>>] = jobs[<<r, s>>]
      <3>1. CASE StartJob(q)
        BY <3>1 DEF StartJob, HasJob, Stage, TypeOK, JobType
      <3>2. CASE FinishJob(q)
        BY <3>2 DEF FinishJob, FinishStep, HasJob, Stage, TypeOK, JobType
      <3> QED BY <2>1, <3>1, <3>2
    <2> QED BY <2>2, <2>3 DEF TablesKept, HasJob
  <1> QED BY <1>1, <1>2, OwnerKeepsTables DEF Next

LEMMA StopTablesStep ==
  ASSUME TypeOK, ExecutionInv, ResponsesHome, StopTables, [Next]_vars PROVE StopTables'
  <1> SUFFICES ASSUME NEW l \in Locality, state'[l] = "Stopped"
               PROVE  /\ \A r \in Request : Dest[r] = l => Cleared(r)'
                      /\ responses'[l] = << >>
                      /\ retained'[l] = 0
    BY DEF StopTables
  <1>1. CASE ShutdownFinish(l)
    <2>1. retained'[l] = 0 /\ responses'[l] = << >>
      BY <1>1 DEF ShutdownFinish, Drained, TypeOK, DedupType
    <2>2. ASSUME NEW r \in Request, Dest[r] = l PROVE Cleared(r)'
      <3>1. dedup'[r].st = "none"
        BY <1>1, <2>2 DEF ShutdownFinish, NoEntry
      <3>2. ASSUME NEW s \in Stage PROVE ~(jobs[<<r, s>>] > 0)
        <4>1. <<r, s>> \notin At(l, Stage)
          BY <1>1 DEF ShutdownFinish, Drained
        <4> QED BY <2>2, <4>1 DEF At
      <3>3. UNCHANGED jobs
        BY <1>1 DEF ShutdownFinish
      <3> QED BY <3>1, <3>2, <3>3 DEF Cleared, HasJob
    <2> QED BY <2>1, <2>2
  <1>2. CASE ~ShutdownFinish(l)
    <2>1. state[l] = "Stopped"
      <3>1. ~ShutdownBegin(l)
        BY DEF ShutdownBegin, TypeOK, LifecycleType
      <3>2. DropRuntime(l) => state[l] = "Stopped"
        BY DEF DropRuntime, TypeOK, LifecycleType
      <3> QED BY <1>2, <3>1, <3>2, LifecycleSteps DEF LifecycleStep
    <2>2. TablesKept(l)
      BY <1>2, <2>1, TablesAtRest DEF CanProgress
    <2> QED BY <2>1, <2>2 DEF StopTables, TablesKept, Cleared
  <1> QED BY <1>1, <1>2

\* Shutdown returns Stopped only when nothing of the runtime is left: a spawn
\* that passed its check before shutdown took the work gate has finished, its
\* waiter and its local request were drained, and no progress step of a stopped
\* runtime brings a job, an entry or a response back.
THEOREM StoppedRuntimeIsEmpty == Spec => []StoppedRetainsNothing
  <1>1. Init => StopInv
    BY DEF Init, StopInv, StopGate, StopLocal, StopTables, Closing
  <1>2. TypeOK /\ ExecutionInv /\ ResponsesHome /\ SpawnInv /\ StopInv /\ [Next]_vars => StopInv'
    BY StopSpawnStep, StopTablesStep DEF StopInv
  <1>3. TypeOK /\ StopInv => StoppedRetainsNothing
    <2> SUFFICES ASSUME TypeOK, StopInv, NEW l \in Locality, state[l] = "Stopped"
                 PROVE  /\ pending[l] = {} /\ localq[l] = {} /\ At(l, Stage) = {}
                        /\ responses[l] = << >> /\ DedupSize(l) = 0 /\ retained[l] = 0
      BY DEF StoppedRetainsNothing
    <2>1. pending[l] = {} /\ localq[l] = {} /\ responses[l] = << >> /\ retained[l] = 0
      BY DEF StopInv, StopGate, StopLocal, StopTables
    <2>2. \A r \in Request : Dest[r] = l => Cleared(r)
      BY DEF StopInv, StopTables
    <2>3. At(l, Stage) = {}
      BY <2>2 DEF At, Cleared, HasJob
    <2>4. {r \in Request : Dest[r] = l /\ dedup[r].st # "none"} = {}
      BY <2>2 DEF Cleared
    <2>5. DedupSize(l) = 0
      BY <2>4, FS_EmptySet DEF DedupSize
    <2> QED BY <2>1, <2>3, <2>5
  <1> QED BY <1>1, <1>2, <1>3, TypeCorrect, ExecutionInvariant, HomeInvariant, SpawnInvariant, PTL
          DEF Spec

-----------------------------------------------------------------------------
(* Cancellation.  Whatever tells the receiver of a cancellation, or carries *)
(* the answer of a cancelled job back, exists only after the waiter of the  *)
(* call has left the pending table.                                        *)

QueuedCancelled(r) ==
  \E l \in Locality : \E i \in DOMAIN responses[l] :
    responses[l][i].request = r /\ responses[l][i].kind = "Cancelled"

Evidence(r) ==
  \/ token[r]
  \/ net[<<"Cancel", r>>] > 0
  \/ net[<<"Cancelled", r>>] > 0
  \/ dedup[r].st = "cancelled"
  \/ dedup[r].resp = "Cancelled"
  \/ jobs[<<r, "stopping">>] > 0
  \/ jobs[<<r, "skipped">>] > 0
  \/ QueuedCancelled(r)

CancelInv == \A r \in Request : Evidence(r) => r \notin pending[Origin[r]] /\ Known(r)

\* The step takes the waiter of r, if there is one.
Released(r) == Known(r) /\ r \notin pending'[Origin[r]]

\* Fail sets the tokens of the waiters it drains.
LEMMA FailReleases ==
  ASSUME TypeOK, SpawnInv, NEW l \in Locality, NEW why, Fail(l, why), NEW r \in Request, token'[r]
  PROVE  Evidence(r) \/ Released(r)
  <1>1. token[r] \/ r \in pending[l]
    BY DEF Fail, LocalTokens
  <1>2. pending'[l] = {}
    BY DEF Fail, TypeOK, WaiterType
  <1> QED BY <1>1, <1>2 DEF Evidence, Released, SpawnInv

\* Where a set token comes from.
LEMMA TokenSource ==
  ASSUME TypeOK, SpawnInv, [Next]_vars, NEW r \in Request, token'[r]
  PROVE  Evidence(r) \/ Released(r)
  <1>0. ASSUME UNCHANGED token PROVE Evidence(r)
    BY <1>0 DEF Evidence
  <1>1. ASSUME NEW q \in Request, DropFuture(q) PROVE Evidence(r) \/ Released(r)
    <2>1. token[r] \/ (r = q /\ r \in pending[Origin[r]] /\ promise[r] = "none")
      BY <1>1 DEF DropFuture, LocalTokens
    <2>2. CASE r = q /\ r \in pending[Origin[r]] /\ promise[r] = "none"
      <3>1. r \notin pending'[Origin[r]]
        BY <1>1, <2>2, CallsAssumption DEF DropFuture, TypeOK, WaiterType
      <3> QED BY <2>2, <3>1, CallsAssumption DEF Released, SpawnInv
    <2> QED BY <2>1, <2>2 DEF Evidence
  <1>2. ASSUME NEW q \in Request, ExpirePending(q) PROVE Evidence(r) \/ Released(r)
    <2>1. token[r] \/ (r = q /\ r \in pending[Origin[r]])
      BY <1>2 DEF ExpirePending, LocalTokens
    <2>2. CASE r = q /\ r \in pending[Origin[r]]
      <3>1. r \notin pending'[Origin[r]]
        BY <1>2, <2>2, CallsAssumption DEF ExpirePending, TypeOK, WaiterType
      <3> QED BY <2>2, <3>1, CallsAssumption DEF Released, SpawnInv
    <2> QED BY <2>1, <2>2 DEF Evidence
  <1>3. ASSUME NEW q \in Request, HandleCancel(q) PROVE Evidence(r)
    <2>1. token[r] \/ (r = q /\ net[<<"Cancel", q>>] > 0)
      BY <1>3 DEF HandleCancel, Arrives, TypeOK, TokenType
    <2> QED BY <2>1 DEF Evidence
  <1>4. ASSUME NEW q \in Request, HandleCompletion(q) PROVE Evidence(r) \/ Released(r)
    <2>1. UNCHANGED token \/ Fail(Dest[q], "responses full")
      BY <1>4 DEF HandleCompletion, AnswerCompletion
    <2> QED BY <1>0, <2>1, FailReleases, CallsAssumption
  <1>5. ASSUME NEW q \in Request, HandleRequest(q) PROVE Evidence(r) \/ Released(r)
    <2>1. \/ UNCHANGED token \/ Fail(Dest[q], "responses full")
          \/ token' = [token EXCEPT ![q] = FALSE]
      BY <1>5 DEF HandleRequest, RequestRejected, RequestNew, RequestDuplicate, Reply
    <2>2. CASE token' = [token EXCEPT ![q] = FALSE]
      BY <2>2 DEF Evidence, TypeOK, TokenType
    <2> QED BY <1>0, <2>1, <2>2, FailReleases, CallsAssumption
  <1>6. ASSUME NEW l \in Locality, SendResponse(l) PROVE Evidence(r) \/ Released(r)
    <2>1. UNCHANGED token \/ Fail(l, "protocol") \/ Fail(l, "transport")
      BY <1>6 DEF SendResponse
    <2> QED BY <1>0, <2>1, FailReleases
  <1>7. ASSUME NEW l \in Locality, ShutdownBegin(l) PROVE Evidence(r) \/ Released(r)
    <2>1. token[r] \/ r \in pending[l] \/ r \in localq[l]
      BY <1>7 DEF ShutdownBegin, LocalTokens
    <2>2. pending'[l] = {}
      BY <1>7 DEF ShutdownBegin, TypeOK, WaiterType
    <2> QED BY <2>1, <2>2 DEF Evidence, Released, SpawnInv, Known, Unsent
  <1>8. ASSUME NEW l \in Locality, DropRuntime(l) PROVE Evidence(r) \/ Released(r)
    <2>1. UNCHANGED token \/ (token' = LocalTokens(pending[l]) /\ pending' = [pending EXCEPT ![l] = {}])
      BY <1>8 DEF DropRuntime
    <2>2. CASE token' = LocalTokens(pending[l]) /\ pending' = [pending EXCEPT ![l] = {}]
      <3>1. token[r] \/ r \in pending[l]
        BY <2>2 DEF LocalTokens
      <3>2. pending'[l] = {}
        BY <2>2 DEF TypeOK, WaiterType
      <3> QED BY <3>1, <3>2 DEF Evidence, Released, SpawnInv
    <2> QED BY <1>0, <2>1, <2>2
  <1>9. CASE NetworkStep
    <2>1. ASSUME NEW m \in Message, SendFailed(m) PROVE Evidence(r) \/ Released(r)
      <3> DEFINE n == IF m[1] \in {"Request", "Cancel"} THEN Origin[m[2]] ELSE Dest[m[2]]
      <3>1. n \in Locality
        BY EndsType
      <3>2. UNCHANGED token \/ Fail(n, "transport")
        BY <2>1 DEF SendFailed
      <3> HIDE DEF n
      <3> QED BY <1>0, <3>1, <3>2, FailReleases
    <2>2. ASSUME NEW m \in Message, DuplicateMessage(m) PROVE Evidence(r)
      BY <1>0, <2>2 DEF DuplicateMessage
    <2> QED BY <1>9, <2>1, <2>2, FailReleases DEF NetworkStep, TransportFails
  <1>10. ASSUME NEW q \in Request, DispatchLocal(q) \/ HandleResponse(q) \/ DedupExpire(q)
         PROVE  Evidence(r)
    BY <1>0, <1>10 DEF DispatchLocal, HandleResponse, DedupExpire
  <1>11. ASSUME NEW l \in Locality, ShutdownFinish(l) \/ ShutdownTimeout(l) PROVE Evidence(r)
    BY <1>0, <1>11 DEF ShutdownFinish, ShutdownTimeout
  <1>12. ASSUME NEW q \in Request,
                SpawnCheck(q) \/ SpawnInsert(q) \/ SpawnSubmit(q) \/ Poll(q) \/ StartJob(q) \/ FinishJob(q)
         PROVE  Evidence(r)
    BY <1>0, <1>12 DEF SpawnCheck, SpawnInsert, SpawnSubmit, Poll, StartJob, FinishJob
  <1>13. CASE UNCHANGED vars
    BY <1>0, <1>13 DEF vars
  <1> QED BY <1>1, <1>2, <1>3, <1>4, <1>5, <1>6, <1>7, <1>8, <1>9, <1>10, <1>11, <1>12, <1>13
          DEF Next, OwnerStep, ClientStep, WorkerStep

\* What is in flight after a send or a delivery.
LEMMA SentSource ==
  ASSUME TypeOK, NEW M, net' = Sent(M), NEW m \in Message, net'[m] > 0
  PROVE  net[m] > 0 \/ m \in M
  BY DEF Sent

LEMMA TakenSource ==
  ASSUME TypeOK, NEW x, net' = Taken(x), NEW m \in Message, net'[m] > 0
  PROVE  net[m] > 0
  BY DEF Taken, TypeOK, NetType

LEMMA CancelSendsOf ==
  ASSUME NEW S, NEW M \in CancelSends(S), NEW c, NEW r, <<c, r>> \in M
  PROVE  c = "Cancel" /\ r \in S
  BY DEF CancelSends

\* Where a Cancel message and a Cancelled response in flight come from.
LEMMA NetSource ==
  ASSUME TypeOK, SpawnInv, [Next]_vars, NEW r \in Request, NEW c \in {"Cancel", "Cancelled"},
         net'[<<c, r>>] > 0
  PROVE  Evidence(r) \/ Released(r)
  <1> DEFINE m == <<c, r>>
  <1>0. m \in Message /\ (net[m] > 0 => Evidence(r))
    BY DEF Message, ResponseKind, Evidence
  <1>1. ASSUME UNCHANGED net PROVE Evidence(r)
    BY <1>0, <1>1
  <1>2. ASSUME NEW x, net' = Taken(x) PROVE Evidence(r)
    BY <1>0, <1>2, TakenSource
  <1>3. ASSUME NEW S, NEW M \in CancelSends(S), net' = Sent(M) PROVE Evidence(r) \/ r \in S
    <2>1. net[m] > 0 \/ m \in M
      BY <1>0, <1>3, SentSource
    <2> QED BY <1>0, <1>3, <2>1, CancelSendsOf
  <1>4. ASSUME NEW q \in Request, DropFuture(q) PROVE Evidence(r) \/ Released(r)
    <2> DEFINE S == IF promise[q] = "none" THEN pending[Origin[q]] \cap {q} ELSE {}
    <2>1. Evidence(r) \/ r \in S
      BY <1>3, <1>4 DEF DropFuture
    <2>2. CASE r \in S
      <3>1. r = q /\ r \in pending[Origin[r]]
        BY <2>2
      <3>2. r \notin pending'[Origin[r]]
        BY <1>4, <2>2, <3>1, CallsAssumption DEF DropFuture, TypeOK, WaiterType
      <3> QED BY <3>1, <3>2, CallsAssumption DEF Released, SpawnInv
    <2> QED BY <2>1, <2>2
  <1>5. ASSUME NEW q \in Request, ExpirePending(q) PROVE Evidence(r) \/ Released(r)
    <2>1. Evidence(r) \/ r \in {q}
      BY <1>3, <1>5 DEF ExpirePending
    <2>2. CASE r = q
      <3>1. r \in pending[Origin[r]] /\ r \notin pending'[Origin[r]]
        BY <1>5, <2>2, CallsAssumption DEF ExpirePending, TypeOK, WaiterType
      <3> QED BY <3>1, CallsAssumption DEF Released, SpawnInv
    <2> QED BY <2>1, <2>2
  <1>6. ASSUME NEW l \in Locality, ShutdownBegin(l) PROVE Evidence(r) \/ Released(r)
    <2>1. Evidence(r) \/ r \in pending[l]
      BY <1>3, <1>6 DEF ShutdownBegin
    <2>2. pending'[l] = {}
      BY <1>6 DEF ShutdownBegin, TypeOK, WaiterType
    <2> QED BY <2>1, <2>2 DEF Released, SpawnInv
  <1>7. ASSUME NEW q \in Request, HandleRequest(q) \/ HandleCancel(q) \/ HandleResponse(q)
        PROVE  Evidence(r)
    BY <1>2, <1>7 DEF HandleRequest, HandleCancel, HandleResponse
  <1>8. ASSUME NEW l \in Locality, SendResponse(l) PROVE Evidence(r)
    <2> DEFINE q == Head(responses[l])
    <2>1. UNCHANGED net \/ net' = Sent({<<q.kind, q.request>>})
      BY <1>8 DEF SendResponse
    <2>2. CASE net' = Sent({<<q.kind, q.request>>})
      <3>1. net[m] > 0 \/ m = <<q.kind, q.request>>
        BY <1>0, <2>2, SentSource
      <3>2. CASE m = <<q.kind, q.request>>
        <4>1. q = responses[l][1] /\ 1 \in DOMAIN responses[l] /\ q \in Queued
          BY <1>8, TailElements DEF SendResponse, TypeOK, ResponseType
        <4>2. q.kind \in ResponseKind /\ q.kind = c /\ q.request = r
          BY <3>2, <4>1 DEF Queued
        <4>3. c = "Cancelled"
          BY <4>2 DEF ResponseKind
        <4>4. QueuedCancelled(r)
          BY <4>1, <4>2, <4>3 DEF QueuedCancelled
        <4> QED BY <4>4 DEF Evidence
      <3> QED BY <1>0, <3>1, <3>2
    <2> QED BY <1>1, <2>1, <2>2
  <1>9. ASSUME NEW q \in Request, SpawnSubmit(q) PROVE Evidence(r)
    <2>1. UNCHANGED net \/ net' = Sent({<<"Request", q>>})
      BY <1>9 DEF SpawnSubmit
    <2>2. net' = Sent({<<"Request", q>>}) => net[m] > 0
      BY <1>0, SentSource
    <2> QED BY <1>0, <1>1, <2>1, <2>2
  <1>10. CASE NetworkStep
    <2>1. ASSUME NEW x \in Message, DuplicateMessage(x) PROVE Evidence(r)
      <3>1. net[m] > 0
        BY <1>0, <2>1 DEF DuplicateMessage, Arrives, TypeOK, NetType
      <3> QED BY <1>0, <3>1
    <2>2. ASSUME NEW x \in Message, SendFailed(x) PROVE Evidence(r)
      BY <1>2, <2>2 DEF SendFailed
    <2> QED BY <1>1, <1>10, <2>1, <2>2 DEF NetworkStep, TransportFails
  <1>11. ASSUME NEW q \in Request, DispatchLocal(q) \/ HandleCompletion(q) \/ DedupExpire(q)
         PROVE  Evidence(r)
    BY <1>1, <1>11 DEF DispatchLocal, HandleCompletion, DedupExpire
  <1>12. ASSUME NEW l \in Locality, ShutdownFinish(l) \/ ShutdownTimeout(l) \/ DropRuntime(l)
         PROVE  Evidence(r)
    BY <1>1, <1>12 DEF ShutdownFinish, ShutdownTimeout, DropRuntime
  <1>13. ASSUME NEW q \in Request,
                SpawnCheck(q) \/ SpawnInsert(q) \/ Poll(q) \/ StartJob(q) \/ FinishJob(q)
         PROVE  Evidence(r)
    BY <1>1, <1>13 DEF SpawnCheck, SpawnInsert, Poll, StartJob, FinishJob
  <1>14. CASE UNCHANGED vars
    BY <1>1, <1>14 DEF vars
  <1> HIDE DEF m
  <1> QED BY <1>4, <1>5, <1>6, <1>7, <1>8, <1>9, <1>10, <1>11, <1>12, <1>13, <1>14
          DEF Next, OwnerStep, ClientStep, WorkerStep

\* Where a cancelled dedup entry and a cached Cancelled response come from.
LEMMA DedupSource ==
  ASSUME TypeOK, [Next]_vars, NEW r \in Request,
         dedup'[r].st = "cancelled" \/ dedup'[r].resp = "Cancelled"
  PROVE  Evidence(r)
  <1>0. ASSUME dedup'[r] = dedup[r] PROVE Evidence(r)
    BY <1>0 DEF Evidence
  <1>1. ASSUME NEW q \in Request, HandleRequest(q) PROVE Evidence(r)
    <2>1. UNCHANGED dedup \/ dedup' = [dedup EXCEPT ![q] = RunningEntry]
      BY <1>1 DEF HandleRequest, RequestRejected, RequestNew, RequestDuplicate
    <2> QED BY <1>0, <2>1 DEF TypeOK, DedupType, RunningEntry
  <1>2. ASSUME NEW q \in Request, HandleCancel(q) PROVE Evidence(r)
    <2>1. r # q => dedup'[r] = dedup[r]
      BY <1>2 DEF HandleCancel, TypeOK, DedupType
    <2>2. r = q => net[<<"Cancel", r>>] > 0
      BY <1>2 DEF HandleCancel, Arrives
    <2> QED BY <1>0, <2>1, <2>2 DEF Evidence
  <1>3. ASSUME NEW q \in Request, DedupExpire(q) PROVE Evidence(r)
    BY <1>0, <1>3 DEF DedupExpire, NoEntry, TypeOK, DedupType
  <1>4. ASSUME NEW l \in Locality, SendResponse(l) PROVE Evidence(r)
    <2> DEFINE q == Head(responses[l])
    <2>1. q = responses[l][1] /\ 1 \in DOMAIN responses[l]
      BY <1>4, TailElements DEF SendResponse, TypeOK, ResponseType
    <2>2. UNCHANGED dedup \/ Complete(l, q)
      BY <1>4 DEF SendResponse
    <2>3. CASE Complete(l, q)
      <3>1. dedup'[r] = dedup[r] \/ (r = q.request /\ q.kind = "Cancelled")
        <4> HIDE DEF q
        <4> QED BY <2>3 DEF Complete, TypeOK, DedupType
      <3>2. CASE r = q.request /\ q.kind = "Cancelled"
        BY <2>1, <3>2 DEF Evidence, QueuedCancelled
      <3> QED BY <1>0, <3>1, <3>2
    <2> QED BY <1>0, <2>2, <2>3
  <1>5. ASSUME NEW l \in Locality, ShutdownFinish(l) PROVE Evidence(r)
    BY <1>0, <1>5 DEF ShutdownFinish, NoEntry
  <1>6. ASSUME NEW q \in Request,
               ExpirePending(q) \/ DispatchLocal(q) \/ HandleCompletion(q) \/ HandleResponse(q)
        PROVE  Evidence(r)
    BY <1>0, <1>6 DEF ExpirePending, DispatchLocal, HandleCompletion, HandleResponse, tableVars
  <1>7. ASSUME NEW l \in Locality, ShutdownBegin(l) \/ ShutdownTimeout(l) \/ DropRuntime(l)
        PROVE  Evidence(r)
    BY <1>0, <1>7 DEF ShutdownBegin, ShutdownTimeout, DropRuntime, tableVars
  <1>8. CASE ClientStep \/ WorkerStep
    BY <1>0, <1>8 DEF ClientStep, SpawnCheck, SpawnInsert, SpawnSubmit, Poll, DropFuture, WorkerStep,
                      StartJob, FinishJob, tableVars
  <1>9. CASE NetworkStep
    BY <1>0, <1>9 DEF NetworkStep, DuplicateMessage, SendFailed, TransportFails, tableVars
  <1>10. CASE UNCHANGED vars
    BY <1>0, <1>10 DEF vars, tableVars
  <1> QED BY <1>1, <1>2, <1>3, <1>4, <1>5, <1>6, <1>7, <1>8, <1>9, <1>10 DEF Next, OwnerStep

\* Where a job that was found cancelled comes from.
LEMMA JobSource ==
  ASSUME TypeOK, [Next]_vars, NEW r \in Request, NEW s \in {"stopping", "skipped"},
         jobs'[<<r, s>>] > 0
  PROVE  Evidence(r)
  <1>0. ASSUME UNCHANGED jobs PROVE Evidence(r)
    BY <1>0 DEF Evidence
  <1>1. ASSUME NEW q \in Request, StartJob(q) PROVE Evidence(r)
    <2>1. CASE token[q]
      <3>1. jobs[<<r, s>>] > 0 \/ r = q
        BY <1>1, <2>1 DEF StartJob, TypeOK, JobType, Stage
      <3> QED BY <2>1, <3>1 DEF Evidence
    <2>2. CASE ~token[q]
      <3>1. jobs[<<r, s>>] > 0
        BY <1>1, <2>2 DEF StartJob, TypeOK, JobType, Stage
      <3> QED BY <3>1 DEF Evidence
    <2> QED BY <2>1, <2>2
  <1>2. ASSUME NEW q \in Request, FinishJob(q) PROVE Evidence(r)
    <2>1. PICK f \in FinishStep :
             /\ jobs[<<q, f[1]>>] > 0
             /\ jobs' = [jobs EXCEPT ![<<q, f[1]>>] = @ - 1, ![<<q, f[2]>>] = @ + 1]
      BY <1>2 DEF FinishJob
    <2>2. CASE f = <<"stopping", "skipped">>
      <3>1. jobs[<<q, "stopping">>] > 0
        BY <2>1, <2>2
      <3>2. r # q => jobs'[<<r, s>>] = jobs[<<r, s>>]
        BY <2>1, <2>2 DEF TypeOK, JobType, Stage
      <3> QED BY <3>1, <3>2 DEF Evidence
    <2>3. CASE f \in {<<"running", "ok">>, <<"running", "err">>}
      <3>1. jobs'[<<r, s>>] = jobs[<<r, s>>]
        BY <2>1, <2>3 DEF TypeOK, JobType, Stage
      <3> QED BY <3>1 DEF Evidence
    <2> QED BY <2>2, <2>3 DEF FinishStep
  <1>3. ASSUME NEW q \in Request, HandleCompletion(q) PROVE Evidence(r)
    <2>1. jobs[<<r, s>>] > 0
      BY <1>3 DEF HandleCompletion, TypeOK, JobType, Finished, Stage
    <2> QED BY <2>1 DEF Evidence
  <1>4. ASSUME NEW q \in Request, DispatchLocal(q) \/ HandleRequest(q) PROVE Evidence(r)
    <2>1. UNCHANGED jobs \/ Submit(q)
      BY <1>4 DEF DispatchLocal, HandleRequest, RequestRejected, RequestNew, RequestDuplicate
    <2>2. CASE Submit(q)
      <3>1. jobs'[<<r, s>>] = jobs[<<r, s>>]
        BY <2>2 DEF Submit, TypeOK, JobType, Stage
      <3> QED BY <3>1 DEF Evidence
    <2> QED BY <1>0, <2>1, <2>2
  <1>5. ASSUME NEW q \in Request,
               ExpirePending(q) \/ HandleCancel(q) \/ HandleResponse(q) \/ DedupExpire(q)
        PROVE  Evidence(r)
    BY <1>0, <1>5 DEF ExpirePending, HandleCancel, HandleResponse, DedupExpire
  <1>6. ASSUME NEW l \in Locality,
               SendResponse(l) \/ ShutdownBegin(l) \/ ShutdownFinish(l) \/ ShutdownTimeout(l)
                 \/ DropRuntime(l)
        PROVE  Evidence(r)
    BY <1>0, <1>6 DEF SendResponse, ShutdownBegin, ShutdownFinish, ShutdownTimeout, DropRuntime
  <1>7. CASE ClientStep
    BY <1>0, <1>7 DEF ClientStep, SpawnCheck, SpawnInsert, SpawnSubmit, Poll, DropFuture
  <1>8. CASE NetworkStep
    BY <1>0, <1>8 DEF NetworkStep, DuplicateMessage, SendFailed, TransportFails
  <1>9. CASE UNCHANGED vars
    BY <1>0, <1>9 DEF vars
  <1> QED BY <1>1, <1>2, <1>3, <1>4, <1>5, <1>6, <1>7, <1>8, <1>9 DEF Next, OwnerStep, WorkerStep

\* A queued Cancelled response was there before, or is the one just queued.
LEMMA AppendSource ==
  ASSUME TypeOK, NEW l \in Locality, NEW q \in Request, NEW k \in ResponseKind,
         NEW cache \in BOOLEAN, QueueResponse(l, q, k, cache),
         NEW r \in Request, QueuedCancelled(r)'
  PROVE  QueuedCancelled(r) \/ (r = q /\ k = "Cancelled")
  <1> DEFINE e == [request |-> q, kind |-> k, cache |-> cache]
  <1>0. responses \in [Locality -> Seq(Queued)] /\ e \in Queued /\ e.request = q /\ e.kind = k
    BY DEF TypeOK, ResponseType, Queued
  <1>1. responses' = [responses EXCEPT ![l] = Append(@, e)]
    BY DEF QueueResponse
  <1> HIDE DEF e
  <1>2. PICK m \in Locality : \E j \in DOMAIN responses'[m] :
           responses'[m][j].request = r /\ responses'[m][j].kind = "Cancelled"
    BY DEF QueuedCancelled
  <1>3. PICK i \in DOMAIN responses'[m] :
           responses'[m][i].request = r /\ responses'[m][i].kind = "Cancelled"
    BY <1>2
  <1>4. CASE m # l
    <2>1. responses'[m] = responses[m]
      BY <1>0, <1>1, <1>4
    <2> QED BY <1>3, <2>1 DEF QueuedCancelled
  <1>5. CASE m = l
    <2>1. responses'[l] = Append(responses[l], e)
      BY <1>0, <1>1
    <2>2. i = Len(responses[l]) + 1 \/ i \in DOMAIN responses[l]
      BY <1>0, <1>3, <1>5, <2>1, AppendElements
    <2>3. CASE i = Len(responses[l]) + 1
      BY <1>0, <1>3, <1>5, <2>1, <2>3, AppendElements
    <2>4. CASE i \in DOMAIN responses[l]
      <3>1. responses'[l][i] = responses[l][i]
        BY <1>0, <2>1, <2>4, AppendElements
      <3> QED BY <1>3, <1>5, <2>4, <3>1 DEF QueuedCancelled
    <2> QED BY <2>2, <2>3, <2>4
  <1> QED BY <1>4, <1>5

\* Where a queued Cancelled response comes from.
LEMMA ResponseSource ==
  ASSUME TypeOK, [Next]_vars, NEW r \in Request, QueuedCancelled(r)' PROVE Evidence(r)
  <1>0. ASSUME UNCHANGED responses PROVE Evidence(r)
    BY <1>0 DEF Evidence, QueuedCancelled
  <1>1. ASSUME NEW q \in Request, HandleCompletion(q) PROVE Evidence(r)
    <2>1. PICK s \in Finished : jobs[<<q, s>>] > 0 /\ AnswerCompletion(Dest[q], q, KindOf(s))
      BY <1>1 DEF HandleCompletion
    <2>2. UNCHANGED responses \/ QueueResponse(Dest[q], q, KindOf(s), TRUE)
      BY <2>1 DEF AnswerCompletion
    <2>3. CASE QueueResponse(Dest[q], q, KindOf(s), TRUE)
      <3>1. QueuedCancelled(r) \/ (r = q /\ KindOf(s) = "Cancelled")
        BY <2>3, KindOfType, AppendSource, CallsAssumption
      <3>2. KindOf(s) = "Cancelled" => s = "skipped"
        BY <2>1 DEF Finished, KindOf
      <3> QED BY <2>1, <3>1, <3>2 DEF Evidence
    <2> QED BY <1>0, <2>2, <2>3
  <1>2. ASSUME NEW q \in Request, NEW k \in ResponseKind, Reply(Dest[q], q, k),
               k = "Cancelled" => Evidence(q)
        PROVE  Evidence(r)
    <2>1. UNCHANGED responses \/ QueueResponse(Dest[q], q, k, FALSE)
      BY <1>2 DEF Reply
    <2>2. CASE QueueResponse(Dest[q], q, k, FALSE)
      <3>1. QueuedCancelled(r) \/ (r = q /\ k = "Cancelled")
        BY <2>2, AppendSource, CallsAssumption
      <3> QED BY <1>2, <3>1 DEF Evidence
    <2> QED BY <1>0, <2>1, <2>2
  <1>3. ASSUME NEW q \in Request, HandleRequest(q) PROVE Evidence(r)
    <2>1. CASE RequestRejected(q)
      BY <1>2, <2>1 DEF RequestRejected, ResponseKind
    <2>2. CASE RequestNew(q)
      <3>1. UNCHANGED responses \/ QueueResponse(Dest[q], q, "Failure", TRUE)
        BY <2>2 DEF RequestNew, QueueFailure
      <3>2. CASE QueueResponse(Dest[q], q, "Failure", TRUE)
        BY <3>2, AppendSource, CallsAssumption DEF ResponseKind, Evidence
      <3> QED BY <1>0, <3>1, <3>2
    <2>3. CASE RequestDuplicate(q)
      <3>1. dedup[q] \in DedupEntry /\ dedup[q].st # "none"
        BY <2>3 DEF TypeOK, DedupType, RequestDuplicate
      <3>2. Disposition(dedup[q]) = "Cancelled" => Evidence(q)
        BY <3>1 DEF Disposition, Evidence, DedupEntry
      <3>3. UNCHANGED responses \/ (Disposition(dedup[q]) # "none" /\ Reply(Dest[q], q, Disposition(dedup[q])))
        BY <2>3 DEF RequestDuplicate
      <3> QED BY <1>0, <1>2, <3>1, <3>2, <3>3, DispositionType
    <2> QED BY <1>3, <2>1, <2>2, <2>3 DEF HandleRequest
  <1>4. ASSUME NEW l \in Locality, SendResponse(l) PROVE Evidence(r)
    <2>0. responses \in [Locality -> Seq(Queued)] /\ responses[l] # << >>
      BY <1>4 DEF TypeOK, ResponseType, SendResponse
    <2>1. responses' = [responses EXCEPT ![l] = Tail(@)]
      BY <1>4 DEF SendResponse
    <2>2. PICK m \in Locality : \E j \in DOMAIN responses'[m] :
             responses'[m][j].request = r /\ responses'[m][j].kind = "Cancelled"
      BY DEF QueuedCancelled
    <2>3. PICK i \in DOMAIN responses'[m] :
             responses'[m][i].request = r /\ responses'[m][i].kind = "Cancelled"
      BY <2>2
    <2>4. CASE m # l
      <3>1. responses'[m] = responses[m]
        BY <2>0, <2>1, <2>4
      <3> QED BY <2>3, <3>1 DEF QueuedCancelled, Evidence
    <2>5. CASE m = l
      <3>1. i + 1 \in DOMAIN responses[m] /\ responses'[m][i] = responses[m][i + 1]
        BY <2>0, <2>1, <2>3, <2>5, TailElements
      <3> QED BY <2>3, <3>1 DEF QueuedCancelled, Evidence
    <2> QED BY <2>4, <2>5
  <1>5. ASSUME NEW q \in Request,
               ExpirePending(q) \/ DispatchLocal(q) \/ HandleCancel(q) \/ HandleResponse(q)
                 \/ DedupExpire(q)
        PROVE  Evidence(r)
    BY <1>0, <1>5 DEF ExpirePending, DispatchLocal, HandleCancel, HandleResponse, DedupExpire, tableVars
  <1>6. ASSUME NEW l \in Locality,
               ShutdownBegin(l) \/ ShutdownFinish(l) \/ ShutdownTimeout(l) \/ DropRuntime(l)
        PROVE  Evidence(r)
    BY <1>0, <1>6 DEF ShutdownBegin, ShutdownFinish, ShutdownTimeout, DropRuntime, tableVars
  <1>7. CASE ClientStep \/ WorkerStep
    BY <1>0, <1>7 DEF ClientStep, SpawnCheck, SpawnInsert, SpawnSubmit, Poll, DropFuture, WorkerStep,
                      StartJob, FinishJob, tableVars
  <1>8. CASE NetworkStep
    BY <1>0, <1>8 DEF NetworkStep, DuplicateMessage, SendFailed, TransportFails, tableVars
  <1>9. CASE UNCHANGED vars
    BY <1>0, <1>9 DEF vars, tableVars
  <1> QED BY <1>1, <1>3, <1>4, <1>5, <1>6, <1>7, <1>8, <1>9 DEF Next, OwnerStep

LEMMA CancelStep ==
  ASSUME TypeOK, SpawnInv, CancelInv, [Next]_vars PROVE CancelInv'
  <1> SUFFICES ASSUME NEW r \in Request, Evidence(r)'
               PROVE  r \notin pending'[Origin[r]] /\ Known(r)'
    BY DEF CancelInv
  <1>0. Origin[r] \in Locality
    BY CallsAssumption
  <1>1. Evidence(r) \/ Released(r)
    <2>1. CASE token'[r]
      BY <2>1, TokenSource
    <2>2. CASE net'[<<"Cancel", r>>] > 0 \/ net'[<<"Cancelled", r>>] > 0
      BY <2>2, NetSource
    <2>3. CASE dedup'[r].st = "cancelled" \/ dedup'[r].resp = "Cancelled"
      BY <2>3, DedupSource
    <2>4. CASE jobs'[<<r, "stopping">>] > 0 \/ jobs'[<<r, "skipped">>] > 0
      BY <2>4, JobSource
    <2>5. CASE QueuedCancelled(r)'
      BY <2>5, ResponseSource
    <2> QED BY <2>1, <2>2, <2>3, <2>4, <2>5 DEF Evidence
  <1>2. CASE Shrinks
    <2>1. pending'[Origin[r]] \subseteq pending[Origin[r]] /\ (Known(r) => Known(r)')
      BY <1>0, <1>2 DEF Shrinks, Known
    <2> QED BY <1>1, <2>1 DEF CancelInv, Released
  <1>3. ASSUME NEW q \in Request, Admits(q) PROVE r \notin pending'[Origin[r]] /\ Known(r)'
    <2>1. Known(r)
      BY <1>1 DEF CancelInv, Released
    <2>2. Known(r)'
      BY <1>3, <2>1 DEF Admits, SpawnCheck, SpawnInsert, SpawnSubmit, Known, TypeOK, SpawnType
    <2>3. r \in pending'[Origin[r]] => r \in pending[Origin[r]]
      BY <1>0, <1>3, <2>1 DEF Admits, SpawnCheck, SpawnInsert, SpawnSubmit, Known, TypeOK, WaiterType
    <2> QED BY <1>1, <2>2, <2>3 DEF CancelInv, Released
  <1> QED BY <1>2, <1>3, ShrinkSteps

\* A promise is completed with Cancelled for a waiter of a cancelled call only.
LEMMA PromiseSource ==
  ASSUME TypeOK, SpawnInv, [Next]_vars, NEW r \in Request, promise'[r] = "Cancelled"
  PROVE  promise[r] = "Cancelled" \/ (Evidence(r) /\ r \in pending[Origin[r]])
  <1>0. ASSUME UNCHANGED promise PROVE promise[r] = "Cancelled"
    BY <1>0
  <1>1. ASSUME NEW S, NEW out, out # "Cancelled", promise' = Completed(S, out)
        PROVE  promise[r] = "Cancelled"
    BY <1>1 DEF Completed
  <1>2. ASSUME NEW l, NEW why, Fail(l, why) \/ NoFail PROVE promise[r] = "Cancelled"
    BY <1>1, <1>2 DEF Fail, NoFail
  <1>3. ASSUME NEW q \in Request, HandleResponse(q)
        PROVE  promise[r] = "Cancelled" \/ (Evidence(r) /\ r \in pending[Origin[r]])
    <2>1. PICK k \in ResponseKind :
             net[<<k, q>>] > 0 /\ promise' = Completed(pending[Origin[q]] \cap {q}, k)
      BY <1>3 DEF HandleResponse, Arrives
    <2>2. promise[r] = "Cancelled" \/ (r = q /\ k = "Cancelled" /\ r \in pending[Origin[r]])
      BY <2>1 DEF Completed
    <2> QED BY <2>1, <2>2 DEF Evidence
  <1>4. ASSUME NEW q \in Request, HandleCompletion(q)
        PROVE  promise[r] = "Cancelled" \/ (Evidence(r) /\ r \in pending[Origin[r]])
    <2>1. PICK s \in Finished : jobs[<<q, s>>] > 0 /\ AnswerCompletion(Dest[q], q, KindOf(s))
      BY <1>4 DEF HandleCompletion
    <2>2. CASE IsLocal(q) /\ promise' = Completed(pending[Dest[q]] \cap {q}, KindOf(s))
      <3>1. promise[r] = "Cancelled"
              \/ (r = q /\ KindOf(s) = "Cancelled" /\ r \in pending[Origin[r]])
        BY <2>2 DEF Completed, IsLocal
      <3>2. KindOf(s) = "Cancelled" => s = "skipped"
        BY <2>1 DEF Finished, KindOf
      <3> QED BY <2>1, <3>1, <3>2 DEF Evidence
    <2> QED BY <1>2, <2>1, <2>2 DEF AnswerCompletion
  <1>5. ASSUME NEW q \in Request, ExpirePending(q) \/ DispatchLocal(q) PROVE promise[r] = "Cancelled"
    BY <1>0, <1>1, <1>5 DEF ExpirePending, DispatchLocal
  <1>6. ASSUME NEW q \in Request, HandleRequest(q) PROVE promise[r] = "Cancelled"
    BY <1>2, <1>6 DEF HandleRequest, RequestRejected, RequestNew, RequestDuplicate, Reply
  <1>7. ASSUME NEW q \in Request, HandleCancel(q) \/ DedupExpire(q) PROVE promise[r] = "Cancelled"
    BY <1>0, <1>7 DEF HandleCancel, DedupExpire, clientVars
  <1>8. ASSUME NEW l \in Locality, SendResponse(l) PROVE promise[r] = "Cancelled"
    BY <1>2, <1>8 DEF SendResponse
  <1>9. ASSUME NEW l \in Locality, ShutdownBegin(l) \/ DropRuntime(l) PROVE promise[r] = "Cancelled"
    BY <1>0, <1>1, <1>9 DEF ShutdownBegin, DropRuntime
  <1>10. ASSUME NEW l \in Locality, ShutdownFinish(l) \/ ShutdownTimeout(l)
         PROVE  promise[r] = "Cancelled"
    BY <1>0, <1>10 DEF ShutdownFinish, ShutdownTimeout, clientVars
  <1>11. CASE ClientStep \/ WorkerStep
    BY <1>0, <1>11 DEF ClientStep, SpawnCheck, SpawnInsert, SpawnSubmit, Poll, DropFuture, WorkerStep,
                       StartJob, FinishJob, clientVars
  <1>12. CASE NetworkStep
    BY <1>0, <1>1, <1>2, <1>12 DEF NetworkStep, DuplicateMessage, SendFailed, TransportFails, clientVars
  <1>13. CASE UNCHANGED vars
    BY <1>0, <1>13 DEF vars, clientVars
  <1> QED BY <1>3, <1>4, <1>5, <1>6, <1>7, <1>8, <1>9, <1>10, <1>11, <1>12, <1>13 DEF Next, OwnerStep

\* RuntimeError::Cancelled never reaches a caller: drop, deadline, failure and
\* shutdown take the waiter before the receiver can hear of the cancellation,
\* so a Cancelled completion or response, replayed ones included, is late.
THEOREM CancelledAnswerIsLate == Spec => []CancelledNeverReachesWaiter
  <1> DEFINE Inv == CancelInv /\ CancelledNeverReachesWaiter
  <1>1. Init => Inv
    <2> SUFFICES ASSUME Init PROVE Inv
      OBVIOUS
    <2>1. \A r \in Request : promise[r] = "none"
      BY DEF Init
    <2>2. ASSUME NEW r \in Request PROVE ~Evidence(r)
      <3>1. ~token[r] /\ dedup[r].st = "none" /\ dedup[r].resp = "none"
        BY DEF Init, NoEntry
      <3>2. net[<<"Cancel", r>>] = 0 /\ net[<<"Cancelled", r>>] = 0
        BY DEF Init, Message, ResponseKind
      <3>3. jobs[<<r, "stopping">>] = 0 /\ jobs[<<r, "skipped">>] = 0
        BY DEF Init, Stage
      <3>4. ~QueuedCancelled(r)
        BY DEF Init, QueuedCancelled
      <3> QED BY <3>1, <3>2, <3>3, <3>4 DEF Evidence
    <2> QED BY <2>1, <2>2 DEF CancelInv, CancelledNeverReachesWaiter
  <1>2. TypeOK /\ SpawnInv /\ Inv /\ [Next]_vars => Inv'
    <2> SUFFICES ASSUME TypeOK, SpawnInv, Inv, [Next]_vars PROVE Inv'
      OBVIOUS
    <2>1. CancelInv'
      BY CancelStep
    <2>2. CancelledNeverReachesWaiter'
      BY PromiseSource DEF CancelInv, CancelledNeverReachesWaiter
    <2> QED BY <2>1, <2>2
  <1>3. Inv => CancelledNeverReachesWaiter
    OBVIOUS
  <1> HIDE DEF Inv
  <1> QED BY <1>1, <1>2, <1>3, TypeCorrect, SpawnInvariant, PTL DEF Spec
=============================================================================
