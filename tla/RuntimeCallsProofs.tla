------------------------- MODULE RuntimeCallsProofs -------------------------
(***************************************************************************)
(* Proofs about RuntimeCalls for every membership, every set of calls and  *)
(* every value of the limits.                                              *)
(***************************************************************************)
EXTENDS RuntimeCalls, TLAPS

-----------------------------------------------------------------------------
(* Types of the helpers.                                                   *)

\* Promise::complete stores an outcome or leaves the promise alone.
LEMMA CompletedType ==
  ASSUME WaiterType, NEW S, NEW out \in Outcome
  PROVE  Completed(S, out) \in [Request -> Outcome \cup {"none"}]
  BY DEF WaiterType, Completed

\* Shared::send adds one copy of each message.
LEMMA SentType ==
  ASSUME NetType, NEW M
  PROVE  Sent(M) \in [Message -> Nat]
  BY DEF NetType, Sent

\* A message taken off the network was there.
LEMMA TakenType ==
  ASSUME NetType, NEW m \in Message, Arrives(m)
  PROVE  Taken(m) \in [Message -> Nat]
  BY DEF NetType, Taken, Arrives

\* Cancellation tokens stay Boolean.
LEMMA LocalTokensType ==
  ASSUME TokenType, NEW S
  PROVE  LocalTokens(S) \in [Request -> BOOLEAN]
  <1>1. \A r \in Request : token[r] \in BOOLEAN
    BY DEF TokenType
  <1>2. \A r \in Request : (IF r \in S /\ IsLocal(r) THEN TRUE ELSE token[r]) \in BOOLEAN
    BY <1>1
  <1> QED BY <1>2 DEF LocalTokens

\* Runtime::fail keeps the types of everything it writes.
LEMMA FailType ==
  ASSUME TypeOK, NEW l \in Locality,
         NEW why \in {"responses full", "protocol", "transport"}, Fail(l, why)
  PROVE  LifecycleType' /\ WaiterType' /\ TokenType'
  <1>1. promise' \in [Request -> Outcome \cup {"none"}]
    BY CompletedType DEF Fail, Outcome, TypeOK
  <1>2. TokenType'
    BY LocalTokensType DEF Fail, TypeOK, TokenType
  <1>3. LifecycleType'
    BY DEF Fail, TypeOK, LifecycleType, RuntimeState
  <1>4. pending' \in [Locality -> SUBSET Request]
    BY DEF Fail, TypeOK, WaiterType
  <1> QED BY <1>1, <1>2, <1>3, <1>4 DEF WaiterType

\* A handler that does not fail the runtime leaves the types as they are.
LEMMA NoFailType ==
  ASSUME TypeOK, NoFail
  PROVE  LifecycleType' /\ WaiterType'
  BY DEF TypeOK, NoFail, LifecycleType, WaiterType

\* A queued response is well formed.
LEMMA QueueResponseType ==
  ASSUME ResponseType, NEW l \in Locality, NEW r \in Request,
         NEW k \in ResponseKind, NEW cache \in BOOLEAN, QueueResponse(l, r, k, cache)
  PROVE  ResponseType'
  <1> DEFINE q == [request |-> r, kind |-> k, cache |-> cache]
  <1>1. q \in Queued
    BY DEF Queued
  <1>2. responses' = [responses EXCEPT ![l] = Append(@, q)]
    BY DEF QueueResponse
  <1> HIDE DEF q
  <1> QED BY <1>1, <1>2 DEF ResponseType

\* The initial state is well typed.
LEMMA TypeInit == Init => TypeOK
  <1> SUFFICES ASSUME Init PROVE TypeOK
    OBVIOUS
  <1>1. LifecycleType /\ SpawnType /\ WaiterType /\ TokenType
    BY CallsAssumption DEF Init, LifecycleType, SpawnType, WaiterType, TokenType,
                           RuntimeState, CallState
  <1>2. NetType /\ DedupType /\ JobType
    BY DEF Init, NetType, DedupType, JobType, NoEntry, DedupEntry
  <1>3. ResponseType /\ HistoryType
    BY DEF Init, ResponseType, HistoryType
  <1> QED BY <1>1, <1>2, <1>3 DEF TypeOK

-----------------------------------------------------------------------------
(* Every action keeps the types.                                           *)

LEMMA SpawnCheckType ==
  ASSUME TypeOK, NEW r \in Request, SpawnCheck(r) PROVE TypeOK'
  <1>1. SpawnType'
    BY CallsAssumption DEF SpawnCheck, TypeOK, SpawnType, CallState
  <1> QED BY <1>1 DEF SpawnCheck, TypeOK, LifecycleType, WaiterType, TokenType, NetType,
                      DedupType, JobType, ResponseType, HistoryType, tableVars, historyVars

LEMMA SpawnInsertType ==
  ASSUME TypeOK, NEW r \in Request, SpawnInsert(r) PROVE TypeOK'
  <1>1. SpawnType'
    BY CallsAssumption DEF SpawnInsert, TypeOK, SpawnType, CallState
  <1>2. WaiterType'
    BY CallsAssumption DEF SpawnInsert, TypeOK, WaiterType
  <1> QED BY <1>1, <1>2 DEF SpawnInsert, TypeOK, LifecycleType, TokenType, NetType,
                      DedupType, JobType, ResponseType, HistoryType, tableVars, historyVars

LEMMA SpawnSubmitType ==
  ASSUME TypeOK, NEW r \in Request, SpawnSubmit(r) PROVE TypeOK'
  <1>1. NetType'
    BY SentType DEF TypeOK, SpawnSubmit, NetType
  <1>2. SpawnType'
    BY CallsAssumption DEF TypeOK, SpawnType, SpawnSubmit, CallState
  <1>3. WaiterType'
    BY CallsAssumption DEF TypeOK, WaiterType, SpawnSubmit
  <1> QED BY <1>1, <1>2, <1>3 DEF SpawnSubmit, TypeOK, LifecycleType, TokenType,
                      DedupType, JobType, ResponseType, HistoryType, tableVars, historyVars

LEMMA PollType ==
  ASSUME TypeOK, NEW r \in Request, Poll(r) PROVE TypeOK'
  <1>1. SpawnType'
    BY DEF TypeOK, SpawnType, Poll, CallState
  <1> QED BY <1>1 DEF Poll, TypeOK, LifecycleType, WaiterType, TokenType, NetType,
                      DedupType, JobType, ResponseType, HistoryType, tableVars, historyVars

LEMMA DropFutureType ==
  ASSUME TypeOK, NEW r \in Request, DropFuture(r) PROVE TypeOK'
  <1>1. NetType'
    BY SentType DEF TypeOK, DropFuture, NetType
  <1>2. TokenType'
    BY LocalTokensType DEF TypeOK, DropFuture, TokenType
  <1>3. SpawnType'
    BY DEF TypeOK, SpawnType, DropFuture, CallState
  <1>4. WaiterType'
    BY CallsAssumption DEF TypeOK, WaiterType, DropFuture
  <1> QED BY <1>1, <1>2, <1>3, <1>4 DEF DropFuture, TypeOK, LifecycleType,
                      DedupType, JobType, ResponseType, HistoryType, tableVars, historyVars

LEMMA ExpirePendingType ==
  ASSUME TypeOK, NEW r \in Request, ExpirePending(r) PROVE TypeOK'
  <1>1. NetType'
    BY SentType DEF TypeOK, ExpirePending, NetType
  <1>2. TokenType'
    BY LocalTokensType DEF TypeOK, ExpirePending, TokenType
  <1>3. promise' \in [Request -> Outcome \cup {"none"}]
    BY CompletedType DEF TypeOK, ExpirePending, Outcome
  <1>4. pending' \in [Locality -> SUBSET Request]
    BY CallsAssumption DEF TypeOK, WaiterType, ExpirePending
  <1> QED BY <1>1, <1>2, <1>3, <1>4 DEF ExpirePending, TypeOK, LifecycleType, SpawnType, WaiterType,
                      DedupType, JobType, ResponseType, HistoryType, tableVars, historyVars

LEMMA DispatchLocalType ==
  ASSUME TypeOK, NEW r \in Request, DispatchLocal(r) PROVE TypeOK'
  <1>1. JobType'
    BY DEF TypeOK, JobType, DispatchLocal, Submit, Stage
  <1>2. promise' \in [Request -> Outcome \cup {"none"}]
    BY CompletedType DEF TypeOK, WaiterType, DispatchLocal, Outcome, ResponseKind
  <1>3. pending' \in [Locality -> SUBSET Request]
    BY CallsAssumption DEF TypeOK, WaiterType, DispatchLocal
  <1>4. SpawnType'
    BY CallsAssumption DEF TypeOK, SpawnType, DispatchLocal
  <1> QED BY <1>1, <1>2, <1>3, <1>4 DEF DispatchLocal, TypeOK, LifecycleType, WaiterType, TokenType,
                      NetType, DedupType, ResponseType, HistoryType, tableVars, historyVars

\* The job moves from the queue to a worker, which may call the handler.
StartJobEffect(r, stage) ==
  /\ jobs[<<r, "queued">>] > 0
  /\ jobs' = [jobs EXCEPT ![<<r, "queued">>] = @ - 1, ![<<r, stage>>] = @ + 1]
  /\ executions' = IF stage = "running" THEN [executions EXCEPT ![r] = @ + 1] ELSE executions

LEMMA StartJobEffects ==
  ASSUME NEW r \in Request, StartJob(r)
  PROVE  \E stage \in Busy : StartJobEffect(r, stage)
  BY DEF StartJob, StartJobEffect, Busy

LEMMA StartJobType ==
  ASSUME TypeOK, NEW r \in Request, StartJob(r) PROVE TypeOK'
  <1>0. PICK stage \in Busy : StartJobEffect(r, stage)
    BY StartJobEffects
  <1>1. JobType'
    BY <1>0 DEF TypeOK, JobType, StartJobEffect, Stage, Busy
  <1>2. HistoryType'
    <2>1. UNCHANGED <<expiries, dups>>
      BY DEF StartJob
    <2> QED BY <1>0, <2>1 DEF TypeOK, HistoryType, StartJobEffect
  <1> QED BY <1>1, <1>2 DEF StartJob, TypeOK, LifecycleType, SpawnType, WaiterType, TokenType,
                      NetType, DedupType, ResponseType, clientVars, tableVars

LEMMA FinishJobType ==
  ASSUME TypeOK, NEW r \in Request, FinishJob(r) PROVE TypeOK'
  <1>1. JobType'
    <2>1. PICK s \in FinishStep :
             /\ jobs[<<r, s[1]>>] > 0
             /\ jobs' = [jobs EXCEPT ![<<r, s[1]>>] = @ - 1, ![<<r, s[2]>>] = @ + 1]
      BY DEF FinishJob
    <2>2. s[1] \in Stage /\ s[2] \in Stage
      BY DEF FinishStep, Stage
    <2> QED BY <2>1, <2>2 DEF TypeOK, JobType
  <1> QED BY <1>1 DEF FinishJob, TypeOK, LifecycleType, SpawnType, WaiterType, TokenType,
                      NetType, DedupType, ResponseType, HistoryType, clientVars, tableVars, historyVars

LEMMA KindOfType ==
  ASSUME NEW s \in Finished PROVE KindOf(s) \in ResponseKind
  BY DEF Finished, KindOf, ResponseKind

LEMMA AnswerCompletionType ==
  ASSUME TypeOK, NEW l \in Locality, NEW r \in Request, NEW k \in ResponseKind,
         AnswerCompletion(l, r, k)
  PROVE  LifecycleType' /\ WaiterType' /\ TokenType' /\ ResponseType'
  <1>1. CASE /\ pending' = [pending EXCEPT ![l] = @ \ {r}]
             /\ promise' = Completed(pending[l] \cap {r}, k)
             /\ UNCHANGED <<state, owner, broken, token, responses>>
    <2>1. WaiterType'
      BY <1>1, CompletedType DEF TypeOK, WaiterType, Outcome
    <2> QED BY <1>1, <2>1 DEF TypeOK, LifecycleType, TokenType, ResponseType
  <1>2. CASE QueueResponse(l, r, k, TRUE) /\ NoFail /\ UNCHANGED token
    <2>1. ResponseType'
      BY <1>2, QueueResponseType DEF TypeOK
    <2> QED BY <1>2, <2>1, NoFailType DEF TypeOK, TokenType
  <1>3. CASE Fail(l, "responses full") /\ UNCHANGED responses
    BY <1>3, FailType DEF TypeOK, ResponseType
  <1> QED BY <1>1, <1>2, <1>3 DEF AnswerCompletion

LEMMA HandleCompletionType ==
  ASSUME TypeOK, NEW r \in Request, HandleCompletion(r) PROVE TypeOK'
  <1>1. PICK s \in Finished :
           /\ jobs[<<r, s>>] > 0
           /\ jobs' = [jobs EXCEPT ![<<r, s>>] = @ - 1]
           /\ AnswerCompletion(Dest[r], r, KindOf(s))
    BY DEF HandleCompletion
  <1>2. JobType'
    BY <1>1 DEF TypeOK, JobType, Finished, Stage
  <1>3. LifecycleType' /\ WaiterType' /\ TokenType' /\ ResponseType'
    BY <1>1, CallsAssumption, KindOfType, AnswerCompletionType
  <1> QED BY <1>2, <1>3 DEF HandleCompletion, TypeOK, SpawnType, NetType, DedupType, HistoryType

\* An uncached answer, or the failure of the locality.
LEMMA ReplyType ==
  ASSUME TypeOK, NEW l \in Locality, NEW r \in Request, NEW k \in ResponseKind, Reply(l, r, k)
  PROVE  LifecycleType' /\ WaiterType' /\ TokenType' /\ ResponseType'
  <1>1. CASE QueueResponse(l, r, k, FALSE) /\ NoFail /\ UNCHANGED token
    <2>1. ResponseType'
      BY <1>1, QueueResponseType DEF TypeOK
    <2> QED BY <1>1, <2>1, NoFailType DEF TypeOK, TokenType
  <1>2. CASE Fail(l, "responses full") /\ UNCHANGED responses
    BY <1>2, FailType DEF TypeOK, ResponseType
  <1> QED BY <1>1, <1>2 DEF Reply

LEMMA DispositionType ==
  ASSUME NEW e \in DedupEntry, e.st # "none"
  PROVE  Disposition(e) \in ResponseKind \cup {"none"}
  BY DEF DedupEntry, Disposition, ResponseKind

LEMMA RequestRejectedType ==
  ASSUME TypeOK, NEW r \in Request, RequestRejected(r)
  PROVE  LifecycleType' /\ WaiterType' /\ TokenType' /\ ResponseType' /\ dedup' = dedup /\ jobs' = jobs
  BY CallsAssumption, ReplyType DEF RequestRejected, ResponseKind

LEMMA RequestDuplicateType ==
  ASSUME TypeOK, NEW r \in Request, RequestDuplicate(r)
  PROVE  LifecycleType' /\ WaiterType' /\ TokenType' /\ ResponseType' /\ dedup' = dedup /\ jobs' = jobs
  <1> DEFINE l == Dest[r]
  <1>0. l \in Locality
    BY CallsAssumption
  <1>1. dedup[r] \in DedupEntry /\ dedup[r].st # "none"
    BY DEF TypeOK, DedupType, RequestDuplicate
  <1>2. CASE NoFail /\ UNCHANGED <<token, responses>>
    BY <1>2, NoFailType DEF RequestDuplicate, TypeOK, TokenType, ResponseType
  <1>3. CASE Disposition(dedup[r]) # "none" /\ Reply(l, r, Disposition(dedup[r]))
    <2>1. Disposition(dedup[r]) \in ResponseKind
      BY <1>1, <1>3, DispositionType
    <2> QED BY <1>0, <1>3, <2>1, ReplyType DEF RequestDuplicate
  <1> QED BY <1>2, <1>3 DEF RequestDuplicate

LEMMA RequestNewType ==
  ASSUME TypeOK, NEW r \in Request, RequestNew(r)
  PROVE  /\ LifecycleType' /\ WaiterType' /\ TokenType' /\ ResponseType' /\ JobType'
         /\ dedup' = [dedup EXCEPT ![r] = RunningEntry]
  <1> DEFINE l == Dest[r]
  <1>0. l \in Locality
    BY CallsAssumption
  <1>1. CASE Submit(r) /\ token' = [token EXCEPT ![r] = FALSE] /\ NoFail /\ UNCHANGED responses
    <2>1. JobType'
      BY <1>1 DEF TypeOK, JobType, Submit, Stage
    <2>2. TokenType'
      BY <1>1 DEF TypeOK, TokenType
    <2> QED BY <1>1, <2>1, <2>2, NoFailType DEF TypeOK, ResponseType, RequestNew
  <1>2. CASE QueueFailure(l, r) /\ token' = [token EXCEPT ![r] = FALSE] /\ NoFail /\ UNCHANGED jobs
    <2>1. ResponseType'
      BY <1>0, <1>2, QueueResponseType DEF TypeOK, QueueFailure, ResponseKind
    <2>2. TokenType'
      BY <1>2 DEF TypeOK, TokenType
    <2> QED BY <1>2, <2>1, <2>2, NoFailType DEF TypeOK, JobType, RequestNew
  <1>3. CASE Fail(l, "responses full") /\ UNCHANGED <<jobs, responses>>
    BY <1>0, <1>3, FailType DEF TypeOK, JobType, ResponseType, RequestNew
  <1> QED BY <1>1, <1>2, <1>3 DEF RequestNew

LEMMA HandleRequestType ==
  ASSUME TypeOK, NEW r \in Request, HandleRequest(r) PROVE TypeOK'
  <1>1. NetType'
    <2>1. <<"Request", r>> \in Message
      BY DEF Message
    <2> QED BY <2>1, TakenType DEF TypeOK, NetType, HandleRequest
  <1>2. SpawnType' /\ HistoryType' /\ retained' = retained
    BY DEF TypeOK, SpawnType, HistoryType, HandleRequest
  <1>3. LifecycleType' /\ WaiterType' /\ TokenType' /\ ResponseType' /\ JobType'
    BY RequestRejectedType, RequestNewType, RequestDuplicateType DEF HandleRequest, TypeOK, JobType
  <1>4. DedupType'
    <2>1. dedup' = dedup \/ dedup' = [dedup EXCEPT ![r] = RunningEntry]
      BY RequestRejectedType, RequestNewType, RequestDuplicateType DEF HandleRequest
    <2> QED BY <1>2, <2>1 DEF TypeOK, DedupType, DedupEntry, RunningEntry
  <1> QED BY <1>1, <1>2, <1>3, <1>4 DEF TypeOK

LEMMA HandleCancelType ==
  ASSUME TypeOK, NEW r \in Request, HandleCancel(r) PROVE TypeOK'
  <1>1. NetType'
    <2>1. <<"Cancel", r>> \in Message
      BY DEF Message
    <2> QED BY <2>1, TakenType DEF TypeOK, NetType, HandleCancel
  <1>2. TokenType'
    BY DEF TypeOK, TokenType, HandleCancel
  <1>3. DedupType'
    <2>1. PICK room : dedup' = [dedup EXCEPT ![r] = AfterCancel(@, room)]
      BY DEF HandleCancel
    <2>2. AfterCancel(dedup[r], room) \in DedupEntry
      BY DEF TypeOK, DedupType, AfterCancel, CancelledEntry, DedupEntry
    <2>3. retained' = retained
      BY DEF HandleCancel
    <2> QED BY <2>1, <2>2, <2>3 DEF TypeOK, DedupType
  <1> QED BY <1>1, <1>2, <1>3 DEF HandleCancel, TypeOK, LifecycleType, SpawnType, WaiterType,
                      JobType, ResponseType, HistoryType, clientVars, historyVars

LEMMA HandleResponseType ==
  ASSUME TypeOK, NEW r \in Request, HandleResponse(r) PROVE TypeOK'
  <1> DEFINE o == Origin[r]
  <1>1. PICK k \in ResponseKind :
           /\ Arrives(<<k, r>>)
           /\ net' = Taken(<<k, r>>)
           /\ pending' = [pending EXCEPT ![o] = @ \ {r}]
           /\ promise' = Completed(pending[o] \cap {r}, k)
    BY DEF HandleResponse
  <1>2. NetType'
    <2>1. <<k, r>> \in Message
      BY DEF Message
    <2> QED BY <1>1, <2>1, TakenType DEF TypeOK, NetType
  <1>3. WaiterType'
    BY <1>1, CompletedType, CallsAssumption DEF TypeOK, WaiterType, Outcome
  <1> QED BY <1>2, <1>3 DEF HandleResponse, TypeOK, LifecycleType, SpawnType, TokenType,
                      DedupType, JobType, ResponseType, HistoryType, tableVars, historyVars

LEMMA CompleteType ==
  ASSUME TypeOK, NEW l \in Locality, NEW q \in Queued, Complete(l, q)
  PROVE  DedupType'
  <1>1. PICK resp \in ResponseKind \cup {"none"} :
           dedup' = [dedup EXCEPT ![q.request] = [st |-> "completed", resp |-> resp]]
    BY DEF Complete, Queued
  <1>2. q.request \in Request /\ Weight(q.kind) \in Nat
    BY DEF Queued, Weight
  <1>3. dedup' \in [Request -> DedupEntry]
    BY <1>1, <1>2 DEF TypeOK, DedupType, DedupEntry
  <1>4. retained' \in [Locality -> Nat]
    BY <1>2 DEF TypeOK, DedupType, Complete
  <1> QED BY <1>3, <1>4 DEF DedupType

LEMMA SendResponseType ==
  ASSUME TypeOK, NEW l \in Locality, SendResponse(l) PROVE TypeOK'
  <1> DEFINE q == Head(responses[l])
  <1>1. responses[l] \in Seq(Queued) /\ responses[l] # << >>
    BY DEF TypeOK, ResponseType, SendResponse
  <1>2. q \in Queued /\ Tail(responses[l]) \in Seq(Queued)
    BY <1>1
  <1>3. ResponseType'
    <2>1. responses' = [responses EXCEPT ![l] = Tail(@)]
      BY DEF SendResponse
    <2> QED BY <1>2, <2>1 DEF TypeOK, ResponseType
  <1> HIDE DEF q
  <1>4. NetType'
    BY SentType DEF SendResponse, TypeOK, NetType
  <1>5. DedupType' /\ LifecycleType' /\ WaiterType' /\ TokenType'
    <2>1. CASE NoFail /\ UNCHANGED <<dedup, retained, token>>
      BY <2>1, NoFailType DEF TypeOK, DedupType, TokenType
    <2>2. CASE Complete(l, q) /\ NoFail /\ UNCHANGED token
      BY <1>2, <2>2, NoFailType, CompleteType DEF TypeOK, TokenType
    <2>3. CASE Fail(l, "protocol") /\ UNCHANGED <<dedup, retained>>
      BY <2>3, FailType DEF TypeOK, DedupType
    <2>4. CASE Fail(l, "transport") /\ UNCHANGED <<dedup, retained>>
      BY <2>4, FailType DEF TypeOK, DedupType
    <2> QED BY <2>1, <2>2, <2>3, <2>4 DEF SendResponse, q
  <1> QED BY <1>3, <1>4, <1>5 DEF SendResponse, TypeOK, SpawnType, JobType, HistoryType

LEMMA DedupExpireType ==
  ASSUME TypeOK, NEW r \in Request, DedupExpire(r) PROVE TypeOK'
  <1>1. dedup' \in [Request -> DedupEntry]
    BY DEF TypeOK, DedupType, DedupExpire, NoEntry, DedupEntry
  <1>2. retained' \in [Locality -> Nat]
    <2>1. retained' = [retained EXCEPT ![Dest[r]] = SaturatingSub(@, Weight(dedup[r].resp))]
      BY DEF DedupExpire
    <2>2. Weight(dedup[r].resp) \in Nat
      BY DEF Weight
    <2>3. \A m, n \in Nat : SaturatingSub(m, n) \in Nat
      BY DEF SaturatingSub
    <2> QED BY CallsAssumption, <2>1, <2>2, <2>3 DEF TypeOK, DedupType
  <1>3. HistoryType'
    BY DEF TypeOK, HistoryType, DedupExpire
  <1> QED BY <1>1, <1>2, <1>3 DEF DedupExpire, TypeOK, LifecycleType, SpawnType, WaiterType, TokenType,
                      NetType, DedupType, JobType, ResponseType, clientVars

LEMMA DuplicateMessageType ==
  ASSUME TypeOK, NEW m \in Message, DuplicateMessage(m) PROVE TypeOK'
  <1>1. NetType'
    BY DEF TypeOK, NetType, DuplicateMessage
  <1>2. HistoryType'
    BY DEF TypeOK, HistoryType, DuplicateMessage
  <1> QED BY <1>1, <1>2 DEF DuplicateMessage, TypeOK, LifecycleType, SpawnType, WaiterType, TokenType,
                      DedupType, JobType, ResponseType, clientVars, tableVars

\* Both ends of a message are localities.
LEMMA EndsType ==
  ASSUME NEW m \in Message
  PROVE  m[2] \in Request /\ Origin[m[2]] \in Locality /\ Dest[m[2]] \in Locality
  BY CallsAssumption DEF Message

LEMMA SendFailedType ==
  ASSUME TypeOK, NEW m \in Message, SendFailed(m) PROVE TypeOK'
  <1> DEFINE l == IF m[1] \in {"Request", "Cancel"} THEN Origin[m[2]] ELSE Dest[m[2]]
  <1>0. l \in Locality
    BY EndsType
  <1>1. NetType'
    BY TakenType DEF TypeOK, NetType, SendFailed
  <1>2. LifecycleType' /\ WaiterType' /\ TokenType'
    <2>1. CASE /\ pending' = [pending EXCEPT ![l] = @ \ {m[2]}]
               /\ promise' = Completed(pending[l] \cap {m[2]}, "Transport")
               /\ UNCHANGED <<state, owner, token, broken>>
      <3>1. WaiterType'
        BY <1>0, <2>1, CompletedType DEF TypeOK, WaiterType, Outcome
      <3> QED BY <2>1, <3>1 DEF TypeOK, LifecycleType, TokenType
    <2>2. CASE NoFail /\ UNCHANGED token
      BY <2>2, NoFailType DEF TypeOK, TokenType
    <2>3. CASE Fail(l, "transport")
      BY <1>0, <2>3, FailType
    <2> QED BY <2>1, <2>2, <2>3 DEF SendFailed
  <1> QED BY <1>1, <1>2 DEF SendFailed, TypeOK, SpawnType, DedupType, JobType, ResponseType,
                      HistoryType, tableVars

LEMMA TransportFailsType ==
  ASSUME TypeOK, NEW l \in Locality, TransportFails(l) PROVE TypeOK'
  <1>1. LifecycleType' /\ WaiterType' /\ TokenType'
    BY FailType DEF TransportFails
  <1> QED BY <1>1 DEF TransportFails, TypeOK, SpawnType, NetType, DedupType, JobType, ResponseType,
                      HistoryType, tableVars

LEMMA ShutdownBeginType ==
  ASSUME TypeOK, NEW l \in Locality, ShutdownBegin(l) PROVE TypeOK'
  <1>1. NetType'
    BY SentType DEF TypeOK, NetType, ShutdownBegin
  <1>2. TokenType'
    BY LocalTokensType DEF TypeOK, TokenType, ShutdownBegin
  <1>3. WaiterType'
    BY CompletedType DEF TypeOK, WaiterType, ShutdownBegin, Outcome
  <1>4. LifecycleType'
    BY DEF TypeOK, LifecycleType, ShutdownBegin, RuntimeState, historyVars
  <1>5. SpawnType'
    BY DEF TypeOK, SpawnType, ShutdownBegin
  <1> QED BY <1>1, <1>2, <1>3, <1>4, <1>5 DEF ShutdownBegin, TypeOK, DedupType, JobType, ResponseType,
                      HistoryType, tableVars, historyVars

LEMMA ShutdownFinishType ==
  ASSUME TypeOK, NEW l \in Locality, ShutdownFinish(l) PROVE TypeOK'
  <1>1. DedupType'
    BY DEF TypeOK, DedupType, ShutdownFinish, NoEntry, DedupEntry
  <1>2. LifecycleType'
    BY DEF TypeOK, LifecycleType, ShutdownFinish, RuntimeState, historyVars
  <1> QED BY <1>1, <1>2 DEF ShutdownFinish, TypeOK, SpawnType, WaiterType, TokenType, NetType, JobType,
                      ResponseType, HistoryType, clientVars, historyVars

LEMMA ShutdownTimeoutType ==
  ASSUME TypeOK, NEW l \in Locality, ShutdownTimeout(l) PROVE TypeOK'
  <1>1. LifecycleType'
    BY DEF TypeOK, LifecycleType, ShutdownTimeout, RuntimeState, historyVars
  <1> QED BY <1>1 DEF ShutdownTimeout, TypeOK, SpawnType, WaiterType, TokenType, NetType, DedupType,
                      JobType, ResponseType, HistoryType, clientVars, tableVars, historyVars

LEMMA DropRuntimeType ==
  ASSUME TypeOK, NEW l \in Locality, DropRuntime(l) PROVE TypeOK'
  <1>1. LifecycleType'
    BY DEF TypeOK, LifecycleType, DropRuntime, RuntimeState, historyVars
  <1>2. WaiterType'
    BY CompletedType DEF TypeOK, WaiterType, DropRuntime, Outcome
  <1>3. TokenType'
    BY LocalTokensType DEF TypeOK, TokenType, DropRuntime
  <1> QED BY <1>1, <1>2, <1>3 DEF DropRuntime, TypeOK, SpawnType, NetType, DedupType,
                      JobType, ResponseType, HistoryType, tableVars, historyVars

\* No step of any thread, of the network or of a failure leaves the types.
LEMMA TypeStep == TypeOK /\ [Next]_vars => TypeOK'
  <1> SUFFICES ASSUME TypeOK, [Next]_vars PROVE TypeOK'
    OBVIOUS
  <1>1. CASE OwnerStep
    BY <1>1, ExpirePendingType, DispatchLocalType, HandleCompletionType, HandleRequestType,
       HandleCancelType, HandleResponseType, DedupExpireType, SendResponseType, ShutdownBeginType,
       ShutdownFinishType, ShutdownTimeoutType, DropRuntimeType DEF OwnerStep
  <1>2. CASE ClientStep
    BY <1>2, SpawnCheckType, SpawnInsertType, SpawnSubmitType, PollType, DropFutureType DEF ClientStep
  <1>3. CASE WorkerStep
    BY <1>3, StartJobType, FinishJobType DEF WorkerStep
  <1>4. CASE NetworkStep
    BY <1>4, DuplicateMessageType, SendFailedType, TransportFailsType DEF NetworkStep
  <1>5. CASE UNCHANGED vars
    BY <1>5 DEF vars, clientVars, tableVars, historyVars, TypeOK, LifecycleType, SpawnType, WaiterType,
                TokenType, NetType, DedupType, JobType, ResponseType, HistoryType
  <1> QED BY <1>1, <1>2, <1>3, <1>4, <1>5 DEF Next

\* Every table, channel and counter of every locality stays in its domain.
THEOREM TypeCorrect == Spec => []TypeOK
  BY TypeInit, TypeStep, PTL DEF Spec

-----------------------------------------------------------------------------
(* No future is orphaned.  WaiterIsTracked is inductive together with the  *)
(* types: a step may take a waiter out of its pending table only if it     *)
(* completes the promise, and a completed promise stays completed.         *)

\* A step that keeps promises, resolves every waiter it removes and starts no
\* new one.
WaitersKept ==
  \A r \in Request :
    /\ promise[r] # "none" => promise'[r] # "none"
    /\ r \in pending[Origin[r]] => r \in pending'[Origin[r]] \/ promise'[r] # "none"

CallsKept ==
  \A r \in Request :
    call'[r] \in {"inserted", "live"} => call[r] \in {"inserted", "live"}

LEMMA KeptIsTracked ==
  ASSUME WaiterIsTracked, WaitersKept, CallsKept PROVE WaiterIsTracked'
  BY DEF WaiterIsTracked, WaitersKept, CallsKept

\* Promise::complete makes the promises of S resolved and keeps the others.
LEMMA CompletedKeeps ==
  ASSUME NEW S, NEW out \in Outcome, promise' = Completed(S, out), NEW r \in Request
  PROVE  /\ promise[r] # "none" => promise'[r] # "none"
         /\ r \in S => promise'[r] # "none"
  BY DEF Completed, Outcome, ResponseKind

\* Removing one waiter and completing it (complete_pending, expire_pending, a
\* failed send, a finished local job).
LEMMA ReleaseKeeps ==
  ASSUME TypeOK, NEW l \in Locality, NEW q \in Request, NEW out \in Outcome,
         pending' = [pending EXCEPT ![l] = @ \ {q}],
         \/ promise' = Completed(pending[l] \cap {q}, out)
         \/ promise' = Completed({q}, out)
  PROVE  WaitersKept
  <1> SUFFICES ASSUME NEW r \in Request
               PROVE  /\ promise[r] # "none" => promise'[r] # "none"
                      /\ r \in pending[Origin[r]] =>
                           r \in pending'[Origin[r]] \/ promise'[r] # "none"
    BY DEF WaitersKept
  <1>1. promise[r] # "none" => promise'[r] # "none"
    BY CompletedKeeps
  <1>2. ASSUME r \in pending[Origin[r]], r \notin pending'[Origin[r]] PROVE promise'[r] # "none"
    <2>1. r = q /\ Origin[r] = l
      BY <1>2, CallsAssumption DEF TypeOK, WaiterType
    <2> QED BY <1>2, <2>1, CompletedKeeps
  <1> QED BY <1>1, <1>2

\* Emptying a pending table and completing all it held (fail, shutdown, drop).
LEMMA DrainKeeps ==
  ASSUME TypeOK, NEW l \in Locality, NEW out \in Outcome,
         pending' = [pending EXCEPT ![l] = {}],
         promise' = Completed(pending[l], out)
  PROVE  WaitersKept
  <1> SUFFICES ASSUME NEW r \in Request
               PROVE  /\ promise[r] # "none" => promise'[r] # "none"
                      /\ r \in pending[Origin[r]] =>
                           r \in pending'[Origin[r]] \/ promise'[r] # "none"
    BY DEF WaitersKept
  <1>1. promise[r] # "none" => promise'[r] # "none"
    BY CompletedKeeps
  <1>2. ASSUME r \in pending[Origin[r]], r \notin pending'[Origin[r]] PROVE promise'[r] # "none"
    <2>1. Origin[r] = l
      BY <1>2, CallsAssumption DEF TypeOK, WaiterType
    <2> QED BY <1>2, <2>1, CompletedKeeps
  <1> QED BY <1>1, <1>2

LEMMA FailKeeps ==
  ASSUME TypeOK, NEW l \in Locality, NEW why, Fail(l, why) PROVE WaitersKept
  BY DrainKeeps DEF Fail, Outcome

LEMMA NoFailKeeps ==
  ASSUME NoFail PROVE WaitersKept
  BY DEF NoFail, WaitersKept

LEMMA ClientTracked ==
  ASSUME TypeOK, WaiterIsTracked, ClientStep PROVE WaiterIsTracked'
  <1>1. ASSUME NEW r \in Request, SpawnCheck(r) PROVE WaiterIsTracked'
    BY <1>1 DEF SpawnCheck, WaiterIsTracked, TypeOK, SpawnType
  <1>2. ASSUME NEW r \in Request, SpawnInsert(r) PROVE WaiterIsTracked'
    BY <1>2, CallsAssumption DEF SpawnInsert, WaiterIsTracked, TypeOK, SpawnType, WaiterType
  <1>3. ASSUME NEW r \in Request, SpawnSubmit(r) PROVE WaiterIsTracked'
    BY <1>3, CallsAssumption DEF SpawnSubmit, WaiterIsTracked, TypeOK, SpawnType, WaiterType
  <1>4. ASSUME NEW r \in Request, Poll(r) PROVE WaiterIsTracked'
    BY <1>4 DEF Poll, WaiterIsTracked, TypeOK, SpawnType
  <1>5. ASSUME NEW r \in Request, DropFuture(r) PROVE WaiterIsTracked'
    BY <1>5, CallsAssumption DEF DropFuture, WaiterIsTracked, TypeOK, SpawnType, WaiterType
  <1> QED BY <1>1, <1>2, <1>3, <1>4, <1>5 DEF ClientStep

LEMMA OwnerTracked ==
  ASSUME TypeOK, WaiterIsTracked, OwnerStep PROVE WaiterIsTracked'
  <1>1. ASSUME NEW r \in Request, ExpirePending(r) PROVE WaiterIsTracked'
    BY <1>1, ReleaseKeeps, KeptIsTracked, CallsAssumption DEF ExpirePending, CallsKept, Outcome
  <1>2. ASSUME NEW r \in Request, DispatchLocal(r) PROVE WaiterIsTracked'
    <2>1. CallsKept
      BY <1>2 DEF DispatchLocal, CallsKept
    <2>2. CASE UNCHANGED <<pending, promise>>
      BY <2>1, <2>2, KeptIsTracked DEF WaitersKept
    <2>3. CASE /\ pending' = [pending EXCEPT ![Origin[r]] = @ \ {r}]
               /\ promise' = Completed(pending[Origin[r]] \cap {r}, "Failure")
      BY <1>2, <2>1, <2>3, ReleaseKeeps, KeptIsTracked, CallsAssumption DEF Outcome, ResponseKind
    <2> QED BY <1>2, <2>2, <2>3 DEF DispatchLocal
  <1>3. ASSUME NEW r \in Request, HandleCompletion(r) PROVE WaiterIsTracked'
    <2>1. CallsKept
      BY <1>3 DEF HandleCompletion, CallsKept
    <2>2. PICK s \in Finished : AnswerCompletion(Dest[r], r, KindOf(s))
      BY <1>3 DEF HandleCompletion
    <2>3. KindOf(s) \in Outcome /\ Dest[r] \in Locality
      BY KindOfType, CallsAssumption, <1>3 DEF Outcome
    <2>4. WaitersKept
      BY <1>3, <2>2, <2>3, ReleaseKeeps, NoFailKeeps, FailKeeps DEF AnswerCompletion
    <2> QED BY <2>1, <2>4, KeptIsTracked
  <1>4. ASSUME NEW r \in Request, HandleRequest(r) PROVE WaiterIsTracked'
    <2>1. CallsKept
      BY <1>4 DEF HandleRequest, CallsKept
    <2>2. NoFail \/ Fail(Dest[r], "responses full")
      BY <1>4 DEF HandleRequest, RequestRejected, RequestNew, RequestDuplicate, Reply
    <2> QED BY <1>4, <2>1, <2>2, CallsAssumption, NoFailKeeps, FailKeeps, KeptIsTracked
  <1>5. ASSUME NEW r \in Request, HandleCancel(r) PROVE WaiterIsTracked'
    BY <1>5 DEF HandleCancel, clientVars, WaiterIsTracked
  <1>6. ASSUME NEW r \in Request, HandleResponse(r) PROVE WaiterIsTracked'
    BY <1>6, ReleaseKeeps, KeptIsTracked, CallsAssumption DEF HandleResponse, CallsKept, Outcome
  <1>7. ASSUME NEW r \in Request, DedupExpire(r) PROVE WaiterIsTracked'
    BY <1>7 DEF DedupExpire, clientVars, WaiterIsTracked
  <1>8. ASSUME NEW l \in Locality, SendResponse(l) PROVE WaiterIsTracked'
    <2>1. CallsKept
      BY <1>8 DEF SendResponse, CallsKept
    <2>2. NoFail \/ Fail(l, "protocol") \/ Fail(l, "transport")
      BY <1>8 DEF SendResponse
    <2> QED BY <1>8, <2>1, <2>2, NoFailKeeps, FailKeeps, KeptIsTracked
  <1>9. ASSUME NEW l \in Locality, ShutdownBegin(l) PROVE WaiterIsTracked'
    BY <1>9, DrainKeeps, KeptIsTracked DEF ShutdownBegin, CallsKept, Outcome
  <1>10. ASSUME NEW l \in Locality, ShutdownFinish(l) PROVE WaiterIsTracked'
    BY <1>10 DEF ShutdownFinish, clientVars, WaiterIsTracked
  <1>11. ASSUME NEW l \in Locality, ShutdownTimeout(l) PROVE WaiterIsTracked'
    BY <1>11 DEF ShutdownTimeout, clientVars, WaiterIsTracked
  <1>12. ASSUME NEW l \in Locality, DropRuntime(l) PROVE WaiterIsTracked'
    <2>1. CASE state[l] \in {"Stopped", "Failed"}
      BY <1>12, <2>1 DEF DropRuntime, WaiterIsTracked
    <2>2. CASE state[l] \notin {"Stopped", "Failed"}
      BY <1>12, <2>2, DrainKeeps, KeptIsTracked DEF DropRuntime, CallsKept, Outcome
    <2> QED BY <2>1, <2>2
  <1> QED BY <1>1, <1>2, <1>3, <1>4, <1>5, <1>6, <1>7, <1>8, <1>9, <1>10, <1>11, <1>12 DEF OwnerStep

LEMMA NetworkTracked ==
  ASSUME TypeOK, WaiterIsTracked, NetworkStep PROVE WaiterIsTracked'
  <1>1. ASSUME NEW m \in Message, DuplicateMessage(m) PROVE WaiterIsTracked'
    BY <1>1 DEF DuplicateMessage, clientVars, WaiterIsTracked
  <1>2. ASSUME NEW m \in Message, SendFailed(m) PROVE WaiterIsTracked'
    <2> DEFINE l == IF m[1] \in {"Request", "Cancel"} THEN Origin[m[2]] ELSE Dest[m[2]]
    <2>0. l \in Locality /\ m[2] \in Request
      BY <1>2, EndsType
    <2>1. CallsKept
      BY <1>2 DEF SendFailed, CallsKept
    <2>2. \/ /\ pending' = [pending EXCEPT ![l] = @ \ {m[2]}]
             /\ promise' = Completed(pending[l] \cap {m[2]}, "Transport")
          \/ NoFail
          \/ Fail(l, "transport")
      BY <1>2 DEF SendFailed
    <2>3. "Transport" \in Outcome
      BY DEF Outcome
    <2> HIDE DEF l
    <2> QED BY <2>0, <2>1, <2>2, <2>3, ReleaseKeeps, NoFailKeeps, FailKeeps, KeptIsTracked
  <1>3. ASSUME NEW l \in Locality, TransportFails(l) PROVE WaiterIsTracked'
    BY <1>3, FailKeeps, KeptIsTracked DEF TransportFails, CallsKept
  <1> QED BY <1>1, <1>2, <1>3 DEF NetworkStep

\* A future its caller still holds is resolved, or its pending table knows it:
\* spawn, response, deadline, send failure, peer failure, shutdown and drop
\* never orphan a waiter, for any number of localities, calls and threads.
THEOREM NoWaiterOrphaned == Spec => []WaiterIsTracked
  <1>1. Init => WaiterIsTracked
    BY DEF Init, WaiterIsTracked
  <1>2. TypeOK /\ WaiterIsTracked /\ [Next]_vars => WaiterIsTracked'
    <2> SUFFICES ASSUME TypeOK, WaiterIsTracked, [Next]_vars PROVE WaiterIsTracked'
      OBVIOUS
    <2>1. CASE WorkerStep
      BY <2>1 DEF WorkerStep, StartJob, FinishJob, clientVars, WaiterIsTracked
    <2>2. CASE UNCHANGED vars
      BY <2>2 DEF vars, clientVars, WaiterIsTracked
    <2> QED BY <2>1, <2>2, ClientTracked, OwnerTracked, NetworkTracked DEF Next
  <1> QED BY <1>1, <1>2, TypeCorrect, PTL DEF Spec

-----------------------------------------------------------------------------
(* At most one execution per dedup entry.  The bound on executions is not  *)
(* inductive: a queued job is an execution to come, a local request may    *)
(* still be on its way to the queue, and a receiver that is shutting down  *)
(* clears its dedup table but accepts no request any more.                 *)

Unsent(r) == call[r] \in {"unborn", "checked", "inserted"}

LocalBudget(r) ==
  executions[r] + jobs[<<r, "queued">>] + (IF r \in localq[Origin[r]] THEN 1 ELSE 0)
    + (IF Unsent(r) THEN 1 ELSE 0) <= 1

\* The receiver may still accept the request as a new one.
Admissible(r) == dedup[r].st = "none" /\ state[Dest[r]] = "Running"

RemoteBudget(r) ==
  executions[r] + jobs[<<r, "queued">>] <= expiries[r] + (IF Admissible(r) THEN 0 ELSE 1)

\* A local call never uses the network, a remote one never the local channel,
\* and each has budget left for the executions that are still to come.
ExecutionInv ==
  \A r \in Request :
    /\ IsLocal(r) => net[<<"Request", r>>] = 0 /\ LocalBudget(r)
    /\ ~IsLocal(r) => r \notin localq[Origin[r]] /\ RemoteBudget(r)

\* What a step that neither queues nor starts a job does to the budgets.
BudgetKept(r) ==
  /\ executions'[r] = executions[r]
  /\ jobs'[<<r, "queued">>] = jobs[<<r, "queued">>]
  /\ expiries'[r] = expiries[r]
  /\ net[<<"Request", r>>] = 0 => net'[<<"Request", r>>] = 0
  /\ r \in localq'[Origin[r]] => r \in localq[Origin[r]]
  /\ Unsent(r)' => Unsent(r)
  /\ Admissible(r)' => Admissible(r)

\* The counters of the budgets are numbers.
LEMMA BudgetTypes ==
  ASSUME TypeOK, NEW r \in Request
  PROVE  executions[r] \in Nat /\ jobs[<<r, "queued">>] \in Nat /\ expiries[r] \in Nat
  BY DEF TypeOK, HistoryType, JobType, Stage

LEMMA KeptBudgets ==
  ASSUME TypeOK, ExecutionInv, \A r \in Request : BudgetKept(r) PROVE ExecutionInv'
  <1> SUFFICES ASSUME NEW r \in Request
               PROVE  /\ IsLocal(r) => net'[<<"Request", r>>] = 0 /\ LocalBudget(r)'
                      /\ ~IsLocal(r) => r \notin localq'[Origin[r]] /\ RemoteBudget(r)'
    BY DEF ExecutionInv, IsLocal
  <1>1. BudgetKept(r)
    OBVIOUS
  <1>2. executions[r] \in Nat /\ jobs[<<r, "queued">>] \in Nat /\ expiries[r] \in Nat
    BY BudgetTypes
  <1>3. CASE IsLocal(r)
    BY <1>1, <1>2, <1>3 DEF ExecutionInv, BudgetKept, LocalBudget
  <1>4. CASE ~IsLocal(r)
    BY <1>1, <1>2, <1>4 DEF ExecutionInv, BudgetKept, RemoteBudget
  <1> QED BY <1>3, <1>4

\* Messages of another kind leave the requests in flight alone.
LEMMA SentOther ==
  ASSUME NetType, NEW M, NEW r \in Request, <<"Request", r>> \notin M, net' = Sent(M)
  PROVE  net'[<<"Request", r>>] = net[<<"Request", r>>]
  BY DEF Sent, Message, NetType

LEMMA CancelsOther ==
  ASSUME NEW S, NEW M \in CancelSends(S), NEW r \in Request
  PROVE  <<"Request", r>> \notin M
  BY DEF CancelSends

\* Runtime::fail makes a receiver inadmissible, at most.
LEMMA FailAdmits ==
  ASSUME TypeOK, NEW l \in Locality, NEW why, Fail(l, why), NEW r \in Request,
         dedup'[r].st = "none" => dedup[r].st = "none"
  PROVE  Admissible(r)' => Admissible(r)
  BY CallsAssumption DEF Fail, Admissible, TypeOK, LifecycleType

LEMMA SameAdmits ==
  ASSUME state' = state, NEW r \in Request, dedup'[r].st = "none" => dedup[r].st = "none"
  PROVE  Admissible(r)' => Admissible(r)
  BY DEF Admissible

LEMMA SpawnSubmitBudget ==
  ASSUME TypeOK, ExecutionInv, NEW q \in Request, SpawnSubmit(q) PROVE ExecutionInv'
  <1> SUFFICES ASSUME NEW r \in Request
               PROVE  /\ IsLocal(r) => net'[<<"Request", r>>] = 0 /\ LocalBudget(r)'
                      /\ ~IsLocal(r) => r \notin localq'[Origin[r]] /\ RemoteBudget(r)'
    BY DEF ExecutionInv, IsLocal
  <1>1. executions[r] \in Nat /\ jobs[<<r, "queued">>] \in Nat /\ expiries[r] \in Nat
    BY BudgetTypes
  <1>2. UNCHANGED <<executions, jobs, expiries, dedup, state>>
    BY DEF SpawnSubmit, tableVars, historyVars
  <1>3. ~IsLocal(r) => RemoteBudget(r)'
    BY <1>1, <1>2 DEF ExecutionInv, RemoteBudget, Admissible
  <1>4. r # q => Unsent(r)' = Unsent(r)
    BY DEF SpawnSubmit, Unsent, TypeOK, SpawnType
  <1>5. Unsent(q) /\ ~Unsent(q)'
    BY DEF SpawnSubmit, Unsent, TypeOK, SpawnType
  <1>6. r \in localq'[Origin[r]] => r \in localq[Origin[r]] \/ (r = q /\ IsLocal(r))
    BY CallsAssumption DEF SpawnSubmit, TypeOK, SpawnType
  <1>7. IsLocal(r) => net'[<<"Request", r>>] = net[<<"Request", r>>]
    <2>1. IsLocal(r) => net' = net \/ (net' = Sent({<<"Request", q>>}) /\ r # q)
      BY DEF SpawnSubmit
    <2> QED BY <2>1, SentOther DEF TypeOK
  <1>8. IsLocal(r) => LocalBudget(r)'
    <2> SUFFICES ASSUME IsLocal(r) PROVE LocalBudget(r)'
      OBVIOUS
    <2>0. LocalBudget(r)
      BY DEF ExecutionInv
    <2>1. CASE r = q
      BY <2>0, <2>1, <1>1, <1>2, <1>5 DEF LocalBudget
    <2>2. CASE r # q
      BY <2>0, <2>2, <1>1, <1>2, <1>4, <1>6 DEF LocalBudget
    <2> QED BY <2>1, <2>2
  <1> QED BY <1>3, <1>6, <1>7, <1>8 DEF ExecutionInv

LEMMA ClientBudget ==
  ASSUME TypeOK, ExecutionInv, ClientStep PROVE ExecutionInv'
  <1>1. ASSUME NEW q \in Request, SpawnCheck(q) PROVE ExecutionInv'
    <2>1. ASSUME NEW r \in Request PROVE BudgetKept(r)
      BY <1>1 DEF SpawnCheck, BudgetKept, Unsent, Admissible, TypeOK, SpawnType, tableVars, historyVars
    <2> QED BY <2>1, KeptBudgets
  <1>2. ASSUME NEW q \in Request, SpawnInsert(q) PROVE ExecutionInv'
    <2>1. ASSUME NEW r \in Request PROVE BudgetKept(r)
      BY <1>2 DEF SpawnInsert, BudgetKept, Unsent, Admissible, TypeOK, SpawnType, tableVars, historyVars
    <2> QED BY <2>1, KeptBudgets
  <1>3. ASSUME NEW q \in Request, Poll(q) PROVE ExecutionInv'
    <2>1. ASSUME NEW r \in Request PROVE BudgetKept(r)
      BY <1>3 DEF Poll, BudgetKept, Unsent, Admissible, TypeOK, SpawnType, tableVars, historyVars
    <2> QED BY <2>1, KeptBudgets
  <1>4. ASSUME NEW q \in Request, DropFuture(q) PROVE ExecutionInv'
    <2>1. ASSUME NEW r \in Request PROVE BudgetKept(r)
      <3>1. net'[<<"Request", r>>] = net[<<"Request", r>>]
        BY <1>4, CancelsOther, SentOther DEF DropFuture, TypeOK
      <3> QED BY <1>4, <3>1 DEF DropFuture, BudgetKept, Unsent, Admissible, TypeOK, SpawnType,
                               tableVars, historyVars
    <2> QED BY <2>1, KeptBudgets
  <1> QED BY <1>1, <1>2, <1>3, <1>4, SpawnSubmitBudget DEF ClientStep

\* Starting a job turns a queued execution into a real one, or drops it.
LEMMA StartJobBudget ==
  ASSUME TypeOK, ExecutionInv, NEW q \in Request, StartJob(q) PROVE ExecutionInv'
  <1>0. PICK stage \in Busy : StartJobEffect(q, stage)
    BY StartJobEffects
  <1>1. UNCHANGED <<state, call, localq, net, dedup, expiries>>
    BY DEF StartJob, clientVars, tableVars
  <1> SUFFICES ASSUME NEW r \in Request
               PROVE  /\ IsLocal(r) => net'[<<"Request", r>>] = 0 /\ LocalBudget(r)'
                      /\ ~IsLocal(r) => r \notin localq'[Origin[r]] /\ RemoteBudget(r)'
    BY DEF ExecutionInv, IsLocal
  <1>2. executions[r] \in Nat /\ jobs[<<r, "queued">>] \in Nat /\ expiries[r] \in Nat
    BY BudgetTypes
  <1>3. executions'[r] + jobs'[<<r, "queued">>] <= executions[r] + jobs[<<r, "queued">>]
    <2>1. jobs'[<<r, "queued">>] = IF r = q THEN jobs[<<r, "queued">>] - 1 ELSE jobs[<<r, "queued">>]
      BY <1>0 DEF StartJobEffect, Busy, TypeOK, JobType, Stage
    <2>2. executions'[r] = IF r = q /\ stage = "running" THEN executions[r] + 1 ELSE executions[r]
      BY <1>0 DEF StartJobEffect, TypeOK, HistoryType
    <2> QED BY <1>2, <2>1, <2>2
  <1>4. executions'[r] \in Nat /\ jobs'[<<r, "queued">>] \in Nat
    BY StartJobType, BudgetTypes DEF TypeOK, HistoryType, JobType, Stage
  <1>5. Unsent(r)' = Unsent(r) /\ Admissible(r)' = Admissible(r) /\ localq' = localq /\ expiries' = expiries
    BY <1>1 DEF Unsent, Admissible
  <1>6. LocalBudget(r) => LocalBudget(r)'
    BY <1>2, <1>3, <1>4, <1>5 DEF LocalBudget
  <1>7. RemoteBudget(r) => RemoteBudget(r)'
    BY <1>2, <1>3, <1>4, <1>5 DEF RemoteBudget
  <1> QED BY <1>1, <1>6, <1>7 DEF ExecutionInv

LEMMA WorkerBudget ==
  ASSUME TypeOK, ExecutionInv, WorkerStep PROVE ExecutionInv'
  <1>1. ASSUME NEW q \in Request, FinishJob(q) PROVE ExecutionInv'
    <2>1. PICK s \in FinishStep :
             jobs' = [jobs EXCEPT ![<<q, s[1]>>] = @ - 1, ![<<q, s[2]>>] = @ + 1]
      BY <1>1 DEF FinishJob
    <2>2. s[1] # "queued" /\ s[2] # "queued"
      BY DEF FinishStep
    <2>3. ASSUME NEW r \in Request PROVE BudgetKept(r)
      <3>1. jobs'[<<r, "queued">>] = jobs[<<r, "queued">>]
        BY <2>1, <2>2 DEF TypeOK, JobType, Stage
      <3> QED BY <1>1, <3>1 DEF FinishJob, BudgetKept, Unsent, Admissible, clientVars, tableVars, historyVars
    <2> QED BY <2>3, KeptBudgets
  <1> QED BY <1>1, StartJobBudget DEF WorkerStep

\* Taking a message off the network puts no request on it.
LEMMA TakenOther ==
  ASSUME NetType, NEW m \in Message, Arrives(m), net' = Taken(m), NEW r \in Request
  PROVE  net[<<"Request", r>>] = 0 => net'[<<"Request", r>>] = 0
  BY DEF Taken, Arrives, Message, NetType

\* dispatch_local moves a local request from the channel to the domain queue,
\* or gives up on it.
LEMMA DispatchLocalBudget ==
  ASSUME TypeOK, ExecutionInv, NEW q \in Request, DispatchLocal(q) PROVE ExecutionInv'
  <1>1. UNCHANGED <<state, call, net, dedup, executions, expiries>>
    BY DEF DispatchLocal, tableVars, historyVars
  <1>2. q \in localq[Origin[q]] /\ localq' = [localq EXCEPT ![Origin[q]] = @ \ {q}]
    BY DEF DispatchLocal
  <1>3. Submit(q) \/ jobs' = jobs
    BY DEF DispatchLocal
  <1>4. IsLocal(q)
    BY <1>2 DEF ExecutionInv
  <1> SUFFICES ASSUME NEW r \in Request
               PROVE  /\ IsLocal(r) => net'[<<"Request", r>>] = 0 /\ LocalBudget(r)'
                      /\ ~IsLocal(r) => r \notin localq'[Origin[r]] /\ RemoteBudget(r)'
    BY DEF ExecutionInv, IsLocal
  <1>5. executions[r] \in Nat /\ jobs[<<r, "queued">>] \in Nat /\ expiries[r] \in Nat
    BY BudgetTypes
  <1>6. r # q => jobs'[<<r, "queued">>] = jobs[<<r, "queued">>]
    BY <1>3 DEF Submit, TypeOK, JobType, Stage
  <1>7. jobs'[<<q, "queued">>] \in {jobs[<<q, "queued">>], jobs[<<q, "queued">>] + 1}
    BY <1>3 DEF Submit, TypeOK, JobType, Stage
  <1>8. r \in localq'[Origin[r]] => r \in localq[Origin[r]]
    BY <1>2, CallsAssumption DEF TypeOK, SpawnType
  <1>9. q \notin localq'[Origin[q]]
    BY <1>2, CallsAssumption DEF TypeOK, SpawnType
  <1>10. Unsent(r)' = Unsent(r) /\ Admissible(r)' = Admissible(r)
    BY <1>1 DEF Unsent, Admissible
  <1>11. CASE r = q
    <2>1. LocalBudget(r)
      BY <1>4, <1>11 DEF ExecutionInv
    <2>2. LocalBudget(r)'
      BY <1>1, <1>2, <1>5, <1>7, <1>9, <1>10, <1>11, <2>1 DEF LocalBudget
    <2> QED BY <1>1, <1>4, <1>11, <2>2 DEF ExecutionInv
  <1>12. CASE r # q
    <2>1. LocalBudget(r) => LocalBudget(r)'
      BY <1>1, <1>5, <1>6, <1>8, <1>10, <1>12 DEF LocalBudget
    <2>2. RemoteBudget(r) => RemoteBudget(r)'
      BY <1>1, <1>5, <1>6, <1>10, <1>12 DEF RemoteBudget
    <2> QED BY <1>1, <1>8, <2>1, <2>2 DEF ExecutionInv
  <1> QED BY <1>11, <1>12

\* A new request gets an entry and a job in one step: the entry makes every
\* later copy a duplicate.
LEMMA RequestNewBudget ==
  ASSUME TypeOK, ExecutionInv, NEW q \in Request, HandleRequest(q), RequestNew(q)
  PROVE  ExecutionInv'
  <1>1. UNCHANGED <<call, localq, executions, expiries>>
    BY DEF HandleRequest
  <1>2. net[<<"Request", q>>] # 0 /\ net[<<"Request", q>>] \in Nat
    BY DEF HandleRequest, Arrives, TypeOK, NetType, Message
  <1>3. ~IsLocal(q)
    BY <1>2 DEF ExecutionInv
  <1>4. Admissible(q) /\ dedup' = [dedup EXCEPT ![q] = RunningEntry]
    BY DEF RequestNew, Admissible
  <1>5. Submit(q) \/ jobs' = jobs
    BY DEF RequestNew
  <1>6. NoFail \/ Fail(Dest[q], "responses full")
    BY DEF RequestNew
  <1> SUFFICES ASSUME NEW r \in Request
               PROVE  /\ IsLocal(r) => net'[<<"Request", r>>] = 0 /\ LocalBudget(r)'
                      /\ ~IsLocal(r) => r \notin localq'[Origin[r]] /\ RemoteBudget(r)'
    BY DEF ExecutionInv, IsLocal
  <1>7. executions[r] \in Nat /\ jobs[<<r, "queued">>] \in Nat /\ expiries[r] \in Nat
    BY BudgetTypes
  <1>8. net[<<"Request", r>>] = 0 => net'[<<"Request", r>>] = 0
    <2>1. <<"Request", q>> \in Message
      BY DEF Message
    <2> QED BY <2>1, TakenOther DEF HandleRequest, TypeOK
  <1>9. r # q => jobs'[<<r, "queued">>] = jobs[<<r, "queued">>]
    BY <1>5 DEF Submit, TypeOK, JobType, Stage
  <1>10. jobs'[<<q, "queued">>] \in {jobs[<<q, "queued">>], jobs[<<q, "queued">>] + 1}
    BY <1>5 DEF Submit, TypeOK, JobType, Stage
  <1>11. Unsent(r)' = Unsent(r)
    BY <1>1 DEF Unsent
  <1>12. CASE r = q
    <2>1. ~Admissible(r)'
      BY <1>4, <1>12 DEF Admissible, RunningEntry, TypeOK, DedupType
    <2>2. RemoteBudget(r)
      BY <1>3, <1>12 DEF ExecutionInv
    <2>3. RemoteBudget(r)'
      BY <1>1, <1>4, <1>7, <1>10, <1>12, <2>1, <2>2 DEF RemoteBudget
    <2> QED BY <1>1, <1>3, <1>12, <2>3 DEF ExecutionInv
  <1>13. CASE r # q
    <2>0. dedup'[r] = dedup[r]
      BY <1>4, <1>13 DEF TypeOK, DedupType
    <2>1. Admissible(r)' => Admissible(r)
      <3>1. CASE NoFail
        BY <2>0, <3>1, SameAdmits DEF NoFail
      <3>2. CASE Fail(Dest[q], "responses full")
        BY <2>0, <3>2, FailAdmits, CallsAssumption
      <3> QED BY <1>6, <3>1, <3>2
    <2>2. BudgetKept(r)
      BY <1>1, <1>8, <1>9, <1>11, <1>13, <2>1 DEF BudgetKept
    <2>3. LocalBudget(r) => LocalBudget(r)'
      BY <1>7, <2>2 DEF LocalBudget, BudgetKept
    <2>4. RemoteBudget(r) => RemoteBudget(r)'
      BY <1>7, <2>2 DEF RemoteBudget, BudgetKept
    <2> QED BY <1>1, <1>8, <2>3, <2>4 DEF ExecutionInv
  <1> QED BY <1>12, <1>13

\* Forgetting an entry lets one more execution happen, and counts it.
LEMMA DedupExpireBudget ==
  ASSUME TypeOK, ExecutionInv, NEW q \in Request, DedupExpire(q) PROVE ExecutionInv'
  <1>1. UNCHANGED <<state, call, localq, net, jobs, executions>>
    BY DEF DedupExpire, clientVars
  <1>2. dedup' = [dedup EXCEPT ![q] = NoEntry] /\ expiries' = [expiries EXCEPT ![q] = @ + 1]
    BY DEF DedupExpire
  <1>3. dedup[q].st # "none"
    BY DEF DedupExpire, Expirable
  <1> SUFFICES ASSUME NEW r \in Request
               PROVE  /\ IsLocal(r) => net'[<<"Request", r>>] = 0 /\ LocalBudget(r)'
                      /\ ~IsLocal(r) => r \notin localq'[Origin[r]] /\ RemoteBudget(r)'
    BY DEF ExecutionInv, IsLocal
  <1>4. executions[r] \in Nat /\ jobs[<<r, "queued">>] \in Nat /\ expiries[r] \in Nat
    BY BudgetTypes
  <1>5. LocalBudget(r)' = LocalBudget(r)
    BY <1>1 DEF LocalBudget, Unsent
  <1>6. RemoteBudget(r) => RemoteBudget(r)'
    <2>1. CASE r = q
      <3>1. expiries'[r] = expiries[r] + 1
        BY <1>2, <2>1 DEF TypeOK, HistoryType
      <3>2. ~Admissible(r)
        BY <1>3, <2>1 DEF Admissible
      <3> QED BY <1>1, <1>4, <3>1, <3>2 DEF RemoteBudget
    <2>2. CASE r # q
      <3>1. expiries'[r] = expiries[r] /\ dedup'[r] = dedup[r]
        BY <1>2, <2>2 DEF TypeOK, HistoryType, DedupType
      <3>2. Admissible(r)' = Admissible(r)
        BY <1>1, <3>1 DEF Admissible
      <3> QED BY <1>1, <3>1, <3>2 DEF RemoteBudget
    <2> QED BY <2>1, <2>2
  <1> QED BY <1>1, <1>5, <1>6 DEF ExecutionInv

\* A step of a locality that leaves the counters alone and may fail it.
LEMMA FailingStepKept ==
  ASSUME TypeOK, NEW l \in Locality, NEW why, NoFail \/ Fail(l, why), NEW r \in Request,
         UNCHANGED <<call, localq, executions, expiries>>,
         jobs'[<<r, "queued">>] = jobs[<<r, "queued">>],
         net[<<"Request", r>>] = 0 => net'[<<"Request", r>>] = 0,
         dedup'[r].st = "none" => dedup[r].st = "none"
  PROVE  BudgetKept(r)
  <1>1. Admissible(r)' => Admissible(r)
    <2>1. CASE NoFail
      BY <2>1, SameAdmits DEF NoFail
    <2>2. CASE Fail(l, why)
      BY <2>2, FailAdmits
    <2> QED BY <2>1, <2>2
  <1> QED BY <1>1 DEF BudgetKept, Unsent

LEMMA HandleCompletionBudget ==
  ASSUME TypeOK, ExecutionInv, NEW q \in Request, HandleCompletion(q) PROVE ExecutionInv'
  <1>1. UNCHANGED <<call, localq, net, dedup, executions, expiries>>
    BY DEF HandleCompletion
  <1>2. PICK s \in Finished : /\ jobs' = [jobs EXCEPT ![<<q, s>>] = @ - 1]
                              /\ AnswerCompletion(Dest[q], q, KindOf(s))
    BY DEF HandleCompletion
  <1>3. state' = state \/ Fail(Dest[q], "responses full")
    BY <1>2 DEF AnswerCompletion, NoFail
  <1>4. ASSUME NEW r \in Request PROVE BudgetKept(r)
    <2>1. jobs'[<<r, "queued">>] = jobs[<<r, "queued">>]
      BY <1>2 DEF Finished, TypeOK, JobType, Stage
    <2>2. Admissible(r)' => Admissible(r)
      <3>1. CASE state' = state
        BY <1>1, <3>1, SameAdmits
      <3>2. CASE Fail(Dest[q], "responses full")
        BY <1>1, <3>2, FailAdmits, CallsAssumption
      <3> QED BY <1>3, <3>1, <3>2
    <2> QED BY <1>1, <2>1, <2>2 DEF BudgetKept, Unsent
  <1> QED BY <1>4, KeptBudgets

LEMMA HandleRequestBudget ==
  ASSUME TypeOK, ExecutionInv, NEW q \in Request, HandleRequest(q) PROVE ExecutionInv'
  <1>1. CASE RequestNew(q)
    BY <1>1, RequestNewBudget
  <1>2. CASE RequestRejected(q) \/ RequestDuplicate(q)
    <2>1. UNCHANGED <<call, localq, executions, expiries>>
      BY DEF HandleRequest
    <2>2. UNCHANGED <<dedup, jobs>>
      BY <1>2 DEF RequestRejected, RequestDuplicate
    <2>3. NoFail \/ Fail(Dest[q], "responses full")
      BY <1>2 DEF RequestRejected, RequestDuplicate, Reply
    <2>4. <<"Request", q>> \in Message
      BY DEF Message
    <2>5. ASSUME NEW r \in Request PROVE BudgetKept(r)
      <3>1. net[<<"Request", r>>] = 0 => net'[<<"Request", r>>] = 0
        BY <2>4, TakenOther DEF HandleRequest, TypeOK
      <3> QED BY <2>1, <2>2, <2>3, <3>1, CallsAssumption, FailingStepKept
    <2> QED BY <2>5, KeptBudgets
  <1> QED BY <1>1, <1>2 DEF HandleRequest

LEMMA HandleCancelBudget ==
  ASSUME TypeOK, ExecutionInv, NEW q \in Request, HandleCancel(q) PROVE ExecutionInv'
  <1>1. UNCHANGED <<state, call, localq, jobs, executions, expiries>>
    BY DEF HandleCancel, clientVars, historyVars
  <1>2. PICK room : dedup' = [dedup EXCEPT ![q] = AfterCancel(@, room)]
    BY DEF HandleCancel
  <1>3. <<"Cancel", q>> \in Message
    BY DEF Message
  <1>4. ASSUME NEW r \in Request PROVE BudgetKept(r)
    <2>1. net[<<"Request", r>>] = 0 => net'[<<"Request", r>>] = 0
      BY <1>3, TakenOther DEF HandleCancel, TypeOK
    <2>2. dedup'[r].st = "none" => dedup[r].st = "none"
      BY <1>2 DEF AfterCancel, CancelledEntry, TypeOK, DedupType
    <2> QED BY <1>1, <2>1, <2>2, SameAdmits DEF BudgetKept, Unsent
  <1> QED BY <1>4, KeptBudgets

LEMMA SendResponseBudget ==
  ASSUME TypeOK, ExecutionInv, NEW l \in Locality, SendResponse(l) PROVE ExecutionInv'
  <1> DEFINE q == Head(responses[l])
  <1>1. q \in Queued
    BY DEF TypeOK, ResponseType, SendResponse
  <1>2. UNCHANGED <<call, localq, jobs, executions, expiries>>
    BY DEF SendResponse
  <1>3. net' = net \/ net' = Sent({<<q.kind, q.request>>})
    BY DEF SendResponse
  <1>4. dedup' = dedup \/ Complete(l, q)
    BY DEF SendResponse
  <1>5. NoFail \/ Fail(l, "protocol") \/ Fail(l, "transport")
    BY DEF SendResponse
  <1> HIDE DEF q
  <1>6. ASSUME NEW r \in Request PROVE BudgetKept(r)
    <2>1. net'[<<"Request", r>>] = net[<<"Request", r>>]
      <3>1. <<"Request", r>> \notin {<<q.kind, q.request>>}
        BY <1>1 DEF Queued, ResponseKind
      <3> QED BY <1>3, <3>1, SentOther DEF TypeOK
    <2>2. dedup'[r].st = "none" => dedup[r].st = "none"
      BY <1>1, <1>4 DEF Complete, Queued, TypeOK, DedupType
    <2> QED BY <1>2, <1>5, <2>1, <2>2, FailingStepKept
  <1> QED BY <1>6, KeptBudgets

LEMMA OwnerBudget ==
  ASSUME TypeOK, ExecutionInv, OwnerStep PROVE ExecutionInv'
  <1>1. ASSUME NEW q \in Request, ExpirePending(q) PROVE ExecutionInv'
    <2>1. ASSUME NEW r \in Request PROVE BudgetKept(r)
      <3>1. net'[<<"Request", r>>] = net[<<"Request", r>>]
        BY <1>1, CancelsOther, SentOther DEF ExpirePending, TypeOK
      <3> QED BY <1>1, <3>1 DEF ExpirePending, BudgetKept, Unsent, Admissible, tableVars, historyVars
    <2> QED BY <2>1, KeptBudgets
  <1>2. ASSUME NEW q \in Request, HandleResponse(q) PROVE ExecutionInv'
    <2>1. PICK k \in ResponseKind : Arrives(<<k, q>>) /\ net' = Taken(<<k, q>>)
      BY <1>2 DEF HandleResponse
    <2>2. <<k, q>> \in Message
      BY <1>2 DEF Message
    <2>3. ASSUME NEW r \in Request PROVE BudgetKept(r)
      <3>1. net[<<"Request", r>>] = 0 => net'[<<"Request", r>>] = 0
        BY <2>1, <2>2, TakenOther DEF TypeOK
      <3> QED BY <1>2, <3>1 DEF HandleResponse, BudgetKept, Unsent, Admissible, tableVars, historyVars
    <2> QED BY <2>3, KeptBudgets
  <1>3. ASSUME NEW l \in Locality, ShutdownBegin(l) PROVE ExecutionInv'
    <2>1. ASSUME NEW r \in Request PROVE BudgetKept(r)
      <3>1. net'[<<"Request", r>>] = net[<<"Request", r>>]
        BY <1>3, CancelsOther, SentOther DEF ShutdownBegin, TypeOK
      <3>2. r \in localq'[Origin[r]] => r \in localq[Origin[r]]
        BY <1>3, CallsAssumption DEF ShutdownBegin, TypeOK, SpawnType
      <3>3. Admissible(r)' => Admissible(r)
        BY <1>3, CallsAssumption DEF ShutdownBegin, Admissible, TypeOK, LifecycleType, tableVars
      <3> QED BY <1>3, <3>1, <3>2, <3>3 DEF ShutdownBegin, BudgetKept, Unsent, historyVars
    <2> QED BY <2>1, KeptBudgets
  <1>4. ASSUME NEW l \in Locality, ShutdownFinish(l) PROVE ExecutionInv'
    <2>1. ASSUME NEW r \in Request PROVE BudgetKept(r)
      <3>1. Admissible(r)' => Admissible(r)
        BY <1>4, CallsAssumption DEF ShutdownFinish, Admissible, TypeOK, LifecycleType
      <3> QED BY <1>4, <3>1 DEF ShutdownFinish, BudgetKept, Unsent, clientVars, historyVars
    <2> QED BY <2>1, KeptBudgets
  <1>5. ASSUME NEW l \in Locality, ShutdownTimeout(l) PROVE ExecutionInv'
    <2>1. ASSUME NEW r \in Request PROVE BudgetKept(r)
      <3>1. Admissible(r)' => Admissible(r)
        BY <1>5, CallsAssumption DEF ShutdownTimeout, Admissible, TypeOK, LifecycleType, tableVars
      <3> QED BY <1>5, <3>1 DEF ShutdownTimeout, BudgetKept, Unsent, clientVars, historyVars
    <2> QED BY <2>1, KeptBudgets
  <1>6. ASSUME NEW l \in Locality, DropRuntime(l) PROVE ExecutionInv'
    <2>1. ASSUME NEW r \in Request PROVE BudgetKept(r)
      <3>1. Admissible(r)' => Admissible(r)
        BY <1>6, CallsAssumption DEF DropRuntime, Admissible, TypeOK, LifecycleType, tableVars
      <3> QED BY <1>6, <3>1 DEF DropRuntime, BudgetKept, Unsent, historyVars
    <2> QED BY <2>1, KeptBudgets
  <1> QED BY <1>1, <1>2, <1>3, <1>4, <1>5, <1>6, DispatchLocalBudget, HandleCompletionBudget,
             HandleRequestBudget, HandleCancelBudget, DedupExpireBudget, SendResponseBudget
          DEF OwnerStep

LEMMA NetworkBudget ==
  ASSUME TypeOK, ExecutionInv, NetworkStep PROVE ExecutionInv'
  <1>1. ASSUME NEW m \in Message, DuplicateMessage(m) PROVE ExecutionInv'
    <2>1. ASSUME NEW r \in Request PROVE BudgetKept(r)
      <3>1. net[<<"Request", r>>] = 0 => net'[<<"Request", r>>] = 0
        BY <1>1 DEF DuplicateMessage, Arrives, TypeOK, NetType, Message
      <3> QED BY <1>1, <3>1 DEF DuplicateMessage, BudgetKept, Unsent, Admissible, clientVars, tableVars
    <2> QED BY <2>1, KeptBudgets
  <1>2. ASSUME NEW m \in Message, SendFailed(m) PROVE ExecutionInv'
    <2> DEFINE l == IF m[1] \in {"Request", "Cancel"} THEN Origin[m[2]] ELSE Dest[m[2]]
    <2>0. l \in Locality
      BY <1>2, EndsType
    <2>1. UNCHANGED <<call, localq, dedup, jobs, executions, expiries>>
      BY <1>2 DEF SendFailed, tableVars
    <2>2. state' = state \/ Fail(l, "transport")
      BY <1>2 DEF SendFailed, NoFail
    <2> HIDE DEF l
    <2>3. ASSUME NEW r \in Request PROVE BudgetKept(r)
      <3>1. net[<<"Request", r>>] = 0 => net'[<<"Request", r>>] = 0
        BY <1>2, TakenOther DEF SendFailed, TypeOK
      <3>2. Admissible(r)' => Admissible(r)
        BY <2>0, <2>1, <2>2, SameAdmits, FailAdmits
      <3> QED BY <2>1, <3>1, <3>2 DEF BudgetKept, Unsent
    <2> QED BY <2>3, KeptBudgets
  <1>3. ASSUME NEW l \in Locality, TransportFails(l) PROVE ExecutionInv'
    <2>1. UNCHANGED <<call, localq, net, dedup, jobs, executions, expiries>> /\ Fail(l, "transport")
      BY <1>3 DEF TransportFails, tableVars
    <2>2. ASSUME NEW r \in Request PROVE BudgetKept(r)
      BY <1>3, <2>1, FailingStepKept
    <2> QED BY <2>2, KeptBudgets
  <1> QED BY <1>1, <1>2, <1>3 DEF NetworkStep

\* The initial state leaves every call one execution.
LEMMA ExecutionInit == Init => ExecutionInv
  <1> SUFFICES ASSUME Init, NEW r \in Request
               PROVE  /\ net[<<"Request", r>>] = 0 /\ r \notin localq[Origin[r]]
                      /\ LocalBudget(r) /\ RemoteBudget(r)
    BY DEF ExecutionInv
  <1>1. net[<<"Request", r>>] = 0 /\ r \notin localq[Origin[r]]
    BY CallsAssumption DEF Init, Message
  <1>2. executions[r] = 0 /\ jobs[<<r, "queued">>] = 0 /\ expiries[r] = 0
    BY DEF Init, Stage
  <1>3. LocalBudget(r)
    BY <1>1, <1>2 DEF LocalBudget
  <1>4. RemoteBudget(r)
    BY <1>2 DEF RemoteBudget
  <1> QED BY <1>1, <1>3, <1>4

\* The budgets hold in every state.
LEMMA ExecutionInvariant == Spec => []ExecutionInv
  <1>1. TypeOK /\ ExecutionInv /\ [Next]_vars => ExecutionInv'
    <2> SUFFICES ASSUME TypeOK, ExecutionInv, [Next]_vars PROVE ExecutionInv'
      OBVIOUS
    <2>1. CASE UNCHANGED vars
      <3>1. ASSUME NEW r \in Request PROVE BudgetKept(r)
        BY <2>1 DEF vars, clientVars, tableVars, historyVars, BudgetKept, Unsent, Admissible
      <3> QED BY <3>1, KeptBudgets
    <2> QED BY <2>1, ClientBudget, OwnerBudget, WorkerBudget, NetworkBudget DEF Next
  <1> QED BY <1>1, ExecutionInit, TypeCorrect, PTL DEF Spec

\* A local call runs its handler at most once, and a remote one at most once
\* per dedup entry that its receiver has held, for any duplication, reordering,
\* cancellation, failure and shutdown: DedupTable::begin is the only way to the
\* domain queue, and shutdown clears the table only when nothing is admitted.
THEOREM ExecutedAtMostOncePerEntry == Spec => []AtMostOncePerEntry
  <1>1. TypeOK /\ ExecutionInv => AtMostOncePerEntry
    <2> SUFFICES ASSUME TypeOK, ExecutionInv, NEW r \in Request
                 PROVE  executions[r] <= 1 + expiries[r]
      BY DEF AtMostOncePerEntry
    <2>1. executions[r] \in Nat /\ jobs[<<r, "queued">>] \in Nat /\ expiries[r] \in Nat
      BY BudgetTypes
    <2>2. LocalBudget(r) \/ RemoteBudget(r)
      BY DEF ExecutionInv
    <2>3. LocalBudget(r) => executions[r] <= 1
      BY <2>1 DEF LocalBudget
    <2>4. RemoteBudget(r) => executions[r] <= 1 + expiries[r]
      BY <2>1 DEF RemoteBudget
    <2> QED BY <2>1, <2>2, <2>3, <2>4
  <1> QED BY <1>1, ExecutionInvariant, TypeCorrect, PTL
=============================================================================
