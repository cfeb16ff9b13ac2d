---------------------------- MODULE RuntimeCalls ----------------------------
(***************************************************************************)
(* The action layer of hataori-runtime (Phase B): RuntimeClient::spawn_on, *)
(* the pending table and its promises, the receiver's dedup table, the     *)
(* worker domain, the response queue, cancellation, deadlines, failure and *)
(* shutdown, on a set of localities joined by an unreliable network.       *)
(*                                                                         *)
(* One call is one RequestId; Origin and Dest give the locality that spawns *)
(* it and the locality it runs on (the same one for a local call).  A      *)
(* locality has one owner thread, which runs every Runtime::progress step  *)
(* and Runtime::shutdown, the workers of its domain, and, when             *)
(* ClientThreads holds, other threads that own a RuntimeClient.            *)
(*                                                                         *)
(* Time is abstract: a deadline or a dedup TTL may run out at any moment.  *)
(* Payloads are abstract: a Success or Failure response weighs one unit of *)
(* the dedup byte budget, the empty Cancelled and                          *)
(* DuplicateResultUnavailable responses weigh nothing.                     *)
(***************************************************************************)
EXTENDS Integers, FiniteSets, Sequences

CONSTANTS
  Locality,      \* the fixed membership of the run
  Request,       \* the calls that may be spawned, one RequestId each
  Origin,        \* [Request -> Locality]
  Dest,          \* [Request -> Locality]
  NoRequest,     \* no spawn holds the work gate
  MaxPending,    \* RuntimeLimits::max_pending_calls
  MaxDedup,      \* RuntimeLimits::max_dedup_entries
  MaxBytes,      \* RuntimeLimits::max_dedup_bytes, in response units
  QueueCap,      \* DomainConfig::queue_capacity
  Workers,       \* DomainConfig::workers
  ClientThreads, \* spawns may run on threads other than the owner
  MayFail,       \* the localities whose transport or peers may fail
  MayStop,       \* the localities whose owner may shut down or drop the runtime
  Duplicable,    \* the kinds of message the network may duplicate
  MaxDuplicates, \* bound: messages the network duplicates
  MaxExpiries    \* bound: times the dedup entry of one request expires

ASSUME CallsAssumption ==
  /\ Origin \in [Request -> Locality]
  /\ Dest \in [Request -> Locality]
  /\ NoRequest \notin Request
  /\ IsFiniteSet(Request)
  /\ MaxPending \in Nat \ {0}
  /\ MaxDedup \in Nat \ {0}
  /\ MaxBytes \in Nat \ {0}
  /\ QueueCap \in Nat \ {0}
  /\ Workers \in 1..QueueCap
  /\ ClientThreads \in BOOLEAN
  /\ MayFail \subseteq Locality
  /\ MayStop \subseteq Locality
  /\ MaxDuplicates \in Nat
  /\ Duplicable \subseteq {"Request", "Cancel", "Success", "Failure", "Cancelled", "Unavailable"}
  /\ MaxExpiries \in Nat

VARIABLES
  state,      \* [Locality -> RuntimeState] the atomic lifecycle state
  owner,      \* [Locality -> "open", "closing" (inside shutdown) or "gone"]
  gate,       \* [Locality -> the spawn that holds work_gate, or NoRequest]
  call,       \* [Request -> where its RemoteFuture is]
  pending,    \* [Locality -> the requests in its PendingTable]
  promise,    \* [Request -> the outcome its promise holds, or "none"]
  localq,     \* [Locality -> the requests in local_tx/local_rx]
  token,      \* [Request -> the cancellation token of its job]
  net,        \* [Message -> copies in flight]
  dedup,      \* [Request -> its entry in the DedupTable of Dest]
  retained,   \* [Locality -> DedupTable::retained_bytes]
  jobs,       \* [Request \X Stage -> jobs of the request at that stage]
  responses,  \* [Locality -> the queued responses]
  executions, \* history: [Request -> times its handler was called]
  expiries,   \* history: [Request -> times its dedup entry was forgotten]
  dups,       \* history: messages duplicated so far
  broken      \* history: [Locality -> why progress failed, or "none"]

clientVars == <<gate, call, pending, promise, localq>>
tableVars == <<dedup, retained, responses>>
historyVars == <<executions, expiries, dups, broken>>
vars == <<state, owner, clientVars, token, net, tableVars, jobs, historyVars>>

RuntimeState == {"Running", "Draining", "Stopped", "Failed"}
CallState == {"unborn", "checked", "inserted", "live", "done", "dropped", "refused"}
ResponseKind == {"Success", "Failure", "Cancelled", "Unavailable"}
Outcome == ResponseKind \cup {"Deadline", "Shutdown", "Transport", "Failed"}
Message == ({"Request", "Cancel"} \cup ResponseKind) \X Request
\* A worker holds a "running" job, whose handler it called, or a "stopping" one,
\* which it found cancelled.  "ok", "err" and "skipped" jobs are in the
\* completion channel: the handler succeeded, failed, or was not called.
Stage == {"queued", "running", "stopping", "ok", "err", "skipped"}
Busy == {"running", "stopping"}
Finished == {"ok", "err", "skipped"}
DedupEntry == [st : {"none", "running", "completed", "cancelled"},
               resp : ResponseKind \cup {"none"}]
Queued == [request : Request, kind : ResponseKind, cache : BOOLEAN]

NoEntry == [st |-> "none", resp |-> "none"]
RunningEntry == [st |-> "running", resp |-> "none"]
CancelledEntry == [st |-> "cancelled", resp |-> "none"]

IsLocal(r) == Origin[r] = Dest[r]
Weight(k) == IF k \in {"Success", "Failure"} THEN 1 ELSE 0

\* Requests with a job of this locality at one of the stages S.
At(l, S) == {p \in Request \X S : Dest[p[1]] = l /\ jobs[p] > 0}
DedupSize(l) == Cardinality({r \in Request : Dest[r] = l /\ dedup[r].st # "none"})
QueuedWeight(l) ==
  Cardinality({i \in DOMAIN responses[l] : Weight(responses[l][i].kind) = 1})

Init ==
  /\ state = [l \in Locality |-> "Running"]
  /\ owner = [l \in Locality |-> "open"]
  /\ gate = [l \in Locality |-> NoRequest]
  /\ call = [r \in Request |-> "unborn"]
  /\ pending = [l \in Locality |-> {}]
  /\ promise = [r \in Request |-> "none"]
  /\ localq = [l \in Locality |-> {}]
  /\ token = [r \in Request |-> FALSE]
  /\ net = [m \in Message |-> 0]
  /\ dedup = [r \in Request |-> NoEntry]
  /\ retained = [l \in Locality |-> 0]
  /\ jobs = [p \in Request \X Stage |-> 0]
  /\ responses = [l \in Locality |-> << >>]
  /\ executions = [r \in Request |-> 0]
  /\ expiries = [r \in Request |-> 0]
  /\ dups = 0
  /\ broken = [l \in Locality |-> "none"]

-----------------------------------------------------------------------------
(* Helpers shared by the handlers.                                         *)

\* Mutants of Completed: an outcome removes its waiter but never reaches it.
CompletedNotTransport(S, out) ==
  [r \in Request |-> IF r \in S /\ promise[r] = "none" /\ out # "Transport" THEN out ELSE promise[r]]
CompletedNotDeadline(S, out) ==
  [r \in Request |-> IF r \in S /\ promise[r] = "none" /\ out # "Deadline" THEN out ELSE promise[r]]

\* Promise::complete on every request of S: the first outcome wins.
Completed(S, out) ==
  [r \in Request |-> IF r \in S /\ promise[r] = "none" THEN out ELSE promise[r]]

\* Shared::send of the messages M; the transport refuses those outside M.
Sent(M) == [m \in Message |-> IF m \in M THEN net[m] + 1 ELSE net[m]]

\* The best-effort Cancel messages of the requests S, of which the transport
\* accepts any subset.
CancelSends(S) == SUBSET {<<"Cancel", r>> : r \in {q \in S : ~IsLocal(q)}}

\* The local cancellation tokens of the pending entries S are set.
LocalTokens(S) == [r \in Request |-> IF r \in S /\ IsLocal(r) THEN TRUE ELSE token[r]]

\* The owner thread is free to run Runtime::progress.  Without client threads
\* a spawn runs on the owner thread itself.
OwnerTurn(l) ==
  /\ owner[l] # "gone"
  /\ ClientThreads \/ gate[l] = NoRequest
CanProgress(l) == OwnerTurn(l) /\ state[l] \in {"Running", "Draining"}

\* Runtime::fail: the state is stored and the pending table drained, without
\* taking the work gate.
Fail(l, why) ==
  /\ state' = [state EXCEPT ![l] = "Failed"]
  /\ owner' = [owner EXCEPT ![l] = "open"]
  /\ broken' = [broken EXCEPT ![l] = why]
  /\ promise' = Completed(pending[l], "Failed")
  /\ token' = LocalTokens(pending[l])
  /\ pending' = [pending EXCEPT ![l] = {}]
NoFail == UNCHANGED <<state, owner, broken, promise, pending>>

\* Runtime::queue_response: a full queue is an error, and so is a full byte
\* budget; the caller lets the error fail the runtime.
ResponseFits(l, k) ==
  /\ Len(responses[l]) < MaxDedup
  /\ QueuedWeight(l) + Weight(k) <= MaxBytes
QueueResponse(l, r, k, cache) ==
  responses' = [responses EXCEPT ![l] =
                  Append(@, [request |-> r, kind |-> k, cache |-> cache])]

-----------------------------------------------------------------------------
(* RuntimeClient::spawn_inner, in the three steps other threads can see:   *)
(* the check under the work gate, the pending insertion, the submission.   *)

SpawnCheck(r) ==
  LET o == Origin[r] IN
  /\ call[r] = "unborn"
  /\ owner[o] # "gone" \/ ClientThreads
  /\ gate[o] = NoRequest
  /\ IF state[o] = "Running"
     THEN /\ gate' = [gate EXCEPT ![o] = r]
          /\ call' = [call EXCEPT ![r] = "checked"]
     ELSE /\ call' = [call EXCEPT ![r] = "refused"]
          /\ UNCHANGED gate
  /\ UNCHANGED <<state, owner, pending, promise, localq, token, net, tableVars, jobs, historyVars>>

\* PendingTable::insert
SpawnInsert(r) ==
  LET o == Origin[r] IN
  /\ call[r] = "checked"
  /\ IF Cardinality(pending[o]) < MaxPending
     THEN /\ pending' = [pending EXCEPT ![o] = @ \cup {r}]
          /\ call' = [call EXCEPT ![r] = "inserted"]
          /\ UNCHANGED gate
     ELSE /\ call' = [call EXCEPT ![r] = "refused"]
          /\ gate' = [gate EXCEPT ![o] = NoRequest]
          /\ UNCHANGED pending
  /\ UNCHANGED <<state, owner, promise, localq, token, net, tableVars, jobs, historyVars>>

\* The local channel is neither full nor disconnected by a dropped Runtime.
LocalRoom(l) == owner[l] # "gone" /\ Cardinality(localq[l]) < MaxPending

\* The request goes to the local channel or to the transport, which may be
\* out of capacity; a refused submission takes the pending entry back.
SpawnSubmit(r) ==
  LET o == Origin[r] IN
  /\ call[r] = "inserted"
  /\ gate' = [gate EXCEPT ![o] = NoRequest]
  /\ \/ /\ call' = [call EXCEPT ![r] = "live"]
        /\ \/ /\ IsLocal(r)
              /\ LocalRoom(o)
              /\ localq' = [localq EXCEPT ![o] = @ \cup {r}]
              /\ UNCHANGED net
           \/ /\ ~IsLocal(r)
              /\ net' = Sent({<<"Request", r>>})
              /\ UNCHANGED localq
        /\ UNCHANGED pending
     \/ /\ IsLocal(r) => ~LocalRoom(o)
        /\ call' = [call EXCEPT ![r] = "refused"]
        /\ pending' = [pending EXCEPT ![o] = @ \ {r}]
        /\ UNCHANGED <<localq, net>>
  /\ UNCHANGED <<state, owner, promise, token, tableVars, jobs, historyVars>>

\* RemoteFuture::poll takes the result.
Poll(r) ==
  /\ call[r] = "live"
  /\ promise[r] # "none"
  /\ call' = [call EXCEPT ![r] = "done"]
  /\ UNCHANGED <<state, owner, gate, pending, promise, localq, token, net, tableVars, jobs, historyVars>>

\* RemoteFuture::drop and Shared::cancel: an unresolved future removes its
\* waiter, sets the token of a local job and sends a best-effort Cancel.
DropFuture(r) ==
  LET o == Origin[r]
      S == IF promise[r] = "none" THEN pending[o] \cap {r} ELSE {}
  IN
  /\ call[r] = "live"
  /\ call' = [call EXCEPT ![r] = "dropped"]
  /\ pending' = [pending EXCEPT ![o] = @ \ S]
  /\ token' = LocalTokens(S)
  /\ \E M \in CancelSends(S) : net' = Sent(M)
  /\ UNCHANGED <<state, owner, gate, promise, localq, tableVars, jobs, historyVars>>

\* Mutant of ExpirePending: the waiter stays in the table until the answer to
\* the Cancel.
ExpirePendingLater(r) ==
  /\ CanProgress(Origin[r])
  /\ r \in pending[Origin[r]]
  /\ token' = LocalTokens({r})
  /\ \E M \in CancelSends({r}) : net' = Sent(M)
  /\ UNCHANGED <<state, owner, clientVars, tableVars, jobs, historyVars>>

\* Runtime::expire_pending for one expired entry.
ExpirePending(r) ==
  LET o == Origin[r] IN
  /\ CanProgress(o)
  /\ r \in pending[o]
  /\ pending' = [pending EXCEPT ![o] = @ \ {r}]
  /\ promise' = Completed({r}, "Deadline")
  /\ token' = LocalTokens({r})
  /\ \E M \in CancelSends({r}) : net' = Sent(M)
  /\ UNCHANGED <<state, owner, gate, call, localq, tableVars, jobs, historyVars>>

-----------------------------------------------------------------------------
(* Execution: the local channel, the worker domain and its completions.    *)

\* DomainRegistry::submit
CanSubmit(l) == Cardinality(At(l, {"queued"})) < QueueCap
Submit(r) == jobs' = [jobs EXCEPT ![<<r, "queued">>] = @ + 1]

\* Runtime::dispatch_local; a full domain queue completes the promise with
\* the error.
DispatchLocal(r) ==
  LET l == Origin[r] IN
  /\ CanProgress(l)
  /\ r \in localq[l]
  /\ localq' = [localq EXCEPT ![l] = @ \ {r}]
  /\ IF CanSubmit(l)
     THEN Submit(r) /\ UNCHANGED <<pending, promise>>
     ELSE /\ pending' = [pending EXCEPT ![l] = @ \ {r}]
          /\ promise' = Completed(pending[l] \cap {r}, "Failure")
          /\ UNCHANGED jobs
  /\ UNCHANGED <<state, owner, gate, call, token, net, tableVars, historyVars>>

\* execute_job up to the handler call: the token is read once.
StartJob(r) ==
  LET l == Dest[r] IN
  /\ jobs[<<r, "queued">>] > 0
  /\ Cardinality(At(l, Busy)) < Workers
  /\ IF token[r]
     THEN /\ jobs' = [jobs EXCEPT ![<<r, "queued">>] = @ - 1, ![<<r, "stopping">>] = @ + 1]
          /\ UNCHANGED executions
     ELSE /\ jobs' = [jobs EXCEPT ![<<r, "queued">>] = @ - 1, ![<<r, "running">>] = @ + 1]
          /\ executions' = [executions EXCEPT ![r] = @ + 1]
  /\ UNCHANGED <<state, owner, clientVars, token, net, tableVars, expiries, dups, broken>>

\* The completion channel, of capacity max_pending_calls + max_dedup_entries,
\* has room; the sends of a dropped runtime return at once.
ChannelRoom(l) ==
  \/ owner[l] = "gone"
  \/ Cardinality(At(l, Finished)) < MaxPending + MaxDedup

\* Mutant of FinishStep: the worker drops a job that it found cancelled.
FinishStepExecuted == {<<"running", "ok">>, <<"running", "err">>}

\* The outcomes a worker reports.
FinishStep == {<<"running", "ok">>, <<"running", "err">>, <<"stopping", "skipped">>}

\* execute_job after the handler returned, failed or panicked: a worker waits
\* in the send until the channel has room.
FinishJob(r) ==
  /\ ChannelRoom(Dest[r])
  /\ \E s \in FinishStep :
       /\ jobs[<<r, s[1]>>] > 0
       /\ jobs' = [jobs EXCEPT ![<<r, s[1]>>] = @ - 1, ![<<r, s[2]>>] = @ + 1]
  /\ UNCHANGED <<state, owner, clientVars, token, net, tableVars, historyVars>>

KindOf(stage) ==
  CASE stage = "ok" -> "Success"
    [] stage = "err" -> "Failure"
    [] stage = "skipped" -> "Cancelled"

\* Where the result of a finished job goes: to the local waiter, or to the
\* response queue.
AnswerCompletion(l, r, k) ==
  \/ /\ IsLocal(r)
     /\ pending' = [pending EXCEPT ![l] = @ \ {r}]
     /\ promise' = Completed(pending[l] \cap {r}, k)
     /\ UNCHANGED <<state, owner, broken, token, responses>>
  \/ /\ ~IsLocal(r)
     /\ ResponseFits(l, k)
     /\ QueueResponse(l, r, k, TRUE)
     /\ NoFail
     /\ UNCHANGED token
  \/ /\ ~IsLocal(r)
     /\ ~ResponseFits(l, k)
     /\ Fail(l, "responses full")
     /\ UNCHANGED responses

\* Runtime::handle_completion
HandleCompletion(r) ==
  /\ CanProgress(Dest[r])
  /\ \E s \in Finished :
       /\ jobs[<<r, s>>] > 0
       /\ jobs' = [jobs EXCEPT ![<<r, s>>] = @ - 1]
       /\ AnswerCompletion(Dest[r], r, KindOf(s))
  /\ UNCHANGED <<gate, call, localq, net, dedup, retained, executions, expiries, dups>>

-----------------------------------------------------------------------------
(* The receiving side: Runtime::handle_message.                            *)

\* Mutant of Arrives: a message is taken once more than it was sent.
ArrivesTwice(m) == net[m] >= 0
Arrives(m) == net[m] > 0
Taken(m) == [net EXCEPT ![m] = @ - 1]

\* Queue an uncached response, or fail the runtime when the queue is full.
Reply(l, r, k) ==
  \/ /\ ResponseFits(l, k)
     /\ QueueResponse(l, r, k, FALSE)
     /\ NoFail
     /\ UNCHANGED token
  \/ /\ ~ResponseFits(l, k)
     /\ Fail(l, "responses full")
     /\ UNCHANGED responses

\* Runtime::send_and_cache_failure
QueueFailure(l, r) == QueueResponse(l, r, "Failure", TRUE)

\* DedupDisposition: what a duplicate of the request of entry e is answered.
Disposition(e) ==
  CASE e.st = "running" -> "none"
    [] e.st = "completed" -> IF e.resp = "none" THEN "Unavailable" ELSE e.resp
    [] e.st = "cancelled" -> "Cancelled"

\* Runtime::handle_request and DedupTable::begin.
RequestRejected(r) ==
  /\ state[Dest[r]] # "Running" \/ (dedup[r].st = "none" /\ DedupSize(Dest[r]) >= MaxDedup)
  /\ Reply(Dest[r], r, "Failure")
  /\ UNCHANGED <<dedup, jobs>>

RequestNew(r) ==
  LET l == Dest[r] IN
  /\ state[l] = "Running"
  /\ dedup[r].st = "none"
  /\ DedupSize(l) < MaxDedup
  /\ dedup' = [dedup EXCEPT ![r] = RunningEntry]
  /\ \/ /\ CanSubmit(l)
        /\ Submit(r)
        /\ token' = [token EXCEPT ![r] = FALSE]
        /\ NoFail
        /\ UNCHANGED responses
     \/ /\ ~CanSubmit(l)
        /\ ResponseFits(l, "Failure")
        /\ QueueFailure(l, r)
        /\ token' = [token EXCEPT ![r] = FALSE]
        /\ NoFail
        /\ UNCHANGED jobs
     \/ /\ ~CanSubmit(l)
        /\ ~ResponseFits(l, "Failure")
        /\ Fail(l, "responses full")
        /\ UNCHANGED <<jobs, responses>>

RequestDuplicate(r) ==
  LET l == Dest[r] IN
  /\ state[l] = "Running"
  /\ dedup[r].st # "none"
  /\ \/ /\ Disposition(dedup[r]) = "none"
        /\ NoFail
        /\ UNCHANGED <<token, responses>>
     \/ /\ Disposition(dedup[r]) # "none"
        /\ Reply(l, r, Disposition(dedup[r]))
  /\ UNCHANGED <<dedup, jobs>>

HandleRequest(r) ==
  /\ CanProgress(Dest[r])
  /\ Arrives(<<"Request", r>>)
  /\ net' = Taken(<<"Request", r>>)
  /\ RequestRejected(r) \/ RequestNew(r) \/ RequestDuplicate(r)
  /\ UNCHANGED <<gate, call, localq, retained, executions, expiries, dups>>

\* Mutant of AfterCancel: the entry of a cancelled job is forgotten at once.
AfterCancelForgets(e, room) == IF e.st = "running" THEN NoEntry ELSE e
\* What DedupTable::cancel leaves of entry e.
AfterCancel(e, room) == IF e.st = "none" /\ room THEN CancelledEntry ELSE e

\* DedupTable::cancel: a running job is told, an unknown request leaves a
\* marker if the table has room.
HandleCancel(r) ==
  LET l == Dest[r] IN
  /\ CanProgress(l)
  /\ Arrives(<<"Cancel", r>>)
  /\ net' = Taken(<<"Cancel", r>>)
  /\ token' = IF dedup[r].st = "running" THEN [token EXCEPT ![r] = TRUE] ELSE token
  /\ dedup' = [dedup EXCEPT ![r] = AfterCancel(@, DedupSize(l) < MaxDedup)]
  /\ UNCHANGED <<state, owner, clientVars, retained, responses, jobs, historyVars>>

\* Runtime::complete_pending: a response that finds no waiter is late.
HandleResponse(r) ==
  LET o == Origin[r] IN
  \E k \in ResponseKind :
  /\ CanProgress(o)
  /\ Arrives(<<k, r>>)
  /\ net' = Taken(<<k, r>>)
  /\ pending' = [pending EXCEPT ![o] = @ \ {r}]
  /\ promise' = Completed(pending[o] \cap {r}, k)
  /\ UNCHANGED <<state, owner, gate, call, localq, token, tableVars, jobs, historyVars>>

\* DedupTable::complete, called once the response has been sent.
Complete(l, q) ==
  LET fits == retained[l] + Weight(q.kind) <= MaxBytes IN
  /\ dedup' = [dedup EXCEPT ![q.request] =
                 [st |-> "completed", resp |-> IF fits THEN q.kind ELSE "none"]]
  /\ retained' = [retained EXCEPT ![l] = IF fits THEN @ + Weight(q.kind) ELSE @]

\* Runtime::drain_responses for the response at the front of the queue: a
\* transport without capacity leaves it there, another error of the transport
\* loses it and fails the runtime.
SendResponse(l) ==
  LET q == Head(responses[l]) IN
  /\ CanProgress(l)
  /\ responses[l] # << >>
  /\ responses' = [responses EXCEPT ![l] = Tail(@)]
  /\ \/ /\ net' = Sent({<<q.kind, q.request>>})
        /\ ~q.cache
        /\ NoFail
        /\ UNCHANGED <<dedup, retained, token>>
     \/ /\ net' = Sent({<<q.kind, q.request>>})
        /\ q.cache
        /\ dedup[q.request].st \in {"running", "cancelled"}
        /\ Complete(l, q)
        /\ NoFail
        /\ UNCHANGED token
     \/ /\ net' = Sent({<<q.kind, q.request>>})
        /\ q.cache
        /\ dedup[q.request].st \notin {"running", "cancelled"}
        /\ Fail(l, "protocol")
        /\ UNCHANGED <<dedup, retained>>
     \/ /\ l \in MayFail
        /\ Fail(l, "transport")
        /\ UNCHANGED <<net, dedup, retained>>
  /\ UNCHANGED <<gate, call, localq, jobs, executions, expiries, dups>>

\* Mutant of Expirable: an entry expires while its action still runs.
ExpirableRunning == {"running", "completed", "cancelled"}
\* The entries that carry an expires_at.
Expirable == {"completed", "cancelled"}

\* usize::saturating_sub
SaturatingSub(m, n) == IF n <= m THEN m - n ELSE 0

\* Mutant of DedupExpire: the bytes of the response stay charged.
DedupExpireKeepsBytes(r) ==
  LET l == Dest[r] IN
  /\ CanProgress(l)
  /\ dedup[r].st \in Expirable
  /\ expiries[r] < MaxExpiries
  /\ dedup' = [dedup EXCEPT ![r] = NoEntry]
  /\ expiries' = [expiries EXCEPT ![r] = @ + 1]
  /\ UNCHANGED <<state, owner, clientVars, token, net, retained, responses, jobs, executions,
                 dups, broken>>

\* DedupTable::expire for one entry whose TTL has run out.
DedupExpire(r) ==
  LET l == Dest[r] IN
  /\ CanProgress(l)
  /\ dedup[r].st \in Expirable
  /\ expiries[r] < MaxExpiries
  /\ dedup' = [dedup EXCEPT ![r] = NoEntry]
  /\ retained' = [retained EXCEPT ![l] = SaturatingSub(@, Weight(dedup[r].resp))]
  /\ expiries' = [expiries EXCEPT ![r] = @ + 1]
  /\ UNCHANGED <<state, owner, clientVars, token, net, responses, jobs, executions, dups, broken>>

-----------------------------------------------------------------------------
(* The transport below.  Delivery is never forced, so a message that stays *)
(* in flight forever is a lost one, and the order of arrival is free: the  *)
(* control and the action channel overtake each other.                     *)

DuplicateMessage(m) ==
  /\ m[1] \in Duplicable
  /\ Arrives(m)
  /\ dups < MaxDuplicates
  /\ dups' = dups + 1
  /\ net' = [net EXCEPT ![m] = @ + 1]
  /\ UNCHANGED <<state, owner, clientVars, token, tableVars, jobs, executions, expiries, broken>>

\* TransportEvent::SendFailed for the sender of m: a request resolves its
\* waiter, a required response fails the runtime, a Cancel is forgotten.
SendFailed(m) ==
  LET r == m[2]
      l == IF m[1] \in {"Request", "Cancel"} THEN Origin[r] ELSE Dest[r]
  IN
  /\ l \in MayFail
  /\ CanProgress(l)
  /\ Arrives(m)
  /\ net' = Taken(m)
  /\ \/ /\ m[1] = "Request"
        /\ pending' = [pending EXCEPT ![l] = @ \ {r}]
        /\ promise' = Completed(pending[l] \cap {r}, "Transport")
        /\ UNCHANGED <<state, owner, token, broken>>
     \/ /\ m[1] = "Cancel"
        /\ NoFail
        /\ UNCHANGED token
     \/ /\ m[1] \in ResponseKind
        /\ Fail(l, "transport")
  /\ UNCHANGED <<gate, call, localq, tableVars, jobs, executions, expiries, dups>>

\* A driver error or TransportEvent::PeerFailed during progress; block_on on a
\* runtime that is no longer active reaches Runtime::fail as well.
TransportFails(l) ==
  /\ l \in MayFail
  /\ OwnerTurn(l)
  /\ state[l] # "Failed"
  /\ Fail(l, "transport")
  /\ UNCHANGED <<gate, call, localq, net, tableVars, jobs, executions, expiries, dups>>

-----------------------------------------------------------------------------
(* Runtime::shutdown and Drop for Runtime.                                 *)

\* Under the work gate: the state, the pending table, the local channel.
ShutdownBegin(l) ==
  /\ l \in MayStop
  /\ owner[l] = "open"
  /\ state[l] \in {"Running", "Failed"}
  /\ gate[l] = NoRequest
  /\ state' = [state EXCEPT ![l] = "Draining"]
  /\ owner' = [owner EXCEPT ![l] = "closing"]
  /\ promise' = Completed(pending[l], "Shutdown")
  /\ token' = LocalTokens(pending[l] \cup localq[l])
  /\ \E M \in CancelSends(pending[l]) : net' = Sent(M)
  /\ pending' = [pending EXCEPT ![l] = {}]
  /\ localq' = [localq EXCEPT ![l] = {}]
  /\ UNCHANGED <<gate, call, tableVars, jobs, historyVars>>

\* Mutant of Drained: completions and responses are not waited for.
DrainedWorkers(l) == At(l, {"queued"} \cup Busy) = {}
\* DomainRegistry::idle and no queued response.
Drained(l) == At(l, Stage) = {} /\ responses[l] = << >>

\* Domains, dedup table and driver are stopped; a driver error returns with
\* the state still Draining.
ShutdownFinish(l) ==
  /\ owner[l] = "closing"
  /\ state[l] = "Draining"
  /\ Drained(l)
  /\ dedup' = [r \in Request |-> IF Dest[r] = l THEN NoEntry ELSE dedup[r]]
  /\ retained' = [retained EXCEPT ![l] = 0]
  /\ owner' = [owner EXCEPT ![l] = "open"]
  /\ \/ state' = [state EXCEPT ![l] = "Stopped"]
     \/ l \in MayFail /\ UNCHANGED state
  /\ UNCHANGED <<clientVars, token, net, responses, jobs, historyVars>>

\* The shutdown deadline passes while work or responses are outstanding.
ShutdownTimeout(l) ==
  /\ owner[l] = "closing"
  /\ state[l] = "Draining"
  /\ ~Drained(l)
  /\ state' = [state EXCEPT ![l] = "Failed"]
  /\ owner' = [owner EXCEPT ![l] = "open"]
  /\ UNCHANGED <<clientVars, token, net, tableVars, jobs, historyVars>>

\* Drop does nothing for a runtime that is already Stopped or Failed.
DropRuntime(l) ==
  /\ l \in MayStop
  /\ owner[l] = "open"
  /\ owner' = [owner EXCEPT ![l] = "gone"]
  /\ IF state[l] \in {"Stopped", "Failed"}
     THEN UNCHANGED <<state, promise, token, pending>>
     ELSE /\ gate[l] = NoRequest
          /\ state' = [state EXCEPT ![l] = "Draining"]
          /\ promise' = Completed(pending[l], "Shutdown")
          /\ token' = LocalTokens(pending[l])
          /\ pending' = [pending EXCEPT ![l] = {}]
  /\ UNCHANGED <<gate, call, localq, net, tableVars, jobs, historyVars>>

-----------------------------------------------------------------------------
OwnerStep ==
  \/ \E r \in Request :
       \/ ExpirePending(r) \/ DispatchLocal(r) \/ HandleCompletion(r)
       \/ HandleRequest(r) \/ HandleCancel(r) \/ HandleResponse(r)
       \/ DedupExpire(r)
  \/ \E l \in Locality :
       \/ SendResponse(l) \/ ShutdownBegin(l) \/ ShutdownFinish(l)
       \/ ShutdownTimeout(l) \/ DropRuntime(l)

ClientStep ==
  \E r \in Request :
    SpawnCheck(r) \/ SpawnInsert(r) \/ SpawnSubmit(r) \/ Poll(r) \/ DropFuture(r)

WorkerStep == \E r \in Request : StartJob(r) \/ FinishJob(r)

NetworkStep ==
  \/ \E m \in Message : DuplicateMessage(m) \/ SendFailed(m)
  \/ \E l \in Locality : TransportFails(l)

Next == OwnerStep \/ ClientStep \/ WorkerStep \/ NetworkStep

Spec == Init /\ [][Next]_vars

\* The owner keeps calling Runtime::progress (directly or from block_on), so
\* every expired deadline is seen and every event is handled; a thread inside
\* spawn_inner, which never blocks there, comes out; the workers are threads
\* of a live pool.  Nothing is assumed of what clients start, of shutdown or
\* of the network.
Fairness ==
  /\ \A r \in Request :
       /\ WF_vars(SpawnInsert(r) \/ SpawnSubmit(r))
       /\ WF_vars(ExpirePending(r))
       /\ WF_vars(StartJob(r))
       /\ WF_vars(FinishJob(r))
       /\ WF_vars(HandleCompletion(r))
  /\ \A l \in Locality : WF_vars(SendResponse(l))
FairSpec == Spec /\ Fairness

-----------------------------------------------------------------------------
(* Properties.                                                             *)

LifecycleType ==
  /\ state \in [Locality -> RuntimeState]
  /\ owner \in [Locality -> {"open", "closing", "gone"}]
  /\ broken \in [Locality -> {"none", "responses full", "protocol", "transport"}]
SpawnType ==
  /\ gate \in [Locality -> Request \cup {NoRequest}]
  /\ call \in [Request -> CallState]
  /\ localq \in [Locality -> SUBSET Request]
WaiterType ==
  /\ pending \in [Locality -> SUBSET Request]
  /\ promise \in [Request -> Outcome \cup {"none"}]
TokenType == token \in [Request -> BOOLEAN]
NetType == net \in [Message -> Nat]
DedupType ==
  /\ dedup \in [Request -> DedupEntry]
  /\ retained \in [Locality -> Nat]
JobType == jobs \in [Request \X Stage -> Nat]
ResponseType == responses \in [Locality -> Seq(Queued)]
HistoryType ==
  /\ executions \in [Request -> Nat]
  /\ expiries \in [Request -> Nat]
  /\ dups \in Nat

\* The tables, channels and counters of every locality stay in their domains;
\* in particular no job, message or byte counter of the code goes below zero.
TypeOK ==
  /\ LifecycleType
  /\ SpawnType
  /\ WaiterType
  /\ TokenType
  /\ NetType
  /\ DedupType
  /\ JobType
  /\ ResponseType
  /\ HistoryType

\* A request runs its handler at most once for as long as its dedup entry is
\* retained: every further execution costs a forgotten entry, whatever the
\* network duplicates and however cancellation, completion and replay cross.
AtMostOncePerEntry ==
  \A r \in Request : executions[r] <= 1 + expiries[r]

\* Where the answer to a running dedup entry is being produced.
CachedResponses(r) ==
  {i \in DOMAIN responses[Dest[r]] :
     responses[Dest[r]][i].request = r /\ responses[Dest[r]][i].cache}

\* While a locality has not failed, a running dedup entry is answered from
\* exactly one place (a queued or running job, a completion, a response to be
\* cached), and an entry that is not running from none: no answer is lost and
\* none is produced twice between queue, worker, channel and response queue.
OneAnswerPerEntry ==
  \A r \in Request : ~IsLocal(r) /\ broken[Dest[r]] = "none" =>
    LET places == {<<s, 0>> : s \in {s \in Stage : jobs[<<r, s>>] > 0}}
                    \cup {<<"response", i>> : i \in CachedResponses(r)}
    IN  /\ Cardinality(places) = IF dedup[r].st = "running" THEN 1 ELSE 0
        /\ \A s \in Stage : jobs[<<r, s>>] <= 1

\* The errors "action completed without a dedup entry" and "action completed
\* more than once" of DedupTable::complete cannot be reached.
CompletionNeverMismatches == \A l \in Locality : broken[l] # "protocol"

\* DedupTable::retained_bytes is the weight of the responses the table really
\* holds, and stays within the budget.
RetainedBytesExact ==
  \A l \in Locality :
    /\ retained[l] = Cardinality({r \in Request :
                        /\ Dest[r] = l
                        /\ dedup[r].st = "completed"
                        /\ Weight(dedup[r].resp) = 1})
    /\ retained[l] <= MaxBytes

\* No waiter ever sees RuntimeError::Cancelled: a cancellation (drop, deadline,
\* shutdown) always removes the waiter before the receiver can hear of it, so
\* the answer of a cancelled job is always late.
CancelledNeverReachesWaiter == \A r \in Request : promise[r] # "Cancelled"

\* A future its caller still holds is either resolved or known to the pending
\* table, where completion, deadline, failure and shutdown will find it.
WaiterIsTracked ==
  \A r \in Request :
    call[r] \in {"inserted", "live"} /\ promise[r] = "none" => r \in pending[Origin[r]]

\* A Stopped runtime has nothing left: no waiter, no local request, no job, no
\* completion, no dedup entry, no response (ShutdownReport's counts).
StoppedRetainsNothing ==
  \A l \in Locality : state[l] = "Stopped" =>
    /\ pending[l] = {}
    /\ localq[l] = {}
    /\ At(l, Stage) = {}
    /\ responses[l] = << >>
    /\ DedupSize(l) = 0
    /\ retained[l] = 0

\* Every spawned future resolves or is dropped: the deadline of a call is
\* enforced whatever happens to messages, localities and workers.
EveryCallResolves ==
  \A r \in Request :
    (call[r] = "live") ~> (promise[r] # "none" \/ call[r] = "dropped")

\* A request accepted into the dedup table is answered, unless its locality
\* fails or its runtime is dropped first.
AcceptedRequestAnswered ==
  \A r \in Request :
    (dedup[r].st = "running") ~>
      (dedup[r].st # "running" \/ state[Dest[r]] = "Failed" \/ owner[Dest[r]] = "gone")
=============================================================================
