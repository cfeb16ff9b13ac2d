-------------------------------- MODULE Pmap --------------------------------
(***************************************************************************)
(* hataori::pmap, the P0/P1 collective: the root's Coordinator hands out    *)
(* batches of a root-owned input to its own domain and to the remote ranks, *)
(* which ask for work with READY, answer with RESULT, and leave with DRAIN  *)
(* after STOP; then one reduction selects the error every rank returns.     *)
(*                                                                          *)
(* Hybrid selects the Rayon build (hybrid_root_loop and the hybrid worker    *)
(* loops) rather than the MPI-only one; Prefetch is PmapOptions::prefetch.  *)
(* Values are abstract: fate gives what happens to an item when it is       *)
(* encoded, decoded, mapped, and its result encoded and decoded.  MPI        *)
(* delivers the messages of one pair of ranks in order; a probe may miss a  *)
(* message that is still under way.                                        *)
(***************************************************************************)
EXTENDS Integers, Sequences, FiniteSets

CONSTANTS
  Size,      \* the size of the communicator
  Root,      \* PmapOptions::root
  N,         \* the number of input items
  BatchSize, \* PmapOptions::batch_size
  Hybrid,    \* the rayon feature
  Prefetch,  \* PmapOptions::prefetch
  Outer,     \* PmapOptions::local_mode is LocalMode::Outer
  Fate       \* the fates the items of this instance may have

ASSUME PmapAssumption ==
  /\ Size \in Nat \ {0}
  /\ Root \in 0..(Size - 1)
  /\ N \in Nat
  /\ BatchSize \in Nat \ {0}
  /\ Hybrid \in BOOLEAN
  /\ Prefetch \in BOOLEAN /\ (Prefetch => Hybrid)
  /\ Outer \in BOOLEAN /\ (Outer => Hybrid)
  /\ Fate \subseteq {"ok", "error", "panic", "task unencodable", "task undecodable",
                     "result unencodable", "result undecodable"}

Rank == 0..(Size - 1)
Remote == Rank \ {Root}
Item == 0..(N - 1)

VARIABLES
  fate,       \* [Item -> Fate] what will happen to each item, fixed at the start
  next,       \* Coordinator::pending holds the items next..N-1
  nextId,     \* Coordinator::next_batch_id
  lane,       \* [Rank -> LaneState], Coordinator::root and ::remotes
  filled,     \* the filled slots of Coordinator::ordered
  failed,     \* Coordinator::failed
  up,         \* [Remote -> the messages on their way to the root]
  down,       \* [Remote -> the messages on their way from the root]
  rootPc,     \* where the root loop is
  prefer,     \* hybrid_root_loop's prefer_local
  workerPc,   \* [Remote -> where the worker loop is]
  job,        \* [Rank -> the batch whose callbacks run, or NoBatch]
  jobDone,    \* [Rank -> the job's outcome is in its channel]
  fetched,    \* [Remote -> what a prefetching worker received meanwhile]
  localKey,   \* [Rank -> local_key]
  localError, \* [Rank -> the kind in local_error, or "none"]
  runs,       \* history: [Item -> times the callback was called on it]
  aborted,    \* the MPI_Abort code, or 0
  outcome     \* what every rank returns, once converged

coordinatorVars == <<next, nextId, lane, filled, failed>>
errorVars == <<localKey, localError>>
jobVars == <<job, jobDone, runs>>
endVars == <<aborted, outcome>>
vars == <<fate, coordinatorVars, up, down, rootPc, prefer, workerPc, fetched, jobVars, errorVars, endVars>>

NoBatch == [id |-> -1, items |-> {}]
IdleLane == [st |-> "Idle", cur |-> NoBatch, pre |-> NoBatch, stopping |-> FALSE]
Running(b) == [IdleLane EXCEPT !.st = "Running", !.cur = b]
Stopped == [IdleLane EXCEPT !.st = "Stopped"]
Drained == [IdleLane EXCEPT !.st = "Drained"]

Msg(kind) == [kind |-> kind, batch |-> NoBatch, status |-> "none"]
Task(b) == [kind |-> "TASK", batch |-> b, status |-> "none"]
Result(b, status) == [kind |-> "RESULT", batch |-> b, status |-> status]
NotFetched == Msg("none")

\* ErrorKey::new; no key reaches NO_ERROR_KEY.
WireProtocol == 0
Callback == 1
ErrorKey(task, class, rank) == (task * 3 + class) * Size + rank
NoErrorKey == ErrorKey(N + 1, 0, 0)
TaskOf(key) == key \div (3 * Size)
ClassOf(key) == (key \div Size) % 3

MinOf(S) == CHOOSE x \in S : \A y \in S : x <= y

Some(b, f) == \E i \in b.items : fate[i] = f
Stopping(b) == {i \in b.items : fate[i] \in {"error", "panic"}}

\* run_in_current_pool and the sequential loops: Outer calls the callback on
\* every item, the other modes stop at the first error.
Evaluated(b) ==
  IF Outer \/ Stopping(b) = {} THEN b.items ELSE {i \in b.items : i <= MinOf(Stopping(b))}
\* What a batch of callbacks comes to, and the index a failure reports.
BatchOutcome(b) ==
  CASE \E i \in Evaluated(b) : fate[i] = "panic" -> "panic"
    [] \E i \in Evaluated(b) : fate[i] = "error" -> "error"
    [] OTHER -> "ok"
\* Mutant of FailedIndex: the last failing item is reported.
FailedIndexLast(b) ==
  CHOOSE i \in b.items : fate[i] = "error" /\ \A j \in b.items : fate[j] = "error" => j <= i
FailedIndex(b) == MinOf({i \in b.items : fate[i] = "error"})

Called(b) == [i \in Item |-> IF i \in Evaluated(b) THEN runs[i] + 1 ELSE runs[i]]

Init ==
  /\ fate \in [Item -> Fate]
  /\ next = 0
  /\ nextId = 0
  /\ lane = [r \in Rank |-> IdleLane]
  /\ filled = {}
  /\ failed = FALSE
  /\ up = [w \in Remote |-> << >>]
  /\ down = [w \in Remote |-> << >>]
  /\ rootPc = IF Hybrid THEN "loop" ELSE "probe"
  /\ prefer = TRUE
  /\ workerPc = [w \in Remote |-> "ready"]
  /\ job = [r \in Rank |-> NoBatch]
  /\ jobDone = [r \in Rank |-> FALSE]
  /\ fetched = [w \in Remote |-> NotFetched]
  /\ localKey = [r \in Rank |-> NoErrorKey]
  /\ localError = [r \in Rank |-> "none"]
  /\ runs = [i \in Item |-> 0]
  /\ aborted = 0
  /\ outcome = [kind |-> "none", key |-> NoErrorKey]

\* mpi_call!(comm.abort(code)): every rank dies.
Abort(code) ==
  /\ aborted' = code
  /\ UNCHANGED <<fate, coordinatorVars, up, down, rootPc, prefer, workerPc, fetched, jobVars, errorVars, outcome>>

Send(chan, w, m) == [chan EXCEPT ![w] = Append(@, m)]
Receive(chan, w) == [chan EXCEPT ![w] = Tail(@)]

-----------------------------------------------------------------------------
(* The Coordinator.                                                        *)

Exhausted == failed \/ next = N

\* Coordinator::make_batch
BatchItems == {i \in Item : next <= i /\ i < next + BatchSize}
MakeBatch == [id |-> nextId, items |-> BatchItems]
\* Mutant of TakeBatch: the last item of a batch stays pending.
TakeBatchShort ==
  /\ next' = IF BatchSize = 1 THEN next + 1 ELSE next + Cardinality(BatchItems) - 1
  /\ nextId' = nextId + 1
TakeBatch ==
  /\ next' = next + Cardinality(BatchItems)
  /\ nextId' = nextId + 1

\* Coordinator::on_remote_ready
AcceptsReady(l) ==
  \/ l.st = "Idle"
  \/ Prefetch /\ l.st = "Running" /\ l.pre = NoBatch /\ ~l.stopping
LaneStopped(l) == IF l.st = "Running" THEN [l EXCEPT !.stopping = TRUE] ELSE Stopped
LaneAssigned(l, b) == IF l.st = "Running" THEN [l EXCEPT !.pre = b] ELSE Running(b)

\* Mutant of Advanced: a completed current batch drops the prefetched one.
AdvancedDropping(l) == IF l.stopping THEN Stopped ELSE IdleLane
\* Coordinator::advance_remote
Advanced(l) ==
  IF l.pre # NoBatch THEN Running(l.pre) ELSE IF l.stopping THEN Stopped ELSE IdleLane
CanAdvance(l) == l.st = "Running" /\ ~(l.pre # NoBatch /\ l.stopping)

\* on_root_error, on_remote_error and on_remote_protocol_error stop assignment.
AfterFailure == failed' = TRUE /\ next' = N

\* Coordinator::validate_completion
Valid(l, b) == l.cur = b /\ b.items \cap filled = {}

\* A completed batch fills its slots, unless the run has failed.
FilledOf(b) == IF failed THEN filled ELSE filled \cup b.items

\* Coordinator::is_finished and is_quiescent on the lanes ln and pending items nx.
Finished(ln, nx) ==
  /\ ln[Root].st = "Stopped"
  /\ \A w \in Remote : ln[w].st = "Drained"
  /\ nx = N

\* i64::min on local_key
Lowered(old, key) == IF key < old THEN key ELSE old

\* Mutant of Overwrite: the key is forgotten.
OverwriteKind(r, key, kind) ==
  /\ localError' = [localError EXCEPT ![r] = kind]
  /\ UNCHANGED localKey
\* How a rank notes an error: local_key keeps the minimum while local_error is
\* overwritten; send_worker_outcome overwrites neither with a larger key.
Overwrite(r, key, kind) ==
  /\ localKey' = [localKey EXCEPT ![r] = Lowered(@, key)]
  /\ localError' = [localError EXCEPT ![r] = kind]
KeepLowest(r, key, kind) ==
  /\ localKey' = [localKey EXCEPT ![r] = Lowered(@, key)]
  /\ localError' = [localError EXCEPT ![r] = IF key < localKey[r] THEN kind ELSE @]

-----------------------------------------------------------------------------
(* The root.                                                               *)

\* process_remote_header for READY.
ServeReady(w) ==
  /\ Head(up[w]).kind = "READY"
  /\ AcceptsReady(lane[w])
  /\ \/ /\ Exhausted
        /\ lane' = [lane EXCEPT ![w] = LaneStopped(@)]
        /\ down' = Send(down, w, Msg("STOP"))
        /\ UNCHANGED <<next, nextId>>
     \/ /\ ~Exhausted
        /\ ~Some(MakeBatch, "task unencodable")
        /\ TakeBatch
        /\ lane' = [lane EXCEPT ![w] = LaneAssigned(@, MakeBatch)]
        /\ down' = Send(down, w, Task(MakeBatch))
  /\ UNCHANGED <<filled, failed, errorVars>>

\* ... for RESULT, whose payload may not decode: the pinned batch is failed.
ServeUndecodable(w) ==
  /\ Head(up[w]).status = "ok"
  /\ Some(Head(up[w]).batch, "result undecodable")
  /\ CanAdvance(lane[w])
  /\ Overwrite(Root, ErrorKey(N, WireProtocol, Root), "Wire")
  /\ lane' = [lane EXCEPT ![w] = Advanced(@)]
  /\ AfterFailure
  /\ UNCHANGED <<nextId, filled, down>>

ServeValues(w) ==
  LET b == Head(up[w]).batch IN
  /\ Head(up[w]).status = "ok"
  /\ ~Some(b, "result undecodable")
  /\ CanAdvance(lane[w])
  /\ Valid(lane[w], b)
  /\ lane' = [lane EXCEPT ![w] = Advanced(@)]
  /\ filled' = FilledOf(b)
  /\ UNCHANGED <<next, nextId, failed, down, errorVars>>

ServeError(w) ==
  LET b == Head(up[w]).batch IN
  /\ Head(up[w]).status = "error"
  /\ CanAdvance(lane[w])
  /\ lane[w].cur.id = b.id
  /\ lane' = [lane EXCEPT ![w] = Advanced(@)]
  /\ AfterFailure
  /\ UNCHANGED <<nextId, filled, down, errorVars>>

\* ... for DRAIN.
ServeDrain(w) ==
  /\ Head(up[w]).kind = "DRAIN"
  /\ lane[w].st = "Stopped"
  /\ lane' = [lane EXCEPT ![w] = Drained]
  /\ UNCHANGED <<next, nextId, filled, failed, down, errorVars>>

\* process_remote_header took the message; its caller goes on.
ServeHeader(w) ==
  /\ up[w] # << >>
  /\ up' = Receive(up, w)
  /\ ServeReady(w) \/ ServeUndecodable(w) \/ ServeValues(w) \/ ServeError(w) \/ ServeDrain(w)
  /\ UNCHANGED <<fate, workerPc, fetched, jobVars, endVars>>

\* What process_remote_header refuses makes the root loop return an error,
\* and pmap aborts the job.
Refused(w) ==
  LET m == Head(up[w]) IN
  \/ /\ m.kind = "READY"
     /\ \/ ~AcceptsReady(lane[w])
        \/ ~Exhausted /\ Some(MakeBatch, "task unencodable")
  \/ /\ m.kind = "RESULT"
     /\ \/ ~CanAdvance(lane[w])
        \/ m.status = "ok" /\ ~Some(m.batch, "result undecodable") /\ ~Valid(lane[w], m.batch)
        \/ m.status = "error" /\ lane[w].cur.id # m.batch.id
  \/ m.kind = "DRAIN" /\ lane[w].st # "Stopped"

RootRefuses(w) ==
  /\ rootPc \in {"probe", "served", "blocked", "loop"}
  /\ up[w] # << >>
  /\ Refused(w)
  /\ Abort(72)

\* Coordinator::next_root_batch on the idle root lane.
StartRootBatch ==
  /\ ~Exhausted
  /\ TakeBatch
  /\ lane' = [lane EXCEPT ![Root] = Running(MakeBatch)]
  /\ job' = [job EXCEPT ![Root] = MakeBatch]
StopRootLane ==
  /\ Exhausted
  /\ lane' = [lane EXCEPT ![Root] = Stopped]
  /\ UNCHANGED <<next, nextId, job>>

\* on_root_success and on_root_error for the batch b the root has run.
RootAccepts(b) ==
  /\ lane[Root].st = "Running"
  /\ IF BatchOutcome(b) = "ok" THEN Valid(lane[Root], b) ELSE lane[Root].cur.id = b.id
FinishRootBatch(b) ==
  /\ RootAccepts(b)
  /\ lane' = [lane EXCEPT ![Root] = IdleLane]
  /\ job' = [job EXCEPT ![Root] = NoBatch]
  /\ \/ /\ BatchOutcome(b) = "ok"
        /\ filled' = FilledOf(b)
        /\ UNCHANGED <<next, failed, errorVars>>
     \/ /\ BatchOutcome(b) = "error"
        /\ Overwrite(Root, ErrorKey(FailedIndex(b), Callback, Root), "User")
        /\ AfterFailure
        /\ UNCHANGED filled

\* The top of the root loop leaves it once everyone has drained.
Loop(pc) == IF Finished(lane', next') THEN "done" ELSE pc

\* root_loop: a header that the probe sees is served at once.
RootServes(w) ==
  /\ rootPc \in {"probe", "served"}
  /\ ServeHeader(w)
  /\ rootPc' = "served"
  /\ UNCHANGED prefer

\* The probe sees no (further) header after some were served.
RootSettles ==
  /\ rootPc = "served"
  /\ rootPc' = IF Finished(lane, next) THEN "done" ELSE "probe"
  /\ UNCHANGED <<fate, coordinatorVars, up, down, prefer, workerPc, fetched, jobVars, errorVars, endVars>>

\* Mutant of AfterStop: the root blocks without looking at the lanes again.
AfterStopBlocks == "blocked"
\* execute_root_batch found no batch: completion is checked before blocking.
AfterStop == IF Finished(lane', next') THEN "done" ELSE "blocked"

\* The first probe of an iteration sees nothing: execute_root_batch up to the
\* callbacks.
RootTakes ==
  /\ rootPc = "probe"
  /\ \/ /\ lane[Root].st = "Idle"
        /\ StartRootBatch
        /\ rootPc' = "executing"
     \/ /\ lane[Root].st = "Idle"
        /\ StopRootLane
        /\ rootPc' = AfterStop
     \/ /\ lane[Root].st = "Stopped"
        /\ UNCHANGED <<next, nextId, lane, job>>
        /\ rootPc' = AfterStop
  /\ UNCHANGED <<fate, filled, failed, up, down, prefer, workerPc, fetched, jobDone, runs, errorVars, endVars>>

\* The callbacks of the root's batch, on the thread that drives MPI.
RootExecutes ==
  LET b == job[Root] IN
  /\ rootPc = "executing"
  /\ FinishRootBatch(b)
  /\ runs' = Called(b)
  /\ rootPc' = IF Remote = {} THEN "probe" ELSE "blocked"
  /\ UNCHANGED <<fate, nextId, up, down, prefer, workerPc, fetched, jobDone, endVars>>

\* The blocking receive that paces the root.
RootReceives(w) ==
  /\ rootPc = "blocked"
  /\ ServeHeader(w)
  /\ rootPc' = Loop("probe")
  /\ UNCHANGED prefer

\* hybrid_root_loop: the top of an iteration with no local batch in flight.
HybridSpawns ==
  /\ rootPc = "loop"
  /\ lane[Root].st = "Idle"
  /\ StartRootBatch \/ StopRootLane
  /\ rootPc' = Loop("loop")
  /\ UNCHANGED <<fate, filled, failed, up, down, prefer, workerPc, fetched, jobDone, runs, errorVars, endVars>>

\* choose_root_event picks the local outcome: with a header seen as well it is
\* the turn of the remote side next.
HybridLocal ==
  LET b == job[Root] IN
  /\ rootPc = "loop"
  /\ jobDone[Root]
  /\ FinishRootBatch(b)
  /\ jobDone' = [jobDone EXCEPT ![Root] = FALSE]
  /\ \E seen \in BOOLEAN :
       /\ seen => prefer /\ \E w \in Remote : up[w] # << >>
       /\ prefer' = IF seen THEN FALSE ELSE prefer
  /\ UNCHANGED <<fate, nextId, up, down, rootPc, workerPc, fetched, runs, endVars>>

\* choose_root_event picks the probed header.
HybridRemote(w) ==
  /\ rootPc = "loop"
  /\ lane[Root].st # "Idle"
  /\ ~(jobDone[Root] /\ prefer)
  /\ ServeHeader(w)
  /\ rootPc' = Loop("loop")
  /\ prefer' = IF jobDone[Root] THEN TRUE ELSE prefer

\* A panic among the root's callbacks, or a completion that its lane refuses.
RootDies ==
  LET b == job[Root] IN
  /\ rootPc = "executing" \/ (rootPc = "loop" /\ jobDone[Root])
  /\ BatchOutcome(b) = "panic" \/ ~RootAccepts(b)
  /\ Abort(IF BatchOutcome(b) = "panic" THEN 70 ELSE 72)

-----------------------------------------------------------------------------
(* The workers.                                                            *)

\* A Rayon pool runs a spawned batch (spawn_local_batch, spawn_worker_batch).
PoolRuns(r) ==
  /\ Hybrid
  /\ job[r] # NoBatch
  /\ ~jobDone[r]
  /\ r \in Remote => Prefetch
  /\ jobDone' = [jobDone EXCEPT ![r] = TRUE]
  /\ runs' = Called(job[r])
  /\ UNCHANGED <<fate, coordinatorVars, up, down, rootPc, prefer, workerPc, fetched, job, errorVars, endVars>>

NoteError(w, key, kind) ==
  IF Prefetch THEN KeepLowest(w, key, kind) ELSE Overwrite(w, key, kind)

\* Mutant of SendsReady: the worker asks twice for one batch.
SendsReadyTwice(w) ==
  /\ workerPc[w] \in {"ready", "prefetch"}
  /\ up' = Send(Send(up, w, Msg("READY")), w, Msg("READY"))
  /\ workerPc' = [workerPc EXCEPT ![w] = IF @ = "ready" THEN "wait" ELSE "fetch"]
  /\ UNCHANGED <<fate, coordinatorVars, down, rootPc, prefer, fetched, jobVars, errorVars, endVars>>
\* Every loop of a worker asks before it receives.
SendsReady(w) ==
  /\ workerPc[w] \in {"ready", "prefetch"}
  /\ up' = Send(up, w, Msg("READY"))
  /\ workerPc' = [workerPc EXCEPT ![w] = IF @ = "ready" THEN "wait" ELSE "fetch"]
  /\ UNCHANGED <<fate, coordinatorVars, down, rootPc, prefer, fetched, jobVars, errorVars, endVars>>

\* A RESULT frame for batch b whose task payload did not decode.
AnswersUndecodable(w, b) ==
  /\ NoteError(w, ErrorKey(Cardinality(b.items), WireProtocol, w), "Wire")
  /\ up' = Send(up, w, Result(b, "error"))

\* The first receive after READY: work, an undecodable batch, or STOP.
WorkerReceives(w) ==
  LET m == Head(down[w]) IN
  /\ workerPc[w] = "wait"
  /\ down[w] # << >>
  /\ down' = Receive(down, w)
  /\ \/ /\ m.kind = "TASK"
        /\ ~Some(m.batch, "task undecodable")
        /\ job' = [job EXCEPT ![w] = m.batch]
        /\ workerPc' = [workerPc EXCEPT ![w] = IF Prefetch THEN "prefetch" ELSE "run"]
        /\ UNCHANGED <<up, errorVars>>
     \/ /\ m.kind = "TASK"
        /\ Some(m.batch, "task undecodable")
        /\ AnswersUndecodable(w, m.batch)
        /\ workerPc' = [workerPc EXCEPT ![w] = "ready"]
        /\ UNCHANGED job
     \/ /\ m.kind = "STOP"
        /\ workerPc' = [workerPc EXCEPT ![w] = "drain"]
        /\ UNCHANGED <<up, job, errorVars>>
  /\ UNCHANGED <<fate, coordinatorVars, rootPc, prefer, fetched, jobDone, runs, endVars>>

\* Mutant of WorkerDrains: the worker leaves without DRAIN.
WorkerDrainsSilently(w) ==
  /\ workerPc[w] = "drain"
  /\ workerPc' = [workerPc EXCEPT ![w] = "done"]
  /\ UNCHANGED <<fate, coordinatorVars, up, down, rootPc, prefer, fetched, jobVars, errorVars, endVars>>
WorkerDrains(w) ==
  /\ workerPc[w] = "drain"
  /\ up' = Send(up, w, Msg("DRAIN"))
  /\ workerPc' = [workerPc EXCEPT ![w] = "done"]
  /\ UNCHANGED <<fate, coordinatorVars, down, rootPc, prefer, fetched, jobVars, errorVars, endVars>>

\* send_worker_outcome for the batch b, whose callbacks have returned.
Answers(w, b) ==
  \/ /\ BatchOutcome(b) = "ok"
     /\ ~Some(b, "result unencodable")
     /\ up' = Send(up, w, Result(b, "ok"))
     /\ UNCHANGED errorVars
  \/ /\ BatchOutcome(b) = "error"
     /\ NoteError(w, ErrorKey(FailedIndex(b), Callback, w), "User")
     /\ up' = Send(up, w, Result(b, "error"))

\* worker_loop and hybrid_worker_loop_no_prefetch: run, answer, ask again.
WorkerRuns(w) ==
  /\ workerPc[w] = "run"
  /\ Answers(w, job[w])
  /\ runs' = Called(job[w])
  /\ job' = [job EXCEPT ![w] = NoBatch]
  /\ workerPc' = [workerPc EXCEPT ![w] = "ready"]
  /\ UNCHANGED <<fate, coordinatorVars, down, rootPc, prefer, fetched, jobDone, endVars>>

\* hybrid_worker_loop_prefetch: the answer to the READY sent during the job.
WorkerFetches(w) ==
  /\ workerPc[w] = "fetch"
  /\ down[w] # << >>
  /\ down' = Receive(down, w)
  /\ fetched' = [fetched EXCEPT ![w] = Head(down[w])]
  /\ workerPc' = [workerPc EXCEPT ![w] = "join"]
  /\ UNCHANGED <<fate, coordinatorVars, up, rootPc, prefer, jobVars, errorVars, endVars>>

\* The job's outcome is received, the fetched batch is spawned, and only then
\* is the outcome sent.
WorkerJoins(w) ==
  LET m == fetched[w]
      work == m.kind = "TASK" /\ ~Some(m.batch, "task undecodable")
  IN
  /\ workerPc[w] = "join"
  /\ jobDone[w]
  /\ Answers(w, job[w])
  /\ jobDone' = [jobDone EXCEPT ![w] = FALSE]
  /\ job' = [job EXCEPT ![w] = IF work THEN m.batch ELSE NoBatch]
  /\ fetched' = [fetched EXCEPT ![w] = IF m.kind = "TASK" /\ ~work THEN m ELSE NotFetched]
  /\ workerPc' = [workerPc EXCEPT ![w] =
                    IF work THEN "prefetch" ELSE IF m.kind = "STOP" THEN "drain" ELSE "flush"]
  /\ UNCHANGED <<fate, coordinatorVars, down, rootPc, prefer, runs, endVars>>

\* The prefetched batch did not decode: its failure follows the job's result.
WorkerFlushes(w) ==
  /\ workerPc[w] = "flush"
  /\ AnswersUndecodable(w, fetched[w].batch)
  /\ fetched' = [fetched EXCEPT ![w] = NotFetched]
  /\ workerPc' = [workerPc EXCEPT ![w] = "ready"]
  /\ UNCHANGED <<fate, coordinatorVars, down, rootPc, prefer, jobVars, endVars>>

\* A panic, or a result that cannot be encoded.
WorkerDies(w) ==
  LET b == job[w] IN
  /\ workerPc[w] = "run" \/ (workerPc[w] = "join" /\ jobDone[w])
  /\ \/ BatchOutcome(b) = "panic" /\ Abort(71)
     \/ /\ BatchOutcome(b) = "ok" /\ Some(b, "result unencodable")
        /\ Abort(IF Prefetch THEN 75 ELSE 72)

-----------------------------------------------------------------------------
(* convergence and broadcast_error, collectively.                          *)

AllDone == rootPc = "done" /\ \A w \in Remote : workerPc[w] = "done"
Selected == MinOf({localKey[r] : r \in Rank})

\* A result slot is missing, or the winner does not own the selected key.
ConvergenceCode ==
  IF ~failed /\ filled # Item THEN 72
  ELSE IF Selected # NoErrorKey /\ localKey[Selected % Size] # Selected THEN 73
  ELSE 0

Converge ==
  /\ AllDone
  /\ outcome.kind = "none"
  /\ aborted' = ConvergenceCode
  /\ outcome' =
       IF ConvergenceCode # 0 THEN outcome
       ELSE [kind |-> IF Selected = NoErrorKey THEN "ok" ELSE localError[Selected % Size],
             key |-> Selected]
  /\ UNCHANGED <<fate, coordinatorVars, up, down, rootPc, prefer, workerPc, fetched, jobVars, errorVars>>

-----------------------------------------------------------------------------
RootStep ==
  \/ RootSettles \/ RootTakes \/ RootExecutes \/ HybridSpawns \/ HybridLocal \/ RootDies
  \/ \E w \in Remote : RootServes(w) \/ RootReceives(w) \/ HybridRemote(w) \/ RootRefuses(w)
WorkerStep(w) ==
  \/ SendsReady(w) \/ WorkerReceives(w) \/ WorkerRuns(w) \/ WorkerFetches(w) \/ WorkerJoins(w)
  \/ WorkerFlushes(w) \/ WorkerDrains(w) \/ WorkerDies(w)

Next ==
  /\ aborted = 0
  /\ \/ RootStep
     \/ \E w \in Remote : WorkerStep(w)
     \/ \E r \in Rank : PoolRuns(r)
     \/ Converge

Spec == Init /\ [][Next]_vars

\* Every rank keeps running: callbacks return, pools run what is spawned, MPI
\* delivers what was sent, and the collective completes once all have come.
Fairness ==
  /\ WF_vars(aborted = 0 /\ RootStep)
  /\ \A w \in Remote : WF_vars(aborted = 0 /\ WorkerStep(w))
  /\ \A r \in Rank : WF_vars(aborted = 0 /\ PoolRuns(r))
  /\ WF_vars(aborted = 0 /\ Converge)
FairSpec == Spec /\ Fairness

-----------------------------------------------------------------------------
(* Properties.                                                             *)

WorkerPc == {"ready", "wait", "run", "prefetch", "fetch", "join", "flush", "drain", "done"}
Batch == [id : Int, items : SUBSET Item]
Message == [kind : {"none", "READY", "TASK", "RESULT", "STOP", "DRAIN"}, batch : Batch,
            status : {"none", "ok", "error"}]

CoordinatorType ==
  /\ next \in 0..N
  /\ lane \in [Rank -> [st : {"Idle", "Running", "Stopped", "Drained"}, cur : Batch, pre : Batch,
                        stopping : BOOLEAN]]
  /\ filled \subseteq Item
  /\ failed \in BOOLEAN
ChannelType ==
  /\ nextId \in Nat
  /\ up \in [Remote -> Seq(Message)]
  /\ down \in [Remote -> Seq(Message)]
  /\ job \in [Rank -> Batch]
  /\ fetched \in [Remote -> Message]
  /\ workerPc \in [Remote -> WorkerPc]
LoopType ==
  /\ fate \in [Item -> Fate]
  /\ rootPc \in {"probe", "served", "executing", "blocked", "loop", "done"}
  /\ prefer \in BOOLEAN
  /\ jobDone \in [Rank -> BOOLEAN]
ErrorType ==
  /\ localKey \in [Rank -> Nat]
  /\ localError \in [Rank -> {"none", "User", "Wire"}]
  /\ runs \in [Item -> Nat]
  /\ aborted \in {0, 70, 71, 72, 73, 75}
  /\ outcome \in [kind : {"none", "ok", "User", "Wire"}, key : Nat]

\* Queue, lanes, channels and loops stay in their domains: in particular the
\* coordinator never takes items beyond the end of the input.
TypeOK == CoordinatorType /\ ChannelType /\ LoopType /\ ErrorType

\* The root only ever sends to a worker that is in its receive and has nothing
\* under way to the root, and never a second message: whatever MPI buffers, no
\* two ranks block in sends to each other, and each READY gets one answer.
RootSendsToReceiver ==
  \A w \in Remote : down[w] # << >> =>
    /\ Len(down[w]) = 1
    /\ up[w] = << >>
    /\ workerPc[w] \in {"wait", "fetch"}

\* What a worker has sent and the root has not served, but for the READY or
\* DRAIN at the end of it.
Results(w) ==
  LET sent == up[w] IN
  IF sent # << >> /\ sent[Len(sent)].kind # "RESULT" THEN SubSeq(sent, 1, Len(sent) - 1) ELSE sent

\* The batches that a rank has been given and has not been credited for, oldest
\* first: on their way back, running, fetched, on their way to it.
One(b) == IF b = NoBatch THEN << >> ELSE <<b>>
TaskIn(m) == IF m.kind = "TASK" THEN m.batch ELSE NoBatch
InFlight(w) ==
  [i \in 1..Len(Results(w)) |-> Results(w)[i].batch] \o One(job[w]) \o One(TaskIn(fetched[w]))
    \o One(IF down[w] = << >> THEN NoBatch ELSE TaskIn(Head(down[w])))
Assigned(l) == One(l.cur) \o One(l.pre)

\* The coordinator's lane of a worker names exactly the batches that are in
\* flight for it, in the order in which their results will arrive: at most one
\* running and, with prefetch, one more.
LaneMatchesWorker ==
  \A w \in Remote :
    /\ \A i \in 1..Len(Results(w)) : Results(w)[i].kind = "RESULT"
    /\ Assigned(lane[w]) = InFlight(w)
    /\ Len(InFlight(w)) <= IF Prefetch THEN 2 ELSE 1

\* An item is mapped at most once, and exactly once in a call that succeeds.
EachItemOnce ==
  \A i \in Item :
    /\ runs[i] <= 1
    /\ outcome.kind = "ok" => runs[i] = 1 /\ i \in filled

\* No interleaving of ranks, pools and faults drives the protocol into an
\* error of its own (WrongLaneState, BatchMismatch, AlreadyFilled,
\* MissingResult, "winner does not own selected error"): the job aborts only
\* on a callback panic or on a payload that cannot be encoded.
AbortsOnlyUnrecoverable ==
  aborted # 0 =>
    \E i \in Item : fate[i] \in {"panic", "task unencodable", "result unencodable"}

\* When only callbacks fail, the call returns the failure of the first failing
\* item of the whole input, however the batches were spread and interleaved.
LowestFailureWins ==
  LET bad == {i \in Item : fate[i] = "error"} IN
  outcome.kind # "none" /\ (\A i \in Item : fate[i] \in {"ok", "error"}) =>
    IF bad = {} THEN outcome.kind = "ok"
    ELSE /\ outcome.kind = "User"
         /\ TaskOf(outcome.key) = MinOf(bad)
         /\ ClassOf(outcome.key) = Callback

\* A call that saw any error returns an error on every rank.
NoErrorIsLost == outcome.kind = "ok" => ~failed /\ \A r \in Rank : localError[r] = "none"

\* pmap returns on every rank, or the job is aborted: no rank waits for ever.
Termination == <>(outcome.kind # "none" \/ aborted # 0)
=============================================================================
