# A TLA+ model of hataori

Hataori is a Rust framework for running work on several ranks or localities. It
has two halves that share little code:

* **P0/P1** (`src/src`): `pmap`, a blocking MPI collective that maps a
  root-owned vector over the ranks of a communicator and, in the Rayon build,
  over a thread pool on each rank.
* **The distributed runtime** (`src/crates`): localities that call registered
  actions on each other, own mobile objects, and talk over a memory, TCP or MPI
  transport.

This directory holds TLA+ modules translated from that source, the TLC
configurations that check them, and TLAPS proofs about them.

## Inventory

| Part | State | Operations | What makes it correct |
|---|---|---|---|
| Action runtime (`runtime.rs`, `pending.rs`, `dedup.rs`, `domain.rs`) | lifecycle state, pending table and promises, local channel, dedup table and its byte count, domain queue, workers, completion channel, response queue | spawn, poll, drop, `progress` and its handlers, worker loop, `fail`, `shutdown`, `drop` | a handler runs at most once per retained entry; every call resolves; every accepted request is answered; nothing is left in a stopped runtime |
| `pmap` and its scheduler (`pmap.rs`, `scheduler.rs`) | pending items, one lane per rank, result slots, local error and key per rank | `on_remote_ready`, `next_root_batch`, the four completions, `on_remote_drain`, root and worker loops, convergence | each item once, deterministic winning error, no crossed blocking sends, termination |
| Object directory (`object.rs`) | entry per object: lifecycle, location and epoch, readers, writer, mailbox, leases, roots, transfers; local leases, tokens and roots of every locality | create, admit, complete, retry, acquire, renew, release, transfer, expire, collect, retire | one writer or many readers; what is referred to is kept, what is not is collected |
| Migration (`object/migration.rs`) | coordinator state, packet, prepared state at the destination | freeze, prepare, commit, activate, retire, rollback | at most one resident copy, no lost write, no rollback after commit |
| Scopes (`scope.rs`) | count of outstanding futures | `spawn_on`, `block_on`, drop | no future outlives its scope |
| Registry and codec (`action.rs`, `wire.rs`) | a table filled before start | register, encode, decode | round trip, bounded lengths |
| Transports (`transport.rs`, `memory.rs`, `tcp.rs`, `mpi.rs`), frames (`protocol.rs`) | credits and gate of the submission side, lanes, frames being written and read, pending events | `try_send`, `progress`, `flush`, `fail`, `shutdown` | order per lane, each ticket once, exact credits, delivery or a visible failure |
| Batch algorithms, collectives (`hataori-algorithms`), placement futures (`object.rs`) | planned batches, window of slots, outputs, lowest error | `pmap`, `pmap_at`, `pmap_colocated`, `pmap_preferred_colocated`, `gather`, `broadcast`, `scatter` | order, lowest error, bounded window, affinity, no lost wake-up |
| P0 domains, placement, wire, local map (`src/src`) | admission flag, worker CPUs | `try_admit`, `map`, `map_in` | one admission at a time |
| Tenferro adapter, examples, benchmarks, scripts | none of their own | | |

Interactions: a `RuntimeClient` on any thread writes the pending table and the
local channel under the work gate; one owner thread runs `Runtime::progress`,
which drains the transport, the local channel, the completion channel and the
response queue, and is the only one to touch the dedup table; workers take jobs
and report through a bounded channel. Objects are reached through the same
calls, with admission in front of the domain queue; their leases, roots and
retirements travel as control requests and best-effort messages. The runtime
hands parcels to a transport through a handle that any thread may use, and its
owner drives the transport from `progress`. The batch algorithms sit on top:
futures over the runtime's futures. The MPI `pmap` shares nothing with
the runtime: it is a protocol of READY, TASK, RESULT, STOP and DRAIN frames
between one root and its workers, ended by a reduction and a broadcast.

What is hard here, and hardly reached by tests: a client thread inside
`spawn_inner` while the owner fails or shuts down; duplicated, lost and
overtaking messages against a dedup table that forgets; deadlines racing
answers; bounded queues at their limit; in `pmap`, blocking sends on both sides,
prefetched batches whose results cross new requests, and several errors on
several ranks competing for one outcome; in the directory, three threads between
one another's locks while leases expire and tokens travel; in the transports,
half-written frames and half-read parcels at the moment of a flush, a failure or
a shutdown. `PROJECT.json` lists each hazard at its
line with the properties aimed at it.

## RuntimeCalls

`RuntimeCalls.tla` models the action runtime of a set of localities. A call is
one `RequestId` with a fixed origin and destination; the same locality for both
is a local call.

| Variable | Code |
|---|---|
| `state`, `owner`, `broken` | the lifecycle atomic, whether the owner is inside `shutdown` or gone, why `progress` failed |
| `gate` | `work_gate` |
| `call`, `pending`, `promise` | where a `RemoteFuture` is, `PendingTable`, the outcome its promise holds |
| `localq`, `token` | `local_tx`/`local_rx`, cancellation tokens |
| `net` | messages in flight, a bag: the channels of a transport overtake each other |
| `dedup`, `retained` | `DedupTable::entries` and `retained_bytes` |
| `jobs` | a bag of jobs queued, running or in the completion channel |
| `responses` | the response queue of `drain_responses` |
| `executions`, `expiries`, `dups` | history |

Actions follow the functions: `SpawnCheck`, `SpawnInsert` and `SpawnSubmit` are
the three stretches of `spawn_inner` between which other threads may run (the
work gate is held from the first to the last); `Poll` and `DropFuture` are the
future's; `ExpirePending`, `DispatchLocal`, `HandleCompletion`, `HandleRequest`,
`HandleCancel`, `HandleResponse`, `SendResponse` and `DedupExpire` are the
owner's handlers, each with all it does to the tables, failing the runtime where
the code does; `StartJob` and `FinishJob` are a worker's; `DuplicateMessage`,
`SendFailed` and `TransportFails` are the network's; `ShutdownBegin`,
`ShutdownFinish`, `ShutdownTimeout` and `DropRuntime` end a locality. A message
that is never taken out of `net` is a lost one. Time is abstract: a deadline or
a TTL may run out whenever its handler runs. Payload bytes are one unit for a
success or failure response and zero for an empty one.

### Runs

* `calls_faults`: one remote call, client thread, duplicates of requests and
  cancels, send failures, failure and shutdown of both sides, one dedup expiry.
  One duplicate and one expiry are enough to meet every state of an entry with
  every kind of late message. All safety properties of the module.
* `calls_live`: a remote and a local call under fairness: `EveryCallResolves`
  and `AcceptedRequestAnswered`.

Fairness: the owner keeps calling `progress`, so expired deadlines, completions
and responses are handled; a thread inside `spawn_inner` does not block there
and leaves it; workers run. Nothing is assumed of the network, of clients, of
shutdown. `calls_live` excludes client threads beside a failure of the calling
locality, the combination that loses a waiter (see Observations).

Deadlock checking is off in every run: once all calls are over, or a locality is
stopped, the system has nothing to do.

## Pmap

`Pmap.tla` models one call of `pmap`, from the end of preflight to the value or
error every rank returns. `Hybrid`, `Prefetch` and `Outer` select the build and
the options, so one module covers `root_loop`, `worker_loop`,
`hybrid_root_loop`, `hybrid_worker_loop_no_prefetch` and
`hybrid_worker_loop_prefetch`.

The `Coordinator` is `next` and `nextId` (the pending queue is always a suffix
of the input), `lane` (`LaneState` of the root and of each remote), `filled` and
`failed`. `up` and `down` are the frames between a worker and the root, in
order, as MPI delivers one pair's messages on one communicator. `rootPc` and `workerPc`
are the places in the loops where other ranks can be observed; `job` and
`jobDone` are a batch of callbacks and its outcome channel; `fetched` is what a
prefetching worker received while its job ran; `localKey` and `localError` are
the error state that each rank brings to `convergence`. `fate` fixes at the
start what each item will do: succeed, fail, panic, or not encode or decode as a
task or as a result. An error key keeps its arithmetic,
`(task * 3 + class) * size + rank`.

`ServeReady`, `ServeUndecodable`, `ServeValues`, `ServeError` and `ServeDrain`
are the arms of `process_remote_header` with the `Coordinator` method each one
calls; what the code answers with an error is `Refused`, which aborts with 72 as
`pmap` does. A probe may miss a message that is on its way, so `RootTakes`
(the probe saw nothing) is enabled whatever `up` holds. An abort ends the
behaviour.

### Runs

* `pmap_mpi`: the MPI-only build, root 1 of 3 ranks, five items in batches of
  two (so that the last batch is short), callback failures and undecodable
  results: `EachItemOnce`, `LowestFailureWins`, `Termination`.
* `pmap_prefetch`: the hybrid build with prefetch and `LocalMode::Outer`, three
  items and two workers, so that one worker can hold two batches while the root
  or the other worker fails, and every fate an item can have:
  `RootSendsToReceiver`, `LaneMatchesWorker`, `AbortsOnlyUnrecoverable`,
  `NoErrorIsLost`, `Termination`.

Fairness: every rank keeps running, callbacks return, pools run what is spawned
on them, MPI delivers. A callback that never returns is outside the contract.

## ObjectMigration

`ObjectMigration.tla` models one mobile object and everything that `migrate`
does to it. A migration is a `RequestId`; its coordinator (`MigrationFuture`)
sends one step at a time as an action call to the owner of that step and polls
the answer. Several coordinators may work on the object at once, from any
locality and from any location that was ever current: that is what a handle or a
resolver can hold.

| Variable | Code |
|---|---|
| `entry` | `ObjectEntry` of each locality: lifecycle (with "Absent" for no entry), the migration it is closed for, location, state, prepared slot |
| `running`, `mailbox` | `Admission`: the writer or freeze that holds it, and its queue |
| `request`, `reply` | steps under way to their owners, and the answer a `RemoteFuture` holds |
| `coord` | `MigrationFuture`: state, packet, original location, redirects |
| `call` | `RemoteObjectCall` of each writing call |
| `committed` | history: the locations that were committed |

The object's state is the set of writes it has seen. A location is a place, an
epoch and the migration that prepared it, which stands for the fresh slot number
of `prepare_migration`. `FreezeAdmit` and `FreezeRun` are the two halves of a
freeze, on the owner thread and on a worker after the jobs before it; `Prepare`,
`Commit`, `Activate`, `Rollback` and `Retire` are the other handlers, whole;
`PollFreeze` to `PollRollback` are the arms of `MigrationFuture::poll`;
`Timeout`, `Cancelled` and `DropFuture` are a deadline, the cancellation of a
step nobody waits for, and the drop of the future; `CallStart`, `CallAdmit` and
`WriteRun` are a writing call with its redirects; `Expire` is the sweep of
`ObjectService::expire` with its `collect`. A full counter, an object store at
its limit or a snapshot that does not restore is a refused step.

Calls on the object's own locality that bypass the queue (`call_write_local`)
behave as a `CallAdmit` and `WriteRun` in a row. The deadline of a writing call
is left out: a call that is not acknowledged promises nothing. Leases are held
throughout, so the authority's entry is never collected (`ObjectLifetime` has
the leases and takes a migration as one step). After
`fail_committed_migration` the run is given up (`GivenUp`), as the documentation
has it, and the properties about the object no longer apply.

### Runs

* `migration_moves`: two migrations and one write, three localities of which the
  authority has two domains; every step but commit may be answered late, every
  future may be dropped outside commit, the handlers may refuse, and what
  finished migrations leave behind may expire. `OneResident`,
  `AckedWritesSurvive`, `DirectoryPointsToState`, `ReportedMoveIsFinal`. Two
  migrations are enough for a migration to meet every stage of another, and for
  the object to leave and come back; three localities let the source, the
  destination and the authority differ.
* `migration_faults`: two localities, TTLs that may run out at any moment, late
  answers to prepare and commit, dropped freezes:
  `EpochNamesLocation`, and `ClosedObjectReopens` under fairness.
* `migration_rollback` refutes a statement of
  `src/docs/design/phase-d-migration.md`.

What `migration_moves` excludes is what breaks its properties: a commit whose
answer is late (the finding), a future dropped while its commit is under way,
and a `forwarding_ttl` that runs out under a live
migration, when the source reopens or the prepared copy goes and the coordinator
commits all the same. Nothing in the code orders the TTL and the deadlines of
the steps; a deployment has to choose the TTL longer than a whole migration.

Fairness: localities keep calling `progress` and workers finish their jobs
(`StepAction`, `CallAction`, `Retry`), futures are polled (`PollAction`), and
`progress` runs the sweep (`Expire`). `Timeout`, `DropFuture`, `Cancelled` and
the start of migrations and calls are never obliged to happen. Deadlock checking
is off: clients are finitely many and a behaviour ends.

## Transport and ParcelLink

`Transport.tla` models TCP and MPI under their common interface. Every pair of
members has a lane per channel and direction; a parcel is its ticket and its
encoded length in units, where a unit is a block of bytes of a stream or an MPI
chunk. `backend` says which of the two connects the members of a behaviour.

| Variable | Code |
|---|---|
| `closed`, `next_ticket`, `counts`, `bytes` | `SubmissionState` |
| `receivers` | the lanes' `mpsc` channels from handles to the driver |
| `writes`, `read` | `StreamIo::writes` and `read`, or the outbound and reassembly slots of MPI |
| `wire` | what a socket or MPI has buffered |
| `pending`, `failed`, `shutdown` | the driver's `pending_events`, `failed`, `shutdown` |
| `drv` | where the owner is: idle, in `progress`, `flush`, `shutdown`, or failing |
| `sent`, `got`, `done`, `visible` | history: what was accepted, handed over, completed, and shown as an error |

`TrySend` runs on any client thread, between any two steps of the driver.
`drive` is taken apart into the stops of its loops: `TcpWrite`, `TcpRead` and
`TcpDecode` for every channel and peer, `MpiReceive`, `MpiReceived` and
`MpiWrite` for MPI. A write takes any number of units the socket has room for; a
read takes all there is, may fail at an end of stream before it decodes, or runs
into the limit of one frame; `FailDrain` and `FailClose` are the two halves of
`fail`, between which a client can still submit. `Progress`, `Flush` and
`Shutdown` start calls of the owner; `FlushAgain`, `FlushTimeout` and
`FlushOverflow` end a turn of the flush loop. `Crash` is the death of a TCP
member. `SendFailed` cannot occur: encoding what `try_send` has validated does
not fail.

`ParcelLink.tla` is the abstract specification, in the four history variables
alone: parcels of a lane are handed over in order, none twice, none invented,
none skipped unless the receiving owner has been shown an error, and a ticket
completes once. `KeepsContract` is the refinement: every step of `Transport` is
a step of `ParcelLink` or leaves the four as they are.

### Runs

* `transport_lanes`: two members, a control and a bulk lane, two parcels, flush
  and shutdown of the sender and a crash of the receiver: `CreditsExact`,
  `ControlKeepsItsReserve`, `FramingHolds`, `KeepsContract`,
  `DeliveredOrVisible`. Parcels of two units and a wire of three make every cut
  of a frame happen; two parcels fill the bytes that the reserve leaves.
* `transport_flush`: one channel, both members send, flush, shut down and may
  meet a crash, queues of one parcel and unequal frame limits, so that
  `pending_events` overflows and a parcel can be too large for its receiver:
  `StoppedRetainsNothing`, `KeepsContract`.

Fairness: owners keep calling `progress`, a call that has begun goes on, and a
deadline passes. Nobody is obliged to flush or shut down. Deadlock checking is
off: members that have shut down do nothing more.

## ObjectLifetime

`ObjectLifetime.tla` models how long an object stays in the directory of its
authority, `Home`. Three threads of `Home` come between each other's locks: the
domain worker with the lease handlers, a client thread on which control calls
are executed in place, and the owner inside `progress`. What each is executing
is `run`; every stretch of code between two lock acquisitions is a step
(`PinTransfer`, `LookUp`, `InsertLease`, `GiveUpTransfer`; `ReleaseLease`,
`ReleaseTransfer`; `CollectCheck`, `CollectRemove`; `ExpireLeases`,
`ExpireTransfers`).

| Variable | Code |
|---|---|
| `stored`, `leases`, `roots`, `lifecycle` | `ObjectService::entries` and the fields of an entry |
| `pending_transfers`, `transfer_count`, `root_count`, `retirements` | the fields of `ObjectService` |
| `queue` | control requests on their way to `Home`, in order per locality |
| `held`, `futures`, `tokens`, `rooted` | `LocalLeaseManager`, create, upgrade and transfer futures, `LeaseTransfer`s and `ObjectRoot`s of each locality |
| `born`, `first`, `unrenewed`, `drift` | history |

Time is relative: a lease keeps the time it has left, and `Tick` lets a unit
pass. `transfer_count` is an unsigned integer modulo `Width`. `Control` sends
best effort: a request may vanish. `Leave` is the shutdown or death of a
locality. A migration away from `Home` is one step (`Move`), after which
collection goes through retirement: `TakeRetirements`, `SendRetirement`,
`RefuseRetirement`.

### Runs

* `lifetime`: `Home` and one other locality, one object, one upgrade or transfer
  by `Home`, created with a root by the other one: `TransferPinsExplained`,
  `HoldersKeepObject`, `LeaseOutlivesTtl`, `EventuallyCollected`. One object is
  enough, since entries share only counters; a TTL of two and a grace of one let
  a lease be fresh, due, suspect and expired. Calls end within a unit of time
  (`Prompt`): the bound keeps a lease from expiring inside the handler that
  makes it, except for `drift`, which counts that case.
* `lifetime_token` refutes a statement of `src/docs/design/phase-c-objects.md`.

Fairness: the threads of `Home` go on and time passes; a retirement that is
tried again and again is accepted in the end. No client is obliged to do
anything. Deadlock checking is off: when every request is done the system rests.

## BatchMap

`BatchMap.tla` models the futures of `hataori-algorithms` over the promises of
the runtime. `PmapFuture::poll` is a step for each submission (`Fill`) and each
slot it polls (`PollPending`, `PollReady`, `PollFailed`), because requests
settle on other threads between any two of them; `wakers` says which promises
hold the waker, `woken` whether it was called. `GatherReady` and `GatherEnd` are
`GatherFuture::poll`, and `Spawn` the submissions of `broadcast` and `scatter`.

Colocated batches go to where the object is. `PollMoved` follows a redirect
inside the poll, up to `MaxRedirects`; `PollFallback` is the one fallback of
`PlacementFuture`, taken when `placement_saturated` reads saturation in the
error. That function reads texts, so the instance has a choice of how the
action's own errors read (`options.errors`). `Run` and `Reject` are the places:
a batch is let run, or refused for want of room or because the object has moved,
is frozen or gone. `DropFuture` cancels what is outstanding.

### Run

* `batch`: three items, two localities, batches of one or two, windows with and
  without prefetch, pending tables of one or two entries, one redirect, all five
  operations: `WindowBounded`, `ResultsInOrder`, `LowestErrorWins`,
  `AffinityKept`, `PollTerminates`. Three items make a short last batch and a
  `swap_remove` that moves a slot; a pending table of one entry makes every
  submission after the first fail.

Fairness: a future that was woken is polled, and every request is settled, which
is `EveryCallResolves` of `RuntimeCalls`. Deadlock checking is off: the future
returns once.

## Proofs

TLC checks the instances above; TLAPS proves the following for every value of
the constants, from the assumptions `CallsAssumption`, `PmapAssumption`,
`LifetimeAssumption`, `MigrationAssumption`, `BatchMapAssumption` and
`TransportAssumption` (types and ranges of the parameters; at least one worker and
no more than the queue holds, `Prefetch` and `Outer` only in the hybrid build,
distinct channels and a control reserve below the limit it is taken from, leases
that are renewed before they run out and fewer transfers than the counter can
count). Each theorem is `Spec => []Property`, where `Property` is the definition
that a run checks, but for `LeasesOutliveTheirTtl` and `ReserveIsKept`, whose
properties are about steps, and `ContractIsKept`, whose property is a
specification.

`RuntimeCallsProofs.tla`

* `TypeCorrect`: `TypeOK`. It is inductive; the only arithmetic is that a
  message or a job is taken only where one is.
* `NoWaiterOrphaned`: `WaiterIsTracked`. Every step that takes a request out of
  the pending table either completes its promise in the same step or belongs to
  a future that its caller dropped.
* `ExecutedAtMostOncePerEntry`: `AtMostOncePerEntry`. The invariant is not
  inductive: a queued job is an execution that has not happened. `ExecutionInv`
  adds, for each request, the executions that can still come: for a local call
  at most one of a pending spawn, a local-channel entry and a job
  (`LocalBudget`); for a remote one a job exists only while the dedup entry is
  running, and executions, jobs and the entry together are paid for by
  the expiries (`RemoteBudget`, `Admissible`).

`RuntimeAnswersProofs.tla`

* `AcceptedRequestHasOneAnswer`: `OneAnswerPerEntry`, and
  `CompletionAlwaysMatches`: `CompletionNeverMismatches`. The answer of a remote
  request is in one place at a time: a job, or a cached response in the queue,
  never both and never two, and exactly while the dedup entry is running
  (`AnswerOf`; after a failure it may be in none). So whoever completes the entry finds it
  running. `ResponsesHome` keeps a request's answers at its destination, which
  lets the queue be read one request at a time; a response is added and taken at
  the two ends, so the lemmas about `Append` and `Tail` say which indices move.
* `RetainedBytesAreExact`: `RetainedBytesExact`. `RetainedInv` says that
  `retained` is the number of completed entries that are charged, and that only
  a completed entry holds a response; each change of an entry adds or removes
  one element of that set.

* `StoppedRuntimeIsEmpty`: `StoppedRetainsNothing`. `SpawnInv` says that a spawn
  between its check and its submission holds the work gate and that tables hold
  calls of their own locality. `StopInv` then follows shutdown: once it is
  Draining nobody holds the gate and the pending table is empty (`StopGate`),
  once it is closing the local channel is empty too (`StopLocal`), and once it
  is Stopped so are the dedup table, the jobs and the response queue
  (`StopTables`).
* `CancelledAnswerIsLate`: `CancelledNeverReachesWaiter`. A cancellation leaves
  evidence in eight places (a token, two kinds of messages, two fields of the
  dedup entry, two kinds of jobs, the response queue); `CancelInv` says that where there is any,
  the request has left the pending table for good.

`PmapProofs.tla`

* `NoCrossedSends`: `RootSendsToReceiver`. The inductive invariant `RequestInv`
  says of each worker that a frame on its way down is the only frame between the
  two and finds the worker in a receive, and that a READY is the worker's last
  frame, sent by a worker that now waits and that nothing is under way to. Every
  action is first reduced to its effect on the two channels (`ServedEffect`,
  `Asks`, `Gets`, `Tells`), and the invariant is preserved by each effect.
* `LanesNameFlights`: `LaneMatchesWorker`, and from it `ItemsMappedOnce`:
  `EachItemOnce`; `ErrorsReachTheCaller`: `NoErrorIsLost`; `FirstFailureReturned`:
  `LowestFailureWins`; `ProtocolNeverAborts`: `AbortsOnlyUnrecoverable`;
  `CallTypeCorrect`: `TypeOK`. The invariant `CallInv` has three layers.
  `LaneInv` relates what the root notes of a worker to what the two of them have
  between them: a lane with a batch out has that batch in exactly one of the
  frame down, the worker's hands and the frame up (`RootLane`, `WorkerLane`), so
  no frame the root receives is one it must abort on. `ItemInv` says that an item
  is in the scheduler, in one batch out, in a result or cancelled, and never two
  of them (`SlotInv`, `RunInv`). `ErrorInv` says that the error the root keeps is
  at least as early as every error a worker reported, has on its way or will
  report (`NoteInv`), and belongs to something that failed (`BlameInv`).
* The order of errors is a number (`ErrorKey`); `KeyParts`, `KeyOrder` and
  `KeyBelow` are its arithmetic. What the call returns is a fact about its end
  (`EndInv`), which nothing changes after (`Frozen`); the least failed item is
  the least element of a set of naturals (`LeastItem`).

`ObjectLifetimeProofs.tla`

* `TransferCountExplained`: `TransferPinsExplained`. Every change of the counter
  is a change of `pending_transfers` of the same size, or the drift. The proof
  corrected the property: it is an equation modulo `Width`. Each drift makes
  room for a transfer more than `max_transfers`, so a long enough run has more
  pins than a counter of small width can hold; the atomic counter of the code has
  64 bits, and the runs' widths were never overtaken within their bounds.
* `HoldersKeepTheirObject`: `HoldersKeepObject`. That an object is there is not
  inductive: what matters is that nothing under way can remove it. `FirstInv`
  says that a first lease has no release of it in a queue or in a thread's hands,
  no transfer accepted to its locality, and no thread past the checks of
  `collect`, nor a retirement queued; `RootInv` that an object has at most one
  root, held or still in its future, counted in `roots`, with no root release
  under way; `BornInv` that nobody knows an object that was never inserted, so
  that an insertion finds none of this; `MatchInv` that an answer finds the future
  of its own request, so that no transfer is taken for a create. Most steps end
  nothing new: `Tame` says what such a step may do, and is proved for each action
  but the insertions (`InsertKeeps`).
* `LeasesOutliveTheirTtl`: `LeaseOutlivesTtl`, on every step. `TimeInv` relates
  the time a lease has left to the time since it was renewed: together at least
  `Ttl`, and past `Ttl` by its suspicion once it is suspect.
* `LifetimeTypeCorrect`: `TypeOK`, with the limits in it. `CountInv` says that
  `root_count` is the number of objects with a root; `RetireInv` that the owner
  puts a refused retirement back into a queue that is within `MaxRetire`.

`ObjectResidenceProofs.tla`

* `EpochsNameLocations`: `EpochNamesLocation`, for any number of localities,
  places, migrations and calls, with every fault of the module allowed.
  `commit_migration` accepts exactly the epoch after the authority's own, so the
  property needs that the authority's location never goes back, and what could
  take it back is a late activation or retire at the authority. The inductive
  invariant `IInv` says that the authority has the newest known location
  (`Directory`), that a migration yet to prepare will name a new location
  (`FreshLocations`), that a committed slot at the authority is the newest
  location (`Slots`), and that a location an object can be frozen at, or was
  frozen at by a migration that may still commit, has no slot left to activate
  (`OpenHasNoSlot`, `FrozenHasNoSlot`): a next epoch is therefore only committed
  once the one before has been activated. `Packets` ties each coordinator's
  packet to the stage it is in. Handlers that only take away (`Shrinks`) are
  proved once, and so are the moves of a coordinator (`ProceedLemma`).
* `ObjectHasOneHome`: `OneResident`; `WritesSurviveMoves`: `AckedWritesSurvive`;
  `DirectoryHasState`: `DirectoryPointsToState`; `ReportedMovesAreFinal`:
  `ReportedMoveIsFinal`. All four assume `Orderly`: commits are neither timed out
  nor dropped, and only what finished migrations leave behind expires. That is
  what `migration_moves` has too, and without it the code breaks the properties
  (the finding `migration_rollback`, and the paragraph on the TTL above). Freezes,
  prepares, activations, retires and rollbacks may be late, dropped and refused
  in any order, for any number of migrations.
* The properties speak of the object until it is given up, so the invariant is
  `GivenUp \/ ResidenceInv` and `GivenUpStays` closes the first half.
  `ResidenceInv` has a part for the entries (a resident entry is at the
  authority's location, `EntryInv`; that location has an open entry or a prepared
  slot, `DirectoryInv`), one for writes (a queued write runs at the current
  location, `WritesInv`; the current state and the current slot have every
  acknowledged write, `AckedInv`) and one for each migration: its freeze is in
  one queue (`JobInv`), its messages fit its stage (`PhaseInv`), an
  old copy left frozen is on the way to be retired (`MovedInv`), from its freeze
  to its commit it holds the object frozen with no write queued and the same
  state in its packet (`HeldInv`), and its slot stays (`SlotKept`). `AwaitInv`
  is the mailbox order behind `HeldInv`: no write waits behind a freeze.
* The proof corrected the property. In `ReportedMoveIsFinal` an older copy may
  still be frozen by a migration that has committed and not retired it yet; the
  first form allowed no such copy, which a third migration refutes: it can move
  the object on, and report it, while the retire of the one before is under way.

`BatchMapProofs.tla`

* `WindowIsBounded`: `WindowBounded`, and `ValuesInInputOrder`: `ResultsInOrder`,
  `LowestErrorIsReturned`: `LowestErrorWins`, `AffinityIsKept`: `AffinityKept`,
  for any number of items, batch size, window and limits. `PlanCovers` shows that
  the chunks cover the items without overlap. `SlotInv` says that a chunk is
  pending or in one slot, and never two; `CollectInv` that every chunk is open,
  with none of its outputs stored, or collected, with its values stored and its
  lowest error no lower than `first_error` (`CoverInv`), and that `gather` has
  what lies before its cursor (`GatherInv`); `AdmitInv` counts where each batch
  was let in.

`TransportProofs.tla`

* `CreditIsExact`: `CreditsExact`, `StoppedDriverIsEmpty`:
  `StoppedRetainsNothing` and `ReserveIsKept`: `ControlKeepsItsReserve`, on TCP
  and MPI, for any number of localities, any list of channels and any limits.
  The inductive invariant `IInv` is `CreditsExact` with `Gate`: a driver that is
  driving has neither failed nor stopped; one that has failed or is closing has
  nothing in `writes`, which is why `shutdown` clearing `writes` loses no credit
  and why a flush cannot begin after it; one that is closing has closed its gate
  and has submissions left only if it has failed. A step of `drive` changes one
  lane (`LaneChange`): taking a submission moves its bytes, finishing a frame
  returns them, and `fail` returns all of them at once. The reserve needs one
  more fact, that only `try_send` adds to a lane (`StepShrinks`).
* `FramingIsKept`: `FramingHolds`. A driver that has been drained, closed or
  killed abandons its streams, so the invariant `Framing` says nothing of a lane
  until both ends work, and a step either keeps it or ends the work of one of them.
  For two drivers that work, `Stream` makes a chain of the units on their way,
  `Joined` has the first frame go on where the chain stops, and in `Queue` only the
  first frame may have begun. The hard step is `TcpDecode`: `FirstParcel` shows, by
  the least unit that breaks the row, that the length the receiver reads in the first
  unit is that of exactly one parcel, so that what is left starts at a parcel again.
* The sums over queues and lanes are recursive functions. `SumsExist` and
  `SumsUnique` characterise them by a least-counterexample argument, and
  `TotalMore`, `TotalRest`, `TotalChange` and `TotalMonotone` are what the rest
  uses.

`TransportContractProofs.tla`

* `ContractIsKept`: `KeepsContract`, that is `Spec => Link!Spec`: every behaviour
  of `Transport` is one of `ParcelLink`, for any localities, channels and limits
  and either backend, with partial writes, events without room, failed drivers,
  shutdowns and crashes. The four histories are variables of both modules, so the
  mapping is the identity; what has to be shown is that a step which hands a batch
  over satisfies `Link!HandOver`, which speaks of all that was ever sent.
* The invariant is `IInv`, `Framing` and `CInv`, which follows the tickets of a
  lane from `try_send` on: `Waiting` in `writes` and `receivers`, on their `Way`
  in `wire` and `read`, and `Seen` by the receiver, that is handed over, pending
  or among the events of its call. `Upstream`, `Row` and `Ordered` put each of
  these in the order of the tickets, `Passing` puts what is seen before what is
  not, and `Numbered` bounds them by the next ticket. `Unbroken` says which of
  them may be missing until the receiver's owner is shown an error: none while
  both ends work, only what had not been written once the sender has stopped, and
  none below one that is seen in any case.
* `Completes` keeps completions distinct and of tickets that no longer wait, which
  needs that lanes of one source share no ticket (`Apart`). `Placed` says where
  the events of a call can be: `progress` drives only when no parcel is pending
  that its own events could overtake. `Framing` is needed where a parcel arrives:
  without it `decode` could take units of two tickets for one parcel.
* Each action is first reduced to its effect. It hands over a batch of what was
  seen (`Regrouped`), moves tickets forward (`LaneReceived`, `LaneWritten`) or
  loses some (`Fewer`); each effect is shown once to keep `CInv`. `StepOutcome`
  collects what the actions do to the histories, `TrySendAccepts` and
  `HandsOverIs` are the two kinds of steps of `ParcelLink`, and `InitLink` and
  `NextLink` the refinement. `TicketsCollected` is what the recursive function
  `Tickets` returns.

Only model-checked: liveness and everything about `ENABLED`
(`EveryCallResolves`, `AcceptedRequestAnswered`, `Termination`,
`ClosedObjectReopens`, `DeliveredOrVisible`, `EventuallyCollected`,
`PollTerminates`). Theorems of the library that take a predicate as a parameter
cannot be used here; where a proof needs induction over data, the least element
of a set of naturals takes its place.

The type invariants `TypeOK` of `RuntimeCalls`, `Pmap` and `ObjectLifetime` are
theorems. Those of the other modules record the shape of the state for readers;
only that of `RuntimeCalls` is in a run, since elsewhere the properties above
fail first when a type is wrong. The other proofs state the part of the types
they need in invariants of their own.

## Findings

* `migration_rollback`: a commit whose answer misses its deadline is rolled back
  although the authority has committed; the rollback discards the prepared copy
  that the directory already points to.
* `lifetime_token`: `collect` decides under the locks of an entry and removes
  the entry from the directory after it has let them go. A transfer that looked
  the entry up before that puts the destination's lease into an entry nobody can
  find any more, and its token names a collected object.

## Observations

Seen while modelling; each follows from the code, and no run is kept for it.

* `Runtime::fail` does not take the work gate (`runtime.rs:2518`). A client
  thread that has passed the state check inserts its waiter after the table was
  drained, and its future never resolves. `MCRuntimeCallsLive.cfg` with
  `ClientThreads = TRUE` and the caller in `MayFail` shows it as a violation of
  `EveryCallResolves`.
* The completion channel (`runtime.rs:373`) is sized from the pending and dedup
  limits; dropped local calls leave the former while their jobs run.
* A full response queue (`runtime.rs:2424`) fails the whole locality.
* `fail_committed_migration` (`runtime.rs:1247`) stores Failed without resolving
  the locality's other waiters; `driver.shutdown` may fail after the tables were
  cleared and leaves the state Draining (`runtime.rs:1919`).
* In `pmap` the kind and message of the error every rank returns may belong to
  another error than its key (`pmap.rs:1139`), and the key of a task that does
  not decode is its batch length, also the index of some item (`pmap.rs:709`).
* Between commit and activate the destination answers a call at the new epoch
  with its old location (`migration.rs:863`), which the caller refuses; a
  forwarder away from the authority is collected at once (`object.rs:1868`).
* A lost retire message leaves the remote resident for good (`object.rs:1926`),
  a retirement taken behind a refused one is dropped (`runtime.rs:1711`), and a
  root release refused by a full lane is never sent again.
* A pin whose entry is gone when its release arrives is not given back
  (`object.rs:1782`).
* TCP: `shutdown` takes frames that were read and not decoded for partial ones
  (`tcp.rs:443`). MPI: a rank whose flush times out leaves the others in the
  barrier (`mpi.rs:423`). The runtime drops the events of a `progress` that
  failed (`runtime.rs:1718`).
* `pmap` over the runtime ends at the first refused submission while batches run
  on until the future is dropped (`batch.rs:309`), and assigns places round
  robin whatever is free (`batch.rs:430`). A remote `MigrationInProgress` reads
  as `RemoteObject` (`runtime.rs:2082`), so a preferred batch fails where it
  could fall back.

## Not modelled, and what is left

* Readers of an object and `retry_ready` against a full domain; `release_redirect`
  and Moved answers in the dedup table. The next candidates.
* Preflight and the reentrancy guard of the MPI `pmap`: reductions in lockstep.
* Connecting, handshakes and bootstrap of the transports; the memory transport,
  a deterministic queue for tests; statistics.
* Scopes: a counter on one thread. The registry: filled before start. Codecs and
  byte layouts beyond lengths and bounds.
* CPU discovery and placement of P0 domains (host-dependent input), the tensor
  adapter, examples, benchmarks and scripts, which hold no protocol state.
