--------------------------- MODULE ObjectLifetime ---------------------------
(***************************************************************************)
(* How long an object lives: locality leases, transfers, roots, expiry,    *)
(* collection and retirement.  Home is the authority of every object: its  *)
(* ObjectService keeps the directory entries.  Every locality may hold      *)
(* strong handles (one LocalLease however many clones share it), upgrades   *)
(* and transfers in progress, transfer tokens and roots.                    *)
(*                                                                          *)
(* Three threads of Home touch the directory and interleave between lock    *)
(* acquisitions: a domain worker that runs the lease handlers, a client     *)
(* thread whose control calls object_control executes in place, and the     *)
(* owner thread inside progress.  Time is relative: what is kept is the     *)
(* time left, and Tick lets one unit pass.                                  *)
(***************************************************************************)
EXTENDS Integers, Sequences, FiniteSets

CONSTANTS
  Locality,
  Home,          \* the locality that is the authority
  Object,
  MaxLeases,     \* ObjectLimits::max_local_leases
  MaxTransfers,  \* ObjectLimits::max_transfers
  MaxRoots,      \* ObjectLimits::max_roots
  MaxRetire,     \* ObjectLimits::max_migrations
  Renewal,       \* ObjectLimits::lease_renew_interval
  Ttl,           \* ObjectLimits::lease_ttl
  Grace,         \* ObjectLimits::lease_grace
  Width,         \* transfer_count is an integer modulo Width
  QueueCap,      \* bound: the requests of one locality on their way to Home
  MaxAsks,       \* bound: [Locality -> the upgrades and transfers it asks for]
  Rooting,       \* the localities that create with create_rooted_at
  Prompt,        \* bound: the threads that reach the end of a call in less than a unit of time
  MayMove,       \* the objects that migrate away from Home
  MayLeave       \* the localities that may shut down or die

ASSUME LifetimeAssumption ==
  /\ Home \in Locality /\ MayLeave \subseteq Locality \ {Home}
  /\ {MaxLeases, MaxTransfers, MaxRoots, MaxRetire, Renewal, Grace, QueueCap} \subseteq Nat \ {0}
  /\ Ttl \in Nat /\ Renewal < Ttl
  /\ Width \in Nat /\ MaxTransfers < Width
  /\ MaxAsks \in [Locality -> Nat]
  /\ Rooting \subseteq Locality /\ MayMove \subseteq Object
  /\ Prompt \subseteq {"worker", "client", "owner"}

Thread == {"worker", "client", "owner"}

VARIABLES
  stored,         \* the objects in ObjectService::entries
  leases,         \* [Object -> [Locality -> its LeaseRecord, or Absent]]
  roots,          \* [Object -> ObjectEntry::roots]
  lifecycle,      \* [Object -> ObjectEntry::lifecycle]
  pending_transfers, \* the <<object, locality>> pairs pinned by a transfer
  transfer_count, \* the atomic counter of pending transfers
  root_count,     \* the atomic counter of roots
  retirements,    \* the queue of objects whose remote resident is to be retired
  run,            \* [Thread -> what it is executing at Home]
  queue,          \* [Locality -> the requests on their way from it to Home]
  held,           \* [Locality -> [Object -> time to its LocalLease's renewal, or NotHeld]]
  futures,        \* [Locality -> [Object -> the create, upgrade or transfer it awaits]]
  tokens,         \* the LeaseTransfer values
  rooted,         \* [Locality -> the objects it holds an active ObjectRoot of]
  asks,           \* [Locality -> the upgrades and transfers it asked for]
  gone,           \* the localities that shut down or died
  born,           \* history: the objects ever inserted
  first,          \* history: the <<object, creator>> pairs whose first lease goes on
  unrenewed,      \* history: [Object -> [Locality -> time since its lease was last renewed]]
  drift           \* history: pins given back twice, modulo Width

directory == <<stored, leases, roots, lifecycle>>
counters == <<pending_transfers, transfer_count, root_count>>
holders == <<held, futures, tokens, rooted, asks, gone>>
history == <<born, first, unrenewed, drift>>
vars == <<directory, counters, retirements, run, queue, holders, history>>

Absent == [is |-> FALSE, left |-> 0, suspect |-> -1]
Fresh == [is |-> TRUE, left |-> Ttl, suspect |-> -1]
NotHeld == -1
NoFuture == [kind |-> "none", to |-> Home, left |-> 0, status |-> "none"]
Idle == [pc |-> "idle", request |-> [kind |-> "none"], object |-> {}, seen |-> "none",
         active |-> {}, todo |-> {}, taken |-> <<>>]

Leased(o) == {l \in Locality : leases[o][l].is}

\* fetch_sub on an unsigned integer wraps.
Subtract(count, n) == (count + Width - n) % Width

\* A locality has at most one create, upgrade or transfer of an object under
\* way: a bound of the model.
Asking(r, l, o) == r.kind \in {"create", "acquire", "transfer"} /\ r.from = l /\ r.object = o
Unasked(l, o) ==
  /\ futures[l][o] = NoFuture
  /\ \A i \in DOMAIN queue[l] : ~Asking(queue[l][i], l, o)
  /\ ~Asking(run["worker"].request, l, o)

(***************************************************************************)
(* Requests to Home.  object_control is best effort: that send refused the  *)
(* request is ignored.  At Home it is executed where it is called.          *)
(***************************************************************************)
Request(kind, o, from, lease) == [kind |-> kind, object |-> o, from |-> from, lease |-> lease]

Submit(l, request) == Len(queue[l]) < QueueCap /\ queue' = [queue EXCEPT ![l] = Append(@, request)]

Control(l, request) == Submit(l, request) \/ UNCHANGED queue

Starts(t, request) ==
  run' = [run EXCEPT ![t] = [Idle EXCEPT !.pc = request.kind, !.request = request,
                                         !.object = {request.object}]]

\* object_control of the control kinds that collect: on the client thread at
\* Home, through the lane elsewhere.
Give(l, request) ==
  IF l = Home THEN run["client"] = Idle /\ Starts("client", request) /\ UNCHANGED queue
  ELSE Control(l, request) /\ UNCHANGED run

Take(l, kind) ==
  /\ run["worker"] = Idle /\ queue[l] # <<>> /\ Head(queue[l]).kind = kind
  /\ queue' = [queue EXCEPT ![l] = Tail(@)]

\* The thread is done with its call; the owner goes on with expire.
Done(t) ==
  run' = [run EXCEPT ![t] = IF t = "owner" THEN [Idle EXCEPT !.pc = "expire", !.todo = run[t].todo]
                            ELSE Idle]
Goes(t, pc) == run' = [run EXCEPT ![t].pc = pc]

\* The request's future learns its result, if it was not dropped.
Answer(r, status) ==
  futures' = IF futures[r.from][r.object] = NoFuture THEN futures
             ELSE [futures EXCEPT ![r.from][r.object].status = status]

(***************************************************************************)
(* Handlers of the worker.  What another thread can come between is a step  *)
(* of its own: each lock is taken and released before the next one.         *)
(***************************************************************************)
\* insert: the entry, with its creator's lease and its root.
CanInsert(o, root) == o \notin born /\ (root => root_count < MaxRoots)
Insert(o, l, root) ==
  /\ stored' = stored \cup {o}
  /\ leases' = [leases EXCEPT ![o][l] = Fresh]
  /\ roots' = [roots EXCEPT ![o] = IF root THEN 1 ELSE 0]
  /\ root_count' = root_count + (IF root THEN 1 ELSE 0)
  /\ born' = born \cup {o}
  /\ unrenewed' = [unrenewed EXCEPT ![o][l] = 0]
  /\ first' = first \cup {<<o, l>>}

\* create_handler
HandleCreate(l) ==
  /\ Take(l, "create")
  /\ LET r == Head(queue[l]) IN
       IF CanInsert(r.object, l \in Rooting)
       THEN Insert(r.object, l, l \in Rooting) /\ Answer(r, "ok")
       ELSE /\ Answer(r, "error")
            /\ UNCHANGED <<stored, leases, roots, root_count, born, first, unrenewed>>
  /\ UNCHANGED <<lifecycle, pending_transfers, transfer_count, retirements, run,
                 held, tokens, rooted, asks, gone, drift>>

\* Mutant: renewal leaves suspect_since as it is.
RenewedSuspect(record) == [record EXCEPT !.left = Ttl]
\* What renew makes of a record.
Renewed(record) == [record EXCEPT !.left = Ttl, !.suspect = -1]

\* renew of several leases of a locality: without the entry or the record
\* nothing happens.
Renew(objects, l) ==
  LET found == {o \in objects \cap stored : leases[o][l].is}
  IN  /\ leases' = [o \in Object |-> IF o \in found THEN [leases[o] EXCEPT ![l] = Renewed(@)]
                                     ELSE leases[o]]
      /\ unrenewed' = [o \in Object |-> IF o \in found THEN [unrenewed[o] EXCEPT ![l] = 0]
                                        ELSE unrenewed[o]]

\* lease_handler(renew = true)
HandleRenew(l) ==
  /\ Take(l, "renew")
  /\ Renew({Head(queue[l]).object}, l)
  /\ UNCHANGED <<stored, roots, lifecycle, counters, retirements, run, holders, born, first, drift>>

\* Mutant: the count is given back though the pin is not there.
UnpinAlways(o, l) ==
  /\ pending_transfers' = pending_transfers \ {<<o, l>>}
  /\ transfer_count' = Subtract(transfer_count, 1)
\* ack_transfer
Unpin(o, l) ==
  /\ pending_transfers' = pending_transfers \ {<<o, l>>}
  /\ transfer_count' = IF <<o, l>> \in pending_transfers THEN Subtract(transfer_count, 1)
                       ELSE transfer_count

\* transfer_ack_handler
HandleAck(l) ==
  /\ Take(l, "ack")
  /\ Unpin(Head(queue[l]).object, Head(queue[l]).lease)
  /\ UNCHANGED <<directory, root_count, retirements, run, holders, history>>

\* The first lock of the acquire handler, and the first of begin_transfer:
\* no entry, or a lease of the destination, refuses.
HandleAcquire(l) ==
  /\ \E kind \in {"acquire", "transfer"} : Take(l, kind)
  /\ LET r == Head(queue[l]) IN
       IF \/ r.object \notin stored
          \/ r.kind = "transfer" /\ leases[r.object][r.lease].is
       THEN Answer(r, "error") /\ UNCHANGED run
       ELSE /\ run' = [run EXCEPT !["worker"] =
                         [Idle EXCEPT !.pc = IF r.kind = "transfer" THEN "pin" ELSE "insert",
                                      !.request = r, !.object = {r.object}]]
            /\ UNCHANGED futures
  /\ UNCHANGED <<directory, counters, retirements, held, tokens, rooted, asks, gone, history>>

Working(pc) == run["worker"].pc = pc

\* begin_transfer reserves the pin.
PinTransfer ==
  /\ Working("pin")
  /\ LET r == run["worker"].request IN
       IF <<r.object, r.lease>> \in pending_transfers \/ transfer_count >= MaxTransfers
       THEN /\ Answer(r, "error") /\ Done("worker")
            /\ UNCHANGED <<pending_transfers, transfer_count>>
       ELSE /\ pending_transfers' = pending_transfers \cup {<<r.object, r.lease>>}
            /\ transfer_count' = (transfer_count + 1) % Width
            /\ Goes("worker", "lookup") /\ UNCHANGED futures
  /\ UNCHANGED <<directory, root_count, retirements, queue, held, tokens, rooted, asks, gone,
                 history>>

\* The acquire of begin_transfer looks the entry up again.
LookUp ==
  /\ Working("lookup")
  /\ LET r == run["worker"].request IN
       Goes("worker", IF r.object \in stored THEN "insert" ELSE "unpin")
  /\ UNCHANGED <<directory, counters, retirements, queue, holders, history>>

\* acquire inserts the record in the entry it looked up.  If another thread
\* has removed that entry from the directory the record is lost with it.
InsertLease ==
  /\ Working("insert")
  /\ LET r == run["worker"].request IN
       IF Cardinality(Leased(r.object)) >= MaxLeases /\ ~leases[r.object][r.lease].is
       THEN /\ IF r.kind = "transfer" THEN Goes("worker", "unpin") /\ UNCHANGED futures
               ELSE Answer(r, "error") /\ Done("worker")
            /\ UNCHANGED <<leases, unrenewed>>
       ELSE /\ IF r.object \in stored
               THEN /\ leases' = [leases EXCEPT ![r.object][r.lease] = Fresh]
                    /\ unrenewed' = [unrenewed EXCEPT ![r.object][r.lease] = 0]
               ELSE UNCHANGED <<leases, unrenewed>>
            /\ Answer(r, "ok") /\ Done("worker")
  /\ UNCHANGED <<stored, roots, lifecycle, counters, retirements, queue, held, tokens, rooted,
                 asks, gone, born, first, drift>>

\* begin_transfer gives its pin back after a failed acquire: the count is
\* decremented even if expire has removed the pin.
GiveUpTransfer ==
  /\ Working("unpin")
  /\ LET r == run["worker"].request
         pin == <<r.object, r.lease>>
     IN  /\ pending_transfers' = pending_transfers \ {pin}
         /\ transfer_count' = Subtract(transfer_count, 1)
         /\ drift' = IF pin \in pending_transfers THEN drift ELSE (drift + 1) % Width
         /\ Answer(r, "error") /\ Done("worker")
  /\ UNCHANGED <<directory, root_count, retirements, queue, held, tokens, rooted, asks, gone,
                 born, first, unrenewed>>

\* lease_handler(renew = false) and root_release_handler are taken up.
HandleRelease(l) ==
  /\ \E kind \in {"release", "root release"} : Take(l, kind)
  /\ Starts("worker", Head(queue[l]))
  /\ UNCHANGED <<directory, counters, retirements, holders, history>>

\* release: without an entry it returns before it acknowledges the transfer.
ReleaseLease(t) ==
  /\ run[t].pc = "release"
  /\ LET r == run[t].request IN
       IF r.object \notin stored
       THEN Done(t) /\ UNCHANGED leases
       ELSE /\ leases' = [leases EXCEPT ![r.object][r.lease] = Absent]
            /\ Goes(t, "ack")
  /\ UNCHANGED <<stored, roots, lifecycle, counters, retirements, queue, holders, history>>

\* ... and its transfer, if there is one, is acknowledged.
ReleaseTransfer(t) ==
  /\ run[t].pc = "ack"
  /\ Unpin(run[t].request.object, run[t].request.lease)
  /\ Goes(t, "check")
  /\ UNCHANGED <<directory, root_count, retirements, queue, holders, history>>

\* release_root
ReleaseRoot(t) ==
  /\ run[t].pc = "root release"
  /\ LET r == run[t].request IN
       IF r.object \notin stored \/ roots[r.object] = 0
       THEN Done(t) /\ UNCHANGED <<roots, root_count>>
       ELSE /\ roots' = [roots EXCEPT ![r.object] = @ - 1]
            /\ root_count' = root_count - 1
            /\ Goes(t, "check")
  /\ UNCHANGED <<stored, leases, lifecycle, pending_transfers, transfer_count, retirements,
                 queue, holders, history>>

(***************************************************************************)
(* collect, on any thread.                                                  *)
(***************************************************************************)
Busy(o) == run["client"].pc = "call" /\ o \in run["client"].object

\* Mutant: roots do not keep an object.
CollectibleRooted(o) == ~Busy(o) /\ Leased(o) = {} /\ lifecycle[o] # "Retiring"
\* The conditions of collect: idle, no lease, no root.
Collectible(o) == ~Busy(o) /\ Leased(o) = {} /\ roots[o] = 0 /\ lifecycle[o] # "Retiring"

CollectCheck(t) ==
  /\ run[t].pc = "check"
  /\ LET o == CHOOSE x \in run[t].object : TRUE IN
       IF o \in stored /\ Collectible(o)
       THEN run' = [run EXCEPT ![t].pc = "collect", ![t].seen = lifecycle[o]]
       ELSE Done(t)
  /\ UNCHANGED <<directory, counters, retirements, queue, holders, history>>

\* What follows the checks: a resident is removed; the resident of an object
\* that moved is queued for retirement, if the queue has room.
CollectRemove(t) ==
  /\ run[t].pc = "collect"
  /\ LET o == CHOOSE x \in run[t].object : TRUE IN
       IF run[t].seen = "Resident"
       THEN stored' = stored \ {o} /\ UNCHANGED <<lifecycle, retirements>>
       ELSE IF Len(retirements) >= MaxRetire THEN UNCHANGED <<stored, lifecycle, retirements>>
       ELSE /\ lifecycle' = [lifecycle EXCEPT ![o] = "Retiring"]
            /\ retirements' = Append(retirements, o)
            /\ UNCHANGED stored
  /\ Done(t)
  /\ UNCHANGED <<leases, roots, counters, queue, holders, history>>

(***************************************************************************)
(* progress of Home's owner: renew what is due, expire, retire.             *)
(***************************************************************************)
Due(l) == {o \in Object : held[l][o] = 0}
Restarted(l) == [held EXCEPT ![l] = [o \in Object |-> IF held[l][o] = 0 THEN Renewal ELSE held[l][o]]]

Progress ==
  /\ run["owner"] = Idle
  /\ held' = Restarted(Home)
  /\ Renew(Due(Home), Home)
  /\ run' = [run EXCEPT !["owner"] = [Idle EXCEPT !.pc = "expire", !.todo = stored]]
  /\ UNCHANGED <<stored, roots, lifecycle, counters, retirements, queue, futures, tokens, rooted,
                 asks, gone, born, first, drift>>

\* Mutant: a suspect record is never removed.
ExpiredNever(record) ==
  IF record.is /\ record.left = 0 /\ record.suspect = -1 THEN [record EXCEPT !.suspect = 0]
  ELSE record
\* expire of one record: an expired one becomes suspect, a suspect one past
\* its grace is removed.
Expired(record) ==
  IF record.is /\ record.left = 0 /\ record.suspect = -1 THEN [record EXCEPT !.suspect = 0]
  ELSE IF record.is /\ record.suspect >= Grace THEN Absent
  ELSE record

ExpireLeases(o) ==
  /\ run["owner"].pc = "expire" /\ o \in run["owner"].todo
  /\ LET rest == run["owner"].todo \ {o}
         after == [l \in Locality |-> Expired(leases[o][l])]
     IN  IF o \notin stored
         THEN run' = [run EXCEPT !["owner"].todo = rest] /\ UNCHANGED <<leases, first>>
         ELSE /\ leases' = [leases EXCEPT ![o] = after]
              /\ first' = {p \in first : p[1] = o => after[p[2]].is}
              /\ run' = [run EXCEPT !["owner"] =
                           [Idle EXCEPT !.pc = "transfers", !.object = {o}, !.todo = rest,
                                        !.active = {l \in Locality : after[l].is}]]
  /\ UNCHANGED <<stored, roots, lifecycle, counters, retirements, queue, holders, born, unrenewed,
                 drift>>

\* The pins of localities that had no lease when the records were looked at.
ExpireTransfers ==
  /\ run["owner"].pc = "transfers"
  /\ LET dead == {p \in pending_transfers : p[1] \in run["owner"].object
                                            /\ p[2] \notin run["owner"].active}
     IN  /\ pending_transfers' = pending_transfers \ dead
         /\ transfer_count' = Subtract(transfer_count, Cardinality(dead))
  /\ Goes("owner", "check")
  /\ UNCHANGED <<directory, root_count, retirements, queue, holders, history>>

\* take_retirements
TakeRetirements ==
  /\ run["owner"].pc = "expire" /\ run["owner"].todo = {}
  /\ run' = [run EXCEPT !["owner"] = IF retirements = <<>> THEN Idle
                                     ELSE [Idle EXCEPT !.pc = "retire", !.taken = retirements]]
  /\ retirements' = <<>>
  /\ UNCHANGED <<directory, counters, queue, holders, history>>

\* The retire message of the first one is sent: finish_retirement.
SendRetirement ==
  /\ run["owner"].pc = "retire"
  /\ LET rest == Tail(run["owner"].taken) IN
       run' = [run EXCEPT !["owner"] = IF rest = <<>> THEN Idle ELSE [@ EXCEPT !.taken = rest]]
  /\ stored' = stored \ {Head(run["owner"].taken)}
  /\ UNCHANGED <<leases, roots, lifecycle, counters, retirements, queue, holders, history>>

\* send refuses it: requeue_retirement and break; the others taken are dropped.
RefuseRetirement ==
  /\ run["owner"].pc = "retire"
  /\ retirements' = <<Head(run["owner"].taken)>> \o retirements
  /\ run' = [run EXCEPT !["owner"] = Idle]
  /\ UNCHANGED <<directory, counters, queue, holders, history>>

(***************************************************************************)
(* The clients.                                                             *)
(***************************************************************************)
Here(l) == l \notin gone

\* LocalLeaseManager::attach: an existing LocalLease is shared; a new one
\* needs room.
Attached(l, o) == held[l][o] # NotHeld
CanAttach(l, o) == Attached(l, o) \/ Cardinality({x \in Object : Attached(l, x)}) < MaxLeases
Attach(l, o) == held' = IF Attached(l, o) THEN held ELSE [held EXCEPT ![l][o] = Renewal]

\* create_at and create_rooted_at: at Home the entry is inserted and attached
\* in the call, elsewhere a request is sent.
CreateHere(o) ==
  /\ CanInsert(o, Home \in Rooting) /\ \A k \in Locality : Unasked(k, o)
  /\ Insert(o, Home, Home \in Rooting)
  /\ IF CanAttach(Home, o)
     THEN /\ Attach(Home, o)
          /\ rooted' = [rooted EXCEPT ![Home] = IF Home \in Rooting THEN @ \cup {o} ELSE @]
     ELSE UNCHANGED <<held, rooted>>
  /\ UNCHANGED <<lifecycle, pending_transfers, transfer_count, retirements, run, queue, futures,
                 tokens, asks, gone, drift>>

Await(l, o, kind, to) ==
  futures' = [futures EXCEPT ![l][o] =
                [kind |-> kind, to |-> to, status |-> "pending",
                 left |-> IF kind = "transfer" THEN Ttl ELSE 0]]

CreateThere(l, o) ==
  /\ Here(l) /\ l # Home /\ o \notin born
  /\ \A k \in Locality : Unasked(k, o)
  /\ Submit(l, Request("create", o, l, l)) /\ Await(l, o, "create", Home)
  /\ UNCHANGED <<directory, counters, retirements, run, held, tokens, rooted, asks, gone, history>>

\* WeakRemote::upgrade
Upgrade(l, o) ==
  /\ Here(l) /\ o \in born /\ Unasked(l, o) /\ asks[l] < MaxAsks[l]
  /\ asks' = [asks EXCEPT ![l] = @ + 1]
  /\ Submit(l, Request("acquire", o, l, l)) /\ Await(l, o, "upgrade", l)
  /\ UNCHANGED <<directory, counters, retirements, run, held, tokens, rooted, gone, history>>

\* Remote::transfer_to
TransferTo(l, o, to) ==
  /\ Here(l) /\ Attached(l, o) /\ l # to /\ Unasked(l, o) /\ asks[l] < MaxAsks[l]
  /\ asks' = [asks EXCEPT ![l] = @ + 1]
  /\ Submit(l, Request("transfer", o, l, to)) /\ Await(l, o, "transfer", to)
  /\ UNCHANGED <<directory, counters, retirements, run, held, tokens, rooted, gone, history>>

\* What a polled future gives its caller: TransferFuture the token of the
\* destination's lease, RootedCreateFuture a root with the handle.
TokenOf(l, o, f) ==
  IF f.status = "ok" /\ f.kind = "transfer"
  THEN {[object |-> o, from |-> l, to |-> f.to, left |-> f.left]} ELSE {}
RootOf(l, o, f) == IF f.kind = "create" /\ l \in Rooting THEN {o} ELSE {}

\* A future is polled after its answer: CreateFuture and UpgradeFuture attach.
Poll(l, o) ==
  LET f == futures[l][o]
      attaches == f.status = "ok" /\ f.kind # "transfer" /\ CanAttach(l, o)
  IN  /\ Here(l) /\ f.status \in {"ok", "error"}
      /\ futures' = [futures EXCEPT ![l][o] = NoFuture]
      /\ IF attaches
         THEN Attach(l, o) /\ rooted' = [rooted EXCEPT ![l] = @ \cup RootOf(l, o, f)]
         ELSE UNCHANGED <<held, rooted>>
      /\ tokens' = tokens \cup TokenOf(l, o, f)
      /\ UNCHANGED <<directory, counters, retirements, run, queue, asks, gone, history>>

\* A future is dropped; its request runs on.
DropFuture(l, o) ==
  /\ Here(l) /\ futures[l][o] # NoFuture
  /\ futures' = [futures EXCEPT ![l][o] = NoFuture]
  /\ UNCHANGED <<directory, counters, retirements, run, queue, held, tokens, rooted, asks, gone,
                 history>>

\* The last clone of a Remote goes: Drop of LocalLease.
DropHandle(l, o) ==
  /\ Here(l) /\ Attached(l, o)
  /\ held' = [held EXCEPT ![l][o] = NotHeld]
  /\ first' = first \ {<<o, l>>}
  /\ Give(l, Request("release", o, l, l))
  /\ UNCHANGED <<directory, counters, retirements, futures, tokens, rooted, asks, gone, born,
                 unrenewed, drift>>

\* ObjectRoot::release and its Drop.
DropRoot(l, o) ==
  /\ Here(l) /\ o \in rooted[l]
  /\ rooted' = [rooted EXCEPT ![l] = @ \ {o}]
  /\ Give(l, Request("root release", o, l, l))
  /\ UNCHANGED <<directory, counters, retirements, held, futures, tokens, asks, gone, history>>

\* import_transfer of a token in time that finds room attaches and
\* acknowledges.
Import(t) ==
  /\ t \in tokens /\ Here(t.to) /\ t.left > 0 /\ CanAttach(t.to, t.object)
  /\ tokens' = tokens \ {t}
  /\ Attach(t.to, t.object)
  /\ IF t.to = Home
     THEN Unpin(t.object, Home) /\ UNCHANGED queue
     ELSE Control(t.to, Request("ack", t.object, t.to, t.to))
          /\ UNCHANGED <<pending_transfers, transfer_count>>
  /\ UNCHANGED <<directory, root_count, retirements, run, futures, rooted, asks, gone, history>>

\* A token is dropped, or refused by import_transfer: its source releases the
\* lease of the destination.
DropToken(t) ==
  /\ t \in tokens /\ Here(t.from)
  /\ tokens' = tokens \ {t}
  /\ Give(t.from, Request("release", t.object, t.from, t.to))
  /\ UNCHANGED <<directory, counters, retirements, held, futures, rooted, asks, gone, history>>

\* progress of another locality renews what is due.
RenewDue(l, o) ==
  /\ Here(l) /\ l # Home /\ held[l][o] = 0
  /\ held' = [held EXCEPT ![l][o] = Renewal]
  /\ Control(l, Request("renew", o, l, l))
  /\ UNCHANGED <<directory, counters, retirements, run, futures, tokens, rooted, asks, gone,
                 history>>

\* local_entry and admit_local: the entry is there and resident, and no other
\* call has it.
CanCall(o) == o \in stored /\ lifecycle[o] = "Resident" /\ ~Busy(o)

\* A local call pins its object on the client thread of Home, then collects.
Call(o) ==
  /\ run["client"] = Idle /\ Attached(Home, o) /\ CanCall(o)
  /\ run' = [run EXCEPT !["client"] = [Idle EXCEPT !.pc = "call", !.object = {o}]]
  /\ UNCHANGED <<directory, counters, retirements, queue, holders, history>>
Return ==
  /\ run["client"].pc = "call" /\ Goes("client", "check")
  /\ UNCHANGED <<directory, counters, retirements, queue, holders, history>>

\* A migration of ObjectMigration commits: Home forwards to the new place.
Move(o) ==
  /\ o \in MayMove /\ o \in stored /\ lifecycle[o] = "Resident" /\ ~Busy(o)
  /\ \E l \in Locality : Attached(l, o)
  /\ lifecycle' = [lifecycle EXCEPT ![o] = "Forwarding"]
  /\ UNCHANGED <<stored, leases, roots, counters, retirements, run, queue, holders, history>>

\* shutdown or Drop of a Runtime, where LocalLeaseManager::clear releases the
\* handles of some objects, or the death of its process, which releases none.
Leave(l) ==
  /\ l \in MayLeave /\ Here(l)
  /\ gone' = gone \cup {l}
  /\ held' = [held EXCEPT ![l] = [o \in Object |-> NotHeld]]
  /\ futures' = [futures EXCEPT ![l] = [o \in Object |-> NoFuture]]
  /\ tokens' = {t \in tokens : l \notin {t.from, t.to}}
  /\ rooted' = [rooted EXCEPT ![l] = {}]
  /\ first' = {p \in first : p[2] # l}
  /\ \/ UNCHANGED queue
     \/ \E o \in Object : Attached(l, o) /\ Submit(l, Request("release", o, l, l))
  /\ UNCHANGED <<directory, counters, retirements, run, asks, born, unrenewed, drift>>

Less(n) == IF n > 0 THEN n - 1 ELSE n
Aged(record) ==
  [record EXCEPT !.left = Less(@),
                 !.suspect = IF @ \in 0..(Grace - 1) THEN @ + 1 ELSE @]

\* One unit of time passes.
Tick ==
  /\ \A t \in Prompt : run[t].pc \in {"idle", "call"}
  /\ leases' = [o \in Object |-> [l \in Locality |->
                  IF o \in stored THEN Aged(leases[o][l]) ELSE leases[o][l]]]
  /\ held' = [l \in Locality |-> [o \in Object |-> Less(held[l][o])]]
  /\ futures' = [l \in Locality |-> [o \in Object |->
                   [futures[l][o] EXCEPT !.left = Less(@)]]]
  /\ tokens' = {[t EXCEPT !.left = Less(@)] : t \in tokens}
  /\ unrenewed' = [o \in Object |-> [l \in Locality |->
                     IF o \in stored /\ leases[o][l].is /\ unrenewed[o][l] < Ttl + Grace
                     THEN unrenewed[o][l] + 1 ELSE unrenewed[o][l]]]
  /\ UNCHANGED <<stored, roots, lifecycle, counters, retirements, run, queue, rooted, asks, gone,
                 born, first, drift>>

Init ==
  /\ stored = {} /\ born = {} /\ first = {} /\ gone = {} /\ tokens = {}
  /\ leases = [o \in Object |-> [l \in Locality |-> Absent]]
  /\ roots = [o \in Object |-> 0]
  /\ lifecycle = [o \in Object |-> "Resident"]
  /\ pending_transfers = {} /\ transfer_count = 0 /\ root_count = 0 /\ drift = 0
  /\ retirements = <<>>
  /\ run = [t \in Thread |-> Idle]
  /\ queue = [l \in Locality |-> <<>>]
  /\ held = [l \in Locality |-> [o \in Object |-> NotHeld]]
  /\ futures = [l \in Locality |-> [o \in Object |-> NoFuture]]
  /\ rooted = [l \in Locality |-> {}]
  /\ asks = [l \in Locality |-> 0]
  /\ unrenewed = [o \in Object |-> [l \in Locality |-> 0]]

Handle(l) ==
  \/ HandleCreate(l) \/ HandleRenew(l) \/ HandleAck(l) \/ HandleAcquire(l) \/ HandleRelease(l)
Work == PinTransfer \/ LookUp \/ InsertLease \/ GiveUpTransfer
Collecting(t) ==
  \/ ReleaseLease(t) \/ ReleaseTransfer(t) \/ ReleaseRoot(t)
  \/ CollectCheck(t) \/ CollectRemove(t)
Handlers ==
  \/ Work \/ Return \/ \E l \in Locality : Handle(l)
  \/ \E t \in {"worker", "client"} : Collecting(t)
Expire == ExpireTransfers \/ \E o \in Object : ExpireLeases(o)
Owner ==
  \/ Progress \/ Expire \/ Collecting("owner")
  \/ TakeRetirements \/ SendRetirement \/ RefuseRetirement
Client(l, o) ==
  \/ CreateThere(l, o) \/ Upgrade(l, o) \/ Poll(l, o) \/ DropFuture(l, o) \/ DropHandle(l, o) \/ DropRoot(l, o)
  \/ RenewDue(l, o)
  \/ \E to \in Locality : TransferTo(l, o, to)

Next ==
  \/ Handlers \/ Owner
  \/ \E l \in Locality : Leave(l) \/ \E o \in Object : Client(l, o)
  \/ \E o \in Object : Call(o) \/ Move(o) \/ CreateHere(o)
  \/ \E t \in tokens : Import(t) \/ DropToken(t)
  \/ Tick

Spec == Init /\ [][Next]_vars

(***************************************************************************)
(* Fairness.  The threads of Home go on and a running call returns; time    *)
(* passes; a retirement that is tried again and again is accepted once the  *)
(* transport has drained.                                                   *)
(***************************************************************************)
FairSpec ==
  /\ Spec
  /\ WF_vars(Handlers)
  /\ WF_vars(Owner)
  /\ SF_vars(SendRetirement)
  /\ SF_vars(Tick)

-----------------------------------------------------------------------------
Record == [is : BOOLEAN, left : 0..Ttl, suspect : -1..Grace]
Token == [object : Object, from : Locality, to : Locality, left : 0..Ttl]

\* The types of the variables.  The requests of a locality and the queued
\* retirements stay within their bounds (requeue_retirement may exceed
\* max_migrations by the one it puts back), and the counters are unsigned.
TypeOK ==
  /\ stored \subseteq born /\ born \subseteq Object
  /\ leases \in [Object -> [Locality -> Record]]
  /\ roots \in [Object -> 0..1] /\ root_count \in 0..MaxRoots
  /\ lifecycle \in [Object -> {"Resident", "Forwarding", "Retiring"}]
  /\ pending_transfers \subseteq Object \X Locality
  /\ transfer_count \in 0..(Width - 1)
  /\ retirements \in Seq(Object) /\ Len(retirements) <= MaxRetire + 1
  /\ \A l \in Locality : Len(queue[l]) <= QueueCap
  /\ held \in [Locality -> [Object -> NotHeld..Renewal]]
  /\ tokens \subseteq Token
  /\ rooted \in [Locality -> SUBSET Object]
  /\ unrenewed \in [Object -> [Locality -> 0..(Ttl + Grace)]]

\* transfer_count is the number of pending transfers, but for one path: a
\* transfer whose pin expire removed while begin_transfer was between its
\* locks, and whose acquire then failed, is subtracted twice.  No other
\* interleaving of transfer, acknowledgement, release and expiry loses count.
\* (Modulo Width: each drift lets max_transfers be exceeded by one more.)
TransferPinsExplained ==
  (transfer_count + drift) % Width = Cardinality(pending_transfers) % Width

\* While the locality that created an object keeps its first handle, or has
\* not polled the future yet, and its lease has not expired, the entry is in
\* the directory with that lease: no transfer, upgrade, release, expiry or
\* collection on behalf of others ends it.  An object with an active ObjectRoot
\* is never collected, however many leases expire around it.
HoldersKeepObject ==
  /\ \A p \in first : Attached(p[2], p[1]) \/ futures[p[2]][p[1]].kind = "create" =>
                        p[1] \in stored /\ leases[p[1]][p[2]].is
  /\ \A l \in Locality : rooted[l] \subseteq stored

\* A lease ends by a release that names it, or after the TTL and the grace
\* have both passed since it was last acquired or renewed.
LeaseOutlivesTtl ==
  [][\A o \in Object, l \in Locality :
       leases[o][l].is /\ ~leases'[o][l].is =>
         \/ unrenewed[o][l] >= Ttl + Grace
         \/ \E t \in Thread : run[t].pc = "release" /\ run[t].request.object = o
                                                    /\ run[t].request.lease = l]_vars

Unreferenced(o) ==
  /\ roots[o] = 0
  /\ \A l \in Locality : ~Attached(l, o) /\ futures[l][o] = NoFuture
Forgotten(o) ==
  lifecycle[o] = "Retiring" /\ \A i \in DOMAIN retirements : retirements[i] # o

\* An object nobody refers to any more leaves the directory, whether the
\* releases of its leases arrived, were lost or were never sent (dropped
\* futures and tokens, a process that died); unless its retirement was dropped
\* by the loop that broke off at a refused send.
EventuallyCollected ==
  \A o \in Object : []<>(o \in stored /\ Unreferenced(o) => Forgotten(o))

\* docs/design/phase-c-objects.md says that cancellation, timeout and peer
\* failure "cannot collect a reference in transit": while a transfer token has
\* not expired its object is in the directory.
TransitKeepsObject == \A t \in tokens : t.left > 0 => t.object \in stored
=============================================================================
