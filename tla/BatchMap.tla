------------------------------ MODULE BatchMap ------------------------------
(***************************************************************************)
(* The algorithms of hataori-algorithms over the runtime's futures: the     *)
(* batch controller PmapFuture behind pmap, pmap_at, pmap_colocated and     *)
(* pmap_preferred_colocated, and GatherFuture behind gather, broadcast and  *)
(* scatter.  The initiator's executor polls the future when its waker was   *)
(* called; the requests complete on other threads and localities between    *)
(* any two polls of a slot.                                                 *)
(*                                                                          *)
(* A colocated batch is first placed where an object is ("home"): its       *)
(* future follows the object's redirects (RemoteObjectCall), and a          *)
(* preferred one tries its fallback place once when home is saturated       *)
(* (PlacementFuture).  All of it happens inside the poll of the slot.       *)
(*                                                                          *)
(* A request is known by the index of its first item, counted from 1.  The  *)
(* value of item i is i.  A batch is executed item by item or in parallel   *)
(* (LocalMode); the reply has the items in order either way.                *)
(***************************************************************************)
EXTENDS Integers, Sequences, FiniteSets

CONSTANTS
  N,          \* the number of items
  Targets,    \* the number of localities of pmap
  BatchSizes, \* the values of PmapOptions::batch_size to try
  MaxPending, \* the values of the runtime's limit of pending requests to try
  MaxRedirects, \* ObjectLimits::max_redirects
  Operations  \* the algorithms to try

ASSUME BatchMapAssumption ==
  /\ N \in Nat /\ Targets \in Nat \ {0}
  /\ BatchSizes \subseteq Nat \ {0} /\ MaxPending \subseteq Nat \ {0}
  /\ MaxRedirects \in Nat
  /\ Operations \subseteq {"pmap", "pmap_at", "colocated", "preferred", "gather"}

Item == 1..N
Placement == {"home", "fallback"}

VARIABLES
  options,      \* the call: its operation, batch_size, prefetch, fallback, the pending
                \* limit, and how the action's own errors read to placement_saturated
  fate,         \* [Item -> what its handler returns]
  pending,      \* PmapFuture::pending, by first index
  slots,        \* PmapFuture::slots or GatherFuture::futures, by first index
  request,      \* [Item -> the state of the request that starts at it]
  placed,       \* [Item -> where PlacementFuture::state has it]
  redirects,    \* [Item -> RemoteObjectCall::redirects]
  admitted,     \* [Item -> [Placement -> how often the batch was let run there]]
  outputs,      \* [Item -> PmapFuture::outputs or GatherFuture::values; 0 is None]
  first_error,  \* the index of PmapFuture::first_error; 0 is None
  poll,         \* where poll is
  woken,        \* the waker was called since the last poll began
  wakers,       \* the requests whose promise holds the waker
  result        \* what the future returned

placement == <<placed, redirects, admitted>>
vars == <<options, fate, pending, slots, request, placement, outputs, first_error, poll, woken,
          wakers, result>>

Idle == [pc |-> "idle", at |-> 0, progress |-> FALSE, waits |-> FALSE]

LowerOf(i, j) == IF i < j THEN i ELSE j

(***************************************************************************)
(* Planning and submission.                                                *)
(***************************************************************************)
\* build: the first indices of the chunks of batch_size items.
Plan(size) == [k \in 1..((N + size - 1) \div size) |-> (k - 1) * size + 1]

Batch(s) == s..LowerOf(s + options.batch_size - 1, N)

Pmap == options.operation # "gather"
Gather == options.operation = "gather"
Colocated == options.operation \in {"colocated", "preferred"}

\* The eligible targets: pmap has every locality, the others have one place.
Eligible == IF options.operation = "pmap" THEN Targets ELSE 1

\* Mutant: one batch more than the window.
LimitPlusOne == Eligible * (IF options.prefetch THEN 2 ELSE 1) + 1
\* with_targets: inflight_limit.
Limit == Eligible * (IF options.prefetch THEN 2 ELSE 1)

\* How a request that did not succeed may have been answered: home was
\* saturated, the object has moved, or anything else (a frozen or collected
\* object, a codec, a peer, a deadline, a panic).
Failing == {"saturated", "moved", "failed"}
Outstanding == {s \in Item : request[s] \in {"sent", "replied"} \cup Failing}
Unanswered == {s \in Item : request[s] = "sent"}

\* spawn_on_with is refused when the pending table is full.
Refused == Cardinality(Unanswered) >= options.max_pending

Init ==
  /\ options \in [operation : Operations, batch_size : BatchSizes, prefetch : BOOLEAN,
                  max_pending : MaxPending, fallback : {"place", "reject"},
                  errors : {"plain", "as saturated"}]
  /\ options.operation # "preferred" => options.fallback = "reject"
  /\ options.fallback = "reject" => options.errors = "plain"
  /\ fate \in [Item -> {"ok", "error"}]
  /\ Gather => \A i \in Item : fate[i] = "ok"
  /\ Gather => options.batch_size = 1 /\ ~options.prefetch
  /\ pending = Plan(options.batch_size)
  /\ slots = <<>>
  /\ request = [s \in Item |-> "none"]
  /\ placed = [s \in Item |-> "home"] /\ redirects = [s \in Item |-> 0]
  /\ admitted = [s \in Item |-> [p \in Placement |-> 0]]
  /\ outputs = [i \in Item |-> 0] /\ first_error = 0
  /\ poll = Idle /\ woken = TRUE /\ wakers = {}
  /\ result = "none"

Returns(r) == result' = r /\ poll' = Idle

\* spawn_on, spawn_colocated or spawn_preferred_colocated has sent the batch to
\* its place: the last two to where the initiator's resolver has the object.
Offered(s) == [request EXCEPT ![s] = "sent"]

Submits ==
  LET s == Head(pending) IN
    /\ pending' = Tail(pending)
    /\ IF Refused
       THEN Returns("runtime error") /\ UNCHANGED <<slots, request>>
       ELSE /\ request' = Offered(s)
            /\ slots' = Append(slots, s)
            /\ UNCHANGED <<poll, result>>

\* broadcast and scatter: one action for each locality, before the future is
\* made; a refused one fails the call.
Spawn ==
  /\ Gather /\ result = "none" /\ pending # <<>>
  /\ Submits
  /\ UNCHANGED <<options, fate, placement, outputs, first_error, woken, wakers>>

(***************************************************************************)
(* PmapFuture::poll, a step for each submission and each slot polled.       *)
(***************************************************************************)
\* The executor polls a future whose waker was called.
StartPoll ==
  /\ poll = Idle /\ woken /\ result = "none" /\ (Gather => pending = <<>>)
  /\ poll' = [Idle EXCEPT !.pc = IF Pmap THEN "fill" ELSE "scan", !.at = 1]
  /\ woken' = FALSE
  /\ UNCHANGED <<options, fate, pending, slots, request, placement, outputs, first_error, wakers, result>>

Fill ==
  /\ poll.pc = "fill" /\ Len(slots) < Limit /\ pending # <<>>
  /\ Submits
  /\ UNCHANGED <<options, fate, placement, outputs, first_error, woken, wakers>>

FillDone ==
  /\ poll.pc = "fill" /\ (Len(slots) >= Limit \/ pending = <<>>)
  /\ poll' = [Idle EXCEPT !.pc = "scan", !.at = 1]
  /\ UNCHANGED <<options, fate, pending, slots, request, placement, outputs, first_error, woken, wakers,
                 result>>

\* The slot under poll.
Scanning == poll.pc = "scan" /\ poll.at <= Len(slots)
Slot == slots[poll.at]

\* Its promise is not settled: it keeps the waker.
PollPending ==
  /\ Scanning /\ request[Slot] = "sent"
  /\ wakers' = wakers \cup {Slot}
  /\ poll' = [poll EXCEPT !.at = @ + 1, !.waits = TRUE]
  /\ UNCHANGED <<options, fate, pending, slots, request, placement, outputs, first_error, woken, result>>

\* RemoteObjectCall::poll has a redirect left.
Redirected(s) == request[s] = "moved" /\ redirects[s] < MaxRedirects

\* Mutant: a fallback that is saturated is tried again.
FallsBackAgain(s) == request[s] = "saturated" /\ options.fallback = "place"
\* placement_saturated of a preferred future's error, with a fallback left.
FallsBack(s) == request[s] = "saturated" /\ options.fallback = "place" /\ placed[s] = "home"

\* The future of a batch has given its answer, and its state is gone.
Finished(s) ==
  /\ request' = [request EXCEPT ![s] = "taken"]
  /\ placed' = [placed EXCEPT ![s] = "home"] /\ redirects' = [redirects EXCEPT ![s] = 0]

\* The error is the slot's answer: pmap and gather return it.
PollFailed ==
  /\ Scanning /\ request[Slot] \in Failing /\ ~Redirected(Slot) /\ ~FallsBack(Slot)
  /\ Finished(Slot)
  /\ Returns("runtime error")
  /\ UNCHANGED <<options, fate, pending, slots, admitted, outputs, first_error, woken, wakers>>

\* To the object's newer location, under the same request.  A refused one reads
\* as a saturated home.
PollMoved ==
  /\ Scanning /\ Redirected(Slot)
  /\ request' = IF Refused THEN [request EXCEPT ![Slot] = "saturated"] ELSE Offered(Slot)
  /\ redirects' = [redirects EXCEPT ![Slot] = @ + 1]
  /\ UNCHANGED <<options, fate, pending, slots, placed, admitted, outputs, first_error, poll, woken,
                 wakers, result>>

\* To the fallback place, as a plain request; a refused one is the slot's answer.
PollFallback ==
  /\ Scanning /\ FallsBack(Slot)
  /\ IF Refused
     THEN Finished(Slot) /\ Returns("runtime error")
     ELSE /\ request' = Offered(Slot)
          /\ placed' = [placed EXCEPT ![Slot] = "fallback"]
          /\ redirects' = [redirects EXCEPT ![Slot] = 0]
          /\ UNCHANGED <<poll, result>>
  /\ UNCHANGED <<options, fate, pending, slots, admitted, outputs, first_error, woken, wakers>>

\* Vec::swap_remove
SwapRemoved(seq, i) ==
  [k \in 1..(Len(seq) - 1) |-> IF k = i THEN seq[Len(seq)] ELSE seq[k]]

\* Mutant: the results are stored from the slot's position on.
StoredAtSlot(s) == [i \in Item |-> IF i - poll.at + s \in Batch(s) /\ fate[i - poll.at + s] = "ok"
                                   THEN i - poll.at + s ELSE outputs[i]]
\* The reply's values at start + offset.
Stored(s) == [i \in Item |-> IF i \in Batch(s) /\ fate[i] = "ok" THEN i ELSE outputs[i]]

Errors(s) == {i \in Batch(s) : fate[i] = "error"}
\* Mutant: the first error to arrive is kept.
LoweredNot(s) == IF first_error # 0 \/ Errors(s) = {} THEN first_error
                 ELSE CHOOSE i \in Errors(s) : \A j \in Errors(s) : i <= j
\* first_error after the reply: the lower index wins.
Lowered(s) ==
  LET all == Errors(s) \cup ({first_error} \ {0})
  IN  IF all = {} THEN 0 ELSE CHOOSE i \in all : \A j \in all : i <= j

\* An index stored twice is a protocol error.
Taken(s) == \E i \in Batch(s) : fate[i] = "ok" /\ outputs[i] # 0

PollReady ==
  /\ Pmap /\ Scanning /\ request[Slot] = "replied"
  /\ Finished(Slot)
  /\ slots' = SwapRemoved(slots, poll.at)
  /\ IF Taken(Slot)
     THEN Returns("protocol error") /\ UNCHANGED <<outputs, first_error>>
     ELSE /\ outputs' = Stored(Slot) /\ first_error' = Lowered(Slot)
          /\ poll' = [poll EXCEPT !.progress = TRUE]
          /\ UNCHANGED result
  /\ UNCHANGED <<options, fate, pending, admitted, woken, wakers>>

Scanned == poll.pc = "scan" /\ poll.at > Len(slots)

Answer ==
  IF first_error # 0 THEN "callback error"
  ELSE IF \E i \in Item : outputs[i] = 0 THEN "protocol error"
  ELSE "ok"

Collected == pending = <<>> /\ slots = <<>>

Complete ==
  /\ Pmap /\ Scanned /\ Collected
  /\ Returns(Answer)
  /\ UNCHANGED <<options, fate, pending, slots, request, placement, outputs, first_error, woken, wakers>>

\* Mutant: poll returns Pending after a slot has become free.
AgainNever == Idle
\* The loop goes on after progress, else poll returns Pending.
Again == IF poll.progress THEN [Idle EXCEPT !.pc = "fill"] ELSE Idle

ScanAgain ==
  /\ Pmap /\ Scanned /\ ~Collected
  /\ poll' = Again
  /\ UNCHANGED <<options, fate, pending, slots, request, placement, outputs, first_error, woken, wakers,
                 result>>

(***************************************************************************)
(* GatherFuture::poll: the futures keep their positions.                    *)
(***************************************************************************)
GatherReady ==
  /\ Gather /\ Scanning /\ request[Slot] \in {"replied", "taken"}
  /\ request' = [request EXCEPT ![Slot] = "taken"]
  /\ outputs' = [outputs EXCEPT ![poll.at] = Slot]
  /\ poll' = [poll EXCEPT !.at = @ + 1]
  /\ UNCHANGED <<options, fate, pending, slots, placement, first_error, woken, wakers, result>>

GatherEnd ==
  /\ Gather /\ Scanned
  /\ IF poll.waits THEN poll' = Idle /\ UNCHANGED result ELSE Returns("ok")
  /\ UNCHANGED <<options, fate, pending, slots, request, placement, outputs, first_error, woken, wakers>>

(***************************************************************************)
(* The requests.  RuntimeCalls shows that each is settled once.             *)
(***************************************************************************)
\* The promise gets its answer and calls its waker.
Settle(s, how) ==
  /\ request[s] = "sent"
  /\ request' = [request EXCEPT ![s] = how]
  /\ woken' = (woken \/ s \in wakers) /\ wakers' = wakers \ {s}
  /\ UNCHANGED <<options, fate, pending, slots, placed, redirects, outputs, first_error, poll,
                 result>>

\* What the initiator reads in an error of the batch handler itself.
OwnError == IF options.errors = "plain" THEN "failed" ELSE "saturated"

\* The batch was admitted: its handler has answered for every item, or failed
\* as a whole (a codec, a panic), or its answer was lost.
Run(s) ==
  /\ \E how \in {"replied", "failed", OwnError} : Settle(s, how)
  /\ admitted' = [admitted EXCEPT ![s][placed[s]] = @ + 1]

\* admit, or the domain, refused the batch: for want of a ticket or of room; at
\* home also because the object has moved, or is frozen or gone.  Only a
\* PlacementFuture tells saturation from another failure.
Reject(s) ==
  /\ \E how \in {"failed"} \cup (IF Colocated THEN {"saturated"} ELSE {})
                \cup (IF Colocated /\ placed[s] = "home" THEN {"moved"} ELSE {}) : Settle(s, how)
  /\ UNCHANGED admitted

\* The future is dropped, after it has returned or between two polls: Drop of
\* each RemoteFuture cancels a request that is not settled.
DropFuture ==
  /\ poll = Idle /\ (slots # <<>> \/ pending # <<>>)
  /\ result' = IF result = "none" THEN "dropped" ELSE result
  /\ request' = [s \in Item |-> IF s \in Outstanding
                                THEN "cancelled" ELSE request[s]]
  /\ placed' = [s \in Item |-> "home"] /\ redirects' = [s \in Item |-> 0]
  /\ slots' = <<>> /\ pending' = <<>> /\ wakers' = {}
  /\ UNCHANGED <<options, fate, admitted, outputs, first_error, poll, woken>>

Executor ==
  \/ Spawn \/ StartPoll \/ Fill \/ FillDone \/ PollPending \/ PollFailed \/ PollMoved \/ PollFallback
  \/ PollReady \/ Complete \/ ScanAgain \/ GatherReady \/ GatherEnd

Next == Executor \/ DropFuture \/ \E s \in Item : Run(s) \/ Reject(s)

Spec == Init /\ [][Next]_vars

\* The executor polls a future that was woken, and the runtime settles every
\* request.
FairSpec ==
  /\ Spec
  /\ WF_vars(Executor)
  /\ \A s \in Item : WF_vars(Run(s) \/ Reject(s))

-----------------------------------------------------------------------------
Status == {"none", "sent", "replied", "taken", "cancelled"} \cup Failing

\* The types of the variables; every batch starts at an item.
TypeOK ==
  /\ fate \in [Item -> {"ok", "error"}]
  /\ pending \in Seq(Item) /\ slots \in Seq(Item)
  /\ request \in [Item -> Status]
  /\ placed \in [Item -> Placement] /\ redirects \in [Item -> 0..MaxRedirects]
  /\ outputs \in [Item -> 0..N] /\ first_error \in 0..N
  /\ poll.pc \in {"idle", "fill", "scan"} /\ poll.at \in 0..(Len(slots) + 1)
  /\ woken \in BOOLEAN /\ wakers \subseteq Item
  /\ result \in {"none", "ok", "callback error", "runtime error", "protocol error", "dropped"}

\* At no time are more requests outstanding at the runtime than
\* eligible_targets * (1 + prefetch), however polls and completions interleave.
WindowBounded ==
  Pmap => Cardinality(Outstanding) <= Eligible * (IF options.prefetch THEN 2 ELSE 1)

\* A successful pmap, gather, broadcast or scatter has the value of every item
\* in the order of the input, though batches complete in any order and the
\* slots are reordered by swap_remove; and no batch is answered twice.
ResultsInOrder ==
  /\ result = "ok" => \A i \in Item : outputs[i] = i
  /\ result # "protocol error"

\* pmap succeeds only if no item failed; a callback error is the failing item of
\* lowest index, though batches are answered in any order; and when the future
\* has returned either, all its requests were collected: none is still running.
LowestErrorWins ==
  /\ Pmap /\ result = "ok" => \A i \in Item : fate[i] = "ok"
  /\ result = "callback error" =>
       first_error \in Item /\ fate[first_error] = "error"
       /\ \A i \in Item : i < first_error => fate[i] = "ok"
  /\ result \in {"ok", "callback error"} => Unanswered = {}

\* A batch with hard affinity runs at its object's place or not at all, and one
\* with a fallback is offered to each place once; none runs twice, unless the
\* action's own error reads as saturation (the text match of
\* placement_saturated): then what home has run is run again at the fallback.
AffinityKept ==
  \A s \in Item :
    /\ options.fallback = "reject" => admitted[s]["fallback"] = 0
    /\ \A p \in Placement : admitted[s][p] <= 1
    /\ options.errors = "plain" => admitted[s]["home"] + admitted[s]["fallback"] <= 1

\* A future whose requests all settle returns, or is dropped: the poll that
\* returns Pending has left its waker with a request that is still running.
PollTerminates == <>(result # "none")
=============================================================================
