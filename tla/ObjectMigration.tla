--------------------------- MODULE ObjectMigration ---------------------------
(***************************************************************************)
(* Migration of one object: the entry every locality keeps for it           *)
(* (ObjectEntry), the steps a coordinator lowers `migrate` to (freeze,       *)
(* prepare, commit, activate, retire and the rollbacks), and the writing     *)
(* calls that cross it.                                                     *)
(*                                                                          *)
(* The object's state is the set of writes it has seen.  Coordinators and    *)
(* callers may be anywhere; they start from any location that was ever       *)
(* current, which is what a handle or a resolver can still hold.  The        *)
(* locality that created the object is its authority and keeps a lease, so   *)
(* its entry is never collected.  Actions reach their owner through the      *)
(* action runtime (RuntimeCalls): at most once, in any order, and perhaps    *)
(* after their coordinator has stopped waiting for them.                     *)
(***************************************************************************)
EXTENDS Integers, Sequences, FiniteSets

CONSTANTS
  Locality,     \* the localities
  Place,        \* the places, each a domain of a locality
  Home,         \* [Place -> Locality]
  Birth,        \* the place where the object was created
  Migration,    \* the ids of the migrations of a behaviour
  NoMigration,  \* not a migration
  Write,        \* the writing calls of a behaviour
  MaxMailbox,   \* ObjectLimits::max_mailbox_per_object
  MaxRedirects, \* ObjectLimits::max_redirects
  Refusing,     \* the steps whose handler may fail for reasons of its own
  Impatient,    \* the steps whose answer may come after its deadline
  Dropping,     \* the states in which a MigrationFuture may be dropped
  Expiry        \* when forwarding_ttl may elapse: "never", only on what
                \* "settled" migrations left behind, or at "any" time

Step == {"freeze", "prepare", "commit", "activate", "retire",
         "rollbackSource", "rollbackDestination"}
Outcome == {"completed", "rolledBack", "failed", "committedFailure"}
Lifecycle == {"Absent", "Resident", "Freezing", "Prepared", "Forwarding"}

ASSUME MigrationAssumption ==
  /\ Home \in [Place -> Locality]
  /\ Birth \in Place
  /\ NoMigration \notin Migration
  /\ Migration \cap Write = {}
  /\ MaxMailbox \in Nat \ {0}
  /\ MaxRedirects \in Nat \ {0}
  /\ Refusing \subseteq Step
  /\ Impatient \subseteq Step
  /\ Dropping \subseteq Step
  /\ Expiry \in {"never", "settled", "any"}

VARIABLES
  entry,     \* [Locality -> Entry]
  running,   \* [Locality -> the job that holds the object's admission, or {}]
  mailbox,   \* [Locality -> the jobs in Admission::queue]
  request,   \* the steps <<migration, step>> sent and not yet executed
  reply,     \* [Migration -> the answer its RemoteFuture holds, or {}]
  coord,     \* [Migration -> MigrationFuture]
  call,      \* [Write -> RemoteObjectCall]
  committed  \* history: the locations the authority has committed

vars == <<entry, running, mailbox, request, reply, coord, call, committed>>
queueVars == <<running, mailbox>>

Authority == Home[Birth]
Job == Migration \cup Write

\* ObjectLocation; the preparing migration stands for the slot it was given.
Location == [place : Place, epoch : Nat, by : Migration \cup {NoMigration}]
Origin == [place |-> Birth, epoch |-> 1, by |-> NoMigration]
At(loc) == Home[loc.place]
\* The locations a handle, a resolver or an entry may have.
Known == {Origin} \cup committed

\* Options are sets of at most one element.
Slot == [by : Migration, loc : Location, st : SUBSET Write]
Entry == [lc : Lifecycle, by : Migration \cup {NoMigration}, loc : Location,
          st : SUBSET (SUBSET Write), prep : SUBSET Slot]
AbsentEntry == [lc |-> "Absent", by |-> NoMigration, loc |-> Origin, st |-> {}, prep |-> {}]

\* What a RemoteFuture<MigrationPacket> resolves to.
Answer == [tag : {"ok", "moved", "err"}, loc : Location, st : SUBSET Write]
Ok(loc, st) == [tag |-> "ok", loc |-> loc, st |-> st]
Moved(loc) == [tag |-> "moved", loc |-> loc, st |-> {}]
Err == [tag |-> "err", loc |-> Origin, st |-> {}]

\* from, snapshot and dest are the fields of the packet.  A coordinator
\* changes its packet only when the step in flight has answered, so a request
\* need not carry a copy.
Coordinator == [pc : Step \cup Outcome \cup {"idle"}, dest : Place, from : Location,
                original : Location, snapshot : SUBSET Write, both : BOOLEAN,
                redirects : Nat]
Caller == [pc : {"new", "sent", "queued", "acked", "failed"}, to : Location, redirects : Nat]

Init ==
  /\ entry = [l \in Locality |->
                IF l = Authority THEN [AbsentEntry EXCEPT !.lc = "Resident", !.st = {{}}]
                                 ELSE AbsentEntry]
  /\ running = [l \in Locality |-> {}]
  /\ mailbox = [l \in Locality |-> << >>]
  /\ request = {}
  /\ reply = [m \in Migration |-> {}]
  /\ coord = [m \in Migration |->
                [pc |-> "idle", dest |-> Birth, from |-> Origin, original |-> Origin,
                 snapshot |-> {}, both |-> FALSE, redirects |-> 0]]
  /\ call = [w \in Write |-> [pc |-> "new", to |-> Origin, redirects |-> 0]]
  /\ committed = {}

-----------------------------------------------------------------------------
(* Admission: one writer or one freeze at a time, the others in a bounded   *)
(* mailbox.  A job may also wait because its domain is saturated.           *)

Idle(l) == running[l] = {} /\ mailbox[l] = << >>
HasRoom(l) == Len(mailbox[l]) < MaxMailbox
Admit(l, j) ==
  \/ /\ Idle(l)
     /\ running' = [running EXCEPT ![l] = {j}]
     /\ UNCHANGED mailbox
  \/ /\ HasRoom(l)
     /\ mailbox' = [mailbox EXCEPT ![l] = Append(@, j)]
     /\ UNCHANGED running
MailboxFull(l) == ~HasRoom(l)

\* retry_ready, for the head of the mailbox.
Retry(l) ==
  /\ running[l] = {}
  /\ mailbox[l] # << >>
  /\ running' = [running EXCEPT ![l] = {Head(mailbox[l])}]
  /\ mailbox' = [mailbox EXCEPT ![l] = Tail(@)]
  /\ UNCHANGED <<entry, request, reply, coord, call, committed>>

\* ObjectService::complete.
Complete(l) == running' = [running EXCEPT ![l] = {}]

\* collect: with a lease at the authority only a forwarder elsewhere goes.
Collect(l, e) ==
  IF /\ Idle(l) /\ e.prep = {} /\ l # Authority
     /\ e.lc = "Forwarding" /\ e.st = {}
  THEN AbsentEntry ELSE e

-----------------------------------------------------------------------------
(* The steps at their owners.  An answer reaches a coordinator that still   *)
(* waits for it; the runtime drops the others.                              *)

Awaits(m, step) == coord[m].pc = step /\ reply[m] = {}
AnswerTo(m, step, a) ==
  reply' = IF Awaits(m, step) THEN [reply EXCEPT ![m] = {a}] ELSE reply

Take(m, step) ==
  /\ <<m, step>> \in request
  /\ request' = request \ {<<m, step>>}

Source(m) == At(coord[m].original)
Destination(m) == Home[coord[m].dest]

\* A step nobody waits for may have been cancelled before it started.
Cancelled(m, step) ==
  /\ Take(m, step)
  /\ ~Awaits(m, step)
  /\ UNCHANGED <<entry, queueVars, reply, coord, call, committed>>

CanFreeze(e, m) == e.lc = "Resident" \/ (e.lc = "Freezing" /\ e.by = m)
Frozen(e, m) == [e EXCEPT !.lc = "Freezing", !.by = m]
Reopened(e) == [e EXCEPT !.lc = "Resident", !.by = NoMigration]

\* admit of a freeze: the lifecycle is closed before the mailbox is tried.
FreezeAdmit(m) ==
  LET l == At(coord[m].from)
      e == entry[l]
      moved == e.lc # "Absent" /\ e.loc.epoch # coord[m].from.epoch
  IN /\ Take(m, "freeze")
     /\ \/ /\ e.lc # "Absent" /\ ~moved /\ CanFreeze(e, m)
           /\ entry' = [entry EXCEPT ![l] = Frozen(e, m)]
           /\ \/ Admit(l, m) /\ UNCHANGED reply
              \/ MailboxFull(l) /\ AnswerTo(m, "freeze", Err) /\ UNCHANGED queueVars
        \/ /\ moved
           /\ AnswerTo(m, "freeze", Moved(e.loc))
           /\ UNCHANGED <<entry, queueVars>>
        \/ /\ e.lc = "Absent" \/ (~moved /\ ~CanFreeze(e, m))
           /\ AnswerTo(m, "freeze", Err)
           /\ UNCHANGED <<entry, queueVars>>
     /\ UNCHANGED <<coord, call, committed>>

\* freeze_migration on a worker, after the jobs admitted before it.
FreezeRun(l, m) ==
  LET e == entry[l]
      current == e.lc # "Absent" /\ e.loc = coord[m].from
  IN /\ m \in running[l]
     /\ Complete(l)
     /\ \/ /\ current /\ CanFreeze(e, m)
           /\ entry' = [entry EXCEPT ![l] = Frozen(e, m)]
           /\ AnswerTo(m, "freeze",
                IF e.st = {} THEN Err ELSE Ok(coord[m].from, UNION e.st))
        \/ /\ current /\ CanFreeze(e, m) /\ e.st # {} /\ "freeze" \in Refusing
           /\ entry' = [entry EXCEPT ![l] = Reopened(e)]
           /\ AnswerTo(m, "freeze", Err)
        \/ /\ ~current \/ ~CanFreeze(e, m)
           /\ AnswerTo(m, "freeze", Err)
           /\ UNCHANGED entry
        \/ /\ ~Awaits(m, "freeze")
           /\ UNCHANGED <<entry, reply>>
     /\ UNCHANGED <<mailbox, request, coord, call, committed>>

\* A step whose handler refuses it leaves its entry alone.
Refused(m, step) ==
  /\ step \in Refusing
  /\ AnswerTo(m, step, Err)
  /\ UNCHANGED <<entry, committed>>

\* prepare_migration: an inactive slot at the next epoch, in the entry the
\* locality has or in a new one that still shows the old location.
Prepare(m) ==
  LET l == Destination(m)
      e == entry[l]
      from == coord[m].from
      loc == [place |-> coord[m].dest, epoch |-> from.epoch + 1, by |-> m]
      slot == [by |-> m, loc |-> loc, st |-> coord[m].snapshot]
      old == IF e.lc = "Absent"
             THEN [AbsentEntry EXCEPT !.lc = "Prepared", !.by = m, !.loc = from] ELSE e
  IN /\ Take(m, "prepare")
     /\ \/ /\ e.prep = {}
           /\ entry' = [entry EXCEPT ![l] = [old EXCEPT !.prep = {slot}]]
           /\ AnswerTo(m, "prepare", Ok(loc, {}))
           /\ UNCHANGED committed
        \/ /\ e.prep # {}
           /\ AnswerTo(m, "prepare", Err)
           /\ UNCHANGED <<entry, committed>>
        \/ Refused(m, "prepare")
     /\ UNCHANGED <<queueVars, coord, call>>

\* commit_migration compares epochs only.
\* Mutant of NextEpoch: any newer or equal epoch is accepted.
NextEpochLoose(old, new) == old.epoch <= new.epoch
NextEpoch(old, new) == new.epoch = old.epoch + 1

Commit(m) ==
  LET e == entry[Authority]
      from == coord[m].from
      valid == e.lc # "Absent" /\ NextEpoch(e.loc, from)
  IN /\ Take(m, "commit")
     /\ \/ /\ valid
           /\ entry' = [entry EXCEPT ![Authority] =
                          [e EXCEPT !.lc = "Forwarding", !.by = NoMigration, !.loc = from]]
           /\ committed' = committed \cup {from}
           /\ AnswerTo(m, "commit", Ok(from, {}))
        \/ /\ ~valid
           /\ AnswerTo(m, "commit", Err)
           /\ UNCHANGED <<entry, committed>>
        \/ Refused(m, "commit")
     /\ UNCHANGED <<queueVars, coord, call>>

\* activate_migration takes the slot before it looks whose it is.
Activate(m) ==
  LET l == Destination(m)
      e == entry[l]
      mine == {s \in e.prep : s.by = m /\ s.loc = coord[m].from}
      taken == [e EXCEPT !.prep = {}]
  IN /\ Take(m, "activate")
     /\ \/ \E s \in mine :
             /\ entry' = [entry EXCEPT ![l] =
                  [taken EXCEPT !.lc = "Resident", !.by = NoMigration, !.loc = s.loc, !.st = {s.st}]]
             /\ AnswerTo(m, "activate", Ok(coord[m].from, {}))
        \/ /\ mine = {}
           /\ entry' = [entry EXCEPT ![l] = taken]
           /\ AnswerTo(m, "activate", Err)
     /\ UNCHANGED <<queueVars, coord, call, committed>>

\* rollback_migration, at the source and at the destination.
\* Mutant of RolledBack: the entry is reopened whatever its lifecycle.
RolledBackAlways(e, m) == Reopened([e EXCEPT !.prep = {s \in @ : s.by # m}])
RolledBack(e, m) ==
  LET cleared == [e EXCEPT !.prep = {s \in @ : s.by # m}]
  IN IF e.lc = "Freezing" /\ e.by = m THEN Reopened(cleared) ELSE cleared

Rollback(m, step) ==
  LET l == IF step = "rollbackSource" THEN Source(m) ELSE Destination(m)
  IN /\ step \in {"rollbackSource", "rollbackDestination"}
     /\ Take(m, step)
     /\ entry' = [entry EXCEPT ![l] = IF @.lc = "Absent" THEN @ ELSE RolledBack(@, m)]
     /\ AnswerTo(m, step, Ok(coord[m].from, {}))
     /\ UNCHANGED <<queueVars, coord, call, committed>>

\* retire_migration, with its collect.
\* Mutant of Retired: a newer entry is retired as well.
RetiredAlways(l, e, from) ==
  Collect(l, [e EXCEPT !.lc = "Forwarding", !.by = NoMigration, !.loc = from, !.st = {}])
Retired(l, e, from) ==
  IF e.loc.epoch > from.epoch THEN e
  ELSE Collect(l, [e EXCEPT !.lc = "Forwarding", !.by = NoMigration, !.loc = from, !.st = {}])

Retire(m) ==
  LET l == Source(m)
      e == entry[l]
  IN /\ Take(m, "retire")
     /\ entry' = [entry EXCEPT ![l] = IF e.lc = "Absent" THEN e ELSE Retired(l, e, coord[m].from)]
     /\ AnswerTo(m, "retire", IF e.lc = "Absent" THEN Err ELSE Ok(coord[m].from, {}))
     /\ UNCHANGED <<queueVars, coord, call, committed>>

-----------------------------------------------------------------------------
(* The coordinator: RuntimeClient::migrate and MigrationFuture.             *)

\* The coordinator becomes c, which sends its step or is finished.  A step
\* that cannot be submitted is one that its owner refuses.
Proceed(m, c) ==
  /\ coord' = [coord EXCEPT ![m] = c]
  /\ reply' = [reply EXCEPT ![m] = {}]
  /\ request' = IF c.pc \in Step THEN request \cup {<<m, c.pc>>} ELSE request
  /\ UNCHANGED <<entry, queueVars, call, committed>>

Migrate(m) ==
  /\ coord[m].pc = "idle"
  /\ \E dest \in Place, from \in Known :
       Proceed(m, [coord[m] EXCEPT !.dest = dest, !.from = from, !.original = from,
                                   !.pc = IF from.place = dest THEN "completed" ELSE "freeze"])

Finish(m, outcome) == Proceed(m, [coord[m] EXCEPT !.pc = outcome])
StartRollback(m, both) == Proceed(m, [coord[m] EXCEPT !.pc = "rollbackSource", !.both = both])

NewerLocation(new, old) == new.epoch > old.epoch

PollFreeze(m) ==
  /\ coord[m].pc = "freeze"
  /\ \E a \in reply[m] :
       LET follow == /\ a.tag = "moved"
                     /\ NewerLocation(a.loc, coord[m].from)
                     /\ coord[m].redirects < MaxRedirects
       IN \/ /\ a.tag = "ok"
             /\ Proceed(m, [coord[m] EXCEPT !.pc = "prepare", !.snapshot = a.st])
          \/ /\ follow
             /\ Proceed(m, [coord[m] EXCEPT !.from = a.loc, !.original = a.loc,
                                            !.redirects = @ + 1])
          \/ /\ a.tag # "ok" /\ ~follow
             /\ Finish(m, "rolledBack")

PollPrepare(m) ==
  /\ coord[m].pc = "prepare"
  /\ \E a \in reply[m] :
       \/ /\ a.tag = "ok"
          /\ Proceed(m, [coord[m] EXCEPT !.pc = "commit", !.from = a.loc])
       \/ /\ a.tag # "ok"
          /\ StartRollback(m, FALSE)

PollCommit(m) ==
  /\ coord[m].pc = "commit"
  /\ \E a \in reply[m] :
       \/ /\ a.tag = "ok"
          /\ Proceed(m, [coord[m] EXCEPT !.pc = "activate"])
       \/ /\ a.tag # "ok"
          /\ StartRollback(m, TRUE)

\* Mutant of AfterActivate: the source is never retired.
AfterActivateForgets(m) == "completed"
\* A move between the domains of one locality has no source to retire.
AfterActivate(m) == IF Source(m) = Destination(m) THEN "completed" ELSE "retire"

PollActivate(m) ==
  /\ coord[m].pc = "activate"
  /\ \E a \in reply[m] :
       Proceed(m, [coord[m] EXCEPT !.pc = IF a.tag = "ok" THEN AfterActivate(m)
                                                          ELSE "committedFailure"])

PollRetire(m) ==
  /\ coord[m].pc = "retire"
  /\ \E a \in reply[m] : Finish(m, IF a.tag = "ok" THEN "completed" ELSE "committedFailure")

PollRollback(m) ==
  /\ coord[m].pc \in {"rollbackSource", "rollbackDestination"}
  /\ \E a \in reply[m] :
       Finish(m, CASE a.tag # "ok" -> "failed"
                   [] coord[m].pc = "rollbackSource" /\ coord[m].both -> "rollbackDestination"
                   [] OTHER -> "rolledBack")

\* The deadline of the step in flight passes before its answer arrives.
Timeout(m) ==
  /\ coord[m].pc \in Impatient
  /\ reply[m] = {}
  /\ reply' = [reply EXCEPT ![m] = {Err}]
  /\ UNCHANGED <<entry, queueVars, request, coord, call, committed>>

\* MigrationFuture::drop: nothing is rolled back.
DropFuture(m) ==
  /\ coord[m].pc \in Dropping
  /\ Finish(m, IF coord[m].pc \in {"activate", "retire"} THEN "committedFailure" ELSE "rolledBack")

-----------------------------------------------------------------------------
(* Writing calls: call_write, RemoteObjectCall and the action's handler.    *)

CallStart(w) ==
  /\ call[w].pc = "new"
  /\ \E to \in Known : call' = [call EXCEPT ![w].pc = "sent", ![w].to = to]
  /\ UNCHANGED <<entry, queueVars, request, reply, coord, committed>>

CallFails(w) == call' = [call EXCEPT ![w].pc = "failed"]

\* RemoteObjectCall::poll of a Moved answer.
Redirect(w, loc) ==
  IF NewerLocation(loc, call[w].to) /\ call[w].redirects < MaxRedirects
  THEN call' = [call EXCEPT ![w].to = loc, ![w].redirects = @ + 1]
  ELSE CallFails(w)

\* Mutant of Admits: the lifecycle is not looked at.
AdmitsAnyLifecycle(e, to) == e.lc # "Absent" /\ e.loc.epoch = to.epoch
Admits(e, to) == e.lc = "Resident" /\ e.loc.epoch = to.epoch

CallAdmit(w) ==
  LET l == At(call[w].to)
      e == entry[l]
      moved == /\ e.lc # "Absent"
               /\ e.loc.epoch # call[w].to.epoch \/ e.lc = "Forwarding"
  IN /\ call[w].pc = "sent"
     /\ \/ /\ Admits(e, call[w].to)
           /\ \/ Admit(l, w) /\ call' = [call EXCEPT ![w].pc = "queued"]
              \/ MailboxFull(l) /\ CallFails(w) /\ UNCHANGED queueVars
        \/ /\ moved /\ ~Admits(e, call[w].to)
           /\ Redirect(w, e.loc)
           /\ UNCHANGED queueVars
        \/ /\ ~moved /\ ~Admits(e, call[w].to)
           /\ CallFails(w)
           /\ UNCHANGED queueVars
     /\ UNCHANGED <<entry, request, reply, coord, committed>>

WriteRun(l, w) ==
  LET e == entry[l]
      current == e.lc # "Absent" /\ e.loc.epoch = call[w].to.epoch /\ e.st # {}
  IN /\ w \in running[l]
     /\ Complete(l)
     /\ IF current
        THEN /\ entry' = [entry EXCEPT ![l].st = {st \cup {w} : st \in @}]
             /\ call' = [call EXCEPT ![w].pc = "acked"]
        ELSE CallFails(w) /\ UNCHANGED entry
     /\ UNCHANGED <<mailbox, request, reply, coord, committed>>

-----------------------------------------------------------------------------
(* ObjectService::expire on one entry: the lifecycle and the slot have their*)
(* own deadlines.                                                           *)

Settled(m) ==
  m \in Migration =>
    /\ coord[m].pc \in Outcome
    /\ \A s \in Step : <<m, s>> \notin request
    /\ \A l \in Locality : m \notin running[l] /\ \A i \in 1..Len(mailbox[l]) : mailbox[l][i] # m

\* Mutant of LifecycleExpired: an orphaned freeze is not undone.
LifecycleExpiredKeeps(l, e) == e
LifecycleExpired(l, e) ==
  CASE e.lc = "Freezing" -> Reopened(e)
    [] e.lc = "Prepared" -> [e EXCEPT !.lc = "Forwarding", !.by = NoMigration, !.prep = {}]
    [] e.lc = "Forwarding" /\ l # Authority -> [e EXCEPT !.st = {}]
    [] OTHER -> e
SlotExpired(e) == [e EXCEPT !.prep = {}]

\* What may have lapsed of the entry; every sweep also collects.
Lapses(l, e) ==
  LET settled == Settled(e.by) /\ \A s \in e.prep : Settled(s.by)
  IN IF Expiry = "any" \/ (Expiry = "settled" /\ settled)
     THEN {LifecycleExpired(l, e), SlotExpired(e), SlotExpired(LifecycleExpired(l, e))}
     ELSE {e}

Expire(l) ==
  /\ entry[l].lc # "Absent"
  /\ \E e \in Lapses(l, entry[l]) : entry' = [entry EXCEPT ![l] = Collect(l, e)]
  /\ entry' # entry
  /\ UNCHANGED <<queueVars, request, reply, coord, call, committed>>

-----------------------------------------------------------------------------
StepAction(m) ==
  \/ FreezeAdmit(m)
  \/ \E l \in Locality : FreezeRun(l, m)
  \/ Prepare(m)
  \/ Commit(m)
  \/ Activate(m)
  \/ \E step \in Step : Rollback(m, step)
  \/ Retire(m)
PollAction(m) ==
  PollFreeze(m) \/ PollPrepare(m) \/ PollCommit(m) \/ PollActivate(m) \/ PollRetire(m)
  \/ PollRollback(m)
CallAction(w) == CallAdmit(w) \/ \E l \in Locality : WriteRun(l, w)

Next ==
  \/ \E m \in Migration :
       \/ Migrate(m) \/ StepAction(m) \/ PollAction(m) \/ Timeout(m) \/ DropFuture(m)
       \/ \E step \in Step : Cancelled(m, step)
  \/ \E w \in Write : CallStart(w) \/ CallAction(w)
  \/ \E l \in Locality : Retry(l) \/ Expire(l)

Spec == Init /\ [][Next]_vars

\* Localities keep making progress, workers finish their jobs, futures are
\* polled, and progress runs the expiry of what has lapsed.
Fairness ==
  /\ \A m \in Migration : WF_vars(StepAction(m)) /\ WF_vars(PollAction(m))
  /\ \A w \in Write : WF_vars(CallAction(w))
  /\ \A l \in Locality : WF_vars(Retry(l)) /\ WF_vars(Expire(l))
FairSpec == Spec /\ Fairness

-----------------------------------------------------------------------------
(* Properties.                                                              *)

TypeOK ==
  /\ entry \in [Locality -> Entry]
  /\ \A l \in Locality : Cardinality(entry[l].st) <= 1 /\ Cardinality(entry[l].prep) <= 1
  /\ running \in [Locality -> SUBSET Job]
  /\ mailbox \in [Locality -> Seq(Job)]
  /\ \A l \in Locality : Cardinality(running[l]) <= 1 /\ Len(mailbox[l]) <= MaxMailbox
  /\ request \subseteq Migration \X Step
  /\ reply \in [Migration -> SUBSET Answer]
  /\ coord \in [Migration -> Coordinator]
  /\ call \in [Write -> Caller]
  /\ committed \subseteq Location

\* fail_committed_migration gave the run up.
GivenUp == \E m \in Migration : coord[m].pc = "committedFailure"

\* Two localities never serve the object at the same time: whatever order the
\* steps of the migrations, their rollbacks and the expiries come in, at most
\* one entry is Resident.
OneResident ==
  GivenUp \/ \A l, k \in Locality :
    entry[l].lc = "Resident" /\ entry[k].lc = "Resident" => l = k

\* No acknowledged write is lost: every entry that serves the object contains
\* all of them.  A write that slips in after the freeze took its snapshot, or
\* is accepted by a copy that was left behind, would be missing somewhere.
AckedWritesSurvive ==
  GivenUp \/ \A l \in Locality, w \in Write :
    entry[l].lc = "Resident" /\ call[w].pc = "acked" => \A st \in entry[l].st : w \in st

\* The directory never points to nothing: the location the authority answers
\* with is that of an entry that holds the state, or of a slot prepared for it.
DirectoryPointsToState ==
  LET d == entry[Authority].loc
      e == entry[At(d)]
  IN GivenUp \/ (e.loc = d /\ e.st # {} /\ e.lc \in {"Resident", "Freezing"})
             \/ \E s \in e.prep : s.loc = d

\* A migration that moved the object and reports its new location leaves no
\* older copy behind that serves a caller with a stale location, or may be
\* opened again: an older one is frozen by a migration that has still to retire it.
ReportedMoveIsFinal ==
  GivenUp \/ \A m \in Migration : coord[m].pc = "completed" /\ coord[m].from.by = m =>
    \A l \in Locality :
      \/ entry[l].lc = "Resident"
      \/ entry[l].lc = "Freezing" /\ coord[entry[l].by].pc \notin {"commit", "activate", "retire"}
      => entry[l].loc.epoch >= coord[m].from.epoch

\* An epoch names one location: admission and redirects compare epochs only,
\* and two localities that agree on the epoch must mean the same place and slot.
EpochNamesLocation ==
  /\ \A l, k \in Locality :
       entry[l].lc # "Absent" /\ entry[k].lc # "Absent" /\ entry[l].loc.epoch = entry[k].loc.epoch
         => entry[l].loc = entry[k].loc
  /\ \A a, b \in Known : a.epoch = b.epoch => a = b

\* An object that was closed for a migration is opened again or moves on,
\* although its coordinator was dropped, gave up waiting or lost the race.
ClosedObjectReopens ==
  \A l \in Locality : (entry[l].lc = "Freezing") ~> (entry[l].lc # "Freezing" \/ GivenUp)

\* "After commit, rollback is forbidden": a coordinator never starts to roll
\* back a location that the authority has committed.
NoRollbackAfterCommit ==
  [][\A m \in Migration :
       coord[m].pc = "commit" /\ coord'[m].pc = "rollbackSource" => coord[m].from \notin committed]_vars
=============================================================================
