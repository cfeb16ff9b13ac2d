------------------------ MODULE ObjectResidenceProofs ------------------------
(***************************************************************************)
(* What holds of an object that is being moved, for any number of            *)
(* localities, places, migrations and calls.                                *)
(*                                                                          *)
(* An epoch names one location (EpochNamesLocation), whatever times out, is  *)
(* dropped, is refused or expires.  The authority only commits the epoch     *)
(* after its own, so the property needs that its own location never goes     *)
(* back.  What could take it back is an activation at the authority that     *)
(* comes late: FrozenHasNoSlot rules that out, for a later epoch is only     *)
(* committed by a migration that froze the object at the location in         *)
(* question, which needs its slot to be activated.                          *)
(*                                                                          *)
(* Who serves the object: OneResident, AckedWritesSurvive,                  *)
(* DirectoryPointsToState and ReportedMoveIsFinal hold as long as commits    *)
(* are answered and forwarding_ttl outlives the migrations (Orderly), and    *)
(* until a committed migration is given up.  What an entry serves is the     *)
(* authority's location: a migration that may still commit holds the object  *)
(* frozen there, with no write in its queue and its state in the packet, so  *)
(* that commit leaves nobody serving the old location, and the slot it       *)
(* points to has every acknowledged write.                                  *)
(***************************************************************************)
EXTENDS ObjectMigration, TLAPS

-----------------------------------------------------------------------------
(* An epoch names one location.                                             *)

Types ==
  /\ entry \in [Locality -> Entry]
  /\ request \subseteq Migration \X Step
  /\ reply \in [Migration -> SUBSET Answer]
  /\ coord \in [Migration -> Coordinator]
  /\ committed \subseteq Location

\* m has still to prepare its location.
Unprepared(m) == coord[m].pc \in {"idle", "freeze"} \/ <<m, "prepare">> \in request
OkReply(m) == \E r \in reply[m] : r.tag = "ok"
\* m has frozen the object and may still commit.
HasFrozen(m) ==
  \/ coord[m].pc = "freeze" /\ OkReply(m)
  \/ coord[m].pc \in {"prepare", "commit"}
  \/ <<m, "prepare">> \in request
  \/ <<m, "commit">> \in request
\* m was told of its commit.
ToldCommitted(m) ==
  \/ coord[m].pc = "commit" /\ OkReply(m)
  \/ coord[m].pc \in {"activate", "retire"}
  \/ <<m, "activate">> \in request
  \/ <<m, "retire">> \in request

\* The authority has the newest of the known locations, which its entry and
\* all others take their locations from.
Directory ==
  /\ \A x, y \in Known : x.epoch = y.epoch => x = y
  /\ entry[Authority].lc # "Absent"
  /\ \A x \in Known : x.epoch <= entry[Authority].loc.epoch
  /\ \A l \in Locality : entry[l].loc \in Known

\* The locations a migration that has yet to prepare will name are new.
FreshLocations == \A x \in Known : x.by \in Migration => ~Unprepared(x.by)

\* A slot belongs to the migration that prepared it, and a committed slot at
\* the authority is the newest location.
Slots ==
  \A l \in Locality : \A s \in entry[l].prep :
    /\ s.loc.by = s.by
    /\ At(s.loc) = l
    /\ \A t \in entry[l].prep : t = s
    /\ ~Unprepared(s.by)
    /\ l = Authority /\ s.loc \in Known => s.loc = entry[l].loc

\* The location of an entry that can be frozen has been activated.
OpenHasNoSlot ==
  \A l, k \in Locality : entry[l].lc \in {"Resident", "Freezing"} =>
    \A s \in entry[k].prep : s.loc # entry[l].loc
FrozenHasNoSlot ==
  \A m \in Migration, k \in Locality : HasFrozen(m) =>
    \A s \in entry[k].prep : s.loc # coord[m].original

\* Where the packet of a coordinator stands.
Packet(m) ==
  /\ coord[m].original \in Known
  /\ coord[m].pc \in {"idle", "freeze", "prepare"} \/ <<m, "prepare">> \in request
       => coord[m].from = coord[m].original
  /\ coord[m].pc = "idle" => \A s \in Step : <<m, s>> \notin request
  /\ coord[m].pc = "freeze" => \A s \in Step : <<m, s>> \in request => s = "freeze"
  /\ coord[m].pc = "freeze" => \A r \in reply[m] : r.tag = "moved" => r.loc \in Known
  /\ coord[m].pc = "prepare" \/ <<m, "prepare">> \in request
       => \A s \in {"commit", "activate", "retire"} : <<m, s>> \notin request
  /\ <<m, "prepare">> \in request
       => coord[m].pc \notin {"commit", "activate", "retire"} /\ ~(coord[m].pc = "prepare" /\ OkReply(m))
  /\ coord[m].pc = "prepare" => \A r \in reply[m] : r.tag = "ok" =>
       r.loc.by = m /\ r.loc.epoch = coord[m].original.epoch + 1
  /\ coord[m].pc = "commit" \/ <<m, "commit">> \in request
       => coord[m].from.by = m /\ coord[m].from.epoch = coord[m].original.epoch + 1
  /\ ToldCommitted(m) => coord[m].from \in committed
Packets == \A m \in Migration : Packet(m)

IInv == Types /\ Directory /\ FreshLocations /\ Slots /\ OpenHasNoSlot /\ FrozenHasNoSlot /\ Packets

-----------------------------------------------------------------------------
(* Facts about the constants and the parts of a step.                       *)

\* The values the actions start from are well typed.
LEMMA BasicTypes ==
  /\ Authority \in Locality
  /\ Origin \in Location
  /\ AbsentEntry \in Entry
  /\ Err \in Answer
  /\ \A loc \in Location : Moved(loc) \in Answer /\ \A st \in SUBSET Write : Ok(loc, st) \in Answer
  /\ Err.tag = "err"
  /\ \A loc : Moved(loc).tag = "moved" /\ Moved(loc).loc = loc
  /\ \A loc, st : Ok(loc, st).tag = "ok"
BY MigrationAssumption
   DEF Authority, Origin, Location, AbsentEntry, Entry, Lifecycle, Err, Answer, Moved, Ok

\* An answer is typed, and it is new only for a coordinator that awaits it.
LEMMA AnswerToLemma ==
  ASSUME Types, NEW m \in Migration, NEW step, NEW r \in Answer, AnswerTo(m, step, r)
  PROVE  /\ reply' \in [Migration -> SUBSET Answer]
         /\ \A n \in Migration : reply'[n] = reply[n] \/ (n = m /\ coord[m].pc = step /\ reply'[m] = {r})
BY DEF AnswerTo, Awaits, Types

\* What a step may do to the entries short of preparing, activating and
\* committing: it takes away slots and open entries, and moves the location
\* of an entry that is not the authority's to a known one.
Shrinks ==
  \A l \in Locality :
    /\ entry'[l].prep \subseteq entry[l].prep
    /\ entry'[l].loc = entry[l].loc \/ (l # Authority /\ entry'[l].loc \in Known)
    /\ entry'[l].lc \in {"Resident", "Freezing"} =>
         entry[l].lc \in {"Resident", "Freezing"} /\ entry'[l].loc = entry[l].loc
    /\ l = Authority => entry'[l].lc # "Absent"

\* A coordinator that learns of a success has not just prepared or committed,
\* and if it has frozen the object then at an open entry; a redirect is known.
TameAnswers ==
  \A m \in Migration : \A r \in reply'[m] : r \notin reply[m] =>
    /\ r.tag = "moved" => r.loc \in Known
    /\ r.tag = "ok" =>
         /\ coord[m].pc \notin {"prepare", "commit"}
         /\ coord[m].pc = "freeze" => \E l \in Locality :
              entry[l].lc \in {"Resident", "Freezing"} /\ entry[l].loc = coord[m].original

\* A handler that does no more than this preserves the invariant.
LEMMA HandlerLemma ==
  ASSUME IInv, Types', Shrinks, TameAnswers,
         coord' = coord, request' \subseteq request, committed' = committed
  PROVE  IInv'
<1>1. Known' = Known
  BY DEF Known
<1>2. \A m : Unprepared(m)' => Unprepared(m)
  BY DEF Unprepared
<1>3. \A m \in Migration : HasFrozen(m)' => HasFrozen(m) \/ \E l \in Locality :
         entry[l].lc \in {"Resident", "Freezing"} /\ entry[l].loc = coord[m].original
  BY DEF HasFrozen, OkReply, TameAnswers
<1>4. Directory'
  BY <1>1, BasicTypes DEF IInv, Directory, Shrinks
<1>5. FreshLocations'
  BY <1>1, <1>2 DEF IInv, FreshLocations
<1>6. Slots'
  BY <1>1, <1>2, BasicTypes DEF IInv, Slots, Shrinks, At
<1>7. OpenHasNoSlot'
  BY DEF IInv, OpenHasNoSlot, Shrinks
<1>8. FrozenHasNoSlot'
  BY <1>3 DEF IInv, FrozenHasNoSlot, OpenHasNoSlot, Shrinks
<1>9. Packets'
  <2> SUFFICES ASSUME NEW m \in Migration PROVE Packet(m)'
    BY DEF Packets
  <2>1. Packet(m)
    BY DEF IInv, Packets
  <2>2. coord[m].pc \in {"prepare", "commit"} /\ OkReply(m)' => OkReply(m)
    BY DEF TameAnswers, OkReply
  <2>3. ToldCommitted(m)' => ToldCommitted(m)
    BY <2>2 DEF ToldCommitted
  <2> QED
    BY <1>1, <2>1, <2>2, <2>3 DEF Packet, TameAnswers
<1> QED
  BY <1>4, <1>5, <1>6, <1>7, <1>8, <1>9 DEF IInv

-----------------------------------------------------------------------------
(* The handlers.                                                            *)

\* Changing what an entry has besides its location and its slots.
LEMMA ShrinkOne ==
  ASSUME IInv, NEW l \in Locality, NEW e \in Entry,
         entry' = [entry EXCEPT ![l] = e],
         e.prep \subseteq entry[l].prep,
         e.loc = entry[l].loc \/ (l # Authority /\ e.loc \in Known),
         e.lc \in {"Resident", "Freezing"} =>
           entry[l].lc \in {"Resident", "Freezing"} /\ e.loc = entry[l].loc,
         l = Authority => e.lc # "Absent"
  PROVE  Shrinks /\ entry' \in [Locality -> Entry]
BY DEF IInv, Types, Directory, Shrinks

\* Closing an open entry, or refusing to, is tame.
LEMMA FreezeAdmitStep ==
  ASSUME IInv, NEW m \in Migration, FreezeAdmit(m)
  PROVE  IInv'
<1> DEFINE l == At(coord[m].from)
           e == entry[l]
<1>1. l \in Locality /\ e \in Entry /\ coord[m] \in Coordinator /\ e.loc \in Location
  BY MigrationAssumption DEF IInv, Types, At, Coordinator, Location, Entry
<1>2. coord' = coord /\ committed' = committed /\ request' \subseteq request
  BY DEF FreezeAdmit, Take
<1>3. Shrinks /\ entry' \in [Locality -> Entry]
  <2>1. CASE entry' = [entry EXCEPT ![l] = Frozen(e, m)] /\ CanFreeze(e, m)
    <3>1. /\ Frozen(e, m) \in Entry /\ Frozen(e, m).prep = e.prep /\ Frozen(e, m).loc = e.loc
          /\ Frozen(e, m).lc = "Freezing"
      BY <1>1 DEF Frozen, Entry, Lifecycle
    <3> HIDE DEF e, l
    <3>2. entry[l] = e
      BY DEF e
    <3> QED
      BY <1>1, <2>1, <3>1, <3>2, ShrinkOne DEF CanFreeze
  <2>2. CASE UNCHANGED entry
    BY <2>2 DEF IInv, Types, Directory, Shrinks
  <2> QED
    BY <2>1, <2>2 DEF FreezeAdmit
<1>4. reply' \in [Migration -> SUBSET Answer] /\ TameAnswers
  <2>1. reply' = reply \/ AnswerTo(m, "freeze", Err) \/ AnswerTo(m, "freeze", Moved(e.loc))
    BY DEF FreezeAdmit
  <2>2. Types
    BY DEF IInv
  <2>3. CASE reply' = reply
    BY <2>2, <2>3 DEF Types, TameAnswers
  <2>4. CASE AnswerTo(m, "freeze", Err)
    BY <2>2, <2>4, BasicTypes, AnswerToLemma DEF TameAnswers
  <2>5. CASE AnswerTo(m, "freeze", Moved(e.loc))
    <3>1. /\ Moved(e.loc) \in Answer /\ Moved(e.loc).tag = "moved" /\ Moved(e.loc).loc = e.loc
          /\ e.loc \in Known
      BY <1>1, BasicTypes DEF IInv, Directory
    <3> HIDE DEF e, l
    <3> QED
      BY <2>2, <2>5, <3>1, AnswerToLemma DEF TameAnswers
  <2> QED
    BY <2>1, <2>3, <2>4, <2>5
<1>5. Types'
  BY <1>2, <1>3, <1>4 DEF IInv, Types
<1> QED
  BY <1>2, <1>3, <1>4, <1>5, HandlerLemma

\* A freeze succeeds at an open entry with the coordinator's location.
LEMMA FreezeRunStep ==
  ASSUME IInv, NEW m \in Migration, NEW l \in Locality, FreezeRun(l, m)
  PROVE  IInv'
<1> DEFINE e == entry[l]
           r == IF e.st = {} THEN Err ELSE Ok(coord[m].from, UNION e.st)
<1>1. e \in Entry /\ coord[m] \in Coordinator /\ Types
  BY DEF IInv, Types
<1>2. coord' = coord /\ committed' = committed /\ request' = request
  BY DEF FreezeRun
<1>3. /\ Frozen(e, m) \in Entry /\ Frozen(e, m).prep = e.prep /\ Frozen(e, m).loc = e.loc
      /\ Frozen(e, m).lc = "Freezing"
      /\ Reopened(e) \in Entry /\ Reopened(e).prep = e.prep /\ Reopened(e).loc = e.loc
      /\ Reopened(e).lc = "Resident"
  BY <1>1 DEF Frozen, Reopened, Entry, Lifecycle
<1>4. r \in Answer /\ r.tag # "moved"
  <2>1. coord[m].from \in Location /\ UNION e.st \in SUBSET Write
    BY <1>1 DEF Coordinator, Entry
  <2> QED
    BY <2>1, BasicTypes
<1>5. CASE /\ e.loc = coord[m].from /\ CanFreeze(e, m)
           /\ entry' = [entry EXCEPT ![l] = Frozen(e, m)]
           /\ AnswerTo(m, "freeze", r)
  <2>1. Shrinks /\ entry' \in [Locality -> Entry]
    BY <1>1, <1>3, <1>5, ShrinkOne DEF CanFreeze
  <2>2. reply' \in [Migration -> SUBSET Answer] /\ TameAnswers
    <3>1. coord[m].pc = "freeze" => coord[m].from = coord[m].original
      BY DEF IInv, Packets, Packet
    <3>2. e.lc \in {"Resident", "Freezing"}
      BY <1>5 DEF CanFreeze
    <3> HIDE DEF r
    <3> QED
      BY <1>1, <1>4, <1>5, <3>1, <3>2, AnswerToLemma DEF TameAnswers
  <2>3. Types'
    BY <1>2, <2>1, <2>2 DEF IInv, Types
  <2> QED
    BY <1>2, <2>1, <2>2, <2>3, HandlerLemma
<1>6. CASE /\ CanFreeze(e, m)
           /\ entry' = [entry EXCEPT ![l] = Reopened(e)]
           /\ AnswerTo(m, "freeze", Err)
  <2>1. Shrinks /\ entry' \in [Locality -> Entry]
    BY <1>1, <1>3, <1>6, ShrinkOne DEF CanFreeze
  <2>2. reply' \in [Migration -> SUBSET Answer] /\ TameAnswers
    BY <1>1, <1>6, BasicTypes, AnswerToLemma DEF TameAnswers
  <2>3. Types'
    BY <1>2, <2>1, <2>2 DEF IInv, Types
  <2> QED
    BY <1>2, <2>1, <2>2, <2>3, HandlerLemma
<1>7. CASE UNCHANGED entry /\ (AnswerTo(m, "freeze", Err) \/ UNCHANGED reply)
  <2>1. Shrinks
    BY <1>7 DEF IInv, Directory, Shrinks
  <2>2. reply' \in [Migration -> SUBSET Answer] /\ TameAnswers
    <3>1. CASE AnswerTo(m, "freeze", Err)
      BY <1>1, <3>1, BasicTypes, AnswerToLemma DEF TameAnswers
    <3>2. CASE UNCHANGED reply
      BY <1>1, <3>2 DEF Types, TameAnswers
    <3> QED
      BY <1>7, <3>1, <3>2
  <2>3. Types'
    BY <1>2, <1>7, <2>2 DEF IInv, Types
  <2> QED
    BY <1>2, <2>1, <2>2, <2>3, HandlerLemma
<1> QED
  BY <1>5, <1>6, <1>7 DEF FreezeRun

\* A step that leaves the entries alone and reports a failure.
LEMMA FailingStep ==
  ASSUME IInv, NEW m \in Migration, NEW step, AnswerTo(m, step, Err),
         UNCHANGED <<entry, coord, committed>>, request' \subseteq request
  PROVE  IInv'
<1>1. Shrinks
  BY DEF IInv, Directory, Shrinks
<1>2. reply' \in [Migration -> SUBSET Answer] /\ TameAnswers
  BY BasicTypes, AnswerToLemma DEF IInv, TameAnswers
<1>3. Types'
  BY <1>2 DEF IInv, Types
<1> QED
  BY <1>1, <1>2, <1>3, HandlerLemma

\* A prepared location is new, so no known one has its slot.
LEMMA PrepareStep ==
  ASSUME IInv, NEW m \in Migration, Prepare(m)
  PROVE  IInv'
<1> DEFINE l == Destination(m)
           e == entry[l]
           from == coord[m].from
           loc == [place |-> coord[m].dest, epoch |-> from.epoch + 1, by |-> m]
           slot == [by |-> m, loc |-> loc, st |-> coord[m].snapshot]
           old == IF e.lc = "Absent"
                  THEN [AbsentEntry EXCEPT !.lc = "Prepared", !.by = m, !.loc = from] ELSE e
           new == [old EXCEPT !.prep = {slot}]
<1>1. coord' = coord /\ request' = request \ {<<m, "prepare">>} /\ <<m, "prepare">> \in request
  BY DEF Prepare, Take
<1>2. CASE AnswerTo(m, "prepare", Err) /\ UNCHANGED <<entry, committed>>
  BY <1>1, <1>2, FailingStep
<1>3. CASE /\ e.prep = {} /\ entry' = [entry EXCEPT ![l] = new]
           /\ AnswerTo(m, "prepare", Ok(loc, {})) /\ UNCHANGED committed
  <2>1. /\ coord[m] \in Coordinator /\ from \in Location /\ from.epoch \in Nat
        /\ l \in Locality /\ e \in Entry /\ Types
    BY MigrationAssumption DEF IInv, Types, Coordinator, Destination, Location
  <2>2. loc \in Location /\ loc.by = m /\ loc.epoch = from.epoch + 1 /\ At(loc) = l
    BY <2>1 DEF Location, Coordinator, At, Destination
  <2>3. slot \in Slot /\ slot.loc = loc /\ slot.by = m
    BY <2>1, <2>2 DEF Slot, Coordinator
  <2>4. Packet(m) /\ from = coord[m].original /\ from \in Known /\ Unprepared(m) /\ HasFrozen(m)
    BY <1>1 DEF IInv, Packets, Packet, Unprepared, HasFrozen
  <2>5. /\ new \in Entry /\ new.prep = {slot} /\ new.loc \in Known
        /\ e.lc # "Absent" => new.loc = e.loc /\ new.lc = e.lc
        /\ e.lc = "Absent" => new.lc = "Prepared"
    <3>1. AbsentEntry \in Entry /\ e.loc \in Known
      BY <2>1, BasicTypes DEF IInv, Directory
    <3> HIDE DEF slot, loc, from, e
    <3> QED
      BY <2>1, <2>3, <2>4, <3>1 DEF Entry, Lifecycle
  <2>6. reply' \in [Migration -> SUBSET Answer] /\ \A n \in Migration :
          reply'[n] = reply[n] \/ (n = m /\ coord[m].pc = "prepare" /\ reply'[m] = {Ok(loc, {})})
    <3>1. Ok(loc, {}) \in Answer
      BY <2>2, BasicTypes
    <3> HIDE DEF loc
    <3> QED
      BY <1>3, <2>1, <3>1, AnswerToLemma
  <2>7. Ok(loc, {}).tag = "ok" /\ Ok(loc, {}).loc = loc
    BY DEF Ok
  <2>8. \A x \in Known : x.by # m
    BY <2>4 DEF IInv, FreshLocations
  <2>9. Known' = Known
    BY <1>3 DEF Known
  <2>10. coord[m].pc \notin {"idle", "freeze"}
    BY <1>1, <2>4 DEF Packet, Step
  <2>11. \A n : Unprepared(n)' => Unprepared(n)
    BY <1>1 DEF Unprepared
  <2>12. ~Unprepared(m)'
    BY <1>1, <2>10 DEF Unprepared
  <2>13. \A n \in Migration : HasFrozen(n)' => HasFrozen(n)
    BY <1>1, <2>6 DEF HasFrozen, OkReply
  <2> HIDE DEF new, old, slot, loc, from, e, l
  <2>14. entry[l] = e /\ entry'[l] = new /\ \A k \in Locality : k # l => entry'[k] = entry[k]
    BY <1>3, <2>1 DEF e, Types
  <2>15. Types'
    BY <1>1, <1>3, <2>1, <2>5, <2>6 DEF Types
  <2>16. Directory'
    <3>1. \A k \in Locality : entry'[k].loc \in Known
      BY <2>5, <2>14 DEF IInv, Directory
    <3>2. entry'[Authority].loc = entry[Authority].loc /\ entry'[Authority].lc # "Absent"
      BY <2>5, <2>14, BasicTypes DEF IInv, Directory
    <3> QED
      BY <2>9, <3>1, <3>2 DEF IInv, Directory
  <2>17. FreshLocations'
    BY <2>9, <2>11 DEF IInv, FreshLocations
  <2>18. Slots'
    <3> SUFFICES ASSUME NEW k \in Locality, NEW s \in entry'[k].prep
                 PROVE  /\ s.loc.by = s.by /\ At(s.loc) = k
                        /\ \A t \in entry'[k].prep : t = s
                        /\ ~Unprepared(s.by)'
                        /\ k = Authority /\ s.loc \in Known => s.loc = entry'[k].loc
      BY <2>9 DEF Slots, At
    <3>1. CASE k = l
      BY <3>1, <2>2, <2>3, <2>5, <2>8, <2>12, <2>14
    <3>2. CASE k # l
      BY <3>2, <2>11, <2>14 DEF IInv, Slots
    <3> QED
      BY <3>1, <3>2
  <2>19. OpenHasNoSlot'
    <3> SUFFICES ASSUME NEW j \in Locality, NEW k \in Locality,
                        entry'[j].lc \in {"Resident", "Freezing"}, NEW s \in entry'[k].prep
                 PROVE  s.loc # entry'[j].loc
      BY DEF OpenHasNoSlot
    <3>1. entry'[j].loc = entry[j].loc /\ entry'[j].lc = entry[j].lc /\ entry[j].loc \in Known
      BY <2>5, <2>14 DEF IInv, Directory
    <3>2. CASE k = l
      BY <3>1, <3>2, <2>2, <2>3, <2>5, <2>8, <2>14
    <3>3. CASE k # l
      BY <3>1, <3>3, <2>14 DEF IInv, OpenHasNoSlot
    <3> QED
      BY <3>2, <3>3
  <2>20. FrozenHasNoSlot'
    <3> SUFFICES ASSUME NEW n \in Migration, NEW k \in Locality,
                        HasFrozen(n), NEW s \in entry'[k].prep
                 PROVE  s.loc # coord[n].original
      BY <1>1, <2>13 DEF FrozenHasNoSlot
    <3>1. coord[n].original \in Known
      BY DEF IInv, Packets, Packet
    <3>2. CASE k = l
      BY <3>1, <3>2, <2>2, <2>3, <2>5, <2>8, <2>14
    <3>3. CASE k # l
      BY <3>3, <2>14 DEF IInv, FrozenHasNoSlot
    <3> QED
      BY <3>2, <3>3
  <2>21. Packets'
    <3> SUFFICES ASSUME NEW n \in Migration PROVE Packet(n)'
      BY DEF Packets
    <3>1. Packet(n)
      BY DEF IInv, Packets
    <3>2. CASE n # m
      BY <1>1, <1>3, <2>6, <2>9, <3>1, <3>2 DEF Packet, ToldCommitted, OkReply
    <3>3. CASE n = m
      <4>1. ToldCommitted(m)' => ToldCommitted(m)
        BY <1>1, <2>6 DEF ToldCommitted, OkReply
      <4>2. coord[m].pc = "prepare" => \A r \in reply'[m] : r.tag = "ok" =>
              r.loc.by = m /\ r.loc.epoch = coord[m].original.epoch + 1
        BY <2>2, <2>4, <2>6, <2>7 DEF Packet
      <4> QED
        BY <1>1, <1>3, <2>4, <2>9, <2>10, <4>1, <4>2, <3>3 DEF Packet
    <3> QED
      BY <3>2, <3>3
  <2> QED
    BY <2>15, <2>16, <2>17, <2>18, <2>19, <2>20, <2>21 DEF IInv
<1> QED
  BY <1>2, <1>3 DEF Prepare, Refused

\* The committed epoch is newer than every known one.  A committed slot at
\* the authority would be where the committing migration froze the object.
LEMMA CommitStep ==
  ASSUME IInv, NEW m \in Migration, Commit(m)
  PROVE  IInv'
<1> DEFINE e == entry[Authority]
           from == coord[m].from
           new == [e EXCEPT !.lc = "Forwarding", !.by = NoMigration, !.loc = from]
<1>1. coord' = coord /\ request' = request \ {<<m, "commit">>} /\ <<m, "commit">> \in request
  BY DEF Commit, Take
<1>2. CASE AnswerTo(m, "commit", Err) /\ UNCHANGED <<entry, committed>>
  BY <1>1, <1>2, FailingStep
<1>3. CASE /\ NextEpoch(e.loc, from) /\ entry' = [entry EXCEPT ![Authority] = new]
           /\ committed' = committed \cup {from} /\ AnswerTo(m, "commit", Ok(from, {}))
  <2>1. /\ coord[m] \in Coordinator /\ from \in Location /\ from.epoch \in Nat
        /\ Authority \in Locality /\ e \in Entry /\ Types /\ e.loc.epoch \in Nat
        /\ \A x \in Known : x.epoch \in Nat
    BY BasicTypes DEF IInv, Types, Coordinator, Location, Entry, Known
  <2>2. /\ Packet(m) /\ from.by = m /\ from.epoch = coord[m].original.epoch + 1
        /\ coord[m].original \in Known /\ HasFrozen(m) /\ ~Unprepared(m)
    <3>1. Packet(m)
      BY DEF IInv, Packets
    <3>2. coord[m].pc \notin {"idle", "freeze", "prepare"} /\ <<m, "prepare">> \notin request
      BY <1>1, <3>1 DEF Packet, Step
    <3> QED
      BY <1>1, <3>1, <3>2 DEF Packet, HasFrozen, Unprepared
  <2>3. from.epoch = e.loc.epoch + 1
    BY <1>3 DEF NextEpoch
  <2>4. new \in Entry /\ new.prep = e.prep /\ new.loc = from /\ new.lc = "Forwarding"
    <3> HIDE DEF e, from
    <3> QED
      BY <2>1 DEF Entry, Lifecycle
  <2>5. reply' \in [Migration -> SUBSET Answer] /\ \A n \in Migration :
          reply'[n] = reply[n] \/ (n = m /\ coord[m].pc = "commit" /\ reply'[m] = {Ok(from, {})})
    <3>1. Ok(from, {}) \in Answer
      BY <2>1, BasicTypes
    <3> HIDE DEF from
    <3> QED
      BY <1>3, <2>1, <3>1, AnswerToLemma
  <2>6. Known' = Known \cup {from}
    BY <1>3 DEF Known
  <2>7. e.loc \in Known /\ \A x \in Known : x.epoch <= e.loc.epoch
    BY <2>1 DEF IInv, Directory
  <2>8. \A n : Unprepared(n)' => Unprepared(n)
    BY <1>1 DEF Unprepared
  <2>9. \A n \in Migration : HasFrozen(n)' => HasFrozen(n)
    BY <1>1, <2>5 DEF HasFrozen, OkReply
  <2>10. \A s \in e.prep : s.loc # e.loc
    <3>1. coord[m].original = e.loc
      BY <2>1, <2>2, <2>3, <2>7 DEF IInv, Directory
    <3> QED
      BY <2>1, <2>2, <3>1 DEF IInv, FrozenHasNoSlot
  <2> HIDE DEF new, from, e
  <2>11. /\ entry[Authority] = e /\ entry'[Authority] = new
         /\ \A k \in Locality : k # Authority => entry'[k] = entry[k]
    BY <1>3, <2>1 DEF e, Types
  <2>12. Types'
    BY <1>1, <1>3, <2>1, <2>4, <2>5 DEF Types
  <2>13. Directory'
    <3>1. \A x \in Known : x.epoch < from.epoch
      BY <2>1, <2>3, <2>7
    <3>2. \A x, y \in Known' : x.epoch = y.epoch => x = y
      BY <2>1, <2>6, <3>1 DEF IInv, Directory
    <3>3. \A x \in Known' : x.epoch <= entry'[Authority].loc.epoch
      BY <2>1, <2>4, <2>6, <2>11, <3>1
    <3>4. \A k \in Locality : entry'[k].loc \in Known'
      BY <2>4, <2>6, <2>11 DEF IInv, Directory
    <3> QED
      BY <2>4, <2>11, <3>2, <3>3, <3>4 DEF Directory, Authority
  <2>14. FreshLocations'
    BY <2>2, <2>6, <2>8 DEF IInv, FreshLocations
  <2>15. Slots'
    <3> SUFFICES ASSUME NEW k \in Locality, NEW s \in entry'[k].prep
                 PROVE  /\ s.loc.by = s.by /\ At(s.loc) = k
                        /\ \A t \in entry'[k].prep : t = s
                        /\ ~Unprepared(s.by)'
                        /\ k = Authority /\ s.loc \in Known' => s.loc = entry'[k].loc
      BY DEF Slots, At, Authority
    <3>1. entry'[k].prep = entry[k].prep
      BY <2>4, <2>11
    <3>2. k = Authority /\ s.loc \in Known' => s.loc = entry'[k].loc
      <4>1. ASSUME k = Authority, s.loc \in Known PROVE FALSE
        BY <2>10, <2>11, <3>1, <4>1 DEF IInv, Slots
      <4> QED
        BY <2>4, <2>6, <2>11, <4>1
    <3> QED
      BY <2>8, <3>1, <3>2 DEF IInv, Slots
  <2>16. OpenHasNoSlot'
    BY <2>4, <2>11 DEF IInv, OpenHasNoSlot
  <2>17. FrozenHasNoSlot'
    BY <1>1, <2>4, <2>9, <2>11 DEF IInv, FrozenHasNoSlot
  <2>18. Packets'
    <3> SUFFICES ASSUME NEW n \in Migration PROVE Packet(n)'
      BY DEF Packets
    <3>1. Packet(n)
      BY DEF IInv, Packets
    <3>2. CASE n # m
      BY <1>1, <1>3, <2>5, <2>6, <3>1, <3>2 DEF Packet, ToldCommitted, OkReply
    <3>3. CASE n = m
      <4>1. from \in committed'
        BY <1>3
      <4>2. coord[m].pc \in {"freeze", "prepare"} => reply'[m] = reply[m]
        BY <2>5
      <4> QED
        BY <1>1, <2>2, <2>6, <3>3, <4>1, <4>2 DEF Packet, OkReply, from
    <3> QED
      BY <3>2, <3>3
  <2> QED
    BY <2>12, <2>13, <2>14, <2>15, <2>16, <2>17, <2>18 DEF IInv
<1> QED
  BY <1>2, <1>3 DEF Commit, Refused

\* An activation at the authority sets the location it already has.
LEMMA ActivateStep ==
  ASSUME IInv, NEW m \in Migration, Activate(m)
  PROVE  IInv'
<1> DEFINE l == Destination(m)
           e == entry[l]
           taken == [e EXCEPT !.prep = {}]
<1>1. /\ coord' = coord /\ committed' = committed
      /\ request' = request \ {<<m, "activate">>} /\ <<m, "activate">> \in request
  BY DEF Activate, Take
<1>2. coord[m] \in Coordinator /\ l \in Locality /\ e \in Entry /\ Types
  BY MigrationAssumption DEF IInv, Types, Coordinator, Destination
<1>3. CASE entry' = [entry EXCEPT ![l] = taken] /\ AnswerTo(m, "activate", Err)
  <2>1. taken \in Entry /\ taken.prep = {} /\ taken.loc = e.loc /\ taken.lc = e.lc
    <3> HIDE DEF e
    <3> QED
      BY <1>2 DEF Entry
  <2>2. l = Authority => taken.lc # "Absent"
    BY <2>1 DEF IInv, Directory
  <2>3. Shrinks /\ entry' \in [Locality -> Entry]
    <3> HIDE DEF taken, l
    <3> QED
      BY <1>2, <1>3, <2>1, <2>2, ShrinkOne DEF e
  <2>4. reply' \in [Migration -> SUBSET Answer] /\ TameAnswers
    BY <1>2, <1>3, BasicTypes, AnswerToLemma DEF TameAnswers
  <2>5. Types'
    BY <1>1, <1>2, <2>3, <2>4 DEF Types
  <2> QED
    BY <1>1, <2>3, <2>4, <2>5, HandlerLemma
<1>4. ASSUME NEW s \in e.prep, s.by = m, s.loc = coord[m].from,
             entry' = [entry EXCEPT ![l] =
               [taken EXCEPT !.lc = "Resident", !.by = NoMigration, !.loc = s.loc, !.st = {s.st}]],
             AnswerTo(m, "activate", Ok(coord[m].from, {}))
      PROVE  IInv'
  <2> DEFINE new == [taken EXCEPT !.lc = "Resident", !.by = NoMigration, !.loc = s.loc, !.st = {s.st}]
  <2>1. s \in Slot /\ s.loc \in Location /\ s.st \in SUBSET Write
    BY <1>2, <1>4 DEF Entry, Slot
  <2>2. new \in Entry /\ new.prep = {} /\ new.loc = s.loc /\ new.lc = "Resident"
    <3> HIDE DEF e
    <3> QED
      BY <1>2, <2>1 DEF Entry, Lifecycle
  <2>3. s.loc \in committed /\ s.loc \in Known
    BY <1>1, <1>4 DEF IInv, Packets, Packet, ToldCommitted, Known
  <2>4. l = Authority => s.loc = e.loc
    BY <1>2, <2>3 DEF IInv, Slots
  <2>5. reply' \in [Migration -> SUBSET Answer] /\ \A n \in Migration :
          reply'[n] = reply[n] \/ (n = m /\ coord[m].pc = "activate")
    <3>1. Ok(coord[m].from, {}) \in Answer
      BY <1>4, <2>1, BasicTypes
    <3> QED
      BY <1>2, <1>4, <3>1, AnswerToLemma
  <2>6. Known' = Known
    BY <1>1 DEF Known
  <2>7. \A n : Unprepared(n)' => Unprepared(n)
    BY <1>1 DEF Unprepared
  <2>8. \A n \in Migration : HasFrozen(n)' => HasFrozen(n)
    BY <1>1, <2>5 DEF HasFrozen, OkReply
  <2>9. \A k \in Locality : \A t \in entry[k].prep : k # l => t.loc # s.loc
    BY <1>2 DEF IInv, Slots
  <2>10. entry' = [entry EXCEPT ![l] = new]
    BY <1>4
  <2> HIDE DEF new, taken, l
  <2>11. entry'[l] = new /\ \A k \in Locality : k # l => entry'[k] = entry[k]
    BY <1>2, <2>10 DEF Types
  <2>12. Types'
    BY <1>1, <1>2, <2>2, <2>5, <2>10 DEF Types
  <2>13. Directory'
    BY <2>2, <2>3, <2>4, <2>6, <2>11, BasicTypes DEF IInv, Directory, Authority, e
  <2>14. FreshLocations'
    BY <2>6, <2>7 DEF IInv, FreshLocations
  <2>15. Slots'
    BY <2>2, <2>6, <2>7, <2>11 DEF IInv, Slots, At, Authority
  <2>16. OpenHasNoSlot'
    BY <2>2, <2>9, <2>11 DEF IInv, OpenHasNoSlot
  <2>17. FrozenHasNoSlot'
    BY <1>1, <2>2, <2>8, <2>11 DEF IInv, FrozenHasNoSlot
  <2>18. Packets'
    <3> SUFFICES ASSUME NEW n \in Migration PROVE Packet(n)'
      BY DEF Packets
    <3>1. Packet(n)
      BY DEF IInv, Packets
    <3>2. coord[n].pc \in {"freeze", "prepare", "commit"} => reply'[n] = reply[n]
      BY <2>5
    <3> QED
      BY <1>1, <2>6, <3>1, <3>2 DEF Packet, ToldCommitted, OkReply
  <2> QED
    BY <2>12, <2>13, <2>14, <2>15, <2>16, <2>17, <2>18 DEF IInv
<1> QED
  BY <1>3, <1>4 DEF Activate

\* A successful answer to a step other than freeze, prepare and commit.
LEMMA OtherAnswer ==
  ASSUME IInv, NEW m \in Migration, NEW step \in Step \ {"freeze", "prepare", "commit"},
         NEW r \in Answer, AnswerTo(m, step, r), r.tag # "moved"
  PROVE  reply' \in [Migration -> SUBSET Answer] /\ TameAnswers
BY AnswerToLemma DEF IInv, TameAnswers

\* A rollback reopens an entry that was open and drops slots.
LEMMA RollbackStep ==
  ASSUME IInv, NEW m \in Migration, NEW step \in Step, Rollback(m, step)
  PROVE  IInv'
<1> DEFINE l == IF step = "rollbackSource" THEN Source(m) ELSE Destination(m)
           e == entry[l]
           new == IF e.lc = "Absent" THEN e ELSE RolledBack(e, m)
<1>1. coord' = coord /\ committed' = committed /\ request' \subseteq request
  BY DEF Rollback, Take
<1>2. coord[m] \in Coordinator /\ l \in Locality /\ e \in Entry /\ Types
  BY MigrationAssumption DEF IInv, Types, Coordinator, Destination, Source, At, Location
<1>3. /\ new \in Entry /\ new.prep \subseteq e.prep /\ new.loc = e.loc
      /\ new.lc = e.lc \/ (e.lc = "Freezing" /\ new.lc = "Resident")
  <2> HIDE DEF e
  <2> QED
    BY <1>2 DEF RolledBack, Reopened, Entry, Lifecycle
<1>4. entry' = [entry EXCEPT ![l] = new]
  BY <1>2 DEF Rollback, Types
<1>5. Shrinks /\ entry' \in [Locality -> Entry]
  <2>1. l = Authority => e.lc # "Absent"
    BY DEF IInv, Directory
  <2> HIDE DEF new, l
  <2> QED
    BY <1>2, <1>3, <1>4, <2>1, ShrinkOne DEF e
<1>6. reply' \in [Migration -> SUBSET Answer] /\ TameAnswers
  <2>1. AnswerTo(m, step, Ok(coord[m].from, {})) /\ step \in Step \ {"freeze", "prepare", "commit"}
    BY DEF Rollback, Step
  <2>2. Ok(coord[m].from, {}) \in Answer /\ Ok(coord[m].from, {}).tag # "moved"
    BY <1>2, BasicTypes DEF Coordinator
  <2> QED
    BY <2>1, <2>2, OtherAnswer
<1>7. Types'
  BY <1>1, <1>2, <1>5, <1>6 DEF Types, Rollback, Take
<1> QED
  BY <1>1, <1>5, <1>6, <1>7, HandlerLemma

\* collect leaves an entry alone or removes one that is not the authority's.
LEMMA CollectLemma ==
  ASSUME NEW l, NEW e \in Entry
  PROVE  /\ Collect(l, e) \in Entry
         /\ Collect(l, e) = e \/ (Collect(l, e) = AbsentEntry /\ l # Authority)
         /\ AbsentEntry.loc \in Known /\ AbsentEntry.prep = {} /\ AbsentEntry.lc = "Absent"
BY BasicTypes DEF Collect, AbsentEntry, Known

\* A retired entry takes a committed location; at the authority it is its own.
LEMMA RetireStep ==
  ASSUME IInv, NEW m \in Migration, Retire(m)
  PROVE  IInv'
<1> DEFINE l == Source(m)
           e == entry[l]
           from == coord[m].from
           gone == [e EXCEPT !.lc = "Forwarding", !.by = NoMigration, !.loc = from, !.st = {}]
           new == IF e.lc = "Absent" THEN e ELSE Retired(l, e, from)
<1>1. /\ coord' = coord /\ committed' = committed /\ request' \subseteq request
      /\ <<m, "retire">> \in request
  BY DEF Retire, Take
<1>2. /\ coord[m] \in Coordinator /\ l \in Locality /\ e \in Entry /\ Types /\ from \in Location
      /\ from.epoch \in Nat /\ e.loc.epoch \in Nat
  BY MigrationAssumption DEF IInv, Types, Coordinator, Source, At, Location, Entry
<1>3. from \in Known
  BY <1>1 DEF IInv, Packets, Packet, ToldCommitted, Known
<1>4. l = Authority => e.lc # "Absent" /\ (e.loc.epoch <= from.epoch => from = e.loc)
  BY <1>2, <1>3 DEF IInv, Directory
<1>5. gone \in Entry /\ gone.prep = e.prep /\ gone.loc = from /\ gone.lc = "Forwarding"
  <2> HIDE DEF e, from
  <2> QED
    BY <1>2 DEF Entry, Lifecycle
<1>6. /\ new \in Entry
      /\ \/ new = e
         \/ new = gone /\ e.loc.epoch <= from.epoch
         \/ new = AbsentEntry /\ l # Authority
  <2>1. Retired(l, e, from) = IF e.loc.epoch > from.epoch THEN e ELSE Collect(l, gone)
    BY DEF Retired
  <2> HIDE DEF gone, e, from, l
  <2> QED
    BY <1>2, <1>5, <2>1, CollectLemma
<1>7. entry' = [entry EXCEPT ![l] = new]
  BY DEF Retire
<1>8. Shrinks /\ entry' \in [Locality -> Entry]
  <2>1. e.loc \in Known
    BY <1>2 DEF IInv, Directory
  <2>2. /\ AbsentEntry.loc \in Known /\ AbsentEntry.prep = {} /\ AbsentEntry.lc = "Absent"
    BY DEF AbsentEntry, Known
  <2> HIDE DEF new, gone, l, from
  <2>3. new.prep \subseteq entry[l].prep
    BY <1>5, <1>6, <2>2
  <2>4. new.loc = entry[l].loc \/ (l # Authority /\ new.loc \in Known)
    BY <1>3, <1>4, <1>5, <1>6, <2>2
  <2>5. new.lc \in {"Resident", "Freezing"} => new = e
    BY <1>5, <1>6, <2>2
  <2>6. l = Authority => new.lc # "Absent"
    BY <1>4, <1>5, <1>6
  <2> QED
    BY <1>2, <1>6, <1>7, <2>3, <2>4, <2>5, <2>6, ShrinkOne
<1>9. reply' \in [Migration -> SUBSET Answer] /\ TameAnswers
  <2>1. AnswerTo(m, "retire", IF e.lc = "Absent" THEN Err ELSE Ok(from, {}))
    BY DEF Retire
  <2>2. /\ (IF e.lc = "Absent" THEN Err ELSE Ok(from, {})) \in Answer
        /\ (IF e.lc = "Absent" THEN Err ELSE Ok(from, {})).tag # "moved"
    BY <1>2, BasicTypes
  <2> QED
    BY <2>1, <2>2, OtherAnswer DEF Step
<1>10. Types'
  BY <1>1, <1>2, <1>8, <1>9 DEF Types, Retire, Take
<1> QED
  BY <1>1, <1>8, <1>9, <1>10, HandlerLemma

\* An expiry reopens, drops slots or collects.
LEMMA ExpireStep ==
  ASSUME IInv, NEW l \in Locality, Expire(l)
  PROVE  IInv'
<1> DEFINE e == entry[l]
<1>1. UNCHANGED <<request, reply, coord, committed>>
  BY DEF Expire
<1>2. e \in Entry /\ Types /\ (l = Authority => e.lc # "Absent") /\ e.loc \in Known
  BY DEF IInv, Types, Directory
<1>3. PICK x \in Lapses(l, e) : entry' = [entry EXCEPT ![l] = Collect(l, x)]
  BY DEF Expire
<1>4. /\ x \in Entry /\ x.prep \subseteq e.prep /\ x.loc = e.loc
      /\ x.lc \in {"Resident", "Freezing"} => e.lc \in {"Resident", "Freezing"}
      /\ e.lc # "Absent" => x.lc # "Absent"
  <2> DEFINE y == LifecycleExpired(l, e)
  <2>1. /\ y \in Entry /\ y.prep \subseteq e.prep /\ y.loc = e.loc
        /\ y.lc \in {"Resident", "Freezing"} => e.lc \in {"Resident", "Freezing"}
        /\ e.lc # "Absent" => y.lc # "Absent"
    <3> HIDE DEF e
    <3>1. CASE e.lc = "Freezing"
      BY <1>2, <3>1 DEF LifecycleExpired, Reopened, Entry, Lifecycle
    <3>2. CASE e.lc = "Prepared"
      BY <1>2, <3>2 DEF LifecycleExpired, Entry, Lifecycle
    <3>3. CASE e.lc \notin {"Freezing", "Prepared"}
      BY <1>2, <3>3 DEF LifecycleExpired, Entry, Lifecycle
    <3> QED
      BY <3>1, <3>2, <3>3
  <2>2. \A z \in Entry : SlotExpired(z) \in Entry /\ SlotExpired(z).prep = {}
          /\ SlotExpired(z).loc = z.loc /\ SlotExpired(z).lc = z.lc
    BY DEF SlotExpired, Entry
  <2>3. x \in {e, y, SlotExpired(e), SlotExpired(y)}
    BY <1>3 DEF Lapses
  <2> HIDE DEF y, e
  <2> QED
    BY <1>2, <2>1, <2>2, <2>3
<1>5. Shrinks /\ entry' \in [Locality -> Entry]
  <2> DEFINE n == Collect(l, x)
  <2>1. n \in Entry /\ (n = x \/ (n = AbsentEntry /\ l # Authority))
        /\ AbsentEntry.loc \in Known /\ AbsentEntry.prep = {} /\ AbsentEntry.lc = "Absent"
    BY <1>4, CollectLemma
  <2> HIDE DEF n
  <2>2. entry' = [entry EXCEPT ![l] = n]
    BY <1>3 DEF n
  <2> QED
    BY <1>2, <1>4, <2>1, <2>2, ShrinkOne
<1>6. TameAnswers /\ Types'
  BY <1>1, <1>2, <1>5 DEF TameAnswers, Types
<1> QED
  BY <1>1, <1>5, <1>6, HandlerLemma

\* A write changes the state of an entry only.
LEMMA WriteRunStep ==
  ASSUME IInv, NEW l \in Locality, NEW w \in Write, WriteRun(l, w)
  PROVE  IInv'
<1> DEFINE new == [entry[l] EXCEPT !.st = {st \cup {w} : st \in entry[l].st}]
<1>1. UNCHANGED <<request, reply, coord, committed>>
  BY DEF WriteRun
<1>2. Types /\ entry[l] \in Entry /\ (l = Authority => entry[l].lc # "Absent")
  BY DEF IInv, Types, Directory
<1>3. /\ new \in Entry /\ new.prep = entry[l].prep /\ new.loc = entry[l].loc
      /\ new.lc = entry[l].lc
  BY <1>2 DEF Entry
<1>4. entry' = [entry EXCEPT ![l] = new] \/ entry' = entry
  BY <1>2 DEF WriteRun, Types
<1>5. Shrinks /\ entry' \in [Locality -> Entry]
  <2>1. CASE entry' = entry
    BY <1>2, <2>1 DEF IInv, Directory, Shrinks, Types
  <2>2. CASE entry' = [entry EXCEPT ![l] = new]
    <3> HIDE DEF new
    <3> QED
      BY <1>2, <1>3, <2>2, ShrinkOne
  <2> QED
    BY <1>4, <2>1, <2>2
<1>6. TameAnswers /\ Types'
  BY <1>1, <1>2, <1>5 DEF TameAnswers, Types
<1> QED
  BY <1>1, <1>5, <1>6, HandlerLemma

\* Steps that touch neither entries nor coordinators.
LEMMA QuietStep ==
  ASSUME IInv, UNCHANGED <<entry, coord, committed>>, request' \subseteq request,
         reply' \in [Migration -> SUBSET Answer],
         \A n \in Migration : reply'[n] = reply[n] \/ reply'[n] = {Err}
  PROVE  IInv'
<1>1. Shrinks
  BY DEF IInv, Directory, Shrinks
<1>2. TameAnswers
  BY BasicTypes DEF TameAnswers
<1>3. Types'
  BY DEF IInv, Types
<1> QED
  BY <1>1, <1>2, <1>3, HandlerLemma

-----------------------------------------------------------------------------
(* The coordinator.                                                         *)

\* What a coordinator's next state has to satisfy.
LEMMA ProceedLemma ==
  ASSUME IInv, NEW m \in Migration, NEW c \in Coordinator, Proceed(m, c),
         Unprepared(m)' => Unprepared(m),
         HasFrozen(m)' => HasFrozen(m) /\ c.original = coord[m].original,
         Packet(m)'
  PROVE  IInv'
<1>1. /\ coord'[m] = c /\ reply'[m] = {} /\ entry' = entry /\ committed' = committed
      /\ \A n \in Migration : n # m => coord'[n] = coord[n] /\ reply'[n] = reply[n]
      /\ \A n \in Migration : \A s : n # m => (<<n, s>> \in request' <=> <<n, s>> \in request)
  BY DEF IInv, Types, Proceed
<1>2. Types'
  BY DEF IInv, Types, Proceed
<1>3. Known' = Known
  BY <1>1 DEF Known
<1>4. \A n \in Migration : Unprepared(n)' => Unprepared(n)
  BY <1>1 DEF Unprepared
<1>5. \A n \in Migration : HasFrozen(n)' => HasFrozen(n) /\ coord'[n].original = coord[n].original
  <2> SUFFICES ASSUME NEW n \in Migration, n # m, HasFrozen(n)'
               PROVE  HasFrozen(n) /\ coord'[n].original = coord[n].original
    BY <1>1
  <2> QED
    BY <1>1 DEF HasFrozen, OkReply
<1>6. Directory'
  BY <1>1, <1>3 DEF IInv, Directory
<1>7. FreshLocations'
  BY <1>3, <1>4 DEF IInv, FreshLocations
<1>8. Slots'
  <2>1. \A l \in Locality : \A s \in entry[l].prep : s.by \in Migration
    BY DEF IInv, Types, Entry, Slot
  <2> QED
    BY <1>1, <1>3, <1>4, <2>1 DEF IInv, Slots, At, Authority
<1>9. OpenHasNoSlot'
  BY <1>1 DEF IInv, OpenHasNoSlot
<1>10. FrozenHasNoSlot'
  BY <1>1, <1>5 DEF IInv, FrozenHasNoSlot
<1>11. Packets'
  <2> SUFFICES ASSUME NEW n \in Migration, n # m PROVE Packet(n)'
    BY DEF Packets
  <2>1. Packet(n)
    BY DEF IInv, Packets
  <2> QED
    BY <1>1, <1>3, <2>1 DEF Packet, ToldCommitted, OkReply
<1> QED
  BY <1>2, <1>6, <1>7, <1>8, <1>9, <1>10, <1>11 DEF IInv

\* Which requests of m there are after its coordinator has become c.
LEMMA ProceedFacts ==
  ASSUME IInv, NEW m \in Migration, NEW c \in Coordinator, Proceed(m, c)
  PROVE  /\ coord'[m] = c /\ reply'[m] = {} /\ committed' = committed /\ Known' = Known
         /\ \A s : <<m, s>> \in request' <=> <<m, s>> \in request \/ (s = c.pc /\ s \in Step)
         /\ Packet(m) /\ coord[m] \in Coordinator
BY DEF IInv, Types, Proceed, Known, Packets

\* A migration starts from a known location and has asked for nothing yet.
LEMMA MigrateStep ==
  ASSUME IInv, NEW m \in Migration, Migrate(m)
  PROVE  IInv'
<1>1. PICK dest \in Place, from \in Known :
        Proceed(m, [coord[m] EXCEPT !.dest = dest, !.from = from, !.original = from,
                                    !.pc = IF from.place = dest THEN "completed" ELSE "freeze"])
  BY DEF Migrate
<1> DEFINE c == [coord[m] EXCEPT !.dest = dest, !.from = from, !.original = from,
                                 !.pc = IF from.place = dest THEN "completed" ELSE "freeze"]
<1>2. /\ c \in Coordinator /\ c.from = from /\ c.original = from
      /\ c.pc \in {"completed", "freeze"}
  <2>1. coord[m] \in Coordinator /\ from \in Location
    BY BasicTypes DEF IInv, Types, Known
  <2> QED
    BY <2>1 DEF Coordinator, Step, Outcome
<1>3. Proceed(m, c)
  BY <1>1
<1> HIDE DEF c
<1>4. /\ coord'[m] = c /\ reply'[m] = {} /\ committed' = committed /\ Known' = Known
      /\ \A s : <<m, s>> \in request' <=> <<m, s>> \in request \/ (s = c.pc /\ s \in Step)
      /\ Packet(m)
  BY <1>2, <1>3, ProceedFacts
<1>5. coord[m].pc = "idle" /\ \A s \in Step : <<m, s>> \notin request
  BY <1>4 DEF Migrate, Packet
<1>6. \A s \in Step : <<m, s>> \in request' => s = "freeze"
  BY <1>2, <1>4, <1>5 DEF Step
<1>7. ~HasFrozen(m)' /\ Unprepared(m) /\ ~ToldCommitted(m)'
  BY <1>2, <1>4, <1>5, <1>6 DEF HasFrozen, Unprepared, OkReply, ToldCommitted, Step
<1>8. Packet(m)'
  BY <1>2, <1>4, <1>6, <1>7 DEF Packet, Step
<1> QED
  BY <1>2, <1>3, <1>7, <1>8, ProceedLemma

\* A coordinator that is finished, or rolls back, from any of its states.
LEMMA LeaveStep ==
  ASSUME IInv, NEW m \in Migration, NEW pc \in Outcome \cup {"rollbackSource", "rollbackDestination"},
         NEW both \in BOOLEAN, coord[m].pc # "idle",
         Proceed(m, [coord[m] EXCEPT !.pc = pc, !.both = both])
  PROVE  IInv'
<1> DEFINE c == [coord[m] EXCEPT !.pc = pc, !.both = both]
<1>1. c \in Coordinator /\ c.from = coord[m].from /\ c.original = coord[m].original /\ c.pc = pc
  BY DEF IInv, Types, Coordinator, Step, Outcome
<1>2. Proceed(m, c)
  OBVIOUS
<1>3. pc \notin {"idle", "freeze", "prepare", "commit", "activate", "retire"}
  BY DEF Outcome
<1> HIDE DEF c
<1>4. /\ coord'[m] = c /\ reply'[m] = {} /\ committed' = committed /\ Known' = Known
      /\ \A s : <<m, s>> \in request' <=> <<m, s>> \in request \/ (s = c.pc /\ s \in Step)
      /\ Packet(m)
  BY <1>1, <1>2, ProceedFacts
<1>5. \A s \in {"prepare", "commit", "activate", "retire"} : <<m, s>> \in request' => <<m, s>> \in request
  BY <1>1, <1>3, <1>4
<1>6. /\ Unprepared(m)' => Unprepared(m)
      /\ HasFrozen(m)' => HasFrozen(m)
      /\ ToldCommitted(m)' => ToldCommitted(m)
  BY <1>1, <1>3, <1>4, <1>5 DEF HasFrozen, Unprepared, ToldCommitted
<1>7. Packet(m)'
  BY <1>1, <1>3, <1>4, <1>5, <1>6 DEF Packet
<1> QED
  BY <1>1, <1>2, <1>6, <1>7, ProceedLemma

\* A frozen object goes on to prepare, a moved one is followed to a known location.
LEMMA PollFreezeStep ==
  ASSUME IInv, NEW m \in Migration, PollFreeze(m)
  PROVE  IInv'
<1>1. PICK r \in reply[m] :
        \/ r.tag = "ok" /\ Proceed(m, [coord[m] EXCEPT !.pc = "prepare", !.snapshot = r.st])
        \/ /\ r.tag = "moved"
           /\ Proceed(m, [coord[m] EXCEPT !.from = r.loc, !.original = r.loc, !.redirects = @ + 1])
        \/ Finish(m, "rolledBack")
  BY DEF PollFreeze
<1>2. /\ coord[m] \in Coordinator /\ r \in Answer /\ Packet(m) /\ coord[m].pc = "freeze"
      /\ \A s \in Step : <<m, s>> \in request => s = "freeze"
  BY DEF IInv, Types, Packets, Packet, PollFreeze
<1>3. CASE r.tag = "ok" /\ Proceed(m, [coord[m] EXCEPT !.pc = "prepare", !.snapshot = r.st])
  <2> DEFINE c == [coord[m] EXCEPT !.pc = "prepare", !.snapshot = r.st]
  <2>1. /\ c \in Coordinator /\ c.from = coord[m].from /\ c.original = coord[m].original
        /\ c.pc = "prepare"
    BY <1>2 DEF Coordinator, Step, Answer
  <2>2. Proceed(m, c)
    BY <1>3
  <2> HIDE DEF c
  <2>3. /\ coord'[m] = c /\ reply'[m] = {} /\ committed' = committed /\ Known' = Known
        /\ \A s : <<m, s>> \in request' <=> <<m, s>> \in request \/ (s = c.pc /\ s \in Step)
    BY <2>1, <2>2, ProceedFacts
  <2>4. \A s \in Step : <<m, s>> \in request' => s \in {"freeze", "prepare"}
    BY <1>2, <2>1, <2>3
  <2>5. Unprepared(m) /\ HasFrozen(m) /\ ~ToldCommitted(m)'
    BY <1>2, <1>3, <2>1, <2>3, <2>4 DEF Unprepared, HasFrozen, OkReply, ToldCommitted, Step
  <2>6. Packet(m)'
    BY <1>2, <2>1, <2>3, <2>4, <2>5 DEF Packet, OkReply, Step
  <2> QED
    BY <2>1, <2>2, <2>5, <2>6, ProceedLemma
<1>4. CASE /\ r.tag = "moved"
           /\ Proceed(m, [coord[m] EXCEPT !.from = r.loc, !.original = r.loc, !.redirects = @ + 1])
  <2> DEFINE c == [coord[m] EXCEPT !.from = r.loc, !.original = r.loc, !.redirects = @ + 1]
  <2>1. c \in Coordinator /\ c.from = r.loc /\ c.original = r.loc /\ c.pc = "freeze"
    <3>1. coord[m].redirects + 1 \in Nat /\ r.loc \in Location
      BY <1>2 DEF Coordinator, Answer
    <3> DEFINE q == coord[m].redirects + 1
    <3>2. c = [coord[m] EXCEPT !.from = r.loc, !.original = r.loc, !.redirects = q]
      BY <1>2 DEF Coordinator
    <3> HIDE DEF q, c
    <3> QED
      BY <1>2, <3>1, <3>2 DEF Coordinator, q
  <2>2. Proceed(m, c)
    BY <1>4
  <2> HIDE DEF c
  <2>3. /\ coord'[m] = c /\ reply'[m] = {} /\ committed' = committed /\ Known' = Known
        /\ \A s : <<m, s>> \in request' <=> <<m, s>> \in request \/ (s = c.pc /\ s \in Step)
    BY <2>1, <2>2, ProceedFacts
  <2>4. \A s \in Step : <<m, s>> \in request' => s = "freeze"
    BY <1>2, <2>1, <2>3
  <2>5. Unprepared(m) /\ ~HasFrozen(m)' /\ ~ToldCommitted(m)' /\ r.loc \in Known
    BY <1>2, <1>4, <2>1, <2>3, <2>4 DEF Packet, Unprepared, HasFrozen, OkReply, ToldCommitted, Step
  <2>6. Packet(m)'
    BY <1>2, <2>1, <2>3, <2>4, <2>5 DEF Packet, Step
  <2> QED
    BY <2>1, <2>2, <2>5, <2>6, ProceedLemma
<1>5. CASE Finish(m, "rolledBack")
  <2>1. "rolledBack" \in Outcome /\ coord[m].both \in BOOLEAN /\ coord[m].pc # "idle"
        /\ [coord[m] EXCEPT !.pc = "rolledBack"]
             = [coord[m] EXCEPT !.pc = "rolledBack", !.both = coord[m].both]
    BY <1>2 DEF Outcome, Coordinator
  <2> QED
    BY <1>5, <2>1, LeaveStep DEF Finish
<1> QED
  BY <1>1, <1>3, <1>4, <1>5

\* The prepared location is the next epoch, and it is of this migration.
LEMMA PollPrepareStep ==
  ASSUME IInv, NEW m \in Migration, PollPrepare(m)
  PROVE  IInv'
<1>1. PICK r \in reply[m] :
        \/ r.tag = "ok" /\ Proceed(m, [coord[m] EXCEPT !.pc = "commit", !.from = r.loc])
        \/ StartRollback(m, FALSE)
  BY DEF PollPrepare
<1>2. /\ coord[m] \in Coordinator /\ r \in Answer /\ Packet(m) /\ coord[m].pc = "prepare"
  BY DEF IInv, Types, Packets, PollPrepare
<1>3. CASE r.tag = "ok" /\ Proceed(m, [coord[m] EXCEPT !.pc = "commit", !.from = r.loc])
  <2> DEFINE c == [coord[m] EXCEPT !.pc = "commit", !.from = r.loc]
  <2>1. c \in Coordinator /\ c.from = r.loc /\ c.original = coord[m].original /\ c.pc = "commit"
    BY <1>2 DEF Coordinator, Step, Answer
  <2>2. Proceed(m, c)
    BY <1>3
  <2> HIDE DEF c
  <2>3. /\ coord'[m] = c /\ reply'[m] = {} /\ committed' = committed /\ Known' = Known
        /\ \A s : <<m, s>> \in request' <=> <<m, s>> \in request \/ (s = c.pc /\ s \in Step)
    BY <2>1, <2>2, ProceedFacts
  <2>4. <<m, "prepare">> \notin request /\ r.loc.by = m /\ r.loc.epoch = coord[m].original.epoch + 1
    BY <1>2, <1>3 DEF Packet, OkReply
  <2>5. \A s \in {"prepare", "activate", "retire"} : <<m, s>> \notin request'
    BY <1>2, <2>1, <2>3, <2>4 DEF Packet
  <2>6. ~Unprepared(m)' /\ HasFrozen(m) /\ ~ToldCommitted(m)'
    BY <1>2, <2>1, <2>3, <2>5 DEF Unprepared, HasFrozen, OkReply, ToldCommitted
  <2>7. Packet(m)'
    BY <1>2, <2>1, <2>3, <2>4, <2>5, <2>6 DEF Packet
  <2> QED
    BY <2>1, <2>2, <2>6, <2>7, ProceedLemma
<1>4. CASE StartRollback(m, FALSE)
  BY <1>2, <1>4, LeaveStep DEF StartRollback
<1> QED
  BY <1>1, <1>3, <1>4

\* A coordinator that was told of its commit, and goes on.
LEMMA CommittedStep ==
  ASSUME IInv, NEW m \in Migration, NEW pc \in {"activate", "retire"},
         ToldCommitted(m), coord[m].pc \in {"commit", "activate"},
         Proceed(m, [coord[m] EXCEPT !.pc = pc])
  PROVE  IInv'
<1> DEFINE c == [coord[m] EXCEPT !.pc = pc]
<1>1. c \in Coordinator /\ c.from = coord[m].from /\ c.original = coord[m].original /\ c.pc = pc
  BY DEF IInv, Types, Coordinator, Step
<1> HIDE DEF c
<1>2. /\ coord'[m] = c /\ reply'[m] = {} /\ committed' = committed /\ Known' = Known
      /\ \A s : <<m, s>> \in request' <=> <<m, s>> \in request \/ (s = c.pc /\ s \in Step)
      /\ Packet(m)
  BY <1>1, ProceedFacts DEF c
<1>3. <<m, "prepare">> \notin request /\ coord[m].from \in committed
  BY <1>2 DEF Packet
<1>4. <<m, "prepare">> \notin request' /\ (<<m, "commit">> \in request' => <<m, "commit">> \in request)
  BY <1>1, <1>2, <1>3
<1>5. ~Unprepared(m)' /\ (HasFrozen(m)' => HasFrozen(m))
  BY <1>1, <1>2, <1>4 DEF Unprepared, HasFrozen
<1>6. Packet(m)'
  BY <1>1, <1>2, <1>3, <1>4 DEF Packet
<1> QED
  BY <1>1, <1>5, <1>6, ProceedLemma DEF c

\* Finishing keeps the both field.
LEMMA FinishStep ==
  ASSUME IInv, NEW m \in Migration, NEW pc \in Outcome \cup {"rollbackDestination"},
         coord[m].pc # "idle", Finish(m, pc)
  PROVE  IInv'
<1>1. coord[m].both \in BOOLEAN
        /\ [coord[m] EXCEPT !.pc = pc] = [coord[m] EXCEPT !.pc = pc, !.both = coord[m].both]
  BY DEF IInv, Types, Coordinator
<1> QED
  BY <1>1, LeaveStep DEF Finish

\* A commit that was answered goes on, any other is rolled back.
LEMMA PollCommitStep ==
  ASSUME IInv, NEW m \in Migration, PollCommit(m)
  PROVE  IInv'
<1>1. PICK r \in reply[m] :
        \/ r.tag = "ok" /\ Proceed(m, [coord[m] EXCEPT !.pc = "activate"])
        \/ StartRollback(m, TRUE)
  BY DEF PollCommit
<1>2. coord[m].pc = "commit"
  BY DEF PollCommit
<1>3. CASE r.tag = "ok" /\ Proceed(m, [coord[m] EXCEPT !.pc = "activate"])
  <2>1. ToldCommitted(m)
    BY <1>2, <1>3 DEF ToldCommitted, OkReply
  <2> QED
    BY <1>2, <1>3, <2>1, CommittedStep
<1>4. CASE StartRollback(m, TRUE)
  BY <1>2, <1>4, LeaveStep DEF StartRollback
<1> QED
  BY <1>1, <1>3, <1>4

\* After the activation the source is retired or the run ends.
LEMMA PollActivateStep ==
  ASSUME IInv, NEW m \in Migration, PollActivate(m)
  PROVE  IInv'
<1>1. PICK pc \in {"retire", "completed", "committedFailure"} :
        Proceed(m, [coord[m] EXCEPT !.pc = pc])
  BY DEF PollActivate, AfterActivate
<1>2. coord[m].pc = "activate" /\ ToldCommitted(m)
  BY DEF PollActivate, ToldCommitted
<1>3. CASE pc = "retire"
  BY <1>1, <1>2, <1>3, CommittedStep
<1>4. CASE pc # "retire"
  <2>1. pc \in Outcome /\ Finish(m, pc)
    BY <1>1, <1>4 DEF Outcome, Finish
  <2> QED
    BY <1>2, <2>1, FinishStep
<1> QED
  BY <1>3, <1>4

\* The last polls, the rollbacks and the drop of the future.
LEMMA PollOtherStep ==
  ASSUME IInv, NEW m \in Migration, PollRetire(m) \/ PollRollback(m) \/ DropFuture(m)
  PROVE  IInv'
<1>1. PICK pc \in Outcome \cup {"rollbackDestination"} : Finish(m, pc)
  <2>1. CASE PollRetire(m)
    BY <2>1 DEF PollRetire, Outcome
  <2>2. CASE PollRollback(m)
    BY <2>2 DEF PollRollback, Outcome
  <2>3. CASE DropFuture(m)
    BY <2>3 DEF DropFuture, Outcome
  <2> QED
    BY <2>1, <2>2, <2>3
<1>2. coord[m].pc # "idle"
  BY MigrationAssumption DEF PollRetire, PollRollback, DropFuture, Step
<1> QED
  BY <1>1, <1>2, FinishStep

-----------------------------------------------------------------------------
(* The theorem.                                                             *)

\* The object starts at its authority and no migration has begun.
LEMMA InitIInv == Init => IInv
<1> SUFFICES ASSUME Init PROVE IInv
  OBVIOUS
<1>1. Known = {Origin} /\ committed = {} /\ request = {} /\ Origin.by = NoMigration /\ Origin.epoch = 1
  BY DEF Init, Known, Origin
<1>2. \A l \in Locality : /\ entry[l] \in Entry /\ entry[l].loc = Origin /\ entry[l].prep = {}
                          /\ l = Authority => entry[l].lc # "Absent"
  <2> DEFINE first == [AbsentEntry EXCEPT !.lc = "Resident", !.st = {{}}]
  <2>1. first \in Entry /\ first.loc = Origin /\ first.prep = {} /\ first.lc = "Resident"
    BY BasicTypes DEF AbsentEntry, Entry, Lifecycle
  <2>2. AbsentEntry \in Entry /\ AbsentEntry.loc = Origin /\ AbsentEntry.prep = {}
    BY BasicTypes DEF AbsentEntry
  <2>3. \A l \in Locality : entry[l] = IF l = Authority THEN first ELSE AbsentEntry
    BY DEF Init
  <2> HIDE DEF first
  <2> QED
    BY <2>1, <2>2, <2>3
<1>3. \A m \in Migration : /\ coord[m] \in Coordinator /\ coord[m].pc = "idle" /\ reply[m] = {}
                           /\ coord[m].from = Origin /\ coord[m].original = Origin
  BY BasicTypes, MigrationAssumption DEF Init, Coordinator
<1>4. Types
  <2>1. /\ entry = [l \in Locality |-> entry[l]]
        /\ coord = [m \in Migration |-> coord[m]]
        /\ reply = [m \in Migration |-> reply[m]]
    BY DEF Init
  <2> QED
    BY <1>1, <1>2, <1>3, <2>1 DEF Types
<1>5. Directory
  <2>1. entry[Authority].loc = Origin /\ entry[Authority].lc # "Absent"
    BY <1>2, BasicTypes
  <2>2. 1 <= 1
    OBVIOUS
  <2> QED
    BY <1>1, <1>2, <2>1, <2>2 DEF Directory
<1>6. FreshLocations
  BY <1>1, MigrationAssumption DEF FreshLocations
<1>7. Slots /\ OpenHasNoSlot /\ FrozenHasNoSlot
  BY <1>2 DEF Slots, OpenHasNoSlot, FrozenHasNoSlot
<1>8. Packets
  BY <1>1, <1>3 DEF Packets, Packet, ToldCommitted
<1> QED
  BY <1>4, <1>5, <1>6, <1>8, <1>7 DEF IInv

\* Every step preserves the invariant.
LEMMA NextIInv == IInv /\ [Next]_vars => IInv'
<1> SUFFICES ASSUME IInv, [Next]_vars PROVE IInv'
  OBVIOUS
<1>1. ASSUME NEW m \in Migration, StepAction(m) PROVE IInv'
  BY <1>1, FreezeAdmitStep, FreezeRunStep, PrepareStep, CommitStep, ActivateStep, RollbackStep,
     RetireStep DEF StepAction
<1>2. ASSUME NEW m \in Migration, PollAction(m) PROVE IInv'
  BY <1>2, PollFreezeStep, PollPrepareStep, PollCommitStep, PollActivateStep, PollOtherStep
     DEF PollAction
<1>3. ASSUME NEW m \in Migration, Timeout(m) PROVE IInv'
  BY <1>3, BasicTypes, QuietStep DEF Timeout, IInv, Types
<1>4. ASSUME NEW m \in Migration, NEW step \in Step, Cancelled(m, step) PROVE IInv'
  BY <1>4, QuietStep DEF Cancelled, Take, IInv, Types
<1>5. ASSUME NEW w \in Write, CallStart(w) \/ CallAdmit(w) PROVE IInv'
  BY <1>5, QuietStep DEF CallStart, CallAdmit, IInv, Types
<1>6. ASSUME NEW l \in Locality, Retry(l) PROVE IInv'
  BY <1>6, QuietStep DEF Retry, IInv, Types
<1>7. CASE UNCHANGED vars
  BY <1>7, QuietStep DEF vars, IInv, Types
<1> QED
  BY <1>1, <1>2, <1>3, <1>4, <1>5, <1>6, <1>7, MigrateStep, PollOtherStep, WriteRunStep, ExpireStep
     DEF Next, CallAction

\* An epoch names one location, whatever the migrations of the object do to
\* one another: the check of commit_migration, which looks at epochs only, is
\* enough for admission and redirects to look at epochs only.
THEOREM EpochsNameLocations == Spec => []EpochNamesLocation
<1>1. IInv => EpochNamesLocation
  BY DEF IInv, Directory, EpochNamesLocation
<1> QED
  BY <1>1, InitIInv, NextIInv, PTL DEF Spec

-----------------------------------------------------------------------------
(* Who serves the object.                                                   *)

\* A commit is neither timed out nor dropped, and only what finished migrations
\* have left behind expires.
Orderly == "commit" \notin Impatient \cup Dropping /\ Expiry # "any"

Current == entry[Authority].loc
Open(l) == entry[l].lc \in {"Resident", "Freezing"}
Waits(l, j) == \E i \in DOMAIN mailbox[l] : mailbox[l][i] = j
Queued(l, j) == j \in running[l] \/ Waits(l, j)
FreezeJob(m) == <<m, "freeze">> \in request \/ \E l \in Locality : Queued(l, m)
\* m's freeze is still to be answered.
Awaiting(m) == coord[m].pc = "freeze" /\ reply[m] = {}
\* m has frozen the object and may yet ask for its commit.
Holds(m) ==
  (coord[m].pc = "freeze" /\ OkReply(m)) \/ coord[m].pc = "prepare" \/ <<m, "commit">> \in request
\* m's commit was accepted.
Moving(m) == (coord[m].pc = "commit" /\ OkReply(m)) \/ coord[m].pc \in {"activate", "retire"}
\* An old location that m has still to retire.
Stale(l, m) == entry[l].lc = "Freezing" /\ entry[l].by = m /\ entry[l].loc # Current
PreparedSlot(m, loc) == [by |-> m, loc |-> loc, st |-> coord[m].snapshot]

\* There is one freeze of m, in its request or in one queue.
Single(m) ==
  /\ <<m, "freeze">> \in request => \A l \in Locality : ~Queued(l, m)
  /\ \A l, k \in Locality : m \in running[l] => ~Waits(k, m) /\ (m \in running[k] => k = l)
  /\ \A l, k \in Locality : \A i \in DOMAIN mailbox[l], j \in DOMAIN mailbox[k] :
       mailbox[l][i] = m /\ mailbox[k][j] = m => l = k /\ i = j

\* It is there until it is answered.
JobInv(m) ==
  /\ FreezeJob(m) => coord[m].pc \in {"freeze", "rolledBack"}
  /\ FreezeJob(m) /\ coord[m].pc = "freeze" => \A r \in reply[m] : r.tag = "err"
  /\ Single(m)

\* Which requests and answers of m there can be.
PhaseInv(m) ==
  /\ \A r, s \in reply[m] : r = s
  /\ <<m, "commit">> \in request => coord[m].pc = "commit" /\ reply[m] = {}
  /\ <<m, "rollbackSource">> \in request \/ <<m, "rollbackDestination">> \in request =>
       coord[m].pc \in {"rollbackSource", "rollbackDestination", "rolledBack", "failed"}
  /\ <<m, "activate">> \in request => coord[m].pc = "activate" /\ ~OkReply(m)
  /\ <<m, "retire">> \in request => coord[m].pc = "retire" /\ ~OkReply(m)
  /\ coord[m].pc = "retire" => Source(m) # Destination(m)
  /\ coord[m].pc = "completed" => coord[m].from \in Known
  /\ coord[m].pc \in {"commit", "activate", "retire"} =>
       At(coord[m].from) = Destination(m) /\ coord[m].from.epoch = coord[m].original.epoch + 1

\* What m's accepted commit has left to do.
MovedInv(m) ==
  /\ \A l \in Locality : Stale(l, m) =>
       /\ Moving(m) /\ coord[m].original = entry[l].loc
       /\ ~(coord[m].pc = "retire" /\ OkReply(m))
       /\ ~(coord[m].pc = "activate" /\ OkReply(m) /\ Source(m) = Destination(m))
  /\ \A l \in Locality : \A s \in entry[l].prep : s.by = m /\ s.loc \in Known =>
       (coord[m].pc = "commit" /\ OkReply(m)) \/ (coord[m].pc = "activate" /\ ~OkReply(m))

\* The object that m holds is frozen, its state is in the packet, and no write
\* is queued for it.
HeldInv(m) ==
  Holds(m) =>
    /\ entry[At(coord[m].original)].lc = "Freezing"
    /\ entry[At(coord[m].original)].by = m
    /\ entry[At(coord[m].original)].loc = coord[m].original
    /\ coord[m].pc = "freeze" =>
         \A r \in reply[m] : r.tag = "ok" => entry[At(coord[m].original)].st = {r.st}
    /\ coord[m].pc # "freeze" => entry[At(coord[m].original)].st = {coord[m].snapshot}
    /\ \A l \in Locality, w \in Write : ~Queued(l, w)

\* The slot that m has prepared stays until it is activated.
SlotKept(m) ==
  /\ coord[m].pc = "prepare" => \A r \in reply[m] : r.tag = "ok" =>
       /\ At(r.loc) = Destination(m)
       /\ PreparedSlot(m, r.loc) \in entry[Destination(m)].prep
  /\ <<m, "commit">> \in request \/ (coord[m].pc = "commit" /\ OkReply(m)) \/ <<m, "activate">> \in request =>
       PreparedSlot(m, coord[m].from) \in entry[Destination(m)].prep

\* A freeze in a queue has closed its entry: no write is behind it.
Closed(l, m) ==
  /\ entry[l].lc = "Freezing" /\ entry[l].by = m /\ entry[l].loc = coord[m].from
  /\ l = At(coord[m].from)
Ordered(l, m) ==
  /\ m \in running[l] => \A w \in Write : ~Waits(l, w)
  /\ \A i, j \in DOMAIN mailbox[l] : mailbox[l][i] = m /\ j > i => mailbox[l][j] \notin Write
AwaitInv(m) ==
  \A l \in Locality : Awaiting(m) /\ Queued(l, m) => Closed(l, m) /\ Ordered(l, m)

MigrationInv(m) ==
  JobInv(m) /\ PhaseInv(m) /\ MovedInv(m) /\ HeldInv(m) /\ SlotKept(m) /\ AwaitInv(m)

QueueTypes ==
  /\ running \in [Locality -> SUBSET Job]
  /\ mailbox \in [Locality -> Seq(Job)]
  /\ \A l \in Locality : \A i, j \in running[l] : i = j
  /\ call \in [Write -> Caller]

\* Only the current location is open, but for what is still to be retired.
EntryInv ==
  \A l \in Locality :
    /\ Open(l) => At(entry[l].loc) = l /\ \E st \in SUBSET Write : entry[l].st = {st}
    /\ l # Authority /\ ~Open(l) => entry[l].st = {}
    /\ entry[l].lc = "Resident" => entry[l].loc = Current
    /\ entry[l].lc = "Freezing" => entry[l].by \in Migration
    /\ \A s \in entry[l].prep : s.loc \in Known => s.loc = Current

DirectoryInv ==
  \/ Open(At(Current)) /\ entry[At(Current)].loc = Current
  \/ \E s \in entry[At(Current)].prep : s.loc = Current

\* A queued write is for the current location, which is open.
WritesInv ==
  /\ \A w \in Write : call[w].to \in Known
  /\ \A l \in Locality, w \in Write : Queued(l, w) =>
       /\ call[w].pc \notin {"new", "sent"} /\ call[w].to = Current /\ At(Current) = l
       /\ Open(l) /\ entry[l].loc = Current

AckedInv ==
  \A w \in Write : call[w].pc = "acked" =>
    \A l \in Locality : /\ Open(l) /\ entry[l].loc = Current => \A st \in entry[l].st : w \in st
                        /\ \A s \in entry[l].prep : s.loc = Current => w \in s.st

ResidenceInv ==
  /\ QueueTypes /\ EntryInv /\ DirectoryInv /\ WritesInv /\ AckedInv
  /\ \A m \in Migration : MigrationInv(m)

-----------------------------------------------------------------------------
(* Consequences.                                                            *)

\* What m holds, or waits to hold, is the current location.
LEMMA HeldCurrent ==
  ASSUME IInv, ResidenceInv, NEW m \in Migration
  PROVE  /\ Holds(m) => ~Moving(m) /\ coord[m].original = Current
         /\ \A l \in Locality : Awaiting(m) /\ Queued(l, m) => entry[l].loc = Current
<1>1. JobInv(m) /\ PhaseInv(m) /\ MovedInv(m) /\ HeldInv(m) /\ AwaitInv(m) /\ coord[m].original \in Location
  BY DEF ResidenceInv, MigrationInv, IInv, Types, Coordinator
<1>2. Holds(m) => ~Moving(m)
  BY <1>1 DEF Holds, Moving, PhaseInv, OkReply
<1>3. At(coord[m].original) \in Locality
  BY <1>1, MigrationAssumption DEF At, Location
<1>4. Holds(m) => coord[m].original = Current
  BY <1>1, <1>2, <1>3 DEF HeldInv, MovedInv, Stale
<1>5. Awaiting(m) => ~Moving(m)
  BY DEF Awaiting, Moving
<1>6. \A l \in Locality : Awaiting(m) /\ Queued(l, m) => entry[l].loc = Current
  BY <1>1, <1>5 DEF AwaitInv, Closed, MovedInv, Stale
<1> QED
  BY <1>2, <1>4, <1>6

\* Two open entries with the same location are one.
LEMMA Consequences ==
  ASSUME IInv, ResidenceInv
  PROVE  OneResident /\ AckedWritesSurvive /\ DirectoryPointsToState /\ ReportedMoveIsFinal
<1>1. EntryInv /\ DirectoryInv /\ AckedInv /\ Types /\ Directory
  BY DEF ResidenceInv, IInv
<1>2. OneResident
  BY <1>1 DEF OneResident, EntryInv, Open
<1>3. AckedWritesSurvive
  BY <1>1 DEF AckedWritesSurvive, EntryInv, AckedInv, Open
<1>4. DirectoryPointsToState
  <2>1. Current \in Location /\ At(Current) \in Locality
    BY <1>1, BasicTypes, MigrationAssumption DEF Types, Current, Entry, At, Location
  <2>2. Open(At(Current)) => entry[At(Current)].st # {}
    BY <1>1, <2>1 DEF EntryInv
  <2> QED
    BY <1>1, <2>1, <2>2 DEF DirectoryPointsToState, DirectoryInv, Open, Current
<1>5. ReportedMoveIsFinal
  <2> SUFFICES ASSUME NEW m \in Migration, coord[m].pc = "completed", NEW l \in Locality,
                      \/ entry[l].lc = "Resident"
                      \/ /\ entry[l].lc = "Freezing"
                         /\ coord[entry[l].by].pc \notin {"commit", "activate", "retire"}
               PROVE  entry[l].loc.epoch >= coord[m].from.epoch
    BY DEF ReportedMoveIsFinal
  <2>1. coord[m].from \in Known
    BY DEF ResidenceInv, MigrationInv, PhaseInv
  <2>2. entry[l].loc = Current
    <3>1. CASE entry[l].lc = "Resident"
      BY <1>1, <3>1 DEF EntryInv
    <3>2. CASE entry[l].lc = "Freezing"
      <4>1. entry[l].by \in Migration
        BY <1>1, <3>2 DEF EntryInv
      <4>2. ~Moving(entry[l].by) /\ MovedInv(entry[l].by)
        BY <3>2, <4>1 DEF Moving, ResidenceInv, MigrationInv
      <4> QED
        BY <3>2, <4>2 DEF MovedInv, Stale
    <3> QED
      BY <3>1, <3>2
  <2>3. coord[m].from.epoch <= Current.epoch
    BY <1>1, <2>1 DEF Directory, Current
  <2>4. coord[m].from.epoch \in Nat /\ Current.epoch \in Nat
    BY <1>1, BasicTypes DEF Types, Current, Entry, Location, Coordinator
  <2> QED
    BY <2>2, <2>3, <2>4
<1> QED
  BY <1>2, <1>3, <1>4, <1>5

-----------------------------------------------------------------------------
(* Steps that leave the directory and the coordinators alone.               *)

\* m's slot may still be activated.
NeedsSlot(m) == coord[m].pc \in {"prepare", "commit", "activate"}

Same(l) == /\ entry'[l].lc = entry[l].lc /\ (entry[l].lc = "Freezing" => entry'[l].by = entry[l].by)
           /\ entry'[l].loc = entry[l].loc /\ entry'[l].st = entry[l].st
Reopens(l) ==
  /\ entry[l].lc = "Freezing" /\ entry'[l].lc = "Resident" /\ entry[l].loc = Current
  /\ entry'[l].loc = entry[l].loc /\ entry'[l].st = entry[l].st
  /\ \A n \in Migration : entry[l].by = n => ~Holds(n) /\ ~(Awaiting(n)' /\ Queued(l, n)')
Freezes(l) ==
  /\ entry[l].lc = "Resident" /\ entry'[l].lc = "Freezing" /\ entry'[l].by \in Migration
  /\ entry'[l].loc = entry[l].loc /\ entry'[l].st = entry[l].st
Closes(l) ==
  /\ ~(Open(l) /\ entry[l].loc = Current) /\ ~Open(l)'
  /\ l # Authority => entry'[l].st = {}
  /\ l = Authority => entry'[l].loc = entry[l].loc
\* What such a step does to the entry of l.
Mild(l) ==
  /\ \A s \in entry'[l].prep : s \in entry[l].prep \/ s.loc \notin Known
  /\ \A s \in entry[l].prep : s \notin entry'[l].prep => ~NeedsSlot(s.by)
  /\ Same(l) \/ Reopens(l) \/ Freezes(l) \/ Closes(l)

\* What such a step may answer to n.
Tame(n, a) ==
  \/ a.tag = "err" /\ <<n, "commit">> \notin request'
  \/ coord[n].pc \in {"rollbackSource", "rollbackDestination"}
  \/ coord[n].pc = "retire" /\ <<n, "retire">> \notin request' /\ \A l \in Locality : ~Stale(l, n)'
  \/ coord[n].pc = "freeze" /\ a.tag = "moved" /\ ~FreezeJob(n)'
  \/ coord[n].pc = "freeze" /\ a.tag = "ok" /\ ~FreezeJob(n)' /\ HeldInv(n)'
  \/ coord[n].pc = "prepare" /\ a.tag = "ok" /\ SlotKept(n)'
TameReplies ==
  \A n \in Migration : reply'[n] = reply[n]
                       \/ (reply[n] = {} /\ \E a : reply'[n] = {a} /\ Tame(n, a))

\* What such a step does to the queues.
MildQueues ==
  \A n \in Migration :
    /\ Single(n)'
    /\ FreezeJob(n)' => FreezeJob(n)
    /\ Holds(n)' => \A l \in Locality, w \in Write : ~Queued(l, w)'
    /\ \A l \in Locality : Awaiting(n)' /\ Queued(l, n)' =>
         (Queued(l, n) \/ Closed(l, n)') /\ Ordered(l, n)'

LEMMA MildFacts ==
  ASSUME IInv, ResidenceInv, \A l \in Locality : Mild(l)
  PROVE  /\ Current' = Current
         /\ \A l \in Locality : Open(l) /\ entry[l].loc = Current =>
              Open(l)' /\ entry'[l].loc = Current /\ entry'[l].st = entry[l].st
         /\ \A l \in Locality : Open(l)' =>
              Open(l) /\ entry'[l].loc = entry[l].loc /\ entry'[l].st = entry[l].st
         /\ \A l \in Locality, n \in Migration : Stale(l, n)' => Stale(l, n) /\ entry'[l].loc = entry[l].loc
<1>1. Current' = Current
  BY BasicTypes DEF Mild, Same, Reopens, Freezes, Closes, Current
<1>2. \A l \in Locality : Open(l) /\ entry[l].loc = Current =>
              Open(l)' /\ entry'[l].loc = Current /\ entry'[l].st = entry[l].st
  BY DEF Mild, Same, Reopens, Freezes, Closes, Open
<1>3. \A l \in Locality : Open(l)' =>
              Open(l) /\ entry'[l].loc = entry[l].loc /\ entry'[l].st = entry[l].st
  BY DEF Mild, Same, Reopens, Freezes, Closes, Open
<1>4. \A l \in Locality, n \in Migration : Stale(l, n)' => Stale(l, n) /\ entry'[l].loc = entry[l].loc
  <2> SUFFICES ASSUME NEW l \in Locality, NEW n \in Migration, Stale(l, n)'
               PROVE  Stale(l, n) /\ entry'[l].loc = entry[l].loc
    OBVIOUS
  <2>1. Open(l) /\ entry'[l].loc = entry[l].loc /\ entry[l].loc # Current
    BY <1>1, <1>3 DEF Stale, Open
  <2>2. ~Freezes(l)
    BY <2>1 DEF Freezes, ResidenceInv, EntryInv
  <2> QED
    BY <1>1, <2>1, <2>2 DEF Mild, Same, Reopens, Closes, Open, Stale
<1> QED
  BY <1>1, <1>2, <1>3, <1>4

LEMMA MildStep ==
  ASSUME IInv, ResidenceInv, UNCHANGED <<coord, committed>>, request' \subseteq request,
         \A l \in Locality : Mild(l), TameReplies, MildQueues, QueueTypes', WritesInv', AckedInv'
  PROVE  ResidenceInv'
<1>1. coord' = coord /\ committed' = committed /\ Known' = Known
  BY DEF Known
<1>4. EntryInv'
  <2> SUFFICES ASSUME NEW l \in Locality
               PROVE  /\ Open(l)' => At(entry'[l].loc) = l /\ \E st \in SUBSET Write : entry'[l].st = {st}
                      /\ l # Authority /\ ~Open(l)' => entry'[l].st = {}
                      /\ entry'[l].lc = "Resident" => entry'[l].loc = Current
                      /\ entry'[l].lc = "Freezing" => entry'[l].by \in Migration
                      /\ \A s \in entry'[l].prep : s.loc \in Known => s.loc = Current
    BY <1>1, MildFacts DEF EntryInv, At, Authority
  <2>1. Mild(l) /\ EntryInv
    BY DEF ResidenceInv
  <2>2. Open(l)' => At(entry'[l].loc) = l /\ \E st \in SUBSET Write : entry'[l].st = {st}
    BY <2>1, MildFacts DEF EntryInv
  <2>3. l # Authority /\ ~Open(l)' => entry'[l].st = {}
    BY <2>1 DEF EntryInv, Mild, Same, Reopens, Freezes, Closes, Open
  <2>4. entry'[l].lc = "Resident" => entry'[l].loc = Current
    BY <2>1 DEF EntryInv, Mild, Same, Reopens, Freezes, Closes, Open
  <2>5. entry'[l].lc = "Freezing" => entry'[l].by \in Migration
    BY <2>1 DEF EntryInv, Mild, Same, Reopens, Freezes, Closes, Open
  <2>6. \A s \in entry'[l].prep : s.loc \in Known => s.loc = Current
    BY <2>1 DEF EntryInv, Mild
  <2> QED
    BY <2>2, <2>3, <2>4, <2>5, <2>6
<1>5. DirectoryInv'
  <2>1. At(Current) \in Locality /\ Current \in Known
    BY BasicTypes, MigrationAssumption DEF IInv, Types, Directory, Current, Entry, At, Location
  <2>2. CASE Open(At(Current)) /\ entry[At(Current)].loc = Current
    BY <1>1, <2>1, <2>2, MildFacts DEF DirectoryInv, At
  <2>3. ASSUME NEW s \in entry[At(Current)].prep, s.loc = Current PROVE DirectoryInv'
    <3>1. s.by \in Migration
      BY <2>1 DEF IInv, Types, Entry, Slot
    <3>2. NeedsSlot(s.by)
      BY <2>1, <2>3, <3>1 DEF ResidenceInv, MigrationInv, MovedInv, NeedsSlot
    <3>3. s \in entry'[At(Current)].prep
      BY <2>1, <3>2 DEF Mild
    <3> QED
      BY <2>3, <3>3, MildFacts DEF DirectoryInv, At
  <2> QED
    BY <2>2, <2>3 DEF ResidenceInv, DirectoryInv
<1>8. ASSUME NEW n \in Migration PROVE MigrationInv(n)'
  <2>1. /\ JobInv(n) /\ PhaseInv(n) /\ MovedInv(n) /\ HeldInv(n) /\ SlotKept(n) /\ AwaitInv(n)
    BY DEF ResidenceInv, MigrationInv
  <2>2. reply'[n] = reply[n] \/ (reply[n] = {} /\ \E a : reply'[n] = {a} /\ Tame(n, a))
    BY DEF TameReplies
  <2>3. /\ OkReply(n) => OkReply(n)'
        /\ OkReply(n)' /\ ~OkReply(n) =>
             \/ coord[n].pc \in {"rollbackSource", "rollbackDestination"}
             \/ coord[n].pc = "retire" /\ <<n, "retire">> \notin request' /\ \A l \in Locality : ~Stale(l, n)'
             \/ coord[n].pc = "freeze" /\ HeldInv(n)'
             \/ coord[n].pc = "prepare" /\ SlotKept(n)'
        /\ reply'[n] # {} /\ reply[n] = {} => <<n, "commit">> \notin request' \/ coord[n].pc # "commit"
        /\ coord[n].pc = "freeze" /\ FreezeJob(n)' =>
             \A r \in reply'[n] : r \in reply[n] \/ r.tag = "err"
    <3>1. CASE reply'[n] = reply[n]
      BY <3>1 DEF OkReply
    <3>2. ASSUME reply[n] = {}, NEW a, reply'[n] = {a}, Tame(n, a) PROVE <2>3
      BY <3>2 DEF OkReply, Tame
    <3> QED
      BY <2>2, <3>1, <3>2
  <2>5. JobInv(n)'
    BY <1>1, <2>1, <2>3 DEF JobInv, MildQueues
  <2>6. PhaseInv(n)'
    <3>1. \A r, s \in reply'[n] : r = s
      BY <2>1, <2>2 DEF PhaseInv
    <3> QED
      BY <1>1, <2>1, <2>3, <3>1 DEF PhaseInv, Source, Destination, At
  <2>7. Moving(n) => Moving(n)'
    BY <1>1, <2>3 DEF Moving
  <2>8. MovedInv(n)'
    <3>1. ASSUME NEW l \in Locality, Stale(l, n)'
          PROVE  /\ Moving(n)' /\ coord'[n].original = entry'[l].loc
                 /\ ~(coord'[n].pc = "retire" /\ OkReply(n)')
                 /\ ~(coord'[n].pc = "activate" /\ OkReply(n)' /\ Source(n)' = Destination(n)')
      <4>1. Stale(l, n) /\ entry'[l].loc = entry[l].loc
        BY <3>1, MildFacts
      <4> QED
        BY <1>1, <2>1, <2>3, <2>7, <3>1, <4>1 DEF MovedInv, Source, Destination, At
    <3>2. \A l \in Locality : \A s \in entry'[l].prep : s \in entry[l].prep \/ s.loc \notin Known
      BY DEF Mild
    <3> QED
      BY <1>1, <2>1, <2>3, <3>1, <3>2 DEF MovedInv
  <2>9. Holds(n)' => Holds(n) \/ HeldInv(n)'
    BY <1>1, <2>3 DEF Holds
  <2>10. HeldInv(n)'
    <3> SUFFICES ASSUME Holds(n)', Holds(n) PROVE HeldInv(n)'
      BY <2>9 DEF HeldInv
    <3> DEFINE k == At(coord[n].original)
    <3>1. Holds(n) /\ k \in Locality /\ coord[n].original = Current
      BY HeldCurrent, MigrationAssumption DEF IInv, Types, Coordinator, At, Location
    <3>2. entry[k].lc = "Freezing" /\ entry[k].by = n /\ entry[k].loc = Current
      BY <2>1, <3>1 DEF HeldInv
    <3>3. Same(k)
      BY <3>1, <3>2 DEF Mild, Reopens, Freezes, Closes, Open
    <3>4. coord[n].pc = "freeze" => \A r \in reply'[n] : r.tag = "ok" => r \in reply[n]
      BY <2>2, <3>1, <2>1 DEF Holds, OkReply, PhaseInv
    <3>5. \A l \in Locality, w \in Write : ~Queued(l, w)'
      BY DEF MildQueues
    <3> QED
      BY <1>1, <2>1, <3>1, <3>2, <3>3, <3>4, <3>5 DEF HeldInv, Same, At
  <2>11. SlotKept(n)'
    <3> SUFFICES ASSUME coord[n].pc = "prepare" /\ OkReply(n)' => OkReply(n) PROVE SlotKept(n)'
      BY <2>3
    <3>1. Destination(n) \in Locality /\ Destination(n)' = Destination(n)
      BY <1>1, MigrationAssumption DEF IInv, Types, Coordinator, Destination
    <3>2. ASSUME NeedsSlot(n), NEW x, PreparedSlot(n, x) \in entry[Destination(n)].prep
          PROVE  PreparedSlot(n, x)' \in entry'[Destination(n)].prep
      <4>1. PreparedSlot(n, x).by = n /\ PreparedSlot(n, x)' = PreparedSlot(n, x)
        BY <1>1 DEF PreparedSlot
      <4> QED
        BY <3>1, <3>2, <4>1 DEF Mild
    <3>3. coord[n].pc = "prepare" => \A r \in reply'[n] : r.tag = "ok" => r \in reply[n]
      BY <2>2 DEF OkReply
    <3>4. coord[n].pc = "commit" /\ OkReply(n)' => OkReply(n)
      BY <2>3
    <3>5. ASSUME coord'[n].pc = "prepare", NEW r \in reply'[n], r.tag = "ok"
          PROVE  At(r.loc) = Destination(n) /\ PreparedSlot(n, r.loc)' \in entry'[Destination(n)].prep
      BY <1>1, <2>1, <3>2, <3>3, <3>5 DEF SlotKept, NeedsSlot
    <3>6. ASSUME \/ <<n, "commit">> \in request' \/ (coord'[n].pc = "commit" /\ OkReply(n)')
                 \/ <<n, "activate">> \in request'
          PROVE  PreparedSlot(n, coord[n].from)' \in entry'[Destination(n)].prep
      <4>1. PreparedSlot(n, coord[n].from) \in entry[Destination(n)].prep /\ NeedsSlot(n)
        BY <1>1, <2>1, <3>4, <3>6 DEF SlotKept, PhaseInv, NeedsSlot
      <4> QED
        BY <1>1, <3>2, <4>1 DEF PreparedSlot
    <3> QED
      BY <1>1, <3>1, <3>5, <3>6 DEF SlotKept, At
  <2>12. AwaitInv(n)'
    <3> SUFFICES ASSUME NEW l \in Locality, Awaiting(n)', Queued(l, n)', Queued(l, n)
                 PROVE  Closed(l, n)'
      BY DEF AwaitInv, MildQueues
    <3>1. Awaiting(n)
      BY <1>1, <2>2 DEF Awaiting
    <3>2. Closed(l, n) /\ entry[l].loc = Current
      BY <2>1, <3>1, HeldCurrent DEF AwaitInv
    <3>3. Same(l)
      BY <3>1, <3>2 DEF Mild, Reopens, Freezes, Closes, Closed, Open
    <3> QED
      BY <1>1, <3>2, <3>3 DEF Closed, Same, At
  <2> QED
    BY <2>5, <2>6, <2>8, <2>10, <2>11, <2>12 DEF MigrationInv
<1> QED
  BY <1>4, <1>5, <1>8 DEF ResidenceInv

\* A step that leaves the queues and the calls alone as well.
LEMMA QuietQueues ==
  ASSUME IInv, ResidenceInv, UNCHANGED <<coord, committed, call, running, mailbox>>,
         request' \subseteq request, \A l \in Locality : Mild(l), TameReplies,
         \A n \in Migration : Holds(n)' => Holds(n)
  PROVE  MildQueues /\ QueueTypes' /\ WritesInv' /\ AckedInv'
<1>1. /\ coord' = coord /\ committed' = committed /\ call' = call /\ running' = running
      /\ mailbox' = mailbox /\ Known' = Known
  BY DEF Known
<1>2. \A l, j : Queued(l, j)' = Queued(l, j) /\ Waits(l, j)' = Waits(l, j)
  BY <1>1 DEF Queued, Waits
<1>3. QueueTypes'
  BY <1>1 DEF ResidenceInv, QueueTypes
<1>4. WritesInv'
  BY <1>1, <1>2, MildFacts DEF ResidenceInv, WritesInv, At
<1>5. AckedInv'
  <2> SUFFICES ASSUME NEW w \in Write, call[w].pc = "acked", NEW l \in Locality
               PROVE  /\ Open(l)' /\ entry'[l].loc = Current => \A st \in entry'[l].st : w \in st
                      /\ \A s \in entry'[l].prep : s.loc = Current => w \in s.st
    BY <1>1, MildFacts DEF AckedInv
  <2>1. Current \in Known
    BY BasicTypes DEF IInv, Directory, Current
  <2> QED
    BY <2>1, MildFacts DEF ResidenceInv, AckedInv, Mild
<1>6. ASSUME NEW n \in Migration
      PROVE  /\ Single(n)'
             /\ FreezeJob(n)' => FreezeJob(n)
             /\ Holds(n)' => \A l \in Locality, w \in Write : ~Queued(l, w)'
             /\ \A l \in Locality : Awaiting(n)' /\ Queued(l, n)' => Queued(l, n) /\ Ordered(l, n)'
  <2>1. Single(n) /\ HeldInv(n) /\ AwaitInv(n)
    BY DEF ResidenceInv, MigrationInv, JobInv
  <2>2. Single(n)' /\ (FreezeJob(n)' => FreezeJob(n))
    BY <1>1, <1>2, <2>1 DEF Single, FreezeJob
  <2>3. Holds(n)' => \A l \in Locality, w \in Write : ~Queued(l, w)'
    BY <1>2, <2>1 DEF HeldInv
  <2>4. Awaiting(n)' => Awaiting(n)
    BY <1>1 DEF Awaiting, TameReplies
  <2>5. \A l \in Locality : Awaiting(n)' /\ Queued(l, n)' => Queued(l, n) /\ Ordered(l, n)'
    BY <1>1, <1>2, <2>1, <2>4 DEF AwaitInv, Ordered
  <2> QED
    BY <2>2, <2>3, <2>5
<1> QED
  BY <1>3, <1>4, <1>5, <1>6 DEF MildQueues

\* An answer that comes while it is awaited.
LEMMA OneReply ==
  ASSUME IInv, NEW m \in Migration, NEW step, NEW a, AnswerTo(m, step, a),
         coord[m].pc = step /\ reply[m] = {} => Tame(m, a)
  PROVE  TameReplies
<1>1. reply \in [Migration -> SUBSET Answer]
  BY DEF IInv, Types
<1> QED
  BY <1>1 DEF AnswerTo, Awaits, TameReplies

\* A step at one entry.
LEMMA OneEntry ==
  ASSUME IInv, NEW l \in Locality, NEW e, entry' = [entry EXCEPT ![l] = e], Mild(l)
  PROVE  \A k \in Locality : Mild(k)
<1>1. entry \in [Locality -> Entry]
  BY DEF IInv, Types
<1>2. \A k \in Locality : k # l => entry'[k] = entry[k]
  BY <1>1
<1> QED
  BY <1>2 DEF Mild, Same

LEMMA NoEntry ==
  ASSUME UNCHANGED entry
  PROVE  \A k \in Locality : Mild(k)
BY DEF Mild, Same

\* A handler that answers and, at most, opens, closes or clears an entry.
LEMMA HandlerResidence ==
  ASSUME IInv, ResidenceInv, UNCHANGED <<coord, committed, call, running, mailbox>>,
         request' \subseteq request, \A l \in Locality : Mild(l), TameReplies,
         \A n \in Migration : reply'[n] = reply[n] \/ coord[n].pc # "freeze" \/ ~OkReply(n)'
  PROVE  ResidenceInv'
<1>1. \A n \in Migration : Holds(n)' => Holds(n)
  BY DEF Holds, OkReply
<1> QED
  BY <1>1, QuietQueues, MildStep

LEMMA FailsStep ==
  ASSUME IInv, ResidenceInv, NEW m \in Migration, NEW step,
         UNCHANGED <<coord, committed, call, running, mailbox>>, \A l \in Locality : Mild(l),
         request' \subseteq request, <<m, step>> \notin request', AnswerTo(m, step, Err)
  PROVE  ResidenceInv'
<1>1. coord[m].pc = step => <<m, "commit">> \notin request'
  BY DEF ResidenceInv, MigrationInv, PhaseInv
<1>2. TameReplies
  BY <1>1, OneReply, BasicTypes DEF Tame
<1>3. \A n \in Migration : reply'[n] = reply[n] \/ coord[n].pc # "freeze" \/ ~OkReply(n)'
  BY BasicTypes, AnswerToLemma DEF OkReply, IInv
<1> QED
  BY <1>2, <1>3, HandlerResidence

\* A deadline other than that of a commit passes.
LEMMA TimeoutResidence ==
  ASSUME Orderly, IInv, ResidenceInv, NEW m \in Migration, Timeout(m)
  PROVE  ResidenceInv'
<1>1. coord[m].pc # "commit" /\ <<m, "commit">> \notin request
  BY DEF Orderly, Timeout, ResidenceInv, MigrationInv, PhaseInv
<1>2. reply \in [Migration -> SUBSET Answer] /\ reply' = [reply EXCEPT ![m] = {Err}] /\ request' = request
  BY DEF IInv, Types, Timeout
<1>3. TameReplies
  BY <1>1, <1>2, BasicTypes DEF Timeout, TameReplies, Tame
<1>4. \A n \in Migration : reply'[n] = reply[n] \/ coord[n].pc # "freeze" \/ ~OkReply(n)'
  BY <1>2, BasicTypes DEF OkReply
<1>5. /\ UNCHANGED <<coord, committed, call, running, mailbox>>
      /\ UNCHANGED entry
  BY DEF Timeout, queueVars
<1>6. \A l \in Locality : Mild(l)
  BY <1>5, NoEntry
<1> QED
  BY <1>2, <1>3, <1>4, <1>5, <1>6, HandlerResidence

\* A step nobody waits for disappears.
LEMMA CancelledResidence ==
  ASSUME IInv, ResidenceInv, NEW m \in Migration, NEW step \in Step, Cancelled(m, step)
  PROVE  ResidenceInv'
<1>1. /\ UNCHANGED <<coord, committed, call, running, mailbox>>
      /\ UNCHANGED entry /\ reply' = reply /\ request' \subseteq request
  BY DEF Cancelled, Take, queueVars
<1>2. \A l \in Locality : Mild(l)
  BY <1>1, NoEntry
<1> QED
  BY <1>1, <1>2, HandlerResidence DEF TameReplies

-----------------------------------------------------------------------------
(* The queues.                                                              *)

\* A job is in the queue it is admitted to and nowhere else, behind the others.
LEMMA AdmitQueues ==
  ASSUME QueueTypes, NEW l \in Locality, NEW j \in Job, Admit(l, j)
  PROVE  /\ running' \in [Locality -> SUBSET Job] /\ mailbox' \in [Locality -> Seq(Job)]
         /\ \A k \in Locality : \A i, n \in running'[k] : i = n
         /\ \A k \in Locality : \A n : Queued(k, n)' <=> Queued(k, n) \/ (k = l /\ n = j)
         /\ \A k \in Locality : \A n : Ordered(k, n) /\ Queued(k, n) /\ (k # l \/ j \notin Write) => Ordered(k, n)'
         /\ ~Queued(l, j) => Ordered(l, j)'
         /\ \A n : n # j /\ Single(n) /\ request' \subseteq request => Single(n)'
         /\ (\A k \in Locality : ~Queued(k, j)) /\ <<j, "freeze">> \notin request' => Single(j)'
<1> USE DEF QueueTypes
<1>1. CASE /\ Idle(l)
           /\ running' = [running EXCEPT ![l] = {j}]
           /\ mailbox' = mailbox
  <2>1. running[l] = {} /\ mailbox[l] = << >> /\ DOMAIN mailbox[l] = {}
    BY <1>1 DEF Idle
  <2>2. running'[l] = {j} /\ \A k \in Locality : k # l => running'[k] = running[k]
    BY <1>1
  <2>3. \A k, n : Waits(k, n)' = Waits(k, n)
    BY <1>1 DEF Waits
  <2>4. \A n : ~Queued(l, n)
    BY <2>1 DEF Queued, Waits
  <2>5. \A k \in Locality : \A n : Queued(k, n)' <=> Queued(k, n) \/ (k = l /\ n = j)
    BY <2>1, <2>2, <2>3 DEF Queued
  <2>6. \A k \in Locality : \A n : k # l /\ Ordered(k, n) => Ordered(k, n)'
    BY <1>1, <2>2, <2>3 DEF Ordered
  <2>7. Ordered(l, j)'
    BY <1>1, <2>1 DEF Ordered, Waits
  <2>8. running' \in [Locality -> SUBSET Job] /\ \A k \in Locality : \A i, n \in running'[k] : i = n
    BY <1>1, <2>2
  <2>9. ASSUME NEW n, n # j, Single(n), request' \subseteq request PROVE Single(n)'
    BY <1>1, <2>2, <2>3, <2>5, <2>9 DEF Single
  <2>10. ASSUME \A k \in Locality : ~Queued(k, j), <<j, "freeze">> \notin request' PROVE Single(j)'
    <3>1. \A k \in Locality : \A i : ~Waits(k, j) /\ (j \in running'[k] => k = l)
      BY <2>2, <2>10 DEF Queued
    <3>2. \A k \in Locality : \A i \in DOMAIN mailbox[k] : mailbox[k][i] # j
      BY <3>1 DEF Waits
    <3> QED
      BY <1>1, <2>3, <2>10, <3>1, <3>2 DEF Single
  <2> QED
    BY <1>1, <2>4, <2>5, <2>6, <2>7, <2>8, <2>9, <2>10
<1>2. CASE /\ mailbox' = [mailbox EXCEPT ![l] = Append(@, j)]
           /\ running' = running
  <2> DEFINE q == mailbox[l]
  <2>0. q \in Seq(Job) /\ Len(q) \in Nat
    OBVIOUS
  <2>1. /\ mailbox'[l] = Append(q, j) /\ \A k \in Locality : k # l => mailbox'[k] = mailbox[k]
        /\ mailbox' \in [Locality -> Seq(Job)]
    BY <1>2
  <2>2. /\ DOMAIN mailbox'[l] = 1 .. Len(q) + 1 /\ DOMAIN q = 1 .. Len(q)
        /\ \A i \in DOMAIN q : mailbox'[l][i] = q[i]
        /\ mailbox'[l][Len(q) + 1] = j
    BY <2>0, <2>1
  <2>3. \A i \in DOMAIN mailbox'[l] : i \in DOMAIN q \/ (i = Len(q) + 1 /\ \A k \in DOMAIN q : k < i)
    BY <2>0, <2>2
  <2>4. DOMAIN q \subseteq DOMAIN mailbox'[l] /\ Len(q) + 1 \in DOMAIN mailbox'[l] /\ Len(q) + 1 \notin DOMAIN q
    BY <2>0, <2>2
  <2>5. \A k \in Locality : \A n : Waits(k, n)' <=> Waits(k, n) \/ (k = l /\ n = j)
    BY <2>1, <2>2, <2>3, <2>4 DEF Waits
  <2>6. \A k \in Locality : \A n : Queued(k, n)' <=> Queued(k, n) \/ (k = l /\ n = j)
    BY <1>2, <2>5 DEF Queued
  <2>7. ASSUME NEW k \in Locality, NEW n, Ordered(k, n), Queued(k, n), k # l \/ j \notin Write
        PROVE  Ordered(k, n)'
    <3>1. CASE k # l
      BY <1>2, <2>1, <3>1, <2>7, <2>5 DEF Ordered
    <3>2. CASE k = l
      <4>1. \A w \in Write : Waits(l, w)' => Waits(l, w)
        BY <2>5, <2>7, <3>2
      <4>2. ASSUME NEW i \in DOMAIN mailbox'[l], NEW h \in DOMAIN mailbox'[l], mailbox'[l][i] = n, h > i
            PROVE  mailbox'[l][h] \notin Write
        <5>1. CASE h = Len(q) + 1
          BY <2>2, <2>7, <3>2, <5>1
        <5>2. CASE h \in DOMAIN q
          <6>1. i \in DOMAIN q
            BY <2>0, <2>2, <4>2, <5>2
          <6> QED
            BY <2>2, <2>7, <3>2, <4>2, <5>2, <6>1 DEF Ordered
        <5> QED
          BY <2>3, <5>1, <5>2
      <4> QED
        BY <1>2, <2>7, <3>2, <4>1, <4>2 DEF Ordered
    <3> QED
      BY <3>1, <3>2
  <2>8. ASSUME ~Queued(l, j) PROVE Ordered(l, j)'
    <3>1. j \notin running'[l] /\ \A i \in DOMAIN q : q[i] # j
      BY <1>2, <2>8 DEF Queued, Waits
    <3>2. ASSUME NEW i \in DOMAIN mailbox'[l], NEW h \in DOMAIN mailbox'[l], mailbox'[l][i] = j, h > i
          PROVE  FALSE
      <4>1. i = Len(q) + 1
        BY <2>2, <2>3, <3>1, <3>2
      <4> QED
        BY <2>0, <2>2, <3>2, <4>1
    <3> QED
      BY <3>1, <3>2 DEF Ordered
  <2>9. ASSUME NEW n, n # j, Single(n), request' \subseteq request PROVE Single(n)'
    <3>1. \A k \in Locality : (Waits(k, n)' <=> Waits(k, n)) /\ (Queued(k, n)' <=> Queued(k, n))
      BY <2>5, <2>6, <2>9
    <3>2. \A k \in Locality : \A i \in DOMAIN mailbox'[k] : mailbox'[k][i] = n =>
            i \in DOMAIN mailbox[k] /\ mailbox[k][i] = n
      BY <2>1, <2>2, <2>3, <2>9
    <3> HIDE DEF q
    <3> QED
      BY <1>2, <2>9, <3>1, <3>2 DEF Single
  <2>10. ASSUME \A k \in Locality : ~Queued(k, j), <<j, "freeze">> \notin request' PROVE Single(j)'
    <3>1. \A k \in Locality : \A i \in DOMAIN mailbox[k] : mailbox[k][i] # j
      BY <2>10 DEF Queued, Waits
    <3>2. \A k \in Locality : \A i \in DOMAIN mailbox'[k] : mailbox'[k][i] = j => k = l /\ i = Len(q) + 1
      BY <2>1, <2>2, <2>3, <3>1
    <3>3. \A k \in Locality : j \notin running'[k]
      BY <1>2, <2>10 DEF Queued
    <3> HIDE DEF q
    <3> QED
      BY <2>10, <3>2, <3>3 DEF Single
  <2> QED
    BY <1>2, <2>1, <2>6, <2>7, <2>8, <2>9, <2>10
<1> QED
  BY <1>1, <1>2 DEF Admit

\* retry_ready takes the first.
LEMMA RetryQueues ==
  ASSUME QueueTypes, NEW l \in Locality, running[l] = {}, mailbox[l] # << >>,
         running' = [running EXCEPT ![l] = {Head(mailbox[l])}],
         mailbox' = [mailbox EXCEPT ![l] = Tail(@)]
  PROVE  /\ running' \in [Locality -> SUBSET Job] /\ mailbox' \in [Locality -> Seq(Job)]
         /\ \A k \in Locality : \A i, n \in running'[k] : i = n
         /\ \A k \in Locality : \A n : Queued(k, n)' <=> Queued(k, n)
         /\ \A k \in Locality : \A n : Single(n) /\ Ordered(k, n) => Ordered(k, n)'
         /\ \A n : Single(n) /\ request' = request => Single(n)'
<1> USE DEF QueueTypes
<1> DEFINE q == mailbox[l]
<1>0. q \in Seq(Job) /\ Len(q) \in Nat /\ Len(q) # 0 /\ DOMAIN q = 1 .. Len(q) /\ Head(q) = q[1] /\ 1 \in DOMAIN q
  OBVIOUS
<1>1. /\ mailbox'[l] = Tail(q) /\ \A k \in Locality : k # l => mailbox'[k] = mailbox[k] /\ running'[k] = running[k]
      /\ mailbox' \in [Locality -> Seq(Job)] /\ running'[l] = {q[1]} /\ q[1] \in Job
  BY <1>0
<1>2. DOMAIN mailbox'[l] = 1 .. Len(q) - 1 /\ \A i \in DOMAIN mailbox'[l] : mailbox'[l][i] = q[i + 1]
  BY <1>0, <1>1
<1>3. \A i \in DOMAIN mailbox'[l] : i + 1 \in DOMAIN q /\ i + 1 > 1
  BY <1>0, <1>2
<1>4. \A i \in DOMAIN q : i = 1 \/ (i - 1 \in DOMAIN mailbox'[l] /\ mailbox'[l][i - 1] = q[i])
  BY <1>0, <1>2
<1>5. running' \in [Locality -> SUBSET Job] /\ \A k \in Locality : \A i, n \in running'[k] : i = n
  BY <1>1
<1>6. \A n : Waits(l, n)' => Waits(l, n)
  BY <1>2, <1>3 DEF Waits
<1>7. \A k \in Locality : \A n : k # l => (Waits(k, n)' <=> Waits(k, n))
  BY <1>1 DEF Waits
<1>8. \A k \in Locality : \A n : Queued(k, n)' <=> Queued(k, n)
  <2>1. ASSUME NEW n, Queued(l, n) PROVE Queued(l, n)'
    <3>1. PICK i \in DOMAIN q : q[i] = n
      BY <2>1 DEF Queued, Waits
    <3>2. CASE i = 1
      BY <1>1, <3>1, <3>2 DEF Queued
    <3>3. CASE i # 1
      <4> DEFINE h == i - 1
      <4>1. h \in DOMAIN mailbox'[l] /\ mailbox'[l][h] = n
        BY <1>4, <3>1, <3>3
      <4> HIDE DEF h
      <4> QED
        BY <4>1 DEF Queued, Waits
    <3> QED
      BY <3>2, <3>3
  <2>2. \A n : Queued(l, n)' => Queued(l, n)
    BY <1>0, <1>1, <1>6 DEF Queued, Waits
  <2> QED
    BY <1>1, <1>7, <2>1, <2>2 DEF Queued
<1>9. ASSUME NEW k \in Locality, NEW n, Single(n), Ordered(k, n) PROVE Ordered(k, n)'
  <2>1. CASE k # l
    BY <1>1, <1>7, <1>9, <2>1 DEF Ordered
  <2>2. CASE k = l
    <3>1. ASSUME n \in running'[l], NEW w \in Write, Waits(l, w)' PROVE FALSE
      <4>1. PICK i \in DOMAIN mailbox'[l] : mailbox'[l][i] = w
        BY <3>1 DEF Waits
      <4>2. q[1] = n /\ q[i + 1] = w /\ i + 1 \in DOMAIN q /\ i + 1 > 1
        BY <1>1, <1>2, <1>3, <3>1, <4>1
      <4> QED
        BY <1>0, <1>9, <2>2, <4>2 DEF Ordered
    <3>2. ASSUME NEW i \in DOMAIN mailbox'[l], NEW h \in DOMAIN mailbox'[l], mailbox'[l][i] = n, h > i
          PROVE  mailbox'[l][h] \notin Write
      <4>1. q[i + 1] = n /\ mailbox'[l][h] = q[h + 1] /\ i + 1 \in DOMAIN q /\ h + 1 \in DOMAIN q
        BY <1>2, <1>3, <3>2
      <4>2. h + 1 > i + 1
        BY <1>0, <1>2, <3>2
      <4> QED
        BY <1>9, <2>2, <4>1, <4>2 DEF Ordered
    <3> QED
      BY <2>2, <3>1, <3>2 DEF Ordered
  <2> QED
    BY <2>1, <2>2
<1>10. ASSUME NEW n, Single(n), request' = request PROVE Single(n)'
  <2>1. \A k, h \in Locality : n \in running[k] => ~Waits(h, n)
    BY <1>10 DEF Single
  <2>2. CASE q[1] = n
    <3>1. Waits(l, n)
      BY <1>0, <2>2 DEF Waits
    <3>2. \A k \in Locality : n \notin running[k]
      BY <2>1, <3>1
    <3>3. \A k \in Locality : \A i \in DOMAIN mailbox[k] : mailbox[k][i] = n => k = l /\ i = 1
      BY <1>0, <1>10, <2>2 DEF Single
    <3>4. \A k \in Locality : \A i \in DOMAIN mailbox'[k] : mailbox'[k][i] # n
      <4> SUFFICES ASSUME NEW k \in Locality, NEW i \in DOMAIN mailbox'[k], mailbox'[k][i] = n PROVE FALSE
        OBVIOUS
      <4>1. CASE k # l
        BY <1>1, <3>3, <4>1
      <4>2. CASE k = l
        BY <1>2, <1>3, <3>3, <4>2
      <4> QED
        BY <4>1, <4>2
    <3>5. \A k \in Locality : n \in running'[k] => k = l
      BY <1>1, <3>2
    <3>6. <<n, "freeze">> \notin request'
      BY <1>10, <3>1 DEF Single, Queued
    <3> QED
      BY <3>4, <3>5, <3>6 DEF Single, Waits
  <2>3. CASE q[1] # n
    <3>1. \A k \in Locality : n \in running'[k] => n \in running[k]
      BY <1>1, <2>3
    <3>2. \A k \in Locality : Waits(k, n)' => Waits(k, n)
      BY <1>6, <1>7
    <3>3. ASSUME NEW k \in Locality, NEW h \in Locality, NEW i \in DOMAIN mailbox'[k], NEW j \in DOMAIN mailbox'[h],
                 mailbox'[k][i] = n, mailbox'[h][j] = n
          PROVE  k = h /\ i = j
      <4>1. CASE k # l /\ h # l
        BY <1>1, <1>10, <3>3, <4>1 DEF Single
      <4>2. CASE k = l /\ h # l
        BY <1>1, <1>2, <1>3, <1>10, <3>3, <4>2 DEF Single
      <4>3. CASE k # l /\ h = l
        BY <1>1, <1>2, <1>3, <1>10, <3>3, <4>3 DEF Single
      <4>4. CASE k = l /\ h = l
        <5>1. i + 1 = j + 1
          BY <1>2, <1>3, <1>10, <3>3, <4>4 DEF Single
        <5> QED
          BY <1>0, <1>2, <3>3, <4>4, <5>1
      <4> QED
        BY <4>1, <4>2, <4>3, <4>4
    <3>4. <<n, "freeze">> \in request' => \A k \in Locality : ~Queued(k, n)'
      BY <1>8, <1>10 DEF Single
    <3> QED
      BY <1>10, <3>1, <3>2, <3>3, <3>4 DEF Single
  <2> QED
    BY <2>2, <2>3
<1> QED
  BY <1>1, <1>5, <1>8, <1>9, <1>10

\* A finished job leaves the others where they are.
LEMMA CompleteQueues ==
  ASSUME QueueTypes, NEW l \in Locality, Complete(l), mailbox' = mailbox
  PROVE  /\ running' \in [Locality -> SUBSET Job]
         /\ \A k \in Locality : \A i, n \in running'[k] : i = n
         /\ \A k \in Locality : \A n : Queued(k, n)' => Queued(k, n)
         /\ \A n : ~Waits(l, n) => ~Queued(l, n)'
         /\ \A k \in Locality : \A n : Ordered(k, n) => Ordered(k, n)'
         /\ \A n : Single(n) /\ request' \subseteq request => Single(n)'
<1>1. \A k \in Locality : running'[k] = IF k = l THEN {} ELSE running[k]
  BY DEF Complete, QueueTypes
<1>2. running' \in [Locality -> SUBSET Job]
  BY DEF Complete, QueueTypes
<1>3. \A k, n : Waits(k, n)' = Waits(k, n)
  BY DEF Waits
<1>4. \A k \in Locality : \A n : Queued(k, n)' => Queued(k, n)
  BY <1>1, <1>3 DEF Queued
<1>5. \A n : ~Waits(l, n) => ~Queued(l, n)'
  BY <1>1, <1>3 DEF Queued
<1>6. \A k \in Locality : \A n : Ordered(k, n) => Ordered(k, n)'
  BY <1>1, <1>3 DEF Ordered
<1>7. \A n : Single(n) /\ request' \subseteq request => Single(n)'
  BY <1>1, <1>3, <1>4 DEF Single
<1> QED
  BY <1>1, <1>2, <1>4, <1>5, <1>6, <1>7 DEF QueueTypes

-----------------------------------------------------------------------------
(* The freeze.                                                              *)

\* What a freeze of m closes is the current location.
LEMMA FreezeFacts ==
  ASSUME IInv, ResidenceInv, NEW m \in Migration, FreezeJob(m), NEW l \in Locality,
         CanFreeze(entry[l], m)
  PROVE  /\ Open(l) /\ entry[l].loc = Current
         /\ ~Holds(m)
         /\ Frozen(entry[l], m).lc = "Freezing" /\ Frozen(entry[l], m).by = m
         /\ Frozen(entry[l], m).loc = entry[l].loc /\ Frozen(entry[l], m).st = entry[l].st
         /\ Frozen(entry[l], m).prep = entry[l].prep
         /\ Reopened(entry[l]).lc = "Resident"
         /\ Reopened(entry[l]).loc = entry[l].loc /\ Reopened(entry[l]).st = entry[l].st
         /\ Reopened(entry[l]).prep = entry[l].prep
<1>1. JobInv(m) /\ PhaseInv(m) /\ MovedInv(m) /\ EntryInv
  BY DEF ResidenceInv, MigrationInv
<1>2. ~Moving(m)
  BY <1>1 DEF JobInv, Moving
<1>3. Open(l) /\ entry[l].loc = Current
  BY <1>1, <1>2 DEF CanFreeze, Open, MovedInv, Stale, EntryInv
<1>4. ~Holds(m)
  BY <1>1 DEF JobInv, PhaseInv, Holds, OkReply
<1>5. entry[l] \in Entry
  BY DEF IInv, Types
<1> QED
  BY <1>3, <1>4, <1>5 DEF Frozen, Reopened, Entry

LEMMA FreezingIsMild ==
  ASSUME IInv, ResidenceInv, NEW m \in Migration, FreezeJob(m), NEW l \in Locality,
         CanFreeze(entry[l], m), entry' = [entry EXCEPT ![l] = Frozen(entry[l], m)]
  PROVE  \A k \in Locality : Mild(k)
<1>1. entry'[l] = Frozen(entry[l], m)
  BY DEF IInv, Types
<1>2. Same(l) \/ Freezes(l)
  BY <1>1, FreezeFacts DEF CanFreeze, Same, Freezes
<1>3. Mild(l)
  BY <1>1, <1>2, FreezeFacts DEF Mild
<1> QED
  BY <1>3, OneEntry

\* The freeze joins the queue of the entry it has closed.
LEMMA FreezeQueued ==
  ASSUME IInv, ResidenceInv, NEW m \in Migration, <<m, "freeze">> \in request,
         request' = request \ {<<m, "freeze">>}, UNCHANGED <<coord, committed, call, reply>>,
         NEW l \in Locality, l = At(coord[m].from), CanFreeze(entry[l], m),
         entry[l].loc.epoch = coord[m].from.epoch,
         entry' = [entry EXCEPT ![l] = Frozen(entry[l], m)], Admit(l, m)
  PROVE  ResidenceInv'
<1>1. /\ coord' = coord /\ committed' = committed /\ call' = call /\ reply' = reply /\ Known' = Known
      /\ request' \subseteq request /\ <<m, "freeze">> \notin request'
  BY DEF Known
<1>2. FreezeJob(m) /\ QueueTypes /\ m \in Job /\ m \notin Write
  BY MigrationAssumption DEF FreezeJob, ResidenceInv, Job
<1>3. \A k \in Locality : Mild(k)
  BY <1>2, FreezingIsMild
<1>4. \A k \in Locality : ~Queued(k, m)
  BY DEF ResidenceInv, MigrationInv, JobInv, Single
<1>5. \A k \in Locality : \A n : Queued(k, n)' <=> Queued(k, n) \/ (k = l /\ n = m)
  BY <1>2, AdmitQueues
<1>6. QueueTypes'
  BY <1>1, <1>2, AdmitQueues DEF QueueTypes
<1>7. WritesInv'
  <2>1. \A k \in Locality, w \in Write : Queued(k, w)' => Queued(k, w)
    BY <1>2, <1>5
  <2> QED
    BY <1>1, <1>3, <2>1, MildFacts DEF ResidenceInv, WritesInv, At
<1>8. AckedInv'
  <2>1. \A k \in Locality : entry'[k].prep = entry[k].prep
    BY <1>2, FreezeFacts DEF IInv, Types
  <2> QED
    BY <1>1, <1>3, <2>1, MildFacts DEF ResidenceInv, AckedInv
<1>9. MildQueues
  <2> SUFFICES ASSUME NEW n \in Migration
               PROVE  /\ Single(n)'
                      /\ FreezeJob(n)' => FreezeJob(n)
                      /\ Holds(n)' => \A k \in Locality, w \in Write : ~Queued(k, w)'
                      /\ \A k \in Locality : Awaiting(n)' /\ Queued(k, n)' =>
                           (Queued(k, n) \/ Closed(k, n)') /\ Ordered(k, n)'
    BY DEF MildQueues
  <2>1. Single(n) /\ HeldInv(n) /\ AwaitInv(n)
    BY DEF ResidenceInv, MigrationInv, JobInv
  <2>2. Single(n)'
    BY <1>1, <1>2, <1>4, <2>1, AdmitQueues
  <2>3. FreezeJob(n)' => FreezeJob(n)
    BY <1>1, <1>2, <1>5 DEF FreezeJob
  <2>4. Holds(n)' => Holds(n)
    BY <1>1 DEF Holds, OkReply
  <2>5. Holds(n)' => \A k \in Locality, w \in Write : ~Queued(k, w)'
    BY <1>2, <1>5, <2>1, <2>4 DEF HeldInv
  <2>6. ASSUME NEW k \in Locality, Awaiting(n)', Queued(k, n)'
        PROVE  (Queued(k, n) \/ Closed(k, n)') /\ Ordered(k, n)'
    <3>1. Awaiting(n)
      BY <1>1, <2>6 DEF Awaiting
    <3>2. CASE Queued(k, n)
      <4>1. Ordered(k, n)
        BY <2>1, <3>1, <3>2 DEF AwaitInv
      <4> QED
        BY <1>2, <3>2, <4>1, AdmitQueues
    <3>3. CASE ~Queued(k, n)
      <4>1. k = l /\ n = m
        BY <1>5, <2>6, <3>3
      <4>2. Ordered(l, m)'
        BY <1>2, <1>4, AdmitQueues
      <4>3. coord[m].from \in Known /\ entry[l].loc \in Known
        BY <3>1, <4>1 DEF IInv, Packets, Packet, Awaiting, Directory
      <4>4. coord[m].from = entry[l].loc
        BY <4>3 DEF IInv, Directory
      <4>5. entry'[l] = Frozen(entry[l], m)
        BY DEF IInv, Types
      <4>6. Closed(l, m)'
        <5>1. entry'[l].lc = "Freezing" /\ entry'[l].by = m /\ entry'[l].loc = entry[l].loc
          BY <1>2, <4>5, FreezeFacts
        <5>2. l = At(coord[m].from)'
          BY <1>1 DEF At
        <5> QED
          BY <1>1, <4>4, <5>1, <5>2 DEF Closed
      <4> QED
        BY <4>1, <4>2, <4>6
    <3> QED
      BY <3>2, <3>3
  <2> QED
    BY <2>2, <2>3, <2>5, <2>6
<1>10. TameReplies
  BY <1>1 DEF TameReplies
<1> QED
  BY <1>1, <1>3, <1>6, <1>7, <1>8, <1>9, <1>10, MildStep

\* admit of a freeze.
LEMMA FreezeAdmitResidence ==
  ASSUME IInv, ResidenceInv, NEW m \in Migration, FreezeAdmit(m)
  PROVE  ResidenceInv'
<1> DEFINE l == At(coord[m].from)
           e == entry[l]
<1>1. l \in Locality /\ e \in Entry /\ coord[m] \in Coordinator /\ e.loc \in Location
  BY MigrationAssumption DEF IInv, Types, At, Coordinator, Location, Entry
<1>2. /\ UNCHANGED <<coord, call, committed>> /\ <<m, "freeze">> \in request
      /\ request' = request \ {<<m, "freeze">>}
  BY DEF FreezeAdmit, Take
<1>3. FreezeJob(m) /\ \A k \in Locality : ~Queued(k, m)
  BY <1>2 DEF FreezeJob, ResidenceInv, MigrationInv, JobInv, Single
<1>4. CASE /\ CanFreeze(e, m) /\ e.loc.epoch = coord[m].from.epoch
           /\ entry' = [entry EXCEPT ![l] = Frozen(e, m)]
           /\ Admit(l, m) /\ UNCHANGED reply
  <2> HIDE DEF l
  <2>1. l = At(coord[m].from)
    BY DEF l
  <2> QED
    BY <1>1, <1>2, <1>4, <2>1, FreezeQueued
<1>5. CASE /\ CanFreeze(e, m)
           /\ entry' = [entry EXCEPT ![l] = Frozen(e, m)]
           /\ AnswerTo(m, "freeze", Err) /\ UNCHANGED queueVars
  <2> HIDE DEF l
  <2>1. \A k \in Locality : Mild(k)
    BY <1>1, <1>3, <1>5, FreezingIsMild
  <2>2. UNCHANGED <<running, mailbox>>
    BY <1>5 DEF queueVars
  <2> QED
    BY <1>2, <1>5, <2>1, <2>2, FailsStep
<1>6. CASE AnswerTo(m, "freeze", Moved(e.loc)) /\ UNCHANGED <<entry, queueVars>>
  <2> HIDE DEF l
  <2>1. \A k \in Locality : Mild(k)
    BY <1>6, NoEntry
  <2>2. ~FreezeJob(m)'
    BY <1>2, <1>3, <1>6 DEF FreezeJob, Queued, Waits, queueVars
  <2>3. TameReplies
    BY <1>6, <2>2, OneReply, BasicTypes DEF Tame
  <2>4. \A n \in Migration : reply'[n] = reply[n] \/ coord[n].pc # "freeze" \/ ~OkReply(n)'
    BY <1>1, <1>6, BasicTypes, AnswerToLemma DEF OkReply, IInv
  <2> QED
    BY <1>2, <1>6, <2>1, <2>3, <2>4, HandlerResidence DEF queueVars
<1>7. CASE AnswerTo(m, "freeze", Err) /\ UNCHANGED <<entry, queueVars>>
  <2>1. \A k \in Locality : Mild(k)
    BY <1>7, NoEntry
  <2> QED
    BY <1>2, <1>7, <2>1, FailsStep DEF queueVars
<1> QED
  BY <1>4, <1>5, <1>6, <1>7 DEF FreezeAdmit

\* A freeze that is run, after the writes admitted before it, has the whole
\* state in its packet.
LEMMA FreezeRunAnswers ==
  ASSUME IInv, ResidenceInv, NEW m \in Migration, NEW l \in Locality, m \in running[l],
         Complete(l), UNCHANGED <<mailbox, request, coord, call, committed>>,
         Types', CanFreeze(entry[l], m), entry[l].loc = coord[m].from,
         entry' = [entry EXCEPT ![l] = Frozen(entry[l], m)],
         NEW a, a = Ok(coord[m].from, UNION entry[l].st), Awaits(m, "freeze"), reply'[m] = {a}
  PROVE  /\ Tame(m, a)
         /\ \A k \in Locality, w \in Write : ~Queued(k, w)'
<1>1. coord' = coord /\ request' = request /\ mailbox' = mailbox
  OBVIOUS
<1>2. /\ EntryInv /\ WritesInv /\ QueueTypes /\ JobInv(m) /\ AwaitInv(m) /\ FreezeJob(m) /\ Queued(l, m)
      /\ Awaiting(m) /\ m \notin Write
  BY MigrationAssumption DEF ResidenceInv, MigrationInv, FreezeJob, Queued, Awaits, Awaiting
<1>3. Closed(l, m) /\ Ordered(l, m)
  BY <1>2 DEF AwaitInv
<1>4. \A w \in Write : ~Queued(l, w)
  BY <1>2, <1>3 DEF Ordered, Queued, QueueTypes
<1>5. Open(l) /\ entry[l].loc = Current
  BY <1>2, FreezeFacts
<1>6. At(Current) = l
  BY <1>2, <1>5 DEF EntryInv
<1>7. \A k \in Locality, w \in Write : ~Queued(k, w)
  BY <1>2, <1>4, <1>6 DEF WritesInv
<1>8. \A k \in Locality, w \in Write : ~Queued(k, w)'
  BY <1>1, <1>2, <1>7, CompleteQueues
<1>9. \A k \in Locality : ~Queued(k, m)'
  <2>1. \A k \in Locality : Queued(k, m) => k = l /\ ~Waits(k, m)
    BY <1>2 DEF JobInv, Single, Queued
  <2> QED
    BY <1>1, <1>2, <2>1, CompleteQueues
<1>10. ~FreezeJob(m)'
  BY <1>1, <1>2, <1>9 DEF FreezeJob, JobInv, Single
<1>11. a.tag = "ok" /\ a.st = UNION entry[l].st
  BY DEF Ok
<1>12. HeldInv(m)'
  <2>1. coord[m].original = coord[m].from /\ coord[m].pc = "freeze" /\ l = At(coord[m].original)
    BY <1>2, <1>3 DEF Awaiting, IInv, Packets, Packet, Closed
  <2>2. PICK st \in SUBSET Write : entry[l].st = {st}
    BY <1>2, <1>5 DEF EntryInv
  <2>3. entry'[l] = Frozen(entry[l], m)
    BY DEF IInv, Types
  <2>4. entry'[l].lc = "Freezing" /\ entry'[l].by = m /\ entry'[l].loc = entry[l].loc /\ entry'[l].st = entry[l].st
    BY <1>2, <2>3, FreezeFacts
  <2>5. entry'[l].st = {a.st}
    BY <1>11, <2>2, <2>4
  <2>6. l = At(coord[m].original)'
    BY <1>1, <2>1 DEF At
  <2> QED
    BY <1>1, <1>8, <2>1, <2>4, <2>5, <2>6 DEF HeldInv
<1> QED
  BY <1>2, <1>8, <1>10, <1>11, <1>12 DEF Tame, Awaiting

\* What the queues become when a freeze leaves them.
LEMMA FreezeLeavesQueue ==
  ASSUME IInv, ResidenceInv, NEW l \in Locality, Complete(l),
         UNCHANGED <<mailbox, request, coord, call, committed>>, \A k \in Locality : Mild(k),
         \A k \in Locality : entry'[k].prep = entry[k].prep, TameReplies,
         \A n \in Migration : Holds(n)' => Holds(n) \/ \A k \in Locality, w \in Write : ~Queued(k, w)'
  PROVE  MildQueues /\ QueueTypes' /\ WritesInv' /\ AckedInv'
<1>1. /\ coord' = coord /\ committed' = committed /\ call' = call /\ Known' = Known /\ mailbox' = mailbox
      /\ request' = request
  BY DEF Known
<1>2. QueueTypes /\ \A k \in Locality : \A n : Queued(k, n)' => Queued(k, n)
  BY <1>1, CompleteQueues DEF ResidenceInv
<1>3. QueueTypes'
  BY <1>1, <1>2, CompleteQueues DEF QueueTypes
<1>4. WritesInv'
  BY <1>1, <1>2, MildFacts DEF ResidenceInv, WritesInv, At
<1>5. AckedInv'
  BY <1>1, MildFacts DEF ResidenceInv, AckedInv
<1>6. ASSUME NEW n \in Migration
      PROVE  /\ Single(n)'
             /\ FreezeJob(n)' => FreezeJob(n)
             /\ Holds(n)' => \A k \in Locality, w \in Write : ~Queued(k, w)'
             /\ \A k \in Locality : Awaiting(n)' /\ Queued(k, n)' => Queued(k, n) /\ Ordered(k, n)'
  <2>1. Single(n) /\ HeldInv(n) /\ AwaitInv(n)
    BY DEF ResidenceInv, MigrationInv, JobInv
  <2>2. Single(n)'
    BY <1>1, <1>2, <2>1, CompleteQueues
  <2>3. FreezeJob(n)' => FreezeJob(n)
    BY <1>1, <1>2 DEF FreezeJob
  <2>4. Holds(n)' => \A k \in Locality, w \in Write : ~Queued(k, w)'
    BY <1>2, <2>1 DEF HeldInv
  <2>5. Awaiting(n)' => Awaiting(n)
    BY <1>1 DEF Awaiting, TameReplies
  <2>6. \A k \in Locality : Awaiting(n)' /\ Queued(k, n)' => Queued(k, n) /\ Ordered(k, n)'
    BY <1>1, <1>2, <2>1, <2>5, CompleteQueues DEF AwaitInv
  <2> QED
    BY <2>2, <2>3, <2>4, <2>6
<1> QED
  BY <1>3, <1>4, <1>5, <1>6 DEF MildQueues

LEMMA FreezeRunResidence ==
  ASSUME IInv, IInv', ResidenceInv, NEW m \in Migration, NEW l \in Locality, FreezeRun(l, m)
  PROVE  ResidenceInv'
<1> DEFINE e == entry[l]
           a == Ok(coord[m].from, UNION e.st)
<1>1. m \in running[l] /\ Complete(l) /\ UNCHANGED <<mailbox, request, coord, call, committed>>
  BY DEF FreezeRun
<1>2. /\ FreezeJob(m) /\ Queued(l, m) /\ JobInv(m) /\ EntryInv /\ QueueTypes
      /\ <<m, "commit">> \notin request /\ ~Holds(m)
  BY <1>1 DEF FreezeJob, Queued, ResidenceInv, MigrationInv, JobInv, PhaseInv, Holds, OkReply
<1>3. /\ coord' = coord /\ request' = request /\ mailbox' = mailbox /\ UNCHANGED <<coord, committed>>
      /\ request' \subseteq request
  BY <1>1
<1>4. Types /\ Types' /\ entry \in [Locality -> Entry]
  BY DEF IInv, Types
<1>5. ASSUME AnswerTo(m, "freeze", Err)
      PROVE  TameReplies /\ \A n \in Migration : Holds(n)' => Holds(n)
  <2>1. TameReplies
    BY <1>2, <1>3, <1>5, OneReply, BasicTypes DEF Tame
  <2>2. \A n \in Migration : reply'[n] = reply[n] \/ (n = m /\ reply'[m] = {Err})
    BY <1>4, <1>5, BasicTypes, AnswerToLemma
  <2> QED
    BY <1>3, <2>1, <2>2, BasicTypes DEF Holds, OkReply
<1>6. CASE /\ CanFreeze(e, m) /\ e.loc = coord[m].from
           /\ entry' = [entry EXCEPT ![l] = Frozen(e, m)]
           /\ AnswerTo(m, "freeze", IF e.st = {} THEN Err ELSE a)
  <2>1. \A k \in Locality : Mild(k)
    BY <1>2, <1>6, FreezingIsMild
  <2>2. \A k \in Locality : entry'[k].prep = entry[k].prep
    BY <1>2, <1>4, <1>6, FreezeFacts
  <2>3. Open(l) /\ e.st # {}
    BY <1>2, <1>6, FreezeFacts DEF EntryInv
  <2>4. AnswerTo(m, "freeze", a)
    BY <1>6, <2>3
  <2>5. CASE Awaits(m, "freeze")
    <3>1. reply' = [reply EXCEPT ![m] = {a}] /\ reply'[m] = {a}
      BY <1>4, <2>4, <2>5 DEF AnswerTo, Types
    <3>2. a = Ok(coord[m].from, UNION entry[l].st)
      OBVIOUS
    <3> HIDE DEF a
    <3>3. Tame(m, a) /\ \A k \in Locality, w \in Write : ~Queued(k, w)'
      BY <1>1, <1>4, <1>6, <2>5, <3>1, <3>2, FreezeRunAnswers
    <3>4. TameReplies
      BY <1>4, <3>1, <3>3, <2>5 DEF TameReplies, Awaits, Types
    <3> QED
      BY <1>1, <1>3, <2>1, <2>2, <3>3, <3>4, FreezeLeavesQueue, MildStep
  <2>6. CASE ~Awaits(m, "freeze")
    <3>1. reply' = reply
      BY <2>4, <2>6 DEF AnswerTo
    <3>2. TameReplies /\ \A n \in Migration : Holds(n)' => Holds(n)
      BY <1>3, <3>1 DEF TameReplies, Holds, OkReply
    <3> QED
      BY <1>1, <1>3, <2>1, <2>2, <3>2, FreezeLeavesQueue, MildStep
  <2> QED
    BY <2>5, <2>6
<1>7. CASE /\ CanFreeze(e, m) /\ e.loc = coord[m].from
           /\ entry' = [entry EXCEPT ![l] = Reopened(e)]
           /\ AnswerTo(m, "freeze", Err)
  <2>1. entry'[l] = Reopened(e) /\ \A k \in Locality : k # l => entry'[k] = entry[k]
    BY <1>4, <1>7
  <2>2. \A k \in Locality : entry'[k].prep = entry[k].prep
    BY <1>2, <1>7, <2>1, FreezeFacts
  <2>3. ~Awaiting(m)'
    BY <1>3, <1>4, <1>7 DEF AnswerTo, Awaits, Awaiting, Types
  <2>4. Same(l) \/ Reopens(l)
    <3>1. CASE e.lc = "Resident"
      BY <1>2, <1>7, <2>1, <3>1, FreezeFacts DEF Same
    <3>2. CASE e.lc = "Freezing" /\ e.by = m
      BY <1>2, <1>7, <2>1, <2>3, <3>2, FreezeFacts DEF Reopens
    <3> QED
      BY <1>7, <3>1, <3>2 DEF CanFreeze
  <2>5. \A k \in Locality : Mild(k)
    BY <1>7, <2>2, <2>4, OneEntry DEF Mild
  <2> QED
    BY <1>1, <1>3, <1>5, <1>7, <2>2, <2>5, FreezeLeavesQueue, MildStep
<1>8. CASE UNCHANGED entry /\ (AnswerTo(m, "freeze", Err) \/ UNCHANGED reply)
  <2>1. \A k \in Locality : Mild(k) /\ entry'[k].prep = entry[k].prep
    BY <1>8, NoEntry
  <2>2. TameReplies /\ \A n \in Migration : Holds(n)' => Holds(n)
    <3>1. CASE UNCHANGED reply
      BY <1>3, <3>1 DEF TameReplies, Holds, OkReply
    <3> QED
      BY <1>5, <1>8, <3>1
  <2> QED
    BY <1>1, <1>3, <2>1, <2>2, FreezeLeavesQueue, MildStep
<1> QED
  BY <1>6, <1>7, <1>8 DEF FreezeRun

-----------------------------------------------------------------------------
(* The other steps at their owners that leave the directory alone.          *)

\* A new slot is in nobody's way.
LEMMA PrepareResidence ==
  ASSUME IInv, ResidenceInv, NEW m \in Migration, Prepare(m)
  PROVE  ResidenceInv'
<1>0. PICK l \in Locality : l = Destination(m)
  BY MigrationAssumption DEF IInv, Types, Coordinator, Destination
<1> DEFINE e == entry[l]
           from == coord[m].from
           loc == [place |-> coord[m].dest, epoch |-> from.epoch + 1, by |-> m]
           slot == [by |-> m, loc |-> loc, st |-> coord[m].snapshot]
           old == IF e.lc = "Absent"
                  THEN [AbsentEntry EXCEPT !.lc = "Prepared", !.by = m, !.loc = from] ELSE e
           new == [old EXCEPT !.prep = {slot}]
<1>1. /\ UNCHANGED <<coord, call, running, mailbox>>
      /\ request' = request \ {<<m, "prepare">>} /\ <<m, "prepare">> \in request
  BY DEF Prepare, Take, queueVars
<1>2. CASE AnswerTo(m, "prepare", Err) /\ UNCHANGED <<entry, committed>>
  <2>1. \A k \in Locality : Mild(k)
    BY <1>2, NoEntry
  <2> QED
    BY <1>1, <1>2, <2>1, FailsStep
<1>3. CASE /\ e.prep = {} /\ entry' = [entry EXCEPT ![l] = new]
           /\ AnswerTo(m, "prepare", Ok(loc, {})) /\ UNCHANGED committed
  <2>1. /\ coord[m] \in Coordinator /\ l \in Locality /\ e \in Entry /\ Types /\ Packet(m)
        /\ AbsentEntry \in Entry
    BY MigrationAssumption, BasicTypes DEF IInv, Types, Coordinator, Destination, Packets
  <2>2. At(loc) = l /\ slot.loc = loc /\ slot = PreparedSlot(m, loc) /\ loc.by = m
    BY <1>0 DEF At, Destination, PreparedSlot
  <2>3. loc \notin Known
    <3>1. Unprepared(m)
      BY <1>1 DEF Unprepared
    <3> QED
      BY <2>2, <3>1 DEF IInv, FreshLocations
  <2>4. /\ new.prep = {slot}
        /\ e.lc # "Absent" => new.loc = e.loc /\ new.lc = e.lc /\ new.by = e.by /\ new.st = e.st
        /\ e.lc = "Absent" => new.lc = "Prepared" /\ new.st = {}
    <3>1. AbsentEntry.st = {}
      BY DEF AbsentEntry
    <3> HIDE DEF slot, loc, from, e
    <3> QED
      BY <2>1, <3>1 DEF Entry, Lifecycle
  <2>5. Ok(loc, {}).tag = "ok" /\ Ok(loc, {}).loc = loc /\ Ok(loc, {}) \in Answer
    <3>1. loc \in Location
      BY <2>1 DEF Coordinator, Location
    <3> QED
      BY <3>1, BasicTypes DEF Ok
  <2> HIDE DEF new, old, slot, loc, from
  <2>6. entry'[l] = new /\ entry[l] = e
    BY <1>3, <2>1 DEF Types
  <2>7. Same(l) \/ Closes(l)
    <3> HIDE DEF e
    <3>1. l = Authority => e.lc # "Absent"
      BY <2>6 DEF IInv, Directory
    <3>2. CASE e.lc = "Absent"
      BY <2>4, <2>6, <3>1, <3>2 DEF Closes, Open
    <3>3. CASE e.lc # "Absent"
      BY <2>4, <2>6, <3>3 DEF Same
    <3> QED
      BY <3>2, <3>3
  <2>8. Mild(l)
    BY <1>3, <2>2, <2>3, <2>4, <2>6, <2>7 DEF Mild
  <2>9. \A k \in Locality : Mild(k)
    BY <1>3, <2>1, <2>8, OneEntry
  <2>10. coord[m].pc = "prepare" /\ reply[m] = {} => Tame(m, Ok(loc, {}))
    <3> SUFFICES ASSUME coord[m].pc = "prepare", reply[m] = {} PROVE SlotKept(m)'
      BY <2>5 DEF Tame
    <3>1. reply'[m] = {Ok(loc, {})}
      BY <1>3, <2>1 DEF AnswerTo, Awaits, Types
    <3>2. <<m, "commit">> \notin request' /\ <<m, "activate">> \notin request'
      BY <1>1, <2>1 DEF Packet
    <3>3. coord' = coord /\ Destination(m)' = l /\ coord'[m].pc = "prepare"
      BY <1>0, <1>1 DEF Destination
    <3>4. \A x : x = loc => At(x) = l /\ PreparedSlot(m, x)' = slot
      BY <2>2, <3>3 DEF PreparedSlot
    <3>5. \A r \in reply'[m] : At(r.loc) = l /\ PreparedSlot(m, r.loc)' \in entry'[l].prep
      BY <2>4, <2>5, <2>6, <3>1, <3>4
    <3> QED
      BY <3>2, <3>3, <3>5 DEF SlotKept
  <2>11. TameReplies
    BY <1>3, <2>10, OneReply
  <2>12. \A n \in Migration : reply'[n] = reply[n] \/ coord[n].pc # "freeze" \/ ~OkReply(n)'
    BY <1>3, <2>1, <2>5, AnswerToLemma
  <2> QED
    BY <1>1, <1>3, <2>9, <2>11, <2>12, HandlerResidence
<1> QED
  BY <1>0, <1>2, <1>3 DEF Prepare, Refused

\* A rollback opens what its own migration has closed and does not need.
LEMMA RollbackResidence ==
  ASSUME IInv, ResidenceInv, NEW m \in Migration, NEW step \in Step, Rollback(m, step)
  PROVE  ResidenceInv'
<1> DEFINE l == IF step = "rollbackSource" THEN Source(m) ELSE Destination(m)
           e == entry[l]
           new == IF e.lc = "Absent" THEN e ELSE RolledBack(e, m)
<1>1. /\ UNCHANGED <<coord, committed, call, running, mailbox>> /\ request' \subseteq request
      /\ <<m, step>> \in request /\ step \in {"rollbackSource", "rollbackDestination"}
      /\ AnswerTo(m, step, Ok(coord[m].from, {}))
  BY DEF Rollback, Take, queueVars
<1>2. coord[m] \in Coordinator /\ l \in Locality /\ e \in Entry /\ Types
  BY MigrationAssumption DEF IInv, Types, Coordinator, Destination, Source, At, Location
<1>3. /\ new.loc = e.loc /\ new.st = e.st
      /\ new.prep \subseteq e.prep /\ \A s \in e.prep : s \notin new.prep => s.by = m
      /\ (new.lc = e.lc /\ new.by = e.by) \/ (e.lc = "Freezing" /\ e.by = m /\ new.lc = "Resident")
  <2> HIDE DEF e
  <2> QED
    BY <1>2 DEF RolledBack, Reopened, Entry
<1>4. entry' = [entry EXCEPT ![l] = new]
  BY <1>2 DEF Rollback, Types
<1>5. JobInv(m) /\ PhaseInv(m) /\ MovedInv(m)
  BY DEF ResidenceInv, MigrationInv
<1>6. coord[m].pc \in {"rollbackSource", "rollbackDestination", "rolledBack", "failed"}
  BY <1>1, <1>5 DEF PhaseInv
<1>7. ~Moving(m) /\ ~Holds(m) /\ ~NeedsSlot(m) /\ ~Awaiting(m)'
  BY <1>1, <1>5, <1>6 DEF PhaseInv, Moving, Holds, NeedsSlot, Awaiting
<1> HIDE DEF new, l
<1>8. entry'[l] = new /\ entry[l] = e
  BY <1>2, <1>4 DEF Types
<1>9. Same(l) \/ Reopens(l)
  <2>1. CASE new.lc = e.lc /\ new.by = e.by
    BY <1>3, <1>8, <2>1 DEF Same
  <2>2. CASE e.lc = "Freezing" /\ e.by = m /\ new.lc = "Resident"
    <3>1. e.loc = Current
      BY <1>2, <1>5, <1>7, <1>8, <2>2 DEF MovedInv, Stale
    <3> QED
      BY <1>3, <1>7, <1>8, <2>2, <3>1 DEF Reopens
  <2> QED
    BY <1>3, <2>1, <2>2
<1>10. Mild(l)
  BY <1>3, <1>7, <1>8, <1>9 DEF Mild
<1>11. \A k \in Locality : Mild(k)
  BY <1>2, <1>4, <1>10, OneEntry
<1>12. TameReplies
  BY <1>1, OneReply DEF Tame
<1>13. \A n \in Migration : reply'[n] = reply[n] \/ coord[n].pc # "freeze" \/ ~OkReply(n)'
  <2>1. Ok(coord[m].from, {}) \in Answer
    BY <1>2, BasicTypes DEF Coordinator
  <2> QED
    BY <1>1, <1>2, <2>1, AnswerToLemma
<1> QED
  BY <1>1, <1>11, <1>12, <1>13, HandlerResidence

\* What is retired is an old location, and it is the last one its migration
\* has closed.
LEMMA RetireResidence ==
  ASSUME IInv, ResidenceInv, NEW m \in Migration, Retire(m)
  PROVE  ResidenceInv'
<1>0. PICK l \in Locality : l = Source(m)
  BY MigrationAssumption DEF IInv, Types, Coordinator, Source, At, Location
<1> DEFINE e == entry[l]
           from == coord[m].from
           gone == [e EXCEPT !.lc = "Forwarding", !.by = NoMigration, !.loc = from, !.st = {}]
<1>1. /\ UNCHANGED <<coord, committed, call, running, mailbox>> /\ <<m, "retire">> \in request
      /\ request' \subseteq request /\ <<m, "retire">> \notin request'
      /\ AnswerTo(m, "retire", IF e.lc = "Absent" THEN Err ELSE Ok(from, {}))
  BY <1>0 DEF Retire, Take, queueVars
<1>2. /\ coord[m] \in Coordinator /\ l \in Locality /\ e \in Entry /\ Types /\ from \in Location
      /\ Authority \in Locality /\ e.loc \in Location /\ coord[m].original \in Location /\ Current \in Location
  BY MigrationAssumption, BasicTypes DEF IInv, Types, Coordinator, Source, At, Location, Entry, Current
<1>3. /\ e.loc.epoch \in Nat /\ from.epoch \in Nat /\ coord[m].original.epoch \in Nat
      /\ Current.epoch \in Nat
  BY <1>2 DEF Location
<1>4. PhaseInv(m) /\ MovedInv(m) /\ EntryInv /\ Packet(m)
  BY DEF ResidenceInv, MigrationInv, IInv, Packets
<1>5. /\ coord[m].pc = "retire" /\ ~OkReply(m) /\ Source(m) # Destination(m)
      /\ At(from) = Destination(m) /\ from.epoch = coord[m].original.epoch + 1
  BY <1>1, <1>4 DEF PhaseInv
<1>6. from \in Known /\ from.epoch <= Current.epoch /\ e.loc \in Known
  BY <1>1, <1>2, <1>4 DEF Packet, ToldCommitted, Known, IInv, Directory, Current
<1>7. \A k \in Locality : Stale(k, m) => k = l /\ e.loc = coord[m].original
  BY <1>0, <1>4 DEF EntryInv, MovedInv, Open, Stale, Source
<1>8. CASE e.lc = "Absent"
  <2>1. entry' = [entry EXCEPT ![l] = e] /\ AnswerTo(m, "retire", Err)
    BY <1>0, <1>1, <1>8 DEF Retire
  <2>2. entry' = entry
    BY <1>2, <2>1 DEF Types
  <2>3. \A k \in Locality : Mild(k)
    BY <2>2, NoEntry
  <2> QED
    BY <1>1, <2>1, <2>3, FailsStep
<1>9. CASE e.lc # "Absent"
  <2>0. AnswerTo(m, "retire", Ok(from, {})) /\ entry' = [entry EXCEPT ![l] = Retired(l, e, from)]
    BY <1>0, <1>1, <1>9 DEF Retire
  <2>1. (\A k \in Locality : Mild(k)) /\ \A k \in Locality : ~Stale(k, m)'
    <3>1. CASE e.loc.epoch > from.epoch
      <4>1. entry' = entry
        BY <1>2, <2>0, <3>1 DEF Retired, Types
      <4>2. \A k \in Locality : ~Stale(k, m)
        BY <1>3, <1>5, <1>7, <3>1
      <4> QED
        BY <4>1, <4>2, NoEntry DEF Stale, Current
    <3>2. CASE ~(e.loc.epoch > from.epoch)
      <4>1. /\ gone \in Entry /\ gone.lc = "Forwarding" /\ gone.st = {} /\ gone.prep = e.prep
            /\ gone.loc = from
        <5> HIDE DEF e, from
        <5> QED
          BY <1>2 DEF Entry, Lifecycle
      <4>2. entry' = [entry EXCEPT ![l] = Collect(l, gone)]
        BY <2>0, <3>2 DEF Retired
      <4>3. /\ Collect(l, gone).lc \in {"Forwarding", "Absent"} /\ Collect(l, gone).st = {}
            /\ Collect(l, gone).prep = e.prep
            /\ l = Authority => Collect(l, gone).loc = from
        <5> HIDE DEF gone
        <5>1. CASE Collect(l, gone) = gone
          BY <4>1, <5>1
        <5>2. CASE Collect(l, gone) # gone
          <6>1. Collect(l, gone) = AbsentEntry /\ l # Authority /\ gone.prep = {}
            BY <5>2 DEF Collect
          <6> QED
            BY <4>1, <6>1 DEF AbsentEntry
        <5> QED
          BY <5>1, <5>2
      <4>4. ~(Open(l) /\ e.loc = Current)
        <5> SUFFICES ASSUME Open(l), e.loc = Current PROVE FALSE
          OBVIOUS
        <5>1. from.epoch = e.loc.epoch
          BY <1>3, <1>6, <3>2
        <5>2. from = e.loc /\ At(e.loc) = l
          BY <1>2, <1>4, <1>6, <5>1 DEF IInv, Directory, EntryInv
        <5> QED
          BY <1>0, <1>5, <5>2
      <4>5. l = Authority => from = e.loc
        <5>1. l = Authority => from.epoch = e.loc.epoch
          BY <1>3, <1>6, <3>2 DEF Current
        <5> QED
          BY <1>6, <5>1 DEF IInv, Directory
      <4>6. entry'[l] = Collect(l, gone) /\ \A k \in Locality : k # l => entry'[k] = entry[k]
        BY <1>2, <4>2 DEF Types
      <4> HIDE DEF gone
      <4>7. entry[l] = e
        OBVIOUS
      <4>8. Closes(l) /\ entry'[l].prep = entry[l].prep
        <5>1. ~Open(l)'
          BY <4>3, <4>6 DEF Open
        <5>2. entry'[l].st = {} /\ entry'[l].prep = entry[l].prep
          BY <4>3, <4>6, <4>7
        <5>3. l = Authority => entry'[l].loc = entry[l].loc
          BY <4>3, <4>5, <4>6, <4>7
        <5> QED
          BY <4>4, <4>7, <5>1, <5>2, <5>3 DEF Closes
      <4>9. Mild(l)
        BY <4>8 DEF Mild
      <4>10. \A k \in Locality : Mild(k)
        BY <1>2, <4>2, <4>9, OneEntry
      <4>11. \A k \in Locality : ~Stale(k, m)'
        <5> SUFFICES ASSUME NEW k \in Locality, Stale(k, m)' PROVE FALSE
          OBVIOUS
        <5>1. Stale(k, m)
          BY <4>10, MildFacts
        <5> QED
          BY <1>7, <4>3, <4>6, <5>1 DEF Stale
      <4> QED
        BY <4>10, <4>11
    <3> QED
      BY <3>1, <3>2
  <2>2. TameReplies
    BY <1>1, <2>0, <2>1, OneReply DEF Tame
  <2>3. \A n \in Migration : reply'[n] = reply[n] \/ coord[n].pc # "freeze" \/ ~OkReply(n)'
    <3>1. Ok(from, {}) \in Answer
      BY <1>2, BasicTypes
    <3> HIDE DEF from
    <3> QED
      BY <1>2, <2>0, <3>1, AnswerToLemma
  <2> QED
    BY <1>1, <2>1, <2>2, <2>3, HandlerResidence
<1> QED
  BY <1>8, <1>9

\* What a sweep undoes belongs to migrations that are over.
LEMMA ExpireResidence ==
  ASSUME Orderly, IInv, ResidenceInv, NEW l \in Locality, Expire(l)
  PROVE  ResidenceInv'
<1> DEFINE e == entry[l]
           y == LifecycleExpired(l, e)
<1>1. /\ UNCHANGED <<coord, committed, call, running, mailbox>> /\ request' \subseteq request
      /\ reply' = reply /\ coord' = coord
  BY DEF Expire, queueVars
<1>2. e \in Entry /\ entry \in [Locality -> Entry] /\ EntryInv /\ \A s \in e.prep : s.by \in Migration
  BY DEF IInv, Types, ResidenceInv, Entry, Slot
<1>3. PICK x \in Lapses(l, e) : entry' = [entry EXCEPT ![l] = Collect(l, x)]
  BY DEF Expire
<1>4. x # e => Settled(e.by) /\ \A s \in e.prep : Settled(s.by)
  BY <1>3 DEF Lapses, Orderly
<1>5. x \in {e, y, SlotExpired(e), SlotExpired(y)}
  BY <1>3 DEF Lapses
<1>6. /\ y.loc = e.loc /\ y \in Entry
      /\ e.lc = "Freezing" => y.lc = "Resident" /\ y.st = e.st /\ y.prep = e.prep
      /\ e.lc = "Prepared" => y.lc = "Forwarding" /\ y.st = e.st /\ y.prep = {}
      /\ e.lc = "Forwarding" => y.lc = "Forwarding" /\ (y.st = e.st \/ l # Authority) /\ y.prep = e.prep
      /\ e.lc = "Forwarding" /\ l # Authority => y.st = {}
      /\ e.lc \in {"Absent", "Resident"} => y = e
  <2> HIDE DEF e
  <2>1. CASE e.lc = "Freezing"
    BY <1>2, <2>1 DEF LifecycleExpired, Reopened, Entry, Lifecycle
  <2>2. CASE e.lc = "Prepared"
    BY <1>2, <2>2 DEF LifecycleExpired, Entry, Lifecycle
  <2>3. CASE e.lc = "Forwarding"
    BY <1>2, <2>3 DEF LifecycleExpired, Entry, Lifecycle
  <2>4. CASE e.lc \in {"Absent", "Resident"}
    BY <1>2, <2>4 DEF LifecycleExpired
  <2> QED
    BY <1>2, <2>1, <2>2, <2>3, <2>4 DEF Entry, Lifecycle
<1>7. \A z \in Entry : /\ SlotExpired(z).prep = {} /\ SlotExpired(z).loc = z.loc /\ SlotExpired(z).by = z.by
                       /\ SlotExpired(z).lc = z.lc /\ SlotExpired(z).st = z.st
  BY DEF SlotExpired, Entry
<1>8. /\ x.loc = e.loc /\ x.prep \subseteq e.prep
      /\ \/ x.lc = e.lc /\ x.st = e.st /\ x.by = e.by
         \/ x # e /\ e.lc = "Freezing" /\ x.lc = "Resident" /\ x.st = e.st
         \/ e.lc \in {"Prepared", "Forwarding"} /\ x.lc = "Forwarding" /\ (x.st = e.st \/ x.st = {})
  <2>1. /\ y.loc = e.loc /\ y.prep \subseteq e.prep
        /\ \/ y = e
           \/ e.lc = "Freezing" /\ y.lc = "Resident" /\ y.st = e.st
           \/ e.lc \in {"Prepared", "Forwarding"} /\ y.lc = "Forwarding" /\ (y.st = e.st \/ y.st = {})
    <3> HIDE DEF y, e
    <3> QED
      BY <1>2, <1>6 DEF Entry, Lifecycle
  <2> HIDE DEF y, e
  <2>2. CASE x = e
    BY <2>2
  <2>3. CASE x = y
    BY <2>1, <2>3
  <2>4. CASE x = SlotExpired(e)
    BY <1>2, <1>7, <2>4
  <2>5. CASE x = SlotExpired(y)
    BY <1>6, <1>7, <2>1, <2>5
  <2> QED
    BY <1>5, <2>2, <2>3, <2>4, <2>5
<1>9. \A n \in Migration : Settled(n) => ~Moving(n) /\ ~Holds(n) /\ ~NeedsSlot(n) /\ ~Awaiting(n)'
  BY <1>1 DEF Settled, Outcome, Step, Moving, Holds, NeedsSlot, Awaiting
<1>10. \/ Collect(l, x) = x
       \/ Collect(l, x) = AbsentEntry /\ l # Authority /\ x.lc = "Forwarding" /\ x.prep = {}
  BY DEF Collect
<1>11. AbsentEntry.prep = {} /\ AbsentEntry.st = {} /\ AbsentEntry.lc = "Absent"
  BY DEF AbsentEntry
<1>12. entry'[l] = Collect(l, x)
  BY <1>2, <1>3
<1> HIDE DEF y
<1>13. entry'[l].prep \subseteq e.prep /\ \A s \in e.prep : s \notin entry'[l].prep => ~NeedsSlot(s.by)
  BY <1>2, <1>4, <1>8, <1>9, <1>10, <1>11, <1>12
<1>14. Same(l) \/ Reopens(l) \/ Closes(l)
  <2>1. CASE Collect(l, x) = x /\ x.lc = e.lc /\ x.st = e.st /\ x.by = e.by
    BY <1>8, <1>12, <2>1 DEF Same
  <2>2. CASE Collect(l, x) = x /\ x # e /\ e.lc = "Freezing" /\ x.lc = "Resident" /\ x.st = e.st
    <3>1. e.by \in Migration /\ Settled(e.by)
      BY <1>2, <1>4, <2>2 DEF EntryInv
    <3>2. e.loc = Current
      BY <1>9, <2>2, <3>1 DEF ResidenceInv, MigrationInv, MovedInv, Stale
    <3> QED
      BY <1>8, <1>9, <1>12, <2>2, <3>1, <3>2 DEF Reopens
  <2>3. CASE /\ Collect(l, x) = x /\ e.lc \in {"Prepared", "Forwarding"} /\ x.lc = "Forwarding"
             /\ x.st = e.st \/ x.st = {}
    <3>1. ~Open(l) /\ ~Open(l)' /\ entry'[l].loc = entry[l].loc
      BY <1>8, <1>12, <2>3 DEF Open
    <3>2. l # Authority => entry'[l].st = {}
      BY <1>2, <1>12, <2>3, <3>1 DEF EntryInv
    <3> QED
      BY <3>1, <3>2 DEF Closes
  <2>4. CASE Collect(l, x) = AbsentEntry /\ l # Authority /\ x.lc = "Forwarding"
    <3>1. ~Open(l) /\ ~Open(l)' /\ entry'[l].st = {}
      BY <1>8, <1>11, <1>12, <2>4 DEF Open
    <3> QED
      BY <2>4, <3>1 DEF Closes
  <2> QED
    BY <1>8, <1>10, <2>1, <2>2, <2>3, <2>4
<1>15. Mild(l)
  BY <1>13, <1>14 DEF Mild
<1>16. \A k \in Locality : Mild(k)
  BY <1>3, <1>15, OneEntry
<1> QED
  BY <1>1, <1>16, HandlerResidence DEF TameReplies

-----------------------------------------------------------------------------
(* The writing calls.                                                       *)

\* retry_ready moves a job within its queue.
LEMMA RetryResidence ==
  ASSUME IInv, ResidenceInv, NEW l \in Locality, Retry(l)
  PROVE  ResidenceInv'
<1>1. /\ UNCHANGED <<coord, committed>> /\ call' = call /\ coord' = coord /\ request' = request
      /\ entry' = entry /\ reply' = reply /\ Known' = Known /\ request' \subseteq request /\ Current' = Current
  BY DEF Retry, Known, Current
<1>2. QueueTypes /\ WritesInv /\ AckedInv /\ \A k \in Locality : Mild(k)
  BY <1>1, NoEntry DEF ResidenceInv
<1>3. /\ QueueTypes'
      /\ \A k \in Locality : \A n : Queued(k, n)' <=> Queued(k, n)
      /\ \A k \in Locality : \A n : Single(n) /\ Ordered(k, n) => Ordered(k, n)'
      /\ \A n : Single(n) => Single(n)'
  BY <1>1, <1>2, RetryQueues DEF Retry, QueueTypes
<1>4. WritesInv'
  BY <1>1, <1>2, <1>3 DEF WritesInv, At, Open
<1>5. AckedInv'
  BY <1>1, <1>2 DEF AckedInv, Open
<1>6. ASSUME NEW n \in Migration
      PROVE  /\ Single(n)'
             /\ FreezeJob(n)' => FreezeJob(n)
             /\ Holds(n)' => \A k \in Locality, w \in Write : ~Queued(k, w)'
             /\ \A k \in Locality : Awaiting(n)' /\ Queued(k, n)' => Queued(k, n) /\ Ordered(k, n)'
  <2>1. Single(n) /\ HeldInv(n) /\ AwaitInv(n)
    BY DEF ResidenceInv, MigrationInv, JobInv
  <2>2. FreezeJob(n)' => FreezeJob(n)
    BY <1>1, <1>3 DEF FreezeJob
  <2>3. (Holds(n)' => Holds(n)) /\ (Awaiting(n)' => Awaiting(n))
    BY <1>1 DEF Holds, OkReply, Awaiting
  <2> QED
    BY <1>3, <2>1, <2>2, <2>3 DEF HeldInv, AwaitInv
<1>7. MildQueues
  BY <1>6 DEF MildQueues
<1> QED
  BY <1>1, <1>2, <1>3, <1>4, <1>5, <1>7, MildStep DEF TameReplies

\* A call that has not been admitted changes, or joins the queue of the
\* resident entry it names.
LEMMA CallResidence ==
  ASSUME IInv, ResidenceInv, UNCHANGED <<entry, request, reply, coord, committed>>,
         NEW w \in Write, call[w].pc \in {"new", "sent"},
         call' \in [Write -> Caller], call'[w].to \in Known, call'[w].pc # "acked",
         \A v \in Write : v # w => call'[v] = call[v],
         \/ UNCHANGED queueVars
         \/ \E l \in Locality :
              /\ Admit(l, w) /\ entry[l].lc = "Resident"
              /\ call'[w].to = entry[l].loc /\ call'[w].pc = "queued"
  PROVE  ResidenceInv'
<1>1. /\ coord' = coord /\ committed' = committed /\ reply' = reply /\ entry' = entry /\ request' = request
      /\ Known' = Known /\ request' \subseteq request /\ UNCHANGED <<coord, committed>> /\ Current' = Current
  BY DEF Known, Current
<1>2. QueueTypes /\ WritesInv /\ AckedInv /\ EntryInv /\ \A k \in Locality : Mild(k)
  BY <1>1, NoEntry DEF ResidenceInv
<1>3. TameReplies
  BY <1>1 DEF TameReplies
<1>4. AckedInv'
  BY <1>1, <1>2 DEF AckedInv, Open
<1>5. \A v \in Write : call'[v].to \in Known
  BY <1>2 DEF WritesInv
<1>6. \A k \in Locality : ~Queued(k, w)
  BY <1>2 DEF WritesInv
<1>7. CASE UNCHANGED queueVars
  <2>1. running' = running /\ mailbox' = mailbox
    BY <1>7 DEF queueVars
  <2>2. \A l, j : (Queued(l, j)' <=> Queued(l, j)) /\ (Waits(l, j)' <=> Waits(l, j))
    BY <2>1 DEF Queued, Waits
  <2>3. QueueTypes'
    BY <1>2, <2>1 DEF QueueTypes
  <2>4. WritesInv'
    BY <1>1, <1>2, <1>5, <1>6, <2>2 DEF WritesInv, At, Open
  <2>5. ASSUME NEW n \in Migration
        PROVE  /\ Single(n)'
               /\ FreezeJob(n)' => FreezeJob(n)
               /\ Holds(n)' => \A k \in Locality, v \in Write : ~Queued(k, v)'
               /\ \A k \in Locality : Awaiting(n)' /\ Queued(k, n)' => Queued(k, n) /\ Ordered(k, n)'
    <3>1. Single(n) /\ HeldInv(n) /\ AwaitInv(n)
      BY DEF ResidenceInv, MigrationInv, JobInv
    <3>2. Single(n)' /\ (FreezeJob(n)' => FreezeJob(n))
      BY <1>1, <2>1, <2>2, <3>1 DEF Single, FreezeJob
    <3>3. (Holds(n)' => Holds(n)) /\ (Awaiting(n)' => Awaiting(n))
      BY <1>1 DEF Holds, OkReply, Awaiting
    <3>4. \A k \in Locality : Ordered(k, n) => Ordered(k, n)'
      BY <2>1, <2>2 DEF Ordered
    <3> QED
      BY <2>2, <3>1, <3>2, <3>3, <3>4 DEF HeldInv, AwaitInv
  <2>6. MildQueues
    BY <2>5 DEF MildQueues
  <2> QED
    BY <1>1, <1>2, <1>3, <1>4, <2>3, <2>4, <2>6, MildStep
<1>8. ASSUME NEW l \in Locality, Admit(l, w), entry[l].lc = "Resident",
             call'[w].to = entry[l].loc, call'[w].pc = "queued"
      PROVE  ResidenceInv'
  <2>1. w \in Job
    BY DEF Job
  <2>2. \A k \in Locality : \A n : Queued(k, n)' <=> Queued(k, n) \/ (k = l /\ n = w)
    BY <1>2, <1>8, <2>1, AdmitQueues
  <2>3. QueueTypes' /\ \A n : n # w /\ Single(n) /\ request' \subseteq request => Single(n)'
    BY <1>2, <1>8, <2>1, AdmitQueues DEF QueueTypes
  <2>4. entry[l].loc = Current /\ At(Current) = l /\ Open(l)
    BY <1>2, <1>8 DEF EntryInv, Open
  <2>5. WritesInv'
    <3> SUFFICES ASSUME NEW k \in Locality, NEW v \in Write, Queued(k, v)'
                 PROVE  /\ call'[v].pc \notin {"new", "sent"} /\ call'[v].to = Current /\ At(Current) = k
                        /\ Open(k) /\ entry[k].loc = Current
      BY <1>1, <1>5 DEF WritesInv, At, Open
    <3>1. CASE v = w
      BY <1>6, <1>8, <2>2, <2>4, <3>1
    <3>2. CASE v # w
      BY <1>2, <2>2, <3>2 DEF WritesInv
    <3> QED
      BY <3>1, <3>2
  <2>6. ASSUME NEW n \in Migration
        PROVE  /\ Single(n)'
               /\ FreezeJob(n)' => FreezeJob(n)
               /\ ~Holds(n)'
               /\ \A k \in Locality : Awaiting(n)' /\ Queued(k, n)' => Queued(k, n) /\ Ordered(k, n)'
    <3>1. Single(n) /\ HeldInv(n) /\ AwaitInv(n) /\ n # w
      BY MigrationAssumption DEF ResidenceInv, MigrationInv, JobInv
    <3>2. Single(n)'
      BY <1>1, <2>3, <3>1
    <3>3. FreezeJob(n)' => FreezeJob(n)
      BY <1>1, <2>2, <3>1 DEF FreezeJob
    <3>4. (Holds(n)' => Holds(n)) /\ (Awaiting(n)' => Awaiting(n))
      BY <1>1 DEF Holds, OkReply, Awaiting
    <3>5. ~Holds(n)
      BY <1>8, <2>4, <3>1, HeldCurrent DEF HeldInv
    <3>6. ASSUME NEW k \in Locality, Awaiting(n)', Queued(k, n)' PROVE Queued(k, n) /\ Ordered(k, n)'
      <4>1. Queued(k, n) /\ Awaiting(n)
        BY <2>2, <3>1, <3>4, <3>6
      <4>2. Closed(k, n) /\ Ordered(k, n) /\ k # l
        BY <1>8, <3>1, <4>1 DEF AwaitInv, Closed
      <4> QED
        BY <1>2, <1>8, <2>1, <4>1, <4>2, AdmitQueues
    <3> QED
      BY <3>2, <3>3, <3>4, <3>5, <3>6
  <2>7. MildQueues
    BY <2>6 DEF MildQueues
  <2> QED
    BY <1>1, <1>2, <1>3, <1>4, <2>3, <2>5, <2>7, MildStep
<1> QED
  BY <1>7, <1>8

LEMMA CallStartResidence ==
  ASSUME IInv, ResidenceInv, NEW w \in Write, CallStart(w)
  PROVE  ResidenceInv'
<1>1. PICK to \in Known : call' = [call EXCEPT ![w].pc = "sent", ![w].to = to]
  BY DEF CallStart
<1>2. call \in [Write -> Caller] /\ to \in Location
  BY BasicTypes DEF ResidenceInv, QueueTypes, Known, IInv, Types
<1>3. /\ call' \in [Write -> Caller] /\ call'[w].to = to /\ call'[w].pc = "sent"
      /\ \A v \in Write : v # w => call'[v] = call[v]
  BY <1>1, <1>2 DEF Caller
<1>4. call[w].pc = "new" /\ UNCHANGED <<entry, request, reply, coord, committed>> /\ UNCHANGED queueVars
  BY DEF CallStart, queueVars
<1> QED
  BY <1>3, <1>4, CallResidence

LEMMA CallAdmitResidence ==
  ASSUME IInv, ResidenceInv, NEW w \in Write, CallAdmit(w)
  PROVE  ResidenceInv'
<1> DEFINE l == At(call[w].to)
           e == entry[l]
<1>1. call \in [Write -> Caller] /\ call[w].to \in Known /\ call[w] \in Caller /\ call[w].to \in Location
  BY DEF ResidenceInv, QueueTypes, WritesInv, Caller
<1>2. l \in Locality /\ e.loc \in Known /\ e.loc \in Location
  BY <1>1, BasicTypes, MigrationAssumption DEF At, Location, IInv, Directory, Known, Types
<1>3. call[w].pc = "sent" /\ UNCHANGED <<entry, request, reply, coord, committed>>
  BY DEF CallAdmit
<1>4. \A p \in {"queued", "failed"} : call' = [call EXCEPT ![w].pc = p] =>
        /\ call' \in [Write -> Caller] /\ call'[w].to = call[w].to /\ call'[w].pc = p
        /\ \A v \in Write : v # w => call'[v] = call[v]
  BY <1>1 DEF Caller
<1>5. CASE Admits(e, call[w].to) /\ Admit(l, w) /\ call' = [call EXCEPT ![w].pc = "queued"]
  <2>1. e.lc = "Resident" /\ call[w].to = e.loc
    BY <1>1, <1>2, <1>5 DEF Admits, IInv, Directory
  <2>2. /\ call' \in [Write -> Caller] /\ call'[w].to = call[w].to /\ call'[w].pc = "queued"
        /\ \A v \in Write : v # w => call'[v] = call[v]
    BY <1>4, <1>5
  <2> HIDE DEF l
  <2> QED
    BY <1>1, <1>2, <1>3, <1>5, <2>1, <2>2, CallResidence
<1>6. CASE CallFails(w) /\ UNCHANGED queueVars
  <2>1. /\ call' \in [Write -> Caller] /\ call'[w].to = call[w].to /\ call'[w].pc = "failed"
        /\ \A v \in Write : v # w => call'[v] = call[v]
    BY <1>4, <1>6 DEF CallFails
  <2> QED
    BY <1>1, <1>3, <1>6, <2>1, CallResidence
<1>7. CASE Redirect(w, e.loc) /\ ~CallFails(w) /\ UNCHANGED queueVars
  <2>1. call' = [call EXCEPT ![w].to = e.loc, ![w].redirects = @ + 1]
    BY <1>7 DEF Redirect
  <2> DEFINE q == call[w].redirects + 1
             c == [call[w] EXCEPT !.to = e.loc, !.redirects = q]
  <2>2. q \in Nat
    BY <1>1 DEF Caller
  <2>3. call' = [call EXCEPT ![w] = c]
    BY <1>1, <2>1 DEF Caller
  <2>4. c \in Caller /\ c.to = e.loc /\ c.pc = call[w].pc
    <3> HIDE DEF q, e
    <3> QED
      BY <1>1, <1>2, <2>2 DEF Caller
  <2> HIDE DEF c, q
  <2>5. call' \in [Write -> Caller] /\ call'[w] = c /\ \A v \in Write : v # w => call'[v] = call[v]
    BY <1>1, <2>3, <2>4
  <2> QED
    BY <1>2, <1>3, <1>7, <2>4, <2>5, CallResidence
<1> QED
  BY <1>5, <1>6, <1>7 DEF CallAdmit

\* A write that runs is in the state of the only entry that serves the object.
LEMMA WriteRunResidence ==
  ASSUME IInv, ResidenceInv, NEW l \in Locality, NEW w \in Write, WriteRun(l, w)
  PROVE  ResidenceInv'
<1>1. /\ coord' = coord /\ committed' = committed /\ reply' = reply /\ request' = request
      /\ mailbox' = mailbox /\ Known' = Known /\ Complete(l) /\ w \in running[l] /\ request' \subseteq request
  BY DEF WriteRun, Known
<1>2. QueueTypes /\ WritesInv /\ AckedInv /\ EntryInv /\ DirectoryInv /\ Queued(l, w)
  BY <1>1 DEF ResidenceInv, Queued
<1>3. call[w].to = Current /\ At(Current) = l /\ Open(l) /\ entry[l].loc = Current
  BY <1>2 DEF WritesInv
<1>4. PICK st \in SUBSET Write : entry[l].st = {st}
  BY <1>2, <1>3 DEF EntryInv
<1>5. /\ entry' = [entry EXCEPT ![l].st = {x \cup {w} : x \in @}]
      /\ call' = [call EXCEPT ![w].pc = "acked"]
  BY <1>3, <1>4 DEF WriteRun, Open
<1>6. entry \in [Locality -> Entry] /\ call \in [Write -> Caller]
  BY <1>2 DEF IInv, Types, QueueTypes
<1>7. /\ call' \in [Write -> Caller] /\ call'[w].to = call[w].to /\ call'[w].pc = "acked"
      /\ \A v \in Write : v # w => call'[v] = call[v]
  BY <1>5, <1>6 DEF Caller
<1>8. /\ entry'[l].lc = entry[l].lc /\ entry'[l].by = entry[l].by /\ entry'[l].loc = entry[l].loc
      /\ entry'[l].prep = entry[l].prep /\ entry'[l].st = {st \cup {w}}
      /\ \A k \in Locality : k # l => entry'[k] = entry[k]
  <2>1. entry[l] \in Entry
    BY <1>6
  <2>2. entry' = [entry EXCEPT ![l] = [entry[l] EXCEPT !.st = {x \cup {w} : x \in entry[l].st}]]
    BY <1>5, <1>6
  <2>3. {x \cup {w} : x \in entry[l].st} = {st \cup {w}}
    BY <1>4
  <2>4. entry' = [entry EXCEPT ![l] = [entry[l] EXCEPT !.st = {st \cup {w}}]]
    BY <2>2, <2>3
  <2> QED
    BY <1>6, <2>1, <2>4 DEF Entry
<1>9. /\ Current' = Current
      /\ \A k \in Locality : /\ entry'[k].lc = entry[k].lc /\ entry'[k].by = entry[k].by
                             /\ entry'[k].loc = entry[k].loc /\ entry'[k].prep = entry[k].prep
  BY <1>8, BasicTypes DEF Current
<1>10. \A k \in Locality : Open(k)' <=> Open(k)
  BY <1>9 DEF Open
<1>11. QueueTypes'
  BY <1>1, <1>2, <1>7, CompleteQueues DEF QueueTypes
<1>12. EntryInv'
  <2> SUFFICES ASSUME NEW k \in Locality
               PROVE  /\ Open(k)' => At(entry'[k].loc) = k /\ \E x \in SUBSET Write : entry'[k].st = {x}
                      /\ k # Authority /\ ~Open(k)' => entry'[k].st = {}
                      /\ entry'[k].lc = "Resident" => entry'[k].loc = Current
                      /\ entry'[k].lc = "Freezing" => entry'[k].by \in Migration
                      /\ \A s \in entry'[k].prep : s.loc \in Known => s.loc = Current
    BY <1>1, <1>9 DEF EntryInv, At, Authority
  <2>1. CASE k = l
    <3>1. st \cup {w} \in SUBSET Write
      OBVIOUS
    <3>2. \E x \in SUBSET Write : entry'[k].st = {x}
      BY <1>8, <2>1, <3>1
    <3> QED
      BY <1>2, <1>3, <1>9, <1>10, <2>1, <3>2 DEF EntryInv
  <2>2. CASE k # l
    BY <1>2, <1>8, <1>10, <2>2 DEF EntryInv
  <2> QED
    BY <2>1, <2>2
<1>13. DirectoryInv'
  BY <1>3, <1>9, <1>10 DEF DirectoryInv, At
<1>14. \A k \in Locality : \A n : Queued(k, n)' => Queued(k, n)
  BY <1>1, <1>2, CompleteQueues
<1>15. WritesInv'
  <2>1. \A v \in Write : call'[v].to = call[v].to /\ (call'[v].pc = call[v].pc \/ call'[v].pc = "acked")
    BY <1>7
  <2> QED
    BY <1>1, <1>2, <1>9, <1>10, <1>14, <2>1 DEF WritesInv, At
<1>16. AckedInv'
  <2> SUFFICES ASSUME NEW v \in Write, call'[v].pc = "acked", NEW k \in Locality
               PROVE  /\ Open(k) /\ entry[k].loc = Current => \A x \in entry'[k].st : v \in x
                      /\ \A s \in entry[k].prep : s.loc = Current => v \in s.st
    BY <1>9, <1>10 DEF AckedInv
  <2>1. \A s \in entry[k].prep : s.loc # Current
    BY <1>3 DEF IInv, OpenHasNoSlot, Open
  <2>2. CASE Open(k) /\ entry[k].loc = Current
    <3>1. k = l
      BY <1>2, <1>3, <2>2 DEF EntryInv
    <3>2. v = w \/ v \in st
      BY <1>2, <1>3, <1>4, <1>7 DEF AckedInv
    <3> QED
      BY <1>8, <2>1, <3>1, <3>2
  <2> QED
    BY <2>1, <2>2
<1>17. ASSUME NEW n \in Migration PROVE MigrationInv(n)'
  <2>1. /\ JobInv(n) /\ PhaseInv(n) /\ MovedInv(n) /\ HeldInv(n) /\ SlotKept(n) /\ AwaitInv(n)
    BY DEF ResidenceInv, MigrationInv
  <2>2. OkReply(n)' <=> OkReply(n)
    BY <1>1 DEF OkReply
  <2>3. Source(n)' = Source(n) /\ Destination(n)' = Destination(n) /\ Destination(n) \in Locality
    BY <1>1, MigrationAssumption DEF Source, Destination, At, IInv, Types, Coordinator
  <2>4. JobInv(n)'
    <3>1. FreezeJob(n)' => FreezeJob(n)
      BY <1>1, <1>14 DEF FreezeJob
    <3>2. Single(n)'
      BY <1>1, <1>2, <2>1, CompleteQueues DEF JobInv
    <3> QED
      BY <1>1, <2>1, <3>1, <3>2 DEF JobInv
  <2>5. PhaseInv(n)'
    BY <1>1, <2>1, <2>2, <2>3 DEF PhaseInv, At
  <2>6. MovedInv(n)'
    BY <1>1, <1>9, <2>1, <2>2, <2>3 DEF MovedInv, Stale, Moving
  <2>7. ~Holds(n)'
    BY <1>1, <1>2, <2>1, <2>2 DEF HeldInv, Holds
  <2>8. SlotKept(n)'
    BY <1>1, <1>9, <2>1, <2>2, <2>3 DEF SlotKept, PreparedSlot, At
  <2>9. AwaitInv(n)'
    <3>1. Awaiting(n)' <=> Awaiting(n)
      BY <1>1 DEF Awaiting
    <3>2. \A k \in Locality : Closed(k, n)' <=> Closed(k, n)
      BY <1>1, <1>9 DEF Closed, At
    <3> QED
      BY <1>1, <1>2, <1>14, <2>1, <3>1, <3>2, CompleteQueues DEF AwaitInv
  <2> QED
    BY <2>4, <2>5, <2>6, <2>7, <2>8, <2>9 DEF MigrationInv, HeldInv
<1> QED
  BY <1>11, <1>12, <1>13, <1>15, <1>16, <1>17 DEF ResidenceInv

-----------------------------------------------------------------------------
(* The steps that move the object.                                          *)

\* The commit closes the location that its migration holds, and the slot it
\* points to has the state of it.
LEMMA CommitResidence ==
  ASSUME IInv, ResidenceInv, NEW m \in Migration, Commit(m)
  PROVE  ResidenceInv'
<1> DEFINE e == entry[Authority]
           from == coord[m].from
           new == [e EXCEPT !.lc = "Forwarding", !.by = NoMigration, !.loc = from]
<1>1. /\ UNCHANGED <<coord, call, running, mailbox>> /\ coord' = coord
      /\ request' = request \ {<<m, "commit">>} /\ <<m, "commit">> \in request
  BY DEF Commit, Take, queueVars
<1>2. CASE AnswerTo(m, "commit", Err) /\ UNCHANGED <<entry, committed>>
  <2>1. \A k \in Locality : Mild(k)
    BY <1>2, NoEntry
  <2> QED
    BY <1>1, <1>2, <2>1, FailsStep
<1>3. CASE /\ NextEpoch(e.loc, from) /\ entry' = [entry EXCEPT ![Authority] = new]
           /\ committed' = committed \cup {from} /\ AnswerTo(m, "commit", Ok(from, {}))
  <2>1. /\ coord[m] \in Coordinator /\ Authority \in Locality /\ e \in Entry /\ Types
        /\ from \in Location /\ from.epoch \in Nat /\ coord[m].original \in Location
        /\ e.loc \in Location /\ e.loc.epoch \in Nat /\ \A x \in Known : x.epoch \in Nat
    BY BasicTypes DEF IInv, Types, Coordinator, Location, Entry, Known
  <2>2. /\ EntryInv /\ WritesInv /\ AckedInv /\ QueueTypes
        /\ JobInv(m) /\ PhaseInv(m) /\ MovedInv(m) /\ HeldInv(m) /\ SlotKept(m)
    BY DEF ResidenceInv, MigrationInv
  <2>3. coord[m].pc = "commit" /\ reply[m] = {} /\ Holds(m) /\ ~Moving(m) /\ coord[m].original = Current
    BY <1>1, <2>2, HeldCurrent DEF PhaseInv, Holds
  <2>4. PICK c \in Locality : c = At(Current)
    BY <2>1, MigrationAssumption DEF At, Location, Current
  <2>5. /\ entry[c].lc = "Freezing" /\ entry[c].by = m /\ entry[c].loc = Current
        /\ entry[c].st = {coord[m].snapshot} /\ \A k \in Locality, w \in Write : ~Queued(k, w)
    BY <2>2, <2>3, <2>4 DEF HeldInv
  <2>6. PICK d \in Locality : d = Destination(m)
    BY <2>1, MigrationAssumption DEF Destination, Coordinator
  <2>7. At(from) = d /\ PreparedSlot(m, from) \in entry[d].prep
    BY <1>1, <2>2, <2>3, <2>6 DEF PhaseInv, SlotKept
  <2>8. reply'[m] = {Ok(from, {})} /\ \A n \in Migration : n # m => reply'[n] = reply[n]
    BY <1>3, <2>1, <2>3 DEF AnswerTo, Awaits, Types
  <2>9. OkReply(m)'
    BY <2>8, BasicTypes DEF OkReply
  <2>10. from.epoch = Current.epoch + 1 /\ from \notin Known
    <3>1. from.epoch = e.loc.epoch + 1
      BY <1>3 DEF NextEpoch
    <3>2. \A x \in Known : x.epoch <= e.loc.epoch
      BY DEF IInv, Directory
    <3> QED
      BY <2>1, <3>1, <3>2 DEF Current
  <2>11. Known' = Known \cup {from}
    BY <1>3 DEF Known
  <2>12. new.lc = "Forwarding" /\ new.loc = from /\ new.prep = e.prep
    <3> HIDE DEF e, from
    <3> QED
      BY <2>1 DEF Entry
  <2> HIDE DEF new
  <2>13. entry'[Authority] = new /\ \A k \in Locality : k # Authority => entry'[k] = entry[k]
    BY <1>3, <2>1 DEF Types
  <2>14. Current' = from
    BY <2>12, <2>13 DEF Current, Authority
  <2> HIDE DEF from, e
  <2>15. entry[Authority] = e
    BY DEF e
  <2>16. \A k \in Locality : entry'[k].prep = entry[k].prep
    BY <2>12, <2>13, <2>15
  <2>17. \A k \in Locality : Open(k)' => k # Authority /\ Open(k) /\ entry'[k] = entry[k]
    BY <2>12, <2>13 DEF Open
  <2>18. \A k \in Locality : \A s \in entry[k].prep : s.loc \notin Known
    BY <2>2, <2>5 DEF EntryInv, IInv, OpenHasNoSlot
  <2>19. \A k \in Locality : Open(k) /\ entry[k].loc = Current => k = c
    BY <2>2, <2>4 DEF EntryInv
  <2>20. \A k \in Locality : \A s \in entry[k].prep : s.loc = from => k = d /\ s = PreparedSlot(m, from) /\ s.by = m
    BY <2>6, <2>7 DEF IInv, Slots, PreparedSlot
  <2>21. QueueTypes'
    BY <1>1, <2>2 DEF QueueTypes
  <2>22. EntryInv'
    <3> SUFFICES ASSUME NEW k \in Locality
                 PROVE  /\ Open(k)' => At(entry'[k].loc) = k /\ \E st \in SUBSET Write : entry'[k].st = {st}
                        /\ k # Authority /\ ~Open(k)' => entry'[k].st = {}
                        /\ entry'[k].lc = "Resident" => entry'[k].loc = from
                        /\ entry'[k].lc = "Freezing" => entry'[k].by \in Migration
                        /\ \A s \in entry'[k].prep : s.loc \in Known' => s.loc = from
      BY <2>14 DEF EntryInv, At, Authority
    <3>1. \A s \in entry'[k].prep : s.loc \in Known' => s.loc = from
      BY <2>11, <2>16, <2>18
    <3>2. entry'[k].lc # "Resident"
      <4> SUFFICES ASSUME entry'[k].lc = "Resident" PROVE FALSE
        OBVIOUS
      <4>1. Open(k) /\ entry'[k] = entry[k]
        BY <2>17 DEF Open
      <4>2. entry[k].loc = Current
        BY <2>2, <4>1 DEF EntryInv
      <4> QED
        BY <2>5, <2>19, <4>1, <4>2
    <3>3. k # Authority /\ ~Open(k)' => entry'[k].st = {}
      BY <2>2, <2>13 DEF EntryInv, Open
    <3>4. Open(k)' => At(entry'[k].loc) = k /\ \E st \in SUBSET Write : entry'[k].st = {st}
      BY <2>2, <2>17 DEF EntryInv
    <3>5. entry'[k].lc = "Freezing" => entry'[k].by \in Migration
      BY <2>2, <2>17 DEF EntryInv, Open
    <3> QED
      BY <3>1, <3>2, <3>3, <3>4, <3>5
  <2>23. DirectoryInv'
    <3>1. PreparedSlot(m, from).loc = from /\ PreparedSlot(m, from) \in entry'[d].prep
      BY <2>7, <2>16 DEF PreparedSlot
    <3>2. At(Current)' = d
      BY <2>7, <2>14 DEF At
    <3> QED
      BY <2>14, <3>1, <3>2 DEF DirectoryInv
  <2>24. WritesInv'
    <3>1. \A k \in Locality, w \in Write : ~Queued(k, w)'
      BY <1>1, <2>5 DEF Queued, Waits
    <3> QED
      BY <1>1, <2>2, <2>11, <3>1 DEF WritesInv
  <2>25. AckedInv'
    <3> SUFFICES ASSUME NEW w \in Write, call[w].pc = "acked", NEW k \in Locality
                 PROVE  /\ Open(k)' /\ entry'[k].loc = from => \A st \in entry'[k].st : w \in st
                        /\ \A s \in entry'[k].prep : s.loc = from => w \in s.st
      BY <1>1, <2>14 DEF AckedInv
    <3>1. w \in coord[m].snapshot
      BY <2>2, <2>5 DEF AckedInv, Open
    <3>2. PreparedSlot(m, from).st = coord[m].snapshot
      BY DEF PreparedSlot
    <3>3. Open(k)' => entry'[k].loc # from
      BY <2>10, <2>17 DEF IInv, Directory
    <3> QED
      BY <2>16, <2>20, <3>1, <3>2, <3>3
  <2>26. ASSUME NEW n \in Migration PROVE MigrationInv(n)'
    <3>1. /\ JobInv(n) /\ PhaseInv(n) /\ MovedInv(n) /\ HeldInv(n) /\ SlotKept(n) /\ AwaitInv(n)
      BY DEF ResidenceInv, MigrationInv
    <3>2. Source(n)' = Source(n) /\ Destination(n)' = Destination(n) /\ Destination(n) \in Locality
      BY <1>1, MigrationAssumption DEF Source, Destination, At, IInv, Types, Coordinator
    <3>3. /\ \A l, j : (Queued(l, j)' <=> Queued(l, j)) /\ (Waits(l, j)' <=> Waits(l, j))
          /\ FreezeJob(n)' <=> FreezeJob(n)
          /\ running' = running /\ mailbox' = mailbox
      BY <1>1 DEF FreezeJob, Queued, Waits
    <3>4. Single(n)'
      BY <1>1, <3>1, <3>3 DEF JobInv, Single
    <3>5. JobInv(n)'
      BY <1>1, <2>3, <2>8, <3>1, <3>3, <3>4 DEF JobInv
    <3>6. PhaseInv(n)'
      <4>1. CASE n = m
        BY <1>1, <2>3, <2>8, <3>1, <3>2, <4>1 DEF PhaseInv, At
      <4>2. CASE n # m
        BY <1>1, <2>8, <2>11, <3>1, <3>2, <4>2 DEF PhaseInv, At, OkReply
      <4> QED
        BY <4>1, <4>2
    <3>7. ~Holds(n)'
      <4>1. CASE n = m
        BY <1>1, <2>3, <4>1 DEF Holds
      <4>2. CASE n # m
        <5>1. ~Holds(n)
          BY <2>4, <2>5, <3>1, <4>2, HeldCurrent DEF HeldInv
        <5> QED
          BY <1>1, <2>8, <4>2, <5>1 DEF Holds, OkReply
      <4> QED
        BY <4>1, <4>2
    <3>8. ASSUME NEW k \in Locality, Awaiting(n)', Queued(k, n)' PROVE FALSE
      <4>1. n # m /\ Awaiting(n) /\ Queued(k, n)
        BY <1>1, <2>3, <2>8, <3>3, <3>8 DEF Awaiting
      <4>2. Closed(k, n) /\ entry[k].loc = Current
        BY <3>1, <4>1, HeldCurrent DEF AwaitInv
      <4> QED
        BY <2>5, <2>19, <4>1, <4>2 DEF Closed, Open
    <3>9. MovedInv(n)'
      <4>1. ASSUME NEW k \in Locality, Stale(k, n)'
            PROVE  /\ Moving(n)' /\ coord'[n].original = entry'[k].loc
                   /\ ~(coord'[n].pc = "retire" /\ OkReply(n)')
                   /\ ~(coord'[n].pc = "activate" /\ OkReply(n)' /\ Source(n)' = Destination(n)')
        <5>1. Open(k) /\ entry'[k] = entry[k] /\ entry[k].lc = "Freezing" /\ entry[k].by = n
          BY <2>17, <4>1 DEF Stale, Open
        <5>2. CASE n = m
          <6>1. entry[k].loc = Current
            BY <2>2, <2>3, <5>1, <5>2 DEF MovedInv, Stale
          <6> QED
            BY <1>1, <2>3, <2>9, <5>1, <5>2, <6>1 DEF Moving
        <5>3. CASE n # m
          <6>1. Stale(k, n)
            BY <2>5, <2>19, <5>1, <5>3 DEF Stale
          <6> QED
            BY <1>1, <2>8, <3>1, <3>2, <5>1, <5>3, <6>1 DEF MovedInv, Moving, OkReply
        <5> QED
          BY <5>2, <5>3
      <4>2. ASSUME NEW k \in Locality, NEW s \in entry'[k].prep, s.by = n, s.loc \in Known'
            PROVE  coord'[n].pc = "commit" /\ OkReply(n)'
        <5>1. s.loc = from /\ s \in entry[k].prep
          BY <2>11, <2>16, <2>18, <4>2
        <5> QED
          BY <1>1, <2>3, <2>9, <2>20, <4>2, <5>1
      <4> QED
        BY <4>1, <4>2 DEF MovedInv
    <3>10. SlotKept(n)'
      <4>1. CASE n = m
        <5>1. PreparedSlot(m, from)' \in entry'[d].prep
          BY <1>1, <2>7, <2>16 DEF PreparedSlot, from
        <5> QED
          BY <1>1, <2>3, <2>6, <3>2, <4>1, <5>1 DEF SlotKept, from
      <4>2. CASE n # m
        <5>1. (OkReply(n)' <=> OkReply(n)) /\ \A x : PreparedSlot(n, x)' = PreparedSlot(n, x)
          BY <1>1, <2>8, <4>2 DEF OkReply, PreparedSlot
        <5>2. coord'[n].pc = "prepare" => \A r \in reply'[n] : r.tag = "ok" =>
                At(r.loc) = Destination(n) /\ PreparedSlot(n, r.loc)' \in entry'[Destination(n)].prep
          BY <1>1, <2>8, <2>16, <3>1, <3>2, <4>2, <5>1 DEF SlotKept
        <5>3. \/ <<n, "commit">> \in request' \/ (coord'[n].pc = "commit" /\ OkReply(n)')
              \/ <<n, "activate">> \in request'
              => PreparedSlot(n, coord[n].from) \in entry'[Destination(n)].prep
          BY <1>1, <2>16, <3>1, <3>2, <4>2, <5>1 DEF SlotKept
        <5>4. PreparedSlot(n, coord[n].from)' = PreparedSlot(n, coord[n].from)
          BY <1>1 DEF PreparedSlot
        <5> QED
          BY <3>2, <5>2, <5>3, <5>4 DEF SlotKept, At
      <4> QED
        BY <4>1, <4>2
    <3> QED
      BY <3>5, <3>6, <3>7, <3>8, <3>9, <3>10 DEF MigrationInv, HeldInv, AwaitInv
  <2> QED
    BY <2>21, <2>22, <2>23, <2>24, <2>25, <2>26 DEF ResidenceInv
<1> QED
  BY <1>2, <1>3 DEF Commit, Refused

\* The slot is there, and nobody serves the location it is activated at.
LEMMA ActivateResidence ==
  ASSUME IInv, ResidenceInv, NEW m \in Migration, Activate(m)
  PROVE  ResidenceInv'
<1>0. PICK l \in Locality : l = Destination(m)
  BY MigrationAssumption DEF IInv, Types, Coordinator, Destination
<1> DEFINE e == entry[l]
           taken == [e EXCEPT !.prep = {}]
<1>1. /\ coord' = coord /\ committed' = committed /\ call' = call /\ running' = running /\ mailbox' = mailbox
      /\ request' = request \ {<<m, "activate">>} /\ <<m, "activate">> \in request /\ Known' = Known
  BY DEF Activate, Take, queueVars, Known
<1>2. coord[m] \in Coordinator /\ e \in Entry /\ Types /\ entry \in [Locality -> Entry]
  BY DEF IInv, Types
<1>3. /\ EntryInv /\ WritesInv /\ AckedInv /\ QueueTypes
      /\ JobInv(m) /\ PhaseInv(m) /\ MovedInv(m) /\ SlotKept(m) /\ Packet(m)
  BY DEF ResidenceInv, MigrationInv, IInv, Packets
<1>4. coord[m].pc = "activate" /\ ~OkReply(m) /\ coord[m].from \in Known
  BY <1>1, <1>3 DEF PhaseInv, Packet, ToldCommitted, Known
<1>5. PreparedSlot(m, coord[m].from) \in e.prep
  BY <1>0, <1>1, <1>3 DEF SlotKept
<1>6. PICK s \in e.prep :
        /\ s.by = m /\ s.loc = coord[m].from
        /\ entry' = [entry EXCEPT ![l] =
             [taken EXCEPT !.lc = "Resident", !.by = NoMigration, !.loc = s.loc, !.st = {s.st}]]
        /\ AnswerTo(m, "activate", Ok(coord[m].from, {}))
  <2>1. PreparedSlot(m, coord[m].from).by = m /\ PreparedSlot(m, coord[m].from).loc = coord[m].from
    BY DEF PreparedSlot
  <2> QED
    BY <1>0, <1>5, <2>1 DEF Activate
<1> DEFINE new == [taken EXCEPT !.lc = "Resident", !.by = NoMigration, !.loc = s.loc, !.st = {s.st}]
<1>7. s.st \in SUBSET Write /\ s.loc = Current /\ At(Current) = l /\ \A t \in e.prep : t = s
  BY <1>2, <1>3, <1>4, <1>6 DEF Entry, Slot, EntryInv, IInv, Slots
<1>8. new.lc = "Resident" /\ new.loc = s.loc /\ new.st = {s.st} /\ new.prep = {}
  <2> HIDE DEF e
  <2> QED
    BY <1>2 DEF Entry
<1>9. \A k \in Locality : Open(k) => entry[k].loc # Current
  BY <1>6, <1>7 DEF IInv, OpenHasNoSlot, Open
<1>10. \A n \in Migration : n # m => reply'[n] = reply[n]
  BY <1>2, <1>6 DEF AnswerTo, Types
<1> HIDE DEF new
<1>11. entry'[l] = new /\ \A k \in Locality : k # l => entry'[k] = entry[k]
  BY <1>2, <1>6 DEF new
<1>12. Current' = Current
  <2>1. Authority = l => entry'[Authority].loc = Current
    BY <1>7, <1>8, <1>11
  <2>2. Authority # l => entry'[Authority].loc = Current
    BY <1>11, BasicTypes DEF Current
  <2> QED
    BY <2>1, <2>2 DEF Current, Authority
<1>13. \A k \in Locality, w \in Write : ~Queued(k, w)
  BY <1>3, <1>9 DEF WritesInv
<1>14. \A k, j : (Queued(k, j)' <=> Queued(k, j)) /\ (Waits(k, j)' <=> Waits(k, j))
  BY <1>1 DEF Queued, Waits
<1>15. QueueTypes'
  BY <1>1, <1>3 DEF QueueTypes
<1>16. EntryInv'
  <2> SUFFICES ASSUME NEW k \in Locality
               PROVE  /\ Open(k)' => At(entry'[k].loc) = k /\ \E st \in SUBSET Write : entry'[k].st = {st}
                      /\ k # Authority /\ ~Open(k)' => entry'[k].st = {}
                      /\ entry'[k].lc = "Resident" => entry'[k].loc = Current
                      /\ entry'[k].lc = "Freezing" => entry'[k].by \in Migration
                      /\ \A t \in entry'[k].prep : t.loc \in Known => t.loc = Current
    BY <1>1, <1>12 DEF EntryInv, At, Authority
  <2>1. CASE k = l
    BY <1>7, <1>8, <1>11, <2>1 DEF Open
  <2>2. CASE k # l
    <3>1. entry'[k] = entry[k] /\ (Open(k)' <=> Open(k))
      BY <1>11, <2>2 DEF Open
    <3> QED
      BY <1>3, <3>1 DEF EntryInv
  <2> QED
    BY <2>1, <2>2
<1>17. DirectoryInv'
  <2>1. Open(l)' /\ entry'[l].loc = Current
    BY <1>7, <1>8, <1>11 DEF Open
  <2>2. At(Current)' = l
    BY <1>7, <1>12 DEF At
  <2> QED
    BY <1>12, <2>1, <2>2 DEF DirectoryInv, Open
<1>18. WritesInv'
  BY <1>1, <1>3, <1>13, <1>14 DEF WritesInv
<1>19. AckedInv'
  <2> SUFFICES ASSUME NEW w \in Write, call[w].pc = "acked", NEW k \in Locality
               PROVE  /\ Open(k)' /\ entry'[k].loc = Current => \A st \in entry'[k].st : w \in st
                      /\ \A t \in entry'[k].prep : t.loc = Current => w \in t.st
    BY <1>1, <1>12 DEF AckedInv
  <2>1. CASE k = l
    <3>1. w \in s.st
      BY <1>3, <1>7 DEF AckedInv
    <3> QED
      BY <1>8, <1>11, <2>1, <3>1
  <2>2. CASE k # l
    <3>1. entry'[k] = entry[k] /\ (Open(k)' <=> Open(k))
      BY <1>11, <2>2 DEF Open
    <3> QED
      BY <1>3, <3>1 DEF AckedInv
  <2> QED
    BY <2>1, <2>2
<1>20. ASSUME NEW n \in Migration PROVE MigrationInv(n)'
  <2>1. /\ JobInv(n) /\ PhaseInv(n) /\ MovedInv(n) /\ HeldInv(n) /\ SlotKept(n) /\ AwaitInv(n)
    BY DEF ResidenceInv, MigrationInv
  <2>2. Source(n)' = Source(n) /\ Destination(n)' = Destination(n) /\ Destination(n) \in Locality
    BY <1>1, MigrationAssumption DEF Source, Destination, At, IInv, Types, Coordinator
  <2>3. FreezeJob(n)' <=> FreezeJob(n)
    BY <1>1, <1>14 DEF FreezeJob
  <2>4. Single(n)'
    BY <1>1, <1>14, <2>1 DEF JobInv, Single
  <2>5. coord[n].pc # "activate" => reply'[n] = reply[n] /\ (OkReply(n)' <=> OkReply(n))
    BY <1>4, <1>10 DEF OkReply
  <2>6. JobInv(n)'
    BY <1>1, <2>1, <2>3, <2>4, <2>5 DEF JobInv
  <2>7. PhaseInv(n)'
    <3>1. CASE n = m
      <4>1. \A r, t \in reply'[m] : r = t
        BY <1>2, <1>3, <1>6 DEF AnswerTo, PhaseInv, Types
      <4> QED
        BY <1>1, <1>4, <2>1, <2>2, <3>1, <4>1 DEF PhaseInv, At
    <3>2. CASE n # m
      BY <1>1, <1>10, <2>1, <2>2, <3>2 DEF PhaseInv, At, OkReply
    <3> QED
      BY <3>1, <3>2
  <2>8. ~Holds(n)'
    <3>1. ~Holds(n)
      <4> SUFFICES ASSUME Holds(n) PROVE FALSE
        OBVIOUS
      <4>1. coord[n].original = Current /\ entry[l].lc = "Freezing" /\ entry[l].loc = Current
        BY <1>7, <2>1, HeldCurrent DEF HeldInv
      <4> QED
        BY <1>9, <4>1 DEF Open
    <3> QED
      BY <1>1, <2>5, <3>1 DEF Holds
  <2>9. ASSUME NEW k \in Locality, Awaiting(n)', Queued(k, n)' PROVE FALSE
    <3>1. Awaiting(n) /\ Queued(k, n)
      BY <1>1, <1>14, <2>5, <2>9 DEF Awaiting
    <3>2. Closed(k, n) /\ entry[k].loc = Current
      BY <2>1, <3>1, HeldCurrent DEF AwaitInv
    <3> QED
      BY <1>9, <3>2 DEF Closed, Open
  <2>10. MovedInv(n)'
    <3>1. ASSUME NEW k \in Locality, Stale(k, n)'
          PROVE  /\ Moving(n)' /\ coord'[n].original = entry'[k].loc
                 /\ ~(coord'[n].pc = "retire" /\ OkReply(n)')
                 /\ ~(coord'[n].pc = "activate" /\ OkReply(n)' /\ Source(n)' = Destination(n)')
      <4>1. k # l /\ Stale(k, n) /\ entry'[k] = entry[k]
        BY <1>8, <1>11, <1>12, <3>1 DEF Stale
      <4>2. CASE n = m
        <5>1. coord[m].original = entry[k].loc /\ At(entry[k].loc) = k
          BY <1>3, <4>1, <4>2 DEF MovedInv, EntryInv, Stale, Open
        <5>2. Source(m) # Destination(m)
          BY <1>0, <4>1, <5>1 DEF Source
        <5> QED
          BY <1>1, <1>4, <2>2, <4>1, <4>2, <5>1, <5>2 DEF Moving
      <4>3. CASE n # m
        BY <1>1, <1>10, <2>1, <2>2, <4>1, <4>3 DEF MovedInv, Moving, OkReply
      <4> QED
        BY <4>2, <4>3
    <3>2. ASSUME NEW k \in Locality, NEW t \in entry'[k].prep, t.by = n, t.loc \in Known
          PROVE  (coord'[n].pc = "commit" /\ OkReply(n)') \/ (coord'[n].pc = "activate" /\ ~OkReply(n)')
      <4>1. k # l /\ t \in entry[k].prep
        BY <1>8, <1>11, <3>2
      <4>2. FALSE
        <5>1. t.loc = Current /\ At(t.loc) = k
          BY <1>3, <3>2, <4>1 DEF EntryInv, IInv, Slots
        <5> QED
          BY <1>7, <4>1, <5>1
      <4> QED
        BY <4>2
    <3> QED
      BY <1>1, <3>1, <3>2 DEF MovedInv
  <2>11. SlotKept(n)'
    <3>1. CASE n = m
      <4>1. <<m, "commit">> \notin request' /\ <<m, "activate">> \notin request'
        BY <1>1, <1>3, <1>4 DEF PhaseInv
      <4> QED
        BY <1>1, <1>4, <3>1, <4>1 DEF SlotKept
    <3>2. CASE n # m
      <4>1. (OkReply(n)' <=> OkReply(n)) /\ \A x : PreparedSlot(n, x)' = PreparedSlot(n, x)
        BY <1>1, <1>10, <3>2 DEF OkReply, PreparedSlot
      <4>2. \A x : PreparedSlot(n, x) \in entry[Destination(n)].prep => PreparedSlot(n, x) \in entry'[Destination(n)].prep
        <5>1. \A x : PreparedSlot(n, x).by = n
          BY DEF PreparedSlot
        <5>2. \A x : PreparedSlot(n, x) \in entry[Destination(n)].prep => Destination(n) # l
          BY <1>6, <1>7, <3>2, <5>1
        <5> QED
          BY <1>11, <2>2, <5>2
      <4>3. coord'[n].pc = "prepare" => \A r \in reply'[n] : r.tag = "ok" =>
              At(r.loc) = Destination(n) /\ PreparedSlot(n, r.loc)' \in entry'[Destination(n)].prep
        BY <1>1, <1>10, <2>1, <3>2, <4>1, <4>2 DEF SlotKept
      <4>4. \/ <<n, "commit">> \in request' \/ (coord'[n].pc = "commit" /\ OkReply(n)')
            \/ <<n, "activate">> \in request'
            => PreparedSlot(n, coord[n].from) \in entry'[Destination(n)].prep
        BY <1>1, <2>1, <4>1, <4>2 DEF SlotKept
      <4>5. PreparedSlot(n, coord[n].from)' = PreparedSlot(n, coord[n].from)
        BY <1>1 DEF PreparedSlot
      <4> QED
        BY <2>2, <4>3, <4>4, <4>5 DEF SlotKept, At
    <3> QED
      BY <3>1, <3>2
  <2> QED
    BY <2>6, <2>7, <2>8, <2>9, <2>10, <2>11 DEF MigrationInv, HeldInv, AwaitInv
<1> QED
  BY <1>15, <1>16, <1>17, <1>18, <1>19, <1>20 DEF ResidenceInv

-----------------------------------------------------------------------------
(* The coordinator.                                                         *)

\* What holds of the other migrations, and of the entries, stays.
LEMMA ProceedResidence ==
  ASSUME IInv, ResidenceInv, NEW m \in Migration, NEW c \in Coordinator, Proceed(m, c), MigrationInv(m)'
  PROVE  ResidenceInv'
<1>1. /\ entry' = entry /\ running' = running /\ mailbox' = mailbox /\ call' = call /\ committed' = committed
      /\ Known' = Known /\ Current' = Current
  BY DEF Proceed, queueVars, Known, Current
<1>2. /\ \A n \in Migration : n # m => coord'[n] = coord[n] /\ reply'[n] = reply[n]
      /\ \A n \in Migration : \A s : n # m => (<<n, s>> \in request' <=> <<n, s>> \in request)
  BY DEF IInv, Types, Proceed
<1>3. /\ \A l, j : (Queued(l, j)' <=> Queued(l, j)) /\ (Waits(l, j)' <=> Waits(l, j))
      /\ \A l : Open(l)' <=> Open(l)
  BY <1>1 DEF Queued, Waits, Open
<1>4. QueueTypes'
  BY <1>1 DEF ResidenceInv, QueueTypes
<1>5. EntryInv'
  BY <1>1, <1>3 DEF ResidenceInv, EntryInv, At, Authority
<1>6. DirectoryInv'
  BY <1>1, <1>3 DEF ResidenceInv, DirectoryInv, At, Open
<1>7. WritesInv'
  BY <1>1, <1>3 DEF ResidenceInv, WritesInv, At
<1>8. AckedInv'
  BY <1>1, <1>3 DEF ResidenceInv, AckedInv
<1>9. ASSUME NEW n \in Migration, n # m PROVE MigrationInv(n)'
  <2>1. /\ JobInv(n) /\ PhaseInv(n) /\ MovedInv(n) /\ HeldInv(n) /\ SlotKept(n) /\ AwaitInv(n)
    BY DEF ResidenceInv, MigrationInv
  <2>2. coord'[n] = coord[n] /\ reply'[n] = reply[n] /\ \A s : <<n, s>> \in request' <=> <<n, s>> \in request
    BY <1>2, <1>9
  <2>3. /\ Source(n)' = Source(n) /\ Destination(n)' = Destination(n)
        /\ (OkReply(n)' <=> OkReply(n)) /\ (Awaiting(n)' <=> Awaiting(n))
        /\ \A x : PreparedSlot(n, x)' = PreparedSlot(n, x)
    BY <2>2 DEF Source, Destination, At, OkReply, Awaiting, PreparedSlot
  <2>4. (Holds(n)' <=> Holds(n)) /\ (Moving(n)' <=> Moving(n)) /\ (FreezeJob(n)' <=> FreezeJob(n))
    BY <1>3, <2>2, <2>3 DEF Holds, Moving, FreezeJob
  <2>5. \A l : (Closed(l, n)' <=> Closed(l, n)) /\ (Ordered(l, n)' <=> Ordered(l, n)) /\ (Stale(l, n)' <=> Stale(l, n))
    BY <1>1, <1>3, <2>2 DEF Closed, Ordered, Stale, At
  <2>6. JobInv(n)'
    BY <1>1, <1>3, <2>1, <2>2, <2>4 DEF JobInv, Single
  <2>7. PhaseInv(n)'
    BY <1>1, <2>1, <2>2, <2>3 DEF PhaseInv, At
  <2>8. MovedInv(n)'
    BY <1>1, <2>1, <2>2, <2>3, <2>4, <2>5 DEF MovedInv
  <2>9. HeldInv(n)'
    BY <1>1, <1>3, <2>1, <2>2, <2>4 DEF HeldInv, At
  <2>10. SlotKept(n)'
    <3>1. PreparedSlot(n, coord[n].from)' = PreparedSlot(n, coord[n].from)
      BY <2>2 DEF PreparedSlot
    <3> QED
      BY <1>1, <2>1, <2>2, <2>3, <3>1 DEF SlotKept, At
  <2>11. AwaitInv(n)'
    BY <1>3, <2>1, <2>3, <2>5 DEF AwaitInv
  <2> QED
    BY <2>6, <2>7, <2>8, <2>9, <2>10, <2>11 DEF MigrationInv
<1> QED
  BY <1>4, <1>5, <1>6, <1>7, <1>8, <1>9 DEF ResidenceInv

\* What is new of m when its coordinator has become c.
LEMMA ProceedOwn ==
  ASSUME IInv, ResidenceInv, NEW m \in Migration, NEW c \in Coordinator, Proceed(m, c)
  PROVE  /\ coord'[m] = c /\ reply'[m] = {} /\ entry' = entry /\ Known' = Known /\ ~OkReply(m)'
         /\ running' = running /\ mailbox' = mailbox
         /\ \A s : <<m, s>> \in request' <=> <<m, s>> \in request \/ (s = c.pc /\ s \in Step)
         /\ \A l, j : (Queued(l, j)' <=> Queued(l, j)) /\ (Waits(l, j)' <=> Waits(l, j))
         /\ \A l : Stale(l, m)' <=> Stale(l, m)
         /\ FreezeJob(m)' <=> FreezeJob(m) \/ c.pc = "freeze"
         /\ (<<m, "freeze">> \in request' => \A l \in Locality : ~Queued(l, m)) => Single(m)'
         /\ Packet(m) /\ JobInv(m) /\ PhaseInv(m) /\ MovedInv(m) /\ HeldInv(m) /\ SlotKept(m) /\ AwaitInv(m)
         /\ coord[m] \in Coordinator
<1>1. coord'[m] = c /\ reply'[m] = {} /\ Known' = Known /\ Packet(m) /\ coord[m] \in Coordinator
      /\ \A s : <<m, s>> \in request' <=> <<m, s>> \in request \/ (s = c.pc /\ s \in Step)
  BY ProceedFacts
<1>2. entry' = entry /\ running' = running /\ mailbox' = mailbox
  BY DEF Proceed, queueVars
<1>3. \A l, j : (Queued(l, j)' <=> Queued(l, j)) /\ (Waits(l, j)' <=> Waits(l, j))
  BY <1>2 DEF Queued, Waits
<1>4. \A l : Stale(l, m)' <=> Stale(l, m)
  BY <1>2 DEF Stale, Current, Authority
<1>5. FreezeJob(m)' <=> FreezeJob(m) \/ c.pc = "freeze"
  BY <1>1, <1>3 DEF FreezeJob, Step
<1>6. JobInv(m) /\ PhaseInv(m) /\ MovedInv(m) /\ HeldInv(m) /\ SlotKept(m) /\ AwaitInv(m)
  BY DEF ResidenceInv, MigrationInv
<1>7. (<<m, "freeze">> \in request' => \A l \in Locality : ~Queued(l, m)) => Single(m)'
  BY <1>2, <1>3, <1>6 DEF JobInv, Single
<1>8. ~OkReply(m)'
  BY <1>1 DEF OkReply
<1> QED
  BY <1>1, <1>2, <1>3, <1>4, <1>5, <1>6, <1>7, <1>8

\* A coordinator without an accepted commit rolls back or is finished.
LEMMA LeaveResidence ==
  ASSUME IInv, ResidenceInv, NEW m \in Migration,
         NEW pc \in {"rollbackSource", "rollbackDestination", "rolledBack", "failed"}, NEW both \in BOOLEAN,
         Proceed(m, [coord[m] EXCEPT !.pc = pc, !.both = both]),
         coord[m].pc \notin {"activate", "retire"}, coord[m].pc = "commit" => ~OkReply(m),
         <<m, "commit">> \notin request, FreezeJob(m) => pc = "rolledBack"
  PROVE  ResidenceInv'
<1> DEFINE c == [coord[m] EXCEPT !.pc = pc, !.both = both]
<1>1. c \in Coordinator /\ c.pc = pc
  BY DEF IInv, Types, Coordinator, Step, Outcome
<1>2. Proceed(m, c)
  OBVIOUS
<1> HIDE DEF c
<1>3. /\ coord'[m] = c /\ reply'[m] = {} /\ entry' = entry /\ Known' = Known /\ ~OkReply(m)'
      /\ \A s : <<m, s>> \in request' <=> <<m, s>> \in request \/ (s = c.pc /\ s \in Step)
      /\ \A l : Stale(l, m)' <=> Stale(l, m)
      /\ FreezeJob(m)' <=> FreezeJob(m) \/ c.pc = "freeze"
      /\ (<<m, "freeze">> \in request' => \A l \in Locality : ~Queued(l, m)) => Single(m)'
      /\ JobInv(m) /\ PhaseInv(m) /\ MovedInv(m)
  BY <1>1, <1>2, ProceedOwn
<1>4. \A s \in {"freeze", "commit", "activate", "retire"} : <<m, s>> \in request' => <<m, s>> \in request
  BY <1>1, <1>3
<1>5. <<m, "activate">> \notin request' /\ <<m, "retire">> \notin request' /\ <<m, "commit">> \notin request'
  BY <1>3, <1>4 DEF PhaseInv
<1>6. JobInv(m)'
  BY <1>1, <1>3, <1>4 DEF JobInv, Single
<1>7. PhaseInv(m)'
  BY <1>1, <1>3, <1>5 DEF PhaseInv
<1>8. MovedInv(m)'
  BY <1>1, <1>3 DEF MovedInv, Moving
<1>9. ~Holds(m)' /\ ~Awaiting(m)'
  BY <1>1, <1>3, <1>5 DEF Holds, Awaiting
<1>10. SlotKept(m)'
  BY <1>1, <1>3, <1>5 DEF SlotKept
<1>11. MigrationInv(m)'
  BY <1>6, <1>7, <1>8, <1>9, <1>10 DEF MigrationInv, HeldInv, AwaitInv
<1> QED
  BY <1>1, <1>2, <1>11, ProceedResidence

LEMMA FinishResidence ==
  ASSUME IInv, ResidenceInv, NEW m \in Migration,
         NEW pc \in {"rollbackDestination", "rolledBack", "failed"}, Finish(m, pc),
         coord[m].pc \notin {"activate", "retire"}, coord[m].pc = "commit" => ~OkReply(m),
         <<m, "commit">> \notin request, FreezeJob(m) => pc = "rolledBack"
  PROVE  ResidenceInv'
<1>1. /\ coord[m].both \in BOOLEAN
      /\ [coord[m] EXCEPT !.pc = pc] = [coord[m] EXCEPT !.pc = pc, !.both = coord[m].both]
  BY DEF IInv, Types, Coordinator
<1> QED
  BY <1>1, LeaveResidence DEF Finish

\* A migration that has not begun has nothing to look after.
LEMMA MigrateResidence ==
  ASSUME IInv, ResidenceInv, NEW m \in Migration, Migrate(m)
  PROVE  ResidenceInv'
<1>1. PICK dest \in Place, from \in Known :
        Proceed(m, [coord[m] EXCEPT !.dest = dest, !.from = from, !.original = from,
                                    !.pc = IF from.place = dest THEN "completed" ELSE "freeze"])
  BY DEF Migrate
<1> DEFINE c == [coord[m] EXCEPT !.dest = dest, !.from = from, !.original = from,
                                 !.pc = IF from.place = dest THEN "completed" ELSE "freeze"]
<1>2. c \in Coordinator /\ c.from = from /\ c.pc \in {"completed", "freeze"}
  <2>1. coord[m] \in Coordinator /\ from \in Location
    BY BasicTypes DEF IInv, Types, Known
  <2> QED
    BY <2>1 DEF Coordinator, Step, Outcome
<1>3. Proceed(m, c)
  BY <1>1
<1> HIDE DEF c
<1>4. /\ coord'[m] = c /\ reply'[m] = {} /\ entry' = entry /\ Known' = Known /\ ~OkReply(m)'
      /\ \A s : <<m, s>> \in request' <=> <<m, s>> \in request \/ (s = c.pc /\ s \in Step)
      /\ \A l, j : (Queued(l, j)' <=> Queued(l, j)) /\ (Waits(l, j)' <=> Waits(l, j))
      /\ \A l : Stale(l, m)' <=> Stale(l, m)
      /\ FreezeJob(m)' <=> FreezeJob(m) \/ c.pc = "freeze"
      /\ (<<m, "freeze">> \in request' => \A l \in Locality : ~Queued(l, m)) => Single(m)'
      /\ Packet(m) /\ JobInv(m) /\ MovedInv(m)
  BY <1>2, <1>3, ProceedOwn
<1>5. coord[m].pc = "idle" /\ (\A s \in Step : <<m, s>> \notin request) /\ ~FreezeJob(m)
  BY <1>4 DEF Migrate, Packet, JobInv
<1>6. \A s \in Step : <<m, s>> \in request' => s = "freeze"
  BY <1>2, <1>4, <1>5 DEF Step
<1>7. JobInv(m)'
  BY <1>2, <1>4, <1>5 DEF JobInv, FreezeJob
<1>8. PhaseInv(m)'
  BY <1>2, <1>4, <1>6 DEF PhaseInv, Step
<1>9. MovedInv(m)'
  BY <1>4, <1>5 DEF MovedInv, Moving
<1>10. ~Holds(m)' /\ SlotKept(m)'
  BY <1>2, <1>4, <1>6 DEF Holds, SlotKept, Step
<1>11. AwaitInv(m)'
  BY <1>4, <1>5 DEF AwaitInv, FreezeJob
<1>12. MigrationInv(m)'
  BY <1>7, <1>8, <1>9, <1>10, <1>11 DEF MigrationInv, HeldInv
<1> QED
  BY <1>2, <1>3, <1>12, ProceedResidence

\* The packet takes the state of the frozen object, or follows it.
LEMMA PollFreezeResidence ==
  ASSUME IInv, ResidenceInv, NEW m \in Migration, PollFreeze(m)
  PROVE  ResidenceInv'
<1>1. PICK r \in reply[m] :
        \/ r.tag = "ok" /\ Proceed(m, [coord[m] EXCEPT !.pc = "prepare", !.snapshot = r.st])
        \/ /\ r.tag = "moved"
           /\ Proceed(m, [coord[m] EXCEPT !.from = r.loc, !.original = r.loc, !.redirects = @ + 1])
        \/ Finish(m, "rolledBack")
  BY DEF PollFreeze
<1>2. /\ coord[m] \in Coordinator /\ r \in Answer /\ Packet(m) /\ coord[m].pc = "freeze"
      /\ (\A s \in Step : <<m, s>> \in request => s = "freeze") /\ PhaseInv(m) /\ JobInv(m) /\ HeldInv(m)
  BY DEF IInv, Types, Packets, Packet, PollFreeze, ResidenceInv, MigrationInv
<1>3. \A k \in Locality : \A s \in entry[k].prep : s.by # m
  BY <1>2 DEF IInv, Slots, Unprepared
<1>4. CASE r.tag = "ok" /\ Proceed(m, [coord[m] EXCEPT !.pc = "prepare", !.snapshot = r.st])
  <2> DEFINE c == [coord[m] EXCEPT !.pc = "prepare", !.snapshot = r.st]
  <2>1. c \in Coordinator /\ c.original = coord[m].original /\ c.pc = "prepare" /\ c.snapshot = r.st
    BY <1>2 DEF Coordinator, Step, Answer
  <2>2. Proceed(m, c)
    BY <1>4
  <2> HIDE DEF c
  <2>3. /\ coord'[m] = c /\ reply'[m] = {} /\ entry' = entry /\ Known' = Known /\ ~OkReply(m)'
        /\ \A s : <<m, s>> \in request' <=> <<m, s>> \in request \/ (s = c.pc /\ s \in Step)
        /\ \A l, j : (Queued(l, j)' <=> Queued(l, j)) /\ (Waits(l, j)' <=> Waits(l, j))
        /\ \A l : Stale(l, m)' <=> Stale(l, m)
        /\ FreezeJob(m)' <=> FreezeJob(m) \/ c.pc = "freeze"
        /\ (<<m, "freeze">> \in request' => \A l \in Locality : ~Queued(l, m)) => Single(m)'
        /\ MovedInv(m)
    BY <2>1, <2>2, ProceedOwn
  <2>4. ~FreezeJob(m) /\ Holds(m)
    BY <1>2, <1>4 DEF JobInv, Holds, OkReply
  <2>5. \A s \in Step : <<m, s>> \in request' => s \in {"freeze", "prepare"}
    BY <1>2, <2>1, <2>3
  <2>6. JobInv(m)'
    BY <2>1, <2>3, <2>4 DEF JobInv, FreezeJob
  <2>7. PhaseInv(m)'
    BY <2>1, <2>3, <2>5 DEF PhaseInv, Step
  <2>8. MovedInv(m)'
    BY <1>2, <1>3, <2>3 DEF MovedInv, Moving
  <2>9. HeldInv(m)'
    <3>1. At(coord[m].original) = At(coord[m].original)'
      BY <2>1, <2>3 DEF At
    <3> QED
      BY <1>2, <1>4, <2>1, <2>3, <2>4, <3>1 DEF HeldInv
  <2>10. SlotKept(m)'
    BY <2>1, <2>3, <2>5 DEF SlotKept, Step
  <2>11. ~Awaiting(m)'
    BY <2>1, <2>3 DEF Awaiting
  <2>12. MigrationInv(m)'
    BY <2>6, <2>7, <2>8, <2>9, <2>10, <2>11 DEF MigrationInv, AwaitInv
  <2> QED
    BY <2>1, <2>2, <2>12, ProceedResidence
<1>5. CASE /\ r.tag = "moved"
           /\ Proceed(m, [coord[m] EXCEPT !.from = r.loc, !.original = r.loc, !.redirects = @ + 1])
  <2> DEFINE c == [coord[m] EXCEPT !.from = r.loc, !.original = r.loc, !.redirects = @ + 1]
  <2>1. c \in Coordinator /\ c.pc = "freeze"
    <3>1. coord[m].redirects + 1 \in Nat /\ r.loc \in Location
      BY <1>2 DEF Coordinator, Answer
    <3> DEFINE q == coord[m].redirects + 1
    <3>2. c = [coord[m] EXCEPT !.from = r.loc, !.original = r.loc, !.redirects = q]
      BY <1>2 DEF Coordinator
    <3> HIDE DEF q, c
    <3> QED
      BY <1>2, <3>1, <3>2 DEF Coordinator, q
  <2>2. Proceed(m, c)
    BY <1>5
  <2> HIDE DEF c
  <2>3. /\ coord'[m] = c /\ reply'[m] = {} /\ entry' = entry /\ Known' = Known /\ ~OkReply(m)'
        /\ \A s : <<m, s>> \in request' <=> <<m, s>> \in request \/ (s = c.pc /\ s \in Step)
        /\ \A l, j : (Queued(l, j)' <=> Queued(l, j)) /\ (Waits(l, j)' <=> Waits(l, j))
        /\ \A l : Stale(l, m)' <=> Stale(l, m)
        /\ FreezeJob(m)' <=> FreezeJob(m) \/ c.pc = "freeze"
        /\ (<<m, "freeze">> \in request' => \A l \in Locality : ~Queued(l, m)) => Single(m)'
        /\ MovedInv(m)
    BY <2>1, <2>2, ProceedOwn
  <2>4. ~FreezeJob(m)
    BY <1>2, <1>5 DEF JobInv
  <2>5. \A s \in Step : <<m, s>> \in request' => s = "freeze"
    BY <1>2, <2>1, <2>3
  <2>6. JobInv(m)'
    BY <2>1, <2>3, <2>4 DEF JobInv, FreezeJob
  <2>7. PhaseInv(m)'
    BY <2>1, <2>3, <2>5 DEF PhaseInv, Step
  <2>8. MovedInv(m)'
    BY <1>2, <1>3, <2>3 DEF MovedInv, Moving
  <2>9. ~Holds(m)' /\ SlotKept(m)'
    BY <2>1, <2>3, <2>5 DEF Holds, SlotKept, Step
  <2>10. AwaitInv(m)'
    BY <2>3, <2>4 DEF AwaitInv, FreezeJob
  <2>11. MigrationInv(m)'
    BY <2>6, <2>7, <2>8, <2>9, <2>10 DEF MigrationInv, HeldInv
  <2> QED
    BY <2>1, <2>2, <2>11, ProceedResidence
<1>6. CASE Finish(m, "rolledBack")
  <2>1. <<m, "commit">> \notin request
    BY <1>2 DEF PhaseInv
  <2> QED
    BY <1>2, <1>6, <2>1, FinishResidence
<1> QED
  BY <1>1, <1>4, <1>5, <1>6

\* The commit is asked for with the slot in place and the object still held.
LEMMA PollPrepareResidence ==
  ASSUME IInv, ResidenceInv, NEW m \in Migration, PollPrepare(m)
  PROVE  ResidenceInv'
<1>1. PICK r \in reply[m] :
        \/ r.tag = "ok" /\ Proceed(m, [coord[m] EXCEPT !.pc = "commit", !.from = r.loc])
        \/ StartRollback(m, FALSE)
  BY DEF PollPrepare
<1>2. /\ coord[m] \in Coordinator /\ r \in Answer /\ Packet(m) /\ coord[m].pc = "prepare"
      /\ PhaseInv(m) /\ JobInv(m)
  BY DEF IInv, Types, Packets, PollPrepare, ResidenceInv, MigrationInv
<1>3. CASE r.tag = "ok" /\ Proceed(m, [coord[m] EXCEPT !.pc = "commit", !.from = r.loc])
  <2> DEFINE c == [coord[m] EXCEPT !.pc = "commit", !.from = r.loc]
  <2>1. /\ c \in Coordinator /\ c.from = r.loc /\ c.original = coord[m].original /\ c.pc = "commit"
        /\ c.snapshot = coord[m].snapshot /\ c.dest = coord[m].dest
    BY <1>2 DEF Coordinator, Step, Answer
  <2>2. Proceed(m, c)
    BY <1>3
  <2> HIDE DEF c
  <2>3. /\ coord'[m] = c /\ reply'[m] = {} /\ entry' = entry /\ Known' = Known /\ ~OkReply(m)'
        /\ \A s : <<m, s>> \in request' <=> <<m, s>> \in request \/ (s = c.pc /\ s \in Step)
        /\ \A l, j : (Queued(l, j)' <=> Queued(l, j)) /\ (Waits(l, j)' <=> Waits(l, j))
        /\ \A l : Stale(l, m)' <=> Stale(l, m)
        /\ FreezeJob(m)' <=> FreezeJob(m) \/ c.pc = "freeze"
        /\ (<<m, "freeze">> \in request' => \A l \in Locality : ~Queued(l, m)) => Single(m)'
        /\ MovedInv(m) /\ HeldInv(m) /\ SlotKept(m)
    BY <2>1, <2>2, ProceedOwn
  <2>4. ~FreezeJob(m) /\ Holds(m)
    BY <1>2 DEF JobInv, Holds
  <2>5. r.loc.epoch = coord[m].original.epoch + 1
    BY <1>2, <1>3 DEF Packet
  <2>6. At(r.loc) = Destination(m) /\ PreparedSlot(m, r.loc) \in entry[Destination(m)].prep
    BY <1>2, <1>3, <2>3 DEF SlotKept
  <2>7. Destination(m)' = Destination(m)
    BY <2>1, <2>3 DEF Destination
  <2>8. PreparedSlot(m, coord[m].from)' = PreparedSlot(m, r.loc)
    BY <2>1, <2>3 DEF PreparedSlot
  <2>9. <<m, "activate">> \notin request' /\ <<m, "retire">> \notin request'
        /\ <<m, "rollbackSource">> \notin request' /\ <<m, "rollbackDestination">> \notin request'
    BY <1>2, <2>1, <2>3 DEF PhaseInv
  <2>10. JobInv(m)'
    BY <2>1, <2>3, <2>4 DEF JobInv, FreezeJob
  <2>11. PhaseInv(m)'
    <3>1. At(coord[m].from)' = Destination(m)'
      BY <2>1, <2>3, <2>6, <2>7 DEF At
    <3> QED
      BY <2>1, <2>3, <2>5, <2>9, <3>1 DEF PhaseInv
  <2>12. MovedInv(m)'
    BY <1>2, <2>3 DEF MovedInv, Moving
  <2>13. HeldInv(m)'
    <3>1. At(coord[m].original) = At(coord[m].original)'
      BY <2>1, <2>3 DEF At
    <3> QED
      BY <1>2, <2>1, <2>3, <2>4, <3>1 DEF HeldInv
  <2>14. SlotKept(m)'
    BY <2>1, <2>3, <2>6, <2>7, <2>8 DEF SlotKept
  <2>15. ~Awaiting(m)'
    BY <2>1, <2>3 DEF Awaiting
  <2>16. MigrationInv(m)'
    BY <2>10, <2>11, <2>12, <2>13, <2>14, <2>15 DEF MigrationInv, AwaitInv
  <2> QED
    BY <2>1, <2>2, <2>16, ProceedResidence
<1>4. CASE StartRollback(m, FALSE)
  <2>1. <<m, "commit">> \notin request /\ ~FreezeJob(m)
    BY <1>2 DEF PhaseInv, JobInv
  <2> QED
    BY <1>2, <1>4, <2>1, LeaveResidence DEF StartRollback
<1> QED
  BY <1>1, <1>3, <1>4

\* A coordinator goes on after its commit, or is done with it.
LEMMA CommittedResidence ==
  ASSUME IInv, ResidenceInv, NEW m \in Migration, NEW pc \in {"activate", "retire", "completed"},
         Proceed(m, [coord[m] EXCEPT !.pc = pc]), OkReply(m),
         \/ coord[m].pc = "commit" /\ pc = "activate"
         \/ coord[m].pc = "activate" /\ Source(m) # Destination(m) /\ pc = "retire"
         \/ coord[m].pc = "activate" /\ Source(m) = Destination(m) /\ pc = "completed"
         \/ coord[m].pc = "retire" /\ pc = "completed"
  PROVE  ResidenceInv'
<1> DEFINE c == [coord[m] EXCEPT !.pc = pc]
<1>1. /\ c \in Coordinator /\ c.from = coord[m].from /\ c.original = coord[m].original /\ c.pc = pc
      /\ c.dest = coord[m].dest /\ c.snapshot = coord[m].snapshot
  BY DEF IInv, Types, Coordinator, Step, Outcome
<1>2. Proceed(m, c)
  OBVIOUS
<1> HIDE DEF c
<1>3. /\ coord'[m] = c /\ reply'[m] = {} /\ entry' = entry /\ Known' = Known /\ ~OkReply(m)'
      /\ \A s : <<m, s>> \in request' <=> <<m, s>> \in request \/ (s = c.pc /\ s \in Step)
      /\ \A l : Stale(l, m)' <=> Stale(l, m)
      /\ FreezeJob(m)' <=> FreezeJob(m) \/ c.pc = "freeze"
      /\ (<<m, "freeze">> \in request' => \A l \in Locality : ~Queued(l, m)) => Single(m)'
      /\ Packet(m) /\ JobInv(m) /\ PhaseInv(m) /\ MovedInv(m) /\ SlotKept(m)
  BY <1>1, <1>2, ProceedOwn
<1>4. /\ ~FreezeJob(m) /\ <<m, "commit">> \notin request /\ <<m, "activate">> \notin request
      /\ <<m, "retire">> \notin request /\ <<m, "rollbackSource">> \notin request
      /\ <<m, "rollbackDestination">> \notin request /\ coord[m].from \in Known
  BY <1>3 DEF JobInv, PhaseInv, OkReply, Packet, ToldCommitted, Known
<1>5. Source(m)' = Source(m) /\ Destination(m)' = Destination(m) /\ At(coord[m].from)' = At(coord[m].from)
      /\ PreparedSlot(m, coord[m].from)' = PreparedSlot(m, coord[m].from)
  BY <1>1, <1>3 DEF Source, Destination, At, PreparedSlot
<1>6. /\ \A s \in {"commit", "rollbackSource", "rollbackDestination", "freeze"} : <<m, s>> \notin request'
      /\ <<m, "activate">> \in request' => c.pc = "activate"
      /\ <<m, "retire">> \in request' => c.pc = "retire"
  BY <1>1, <1>3, <1>4 DEF FreezeJob
<1>7. JobInv(m)'
  BY <1>1, <1>3, <1>4, <1>6 DEF JobInv, FreezeJob
<1>8. PhaseInv(m)'
  BY <1>1, <1>3, <1>4, <1>5, <1>6 DEF PhaseInv
<1>9. MovedInv(m)'
  BY <1>1, <1>3, <1>5 DEF MovedInv, Moving
<1>10. ~Holds(m)' /\ ~Awaiting(m)'
  BY <1>1, <1>3, <1>6 DEF Holds, Awaiting
<1>11. SlotKept(m)'
  BY <1>1, <1>3, <1>5, <1>6 DEF SlotKept
<1>12. MigrationInv(m)'
  BY <1>7, <1>8, <1>9, <1>10, <1>11 DEF MigrationInv, HeldInv, AwaitInv
<1> QED
  BY <1>1, <1>2, <1>12, ProceedResidence

\* The polls of a commit and of what follows it.
LEMMA PollCommitResidence ==
  ASSUME IInv, ResidenceInv, NEW m \in Migration, PollCommit(m)
  PROVE  ResidenceInv'
<1>1. PICK r \in reply[m] :
        \/ r.tag = "ok" /\ Proceed(m, [coord[m] EXCEPT !.pc = "activate"])
        \/ r.tag # "ok" /\ StartRollback(m, TRUE)
  BY DEF PollCommit
<1>2. coord[m].pc = "commit" /\ PhaseInv(m) /\ JobInv(m)
  BY DEF PollCommit, ResidenceInv, MigrationInv
<1>3. CASE r.tag = "ok" /\ Proceed(m, [coord[m] EXCEPT !.pc = "activate"])
  BY <1>2, <1>3, CommittedResidence DEF OkReply
<1>4. CASE r.tag # "ok" /\ StartRollback(m, TRUE)
  <2>1. ~OkReply(m) /\ <<m, "commit">> \notin request /\ ~FreezeJob(m)
    BY <1>2, <1>4 DEF OkReply, PhaseInv, JobInv
  <2> QED
    BY <1>2, <1>4, <2>1, LeaveResidence DEF StartRollback
<1> QED
  BY <1>1, <1>3, <1>4

LEMMA PollActivateResidence ==
  ASSUME IInv, ResidenceInv, NEW m \in Migration, PollActivate(m) \/ PollRetire(m), ~GivenUp'
  PROVE  ResidenceInv'
<1>1. ASSUME NEW pc, Proceed(m, [coord[m] EXCEPT !.pc = pc]) PROVE pc # "committedFailure"
  <2>1. coord'[m].pc = pc
    BY <1>1 DEF Proceed, IInv, Types, Coordinator
  <2> QED
    BY <2>1 DEF GivenUp
<1>2. CASE PollActivate(m)
  <2>1. PICK r \in reply[m] : Proceed(m, [coord[m] EXCEPT !.pc = IF r.tag = "ok" THEN AfterActivate(m)
                                                                                 ELSE "committedFailure"])
    BY <1>2 DEF PollActivate
  <2>2. r.tag = "ok" /\ coord[m].pc = "activate"
    BY <1>1, <1>2, <2>1 DEF PollActivate
  <2>3. Proceed(m, [coord[m] EXCEPT !.pc = AfterActivate(m)]) /\ OkReply(m)
    BY <2>1, <2>2 DEF OkReply
  <2> QED
    BY <2>2, <2>3, CommittedResidence DEF AfterActivate
<1>3. CASE PollRetire(m)
  <2>1. PICK r \in reply[m] : Proceed(m, [coord[m] EXCEPT !.pc = IF r.tag = "ok" THEN "completed"
                                                                                 ELSE "committedFailure"])
    BY <1>3 DEF PollRetire, Finish
  <2>2. r.tag = "ok" /\ coord[m].pc = "retire"
    BY <1>1, <1>3, <2>1 DEF PollRetire
  <2>3. Proceed(m, [coord[m] EXCEPT !.pc = "completed"]) /\ OkReply(m)
    BY <2>1, <2>2 DEF OkReply
  <2> QED
    BY <2>2, <2>3, CommittedResidence
<1> QED
  BY <1>2, <1>3

\* The rollbacks, and a future that is dropped before its commit.
LEMMA PollOtherResidence ==
  ASSUME Orderly, IInv, ResidenceInv, NEW m \in Migration, PollRollback(m) \/ DropFuture(m), ~GivenUp'
  PROVE  ResidenceInv'
<1>1. PhaseInv(m) /\ JobInv(m)
  BY DEF ResidenceInv, MigrationInv
<1>2. CASE PollRollback(m)
  <2>1. coord[m].pc \in {"rollbackSource", "rollbackDestination"}
    BY <1>2 DEF PollRollback
  <2>2. PICK pc \in {"rollbackDestination", "rolledBack", "failed"} : Finish(m, pc)
    BY <1>2 DEF PollRollback
  <2>3. <<m, "commit">> \notin request /\ ~FreezeJob(m)
    BY <1>1, <2>1 DEF PhaseInv, JobInv
  <2> QED
    BY <2>1, <2>2, <2>3, FinishResidence
<1>3. CASE DropFuture(m)
  <2>1. coord[m].pc # "commit" /\ <<m, "commit">> \notin request
    BY <1>1, <1>3 DEF DropFuture, Orderly, PhaseInv
  <2>2. coord[m].pc \notin {"activate", "retire"}
    <3> SUFFICES ASSUME coord[m].pc \in {"activate", "retire"} PROVE FALSE
      OBVIOUS
    <3>1. Proceed(m, [coord[m] EXCEPT !.pc = "committedFailure"])
      BY <1>3 DEF DropFuture, Finish
    <3>2. coord'[m].pc = "committedFailure"
      BY <3>1 DEF Proceed, IInv, Types, Coordinator
    <3> QED
      BY <3>2 DEF GivenUp
  <2>3. Finish(m, "rolledBack")
    BY <1>3, <2>2 DEF DropFuture
  <2> QED
    BY <2>1, <2>2, <2>3, FinishResidence
<1> QED
  BY <1>2, <1>3

-----------------------------------------------------------------------------
(* The behaviours.                                                          *)

\* The object starts Resident at its authority, with nothing under way.
LEMMA InitResidence == Init => ResidenceInv
<1> SUFFICES ASSUME Init PROVE ResidenceInv
  OBVIOUS
<1>1. /\ Known = {Origin} /\ request = {} /\ Origin.place = Birth
      /\ Authority \in Locality /\ Origin \in Location
  BY BasicTypes DEF Init, Known, Origin
<1>2. \A l \in Locality : /\ entry[l].loc = Origin /\ entry[l].prep = {}
                          /\ l = Authority => entry[l].lc = "Resident" /\ entry[l].st = {{}}
                          /\ l # Authority => entry[l].lc = "Absent" /\ entry[l].st = {}
  <2> DEFINE first == [AbsentEntry EXCEPT !.lc = "Resident", !.st = {{}}]
  <2>1. first.loc = Origin /\ first.prep = {} /\ first.lc = "Resident" /\ first.st = {{}}
    BY DEF AbsentEntry
  <2>2. AbsentEntry.loc = Origin /\ AbsentEntry.prep = {} /\ AbsentEntry.lc = "Absent" /\ AbsentEntry.st = {}
    BY DEF AbsentEntry
  <2>3. \A l \in Locality : entry[l] = IF l = Authority THEN first ELSE AbsentEntry
    BY DEF Init
  <2> HIDE DEF first
  <2> QED
    BY <2>1, <2>2, <2>3
<1>3. \A m \in Migration : coord[m].pc = "idle" /\ reply[m] = {}
  BY DEF Init
<1>4. \A l \in Locality : running[l] = {} /\ mailbox[l] = << >> /\ \A j : ~Queued(l, j)
  BY DEF Init, Queued, Waits
<1>5. \A w \in Write : call[w].pc = "new" /\ call[w].to = Origin
  BY DEF Init
<1>6. Current = Origin /\ At(Current) = Authority
  BY <1>1, <1>2 DEF Current, At, Authority
<1>7. QueueTypes
  <2>1. running \in [Locality -> SUBSET Job] /\ mailbox \in [Locality -> Seq(Job)]
    BY DEF Init
  <2>2. call \in [Write -> Caller]
    BY <1>1 DEF Init, Caller
  <2> QED
    BY <1>4, <2>1, <2>2 DEF QueueTypes
<1>8. EntryInv
  BY <1>1, <1>2, <1>6 DEF EntryInv, Open
<1>9. DirectoryInv
  BY <1>1, <1>2, <1>6 DEF DirectoryInv, Open
<1>10. WritesInv /\ AckedInv
  BY <1>1, <1>4, <1>5 DEF WritesInv, AckedInv
<1>11. ASSUME NEW m \in Migration PROVE MigrationInv(m)
  <2>1. ~FreezeJob(m) /\ Single(m)
    BY <1>1, <1>4 DEF FreezeJob, Single
  <2>2. JobInv(m)
    BY <2>1 DEF JobInv
  <2>3. PhaseInv(m)
    BY <1>1, <1>3 DEF PhaseInv
  <2>4. MovedInv(m)
    BY <1>2, <1>6 DEF MovedInv, Stale
  <2>5. HeldInv(m) /\ SlotKept(m) /\ AwaitInv(m)
    BY <1>1, <1>3 DEF HeldInv, Holds, SlotKept, AwaitInv, Awaiting
  <2> QED
    BY <2>2, <2>3, <2>4, <2>5 DEF MigrationInv
<1> QED
  BY <1>7, <1>8, <1>9, <1>10, <1>11 DEF ResidenceInv

\* A migration that was given up stays so.
LEMMA GivenUpStays == ASSUME IInv, GivenUp, [Next]_vars PROVE GivenUp'
<1>1. PICK n \in Migration : coord[n].pc = "committedFailure"
  BY DEF GivenUp
<1> SUFFICES coord'[n] = coord[n]
  BY <1>1 DEF GivenUp
<1>2. ASSUME NEW m \in Migration, coord[m].pc # "committedFailure", NEW c, Proceed(m, c)
      PROVE  coord'[n] = coord[n]
  BY <1>1, <1>2 DEF Proceed, IInv, Types
<1>3. ASSUME NEW m \in Migration, Migrate(m) PROVE coord'[n] = coord[n]
  BY <1>2, <1>3 DEF Migrate
<1>4. ASSUME NEW m \in Migration, PollAction(m) PROVE coord'[n] = coord[n]
  <2>1. CASE PollFreeze(m)
    BY <1>2, <2>1 DEF PollFreeze, Finish
  <2>2. CASE PollPrepare(m)
    BY <1>2, <2>2 DEF PollPrepare, StartRollback
  <2>3. CASE PollCommit(m)
    BY <1>2, <2>3 DEF PollCommit, StartRollback
  <2>4. CASE PollActivate(m) \/ PollRetire(m) \/ PollRollback(m)
    BY <1>2, <2>4 DEF PollActivate, PollRetire, PollRollback, Finish
  <2> QED
    BY <1>4, <2>1, <2>2, <2>3, <2>4 DEF PollAction
<1>5. ASSUME NEW m \in Migration, DropFuture(m) PROVE coord'[n] = coord[n]
  <2>1. coord[m].pc # "committedFailure"
    BY <1>5, MigrationAssumption DEF DropFuture, Step
  <2> QED
    BY <1>2, <1>5, <2>1 DEF DropFuture, Finish
<1>6. ASSUME NEW m \in Migration, StepAction(m) PROVE coord'[n] = coord[n]
  BY <1>6 DEF StepAction, FreezeAdmit, FreezeRun, Prepare, Commit, Activate, Rollback, Retire
<1>7. ASSUME NEW m \in Migration, Timeout(m) \/ \E step \in Step : Cancelled(m, step)
      PROVE  coord'[n] = coord[n]
  BY <1>7 DEF Timeout, Cancelled
<1>8. ASSUME NEW w \in Write, CallStart(w) \/ CallAction(w) PROVE coord'[n] = coord[n]
  BY <1>8 DEF CallStart, CallAction, CallAdmit, WriteRun
<1>9. ASSUME NEW l \in Locality, Retry(l) \/ Expire(l) PROVE coord'[n] = coord[n]
  BY <1>9 DEF Retry, Expire
<1>10. CASE UNCHANGED vars
  BY <1>10 DEF vars
<1> QED
  BY <1>3, <1>4, <1>5, <1>6, <1>7, <1>8, <1>9, <1>10 DEF Next

\* Every step preserves the invariant, unless it gives a migration up.
LEMMA NextResidence ==
  ASSUME Orderly, IInv, ResidenceInv, [Next]_vars, ~GivenUp'
  PROVE  ResidenceInv'
<1>0. IInv'
  BY NextIInv
<1>1. ASSUME NEW m \in Migration, StepAction(m) PROVE ResidenceInv'
  BY <1>0, <1>1, FreezeAdmitResidence, FreezeRunResidence, PrepareResidence, CommitResidence,
     ActivateResidence, RollbackResidence, RetireResidence DEF StepAction
<1>2. ASSUME NEW m \in Migration, PollAction(m) PROVE ResidenceInv'
  BY <1>2, PollFreezeResidence, PollPrepareResidence, PollCommitResidence, PollActivateResidence,
     PollOtherResidence DEF PollAction
<1>3. ASSUME NEW m \in Migration, Migrate(m) \/ Timeout(m) \/ DropFuture(m) PROVE ResidenceInv'
  BY <1>3, MigrateResidence, TimeoutResidence, PollOtherResidence
<1>4. ASSUME NEW m \in Migration, NEW step \in Step, Cancelled(m, step) PROVE ResidenceInv'
  BY <1>4, CancelledResidence
<1>5. ASSUME NEW w \in Write, CallStart(w) \/ CallAction(w) PROVE ResidenceInv'
  BY <1>5, CallStartResidence, CallAdmitResidence, WriteRunResidence DEF CallAction
<1>6. ASSUME NEW l \in Locality, Retry(l) \/ Expire(l) PROVE ResidenceInv'
  BY <1>6, RetryResidence, ExpireResidence
<1>7. CASE UNCHANGED vars
  <2>1. /\ UNCHANGED <<coord, committed, call, running, mailbox>> /\ entry' = entry
        /\ request' = request /\ reply' = reply
    BY <1>7 DEF vars
  <2>2. \A l \in Locality : Mild(l)
    BY <2>1 DEF Mild, Same
  <2>3. TameReplies
    BY <2>1 DEF TameReplies
  <2> QED
    BY <2>1, <2>2, <2>3, HandlerResidence
<1> QED
  BY <1>1, <1>2, <1>3, <1>4, <1>5, <1>6, <1>7 DEF Next

Kept == GivenUp \/ ResidenceInv

\* The invariant of every behaviour.
LEMMA ResidenceKept == ASSUME Orderly PROVE Spec => [](IInv /\ Kept)
<1>1. Init => IInv /\ Kept
  BY InitIInv, InitResidence DEF Kept
<1>2. IInv /\ Kept /\ [Next]_vars => (IInv /\ Kept)'
  BY NextIInv, NextResidence, GivenUpStays DEF Kept
<1> QED
  BY <1>1, <1>2, PTL DEF Spec

\* Two localities never serve the object at the same time, whatever order the
\* freezes, rollbacks, commits and expiries of any number of migrations come in:
\* the freeze of the one that commits has closed the only location that served.
THEOREM ObjectHasOneHome == ASSUME Orderly PROVE Spec => []OneResident
<1>1. IInv /\ Kept => OneResident
  BY Consequences DEF Kept, OneResident
<1> QED
  BY <1>1, ResidenceKept, PTL

\* No acknowledged write is lost by a move: freeze_migration runs after the
\* writes that were admitted before it, and none is admitted behind it, so the
\* snapshot in the packet has them all when commit_migration is reached.
THEOREM WritesSurviveMoves == ASSUME Orderly PROVE Spec => []AckedWritesSurvive
<1>1. IInv /\ Kept => AckedWritesSurvive
  BY Consequences DEF Kept, AckedWritesSurvive
<1> QED
  BY <1>1, ResidenceKept, PTL

\* The location the authority answers with is that of an entry that holds the
\* state, or of the slot that activate_migration will open: neither a rollback
\* nor an expiry takes it away.
THEOREM DirectoryHasState == ASSUME Orderly PROVE Spec => []DirectoryPointsToState
<1>1. IInv /\ Kept => DirectoryPointsToState
  BY Consequences DEF Kept, DirectoryPointsToState
<1> QED
  BY <1>1, ResidenceKept, PTL

\* When MigrationFuture reports the new location, no older copy serves a stale
\* caller and none may be opened again by a rollback or an expiry.
THEOREM ReportedMovesAreFinal == ASSUME Orderly PROVE Spec => []ReportedMoveIsFinal
<1>1. IInv /\ Kept => ReportedMoveIsFinal
  BY Consequences DEF Kept, ReportedMoveIsFinal
<1> QED
  BY <1>1, ResidenceKept, PTL
=============================================================================
