----------------------- MODULE ObjectLifetimeProofs -----------------------
(***************************************************************************)
(* Proofs about ObjectLifetime, for every set of localities and objects,   *)
(* every limit and every time to live:                                     *)
(*   - the transfer counter is off by the pins given back twice and by     *)
(*     nothing else (PinInv);                                              *)
(*   - an object stays with the locality that created it and with its      *)
(*     root (LifeInv: nothing under way can end what they keep);           *)
(*   - a lease is not ended before its time (TimeInv);                     *)
(*   - the types and the limits (LimitInv).                                *)
(***************************************************************************)
EXTENDS ObjectLifetime, FiniteSetTheorems, TLAPS

-----------------------------------------------------------------------------
(* Remainders.                                                             *)

LEMMA Division ==
  ASSUME NEW a \in Int, NEW w \in Nat \ {0}
  PROVE  /\ a % w \in 0..(w - 1)
         /\ a \div w \in Int
         /\ a = w * (a \div w) + (a % w)
  OBVIOUS

LEMMA SmallMultiple ==
  ASSUME NEW d \in Int, NEW w \in Nat \ {0}, w * d < w, 0 - w < w * d
  PROVE  d = 0
  <1>1. CASE d >= 1
    <2>1. w * (d - 1) >= 0 BY <1>1
    <2>2. w * d = w * (d - 1) + w OBVIOUS
    <2> QED BY <2>1, <2>2
  <1>2. CASE d <= 0 - 1
    <2>1. w * (0 - 1 - d) >= 0 BY <1>2
    <2>2. w * d = 0 - w - w * (0 - 1 - d) OBVIOUS
    <2> QED BY <2>1, <2>2
  <1> QED BY <1>1, <1>2

LEMMA SameRemainder ==
  ASSUME NEW a \in Int, NEW b \in Int, NEW q \in Int, NEW w \in Nat \ {0}, b = a + w * q
  PROVE  b % w = a % w
  <1> DEFINE d == (b \div w) - (a \div w) - q
  <1>1. /\ a % w \in 0..(w - 1) /\ a \div w \in Int /\ a = w * (a \div w) + (a % w)
        /\ b % w \in 0..(w - 1) /\ b \div w \in Int /\ b = w * (b \div w) + (b % w)
    BY Division
  <1>2. d \in Int BY <1>1
  <1>3. w * d = w * (b \div w) - w * (a \div w) - w * q BY <1>1
  <1>4. w * d = (a % w) - (b % w)
    <2> HIDE DEF d
    <2>1. /\ w * (b \div w) \in Int /\ w * (a \div w) \in Int /\ w * q \in Int BY <1>1
    <2> QED BY <1>1, <1>3, <2>1
  <1> HIDE DEF d
  <1>5. w * d < w /\ 0 - w < w * d BY <1>1, <1>4
  <1>6. d = 0 BY <1>2, <1>5, SmallMultiple
  <1>7. w * d = 0 BY <1>6
  <1> QED BY <1>1, <1>4, <1>7

LEMMA SumOfRemainder ==
  ASSUME NEW a \in Int, NEW b \in Int, NEW w \in Nat \ {0}
  PROVE  ((a % w) + b) % w = (a + b) % w
  <1>1. /\ a % w \in 0..(w - 1) /\ a \div w \in Int /\ a = w * (a \div w) + (a % w)
    BY Division
  <1>2. a + b = ((a % w) + b) + w * (a \div w)
    BY <1>1
  <1>3. a + b \in Int /\ (a % w) + b \in Int BY <1>1
  <1> QED BY <1>1, <1>2, <1>3, SameRemainder

-----------------------------------------------------------------------------
(* transfer_count.                                                         *)

LEMMA WidthType == Width \in Nat \ {0}
  BY LifetimeAssumption

PinInv ==
  /\ IsFiniteSet(pending_transfers)
  /\ transfer_count \in 0..(Width - 1) /\ drift \in 0..(Width - 1)
  /\ TransferPinsExplained

\* The counter and the drift follow the number of pins by n, modulo Width.
LEMMA CountFollows ==
  ASSUME PinInv, NEW n \in Int, NEW c \in Int, NEW d \in Int,
         IsFiniteSet(pending_transfers'),
         Cardinality(pending_transfers') = Cardinality(pending_transfers) + n,
         transfer_count' = c % Width, drift' = d % Width,
         \E q \in Int : c + d = transfer_count + drift + n + Width * q
  PROVE  PinInv'
  <1> DEFINE w == Width
             k == Cardinality(pending_transfers)
             x == transfer_count + drift
  <1>1. w \in Nat \ {0} BY WidthType
  <1>2. k \in Nat BY FS_CardinalityType DEF PinInv
  <1>3. transfer_count \in Int /\ drift \in Int /\ x \in Int BY <1>1 DEF PinInv
  <1>4. x % w = k % w BY DEF PinInv, TransferPinsExplained
  <1>5. c % w \in 0..(w - 1) /\ d % w \in 0..(w - 1) BY <1>1, Division
  <1>6. PICK q \in Int : c + d = x + n + w * q BY <1>3
  <1> HIDE DEF w, k, x
  <1>7. ((c % w) + (d % w)) % w = (c + d) % w
    <2> d % w \in Int BY <1>1, <1>5
    <2>1. ((c % w) + (d % w)) % w = (c + (d % w)) % w BY <1>1, SumOfRemainder
    <2>2. ((d % w) + c) % w = (d + c) % w BY <1>1, SumOfRemainder
    <2>3. c + (d % w) = (d % w) + c /\ c + d = d + c BY <1>5
    <2> QED BY <2>1, <2>2, <2>3
  <1>8. (c + d) % w = (x + n) % w
    <2>1. c + d \in Int /\ x + n \in Int BY <1>3
    <2> QED BY <1>1, <1>6, <2>1, SameRemainder
  <1>9. (x + n) % w = (k + n) % w
    <2>1. ((x % w) + n) % w = (x + n) % w BY <1>1, <1>3, SumOfRemainder
    <2> k \in Int BY <1>2
    <2>2. ((k % w) + n) % w = (k + n) % w BY <1>1, SumOfRemainder
    <2> QED BY <1>4, <2>1, <2>2
  <1>10. (transfer_count' + drift') % w = Cardinality(pending_transfers') % w
    BY <1>7, <1>8, <1>9 DEF w, k
  <1> QED BY <1>5, <1>10 DEF PinInv, TransferPinsExplained, w

\* A step that leaves the counter alone.
LEMMA PinsStay ==
  ASSUME PinInv, UNCHANGED <<pending_transfers, transfer_count, drift>>
  PROVE  PinInv'
  BY DEF PinInv, TransferPinsExplained

\* n pins are taken away and subtracted.
LEMMA PinsTaken ==
  ASSUME PinInv, NEW S \in SUBSET pending_transfers,
         pending_transfers' = pending_transfers \ S,
         transfer_count' = Subtract(transfer_count, Cardinality(S)), UNCHANGED drift
  PROVE  PinInv'
  <1> DEFINE n == Cardinality(S)
             c == transfer_count + Width - n
  <1>1. IsFiniteSet(S) BY FS_Subset DEF PinInv
  <1>2. n \in Nat /\ Cardinality(pending_transfers) \in Nat
    BY <1>1, FS_CardinalityType DEF PinInv
  <1>3. S \cap pending_transfers = S /\ pending_transfers \cap S = S OBVIOUS
  <1>4. /\ IsFiniteSet(pending_transfers')
        /\ Cardinality(pending_transfers') = Cardinality(pending_transfers) - n
    BY <1>1, <1>3, FS_Difference DEF PinInv
  <1>5. Width \in Nat \ {0} BY WidthType
  <1>6. transfer_count \in Int /\ drift \in Int /\ drift < Width /\ drift >= 0
    BY <1>5 DEF PinInv
  <1>7. drift' = drift % Width BY <1>5, <1>6
  <1>8. c \in Int /\ 0 - n \in Int BY <1>2, <1>5, <1>6
  <1>9. \E q \in Int : c + drift = transfer_count + drift + (0 - n) + Width * q
    <2>1. c + drift = transfer_count + drift + (0 - n) + Width * 1 BY <1>2, <1>5, <1>6
    <2> QED BY <2>1
  <1>10. transfer_count' = c % Width BY DEF Subtract
  <1>11. Cardinality(pending_transfers') = Cardinality(pending_transfers) + (0 - n)
    BY <1>2, <1>4
  <1> HIDE DEF c, n
  <1> QED BY <1>4, <1>6, <1>7, <1>8, <1>9, <1>10, <1>11, CountFollows

LEMMA UnpinPins ==
  ASSUME PinInv, NEW o, NEW l, Unpin(o, l), UNCHANGED drift
  PROVE  PinInv'
  <1> DEFINE pin == <<o, l>>
  <1>1. CASE pin \in pending_transfers
    <2>1. Cardinality({pin}) = 1 BY FS_Singleton
    <2>2. {pin} \in SUBSET pending_transfers BY <1>1
    <2> QED BY <1>1, <2>1, <2>2, PinsTaken DEF Unpin
  <1>2. CASE pin \notin pending_transfers
    <2>1. pending_transfers \ {pin} = pending_transfers BY <1>2
    <2> QED BY <1>2, <2>1, PinsStay DEF Unpin
  <1> QED BY <1>1, <1>2

LEMMA PinTransferPins ==
  ASSUME PinInv, PinTransfer PROVE PinInv'
  <1> DEFINE r == run["worker"].request
             pin == <<r.object, r.lease>>
  <1>1. CASE pin \in pending_transfers \/ transfer_count >= MaxTransfers
    BY <1>1, PinsStay DEF PinTransfer, history
  <1>2. CASE ~(pin \in pending_transfers \/ transfer_count >= MaxTransfers)
    <2>1. /\ pending_transfers' = pending_transfers \cup {pin}
          /\ transfer_count' = (transfer_count + 1) % Width /\ drift' = drift
      BY <1>2 DEF PinTransfer, history
    <2>2. /\ IsFiniteSet(pending_transfers')
          /\ Cardinality(pending_transfers') = Cardinality(pending_transfers) + 1
      BY <1>2, <2>1, FS_AddElement DEF PinInv
    <2>3. Width \in Nat \ {0} BY WidthType
    <2>4. transfer_count \in Int /\ drift \in Int /\ drift < Width /\ drift >= 0
      BY <2>3 DEF PinInv
    <2>5. drift' = drift % Width BY <2>1, <2>3, <2>4
    <2>6. transfer_count + 1 \in Int /\ 1 \in Int BY <2>4
    <2>7. \E q \in Int : (transfer_count + 1) + drift = transfer_count + drift + 1 + Width * q
      <3>1. (transfer_count + 1) + drift = transfer_count + drift + 1 + Width * 0
        BY <2>3, <2>4
      <3> QED BY <3>1
    <2> QED BY <2>1, <2>2, <2>4, <2>5, <2>6, <2>7, CountFollows
  <1> QED BY <1>1, <1>2

\* GiveUpTransfer subtracts whether the pin is there or not: the drift is what
\* it subtracts too much.
LEMMA GiveUpPins ==
  ASSUME PinInv, GiveUpTransfer PROVE PinInv'
  <1> DEFINE r == run["worker"].request
             pin == <<r.object, r.lease>>
  <1>1. /\ pending_transfers' = pending_transfers \ {pin}
        /\ transfer_count' = Subtract(transfer_count, 1)
        /\ drift' = IF pin \in pending_transfers THEN drift ELSE (drift + 1) % Width
    BY DEF GiveUpTransfer
  <1> HIDE DEF pin
  <1>2. CASE pin \in pending_transfers
    <2>1. Cardinality({pin}) = 1 BY FS_Singleton
    <2>2. {pin} \in SUBSET pending_transfers BY <1>2
    <2> QED BY <1>1, <1>2, <2>1, <2>2, PinsTaken
  <1>3. CASE pin \notin pending_transfers
    <2>1. pending_transfers' = pending_transfers BY <1>1, <1>3
    <2>2. Width \in Nat \ {0} BY WidthType
    <2>3. transfer_count \in Int /\ drift \in Int BY <2>2 DEF PinInv
    <2>4. Cardinality(pending_transfers) \in Nat BY FS_CardinalityType DEF PinInv
    <2>5. Cardinality(pending_transfers') = Cardinality(pending_transfers) + 0
      BY <2>1, <2>4
    <2>6. transfer_count + Width - 1 \in Int /\ drift + 1 \in Int BY <2>2, <2>3
    <2>7. \E q \in Int :
            (transfer_count + Width - 1) + (drift + 1) = transfer_count + drift + 0 + Width * q
      <3>1. (transfer_count + Width - 1) + (drift + 1) = transfer_count + drift + 0 + Width * 1
        BY <2>2, <2>3
      <3> QED BY <3>1
    <2>8. /\ transfer_count' = (transfer_count + Width - 1) % Width
          /\ drift' = (drift + 1) % Width
      BY <1>1, <1>3 DEF Subtract
    <2>9. IsFiniteSet(pending_transfers') BY <2>1 DEF PinInv
    <2> QED BY <2>5, <2>6, <2>7, <2>8, <2>9, CountFollows
  <1> QED BY <1>2, <1>3

LEMMA ExpirePins ==
  ASSUME PinInv, ExpireTransfers PROVE PinInv'
  <1> DEFINE dead == {p \in pending_transfers : p[1] \in run["owner"].object
                                                /\ p[2] \notin run["owner"].active}
  <1>1. dead \in SUBSET pending_transfers OBVIOUS
  <1>2. /\ pending_transfers' = pending_transfers \ dead
        /\ transfer_count' = Subtract(transfer_count, Cardinality(dead)) /\ drift' = drift
    BY DEF ExpireTransfers, history
  <1> HIDE DEF dead
  <1> QED BY <1>1, <1>2, PinsTaken

LEMMA HandlersPins ==
  ASSUME PinInv, Handlers PROVE PinInv'
  <1>1. CASE Work
    <2>1. CASE PinTransfer BY <2>1, PinTransferPins
    <2>2. CASE GiveUpTransfer BY <2>2, GiveUpPins
    <2>3. CASE LookUp \/ InsertLease
      BY <2>3, PinsStay DEF LookUp, InsertLease, counters, history
    <2> QED BY <1>1, <2>1, <2>2, <2>3 DEF Work
  <1>2. CASE Return
    BY <1>2, PinsStay DEF Return, counters, history
  <1>3. ASSUME NEW l \in Locality, Handle(l) PROVE PinInv'
    <2>1. CASE HandleAck(l)
      BY <2>1, UnpinPins DEF HandleAck, history
    <2>2. CASE HandleCreate(l) \/ HandleRenew(l) \/ HandleAcquire(l) \/ HandleRelease(l)
      BY <2>2, PinsStay DEF HandleCreate, HandleRenew, HandleAcquire, HandleRelease, counters,
         history
    <2> QED BY <1>3, <2>1, <2>2 DEF Handle
  <1>4. ASSUME NEW t \in Thread, Collecting(t) PROVE PinInv'
    <2>1. CASE ReleaseTransfer(t)
      BY <2>1, UnpinPins DEF ReleaseTransfer, history
    <2>2. CASE ReleaseLease(t) \/ ReleaseRoot(t) \/ CollectCheck(t) \/ CollectRemove(t)
      BY <2>2, PinsStay DEF ReleaseLease, ReleaseRoot, CollectCheck, CollectRemove, counters,
         history
    <2> QED BY <1>4, <2>1, <2>2 DEF Collecting
  <1> QED BY <1>1, <1>2, <1>3, <1>4 DEF Handlers, Thread

LEMMA OwnerPins ==
  ASSUME PinInv, Owner PROVE PinInv'
  <1>1. CASE ExpireTransfers BY <1>1, ExpirePins
  <1>2. ASSUME Collecting("owner") PROVE PinInv'
    <2>1. CASE ReleaseTransfer("owner")
      BY <2>1, UnpinPins DEF ReleaseTransfer, history
    <2>2. CASE ReleaseLease("owner") \/ ReleaseRoot("owner") \/ CollectCheck("owner")
               \/ CollectRemove("owner")
      BY <2>2, PinsStay DEF ReleaseLease, ReleaseRoot, CollectCheck, CollectRemove, counters,
         history
    <2> QED BY <1>2, <2>1, <2>2 DEF Collecting
  <1>3. ASSUME NEW o \in Object, ExpireLeases(o) PROVE PinInv'
    BY <1>3, PinsStay DEF ExpireLeases, counters
  <1>4. CASE Progress \/ TakeRetirements \/ SendRetirement \/ RefuseRetirement
    BY <1>4, PinsStay DEF Progress, TakeRetirements, SendRetirement, RefuseRetirement, counters,
       history
  <1> QED BY <1>1, <1>2, <1>3, <1>4 DEF Owner, Expire

LEMMA ClientPins ==
  ASSUME PinInv, NEW l \in Locality, NEW o \in Object, Client(l, o) PROVE PinInv'
  <1>1. CASE CreateThere(l, o) \/ Upgrade(l, o) \/ Poll(l, o) \/ DropFuture(l, o)
    BY <1>1, PinsStay DEF CreateThere, Upgrade, Poll, DropFuture, counters, history
  <1>2. CASE DropHandle(l, o) \/ DropRoot(l, o) \/ RenewDue(l, o)
    BY <1>2, PinsStay DEF DropHandle, DropRoot, RenewDue, counters, history
  <1>3. ASSUME NEW to \in Locality, TransferTo(l, o, to) PROVE PinInv'
    BY <1>3, PinsStay DEF TransferTo, counters, history
  <1> QED BY <1>1, <1>2, <1>3 DEF Client

LEMMA NextPins ==
  ASSUME PinInv, [Next]_vars PROVE PinInv'
  <1>1. CASE Handlers BY <1>1, HandlersPins
  <1>2. CASE Owner BY <1>2, OwnerPins
  <1>3. ASSUME NEW l \in Locality, Leave(l) PROVE PinInv'
    BY <1>3, PinsStay DEF Leave, counters
  <1>4. ASSUME NEW l \in Locality, NEW o \in Object, Client(l, o) PROVE PinInv'
    BY <1>4, ClientPins
  <1>5. ASSUME NEW o \in Object, Call(o) \/ Move(o) \/ CreateHere(o) PROVE PinInv'
    BY <1>5, PinsStay DEF Call, Move, CreateHere, counters, history
  <1>6. ASSUME NEW t \in tokens, Import(t) PROVE PinInv'
    BY <1>6, PinsStay, UnpinPins DEF Import, history
  <1>7. ASSUME NEW t \in tokens, DropToken(t) PROVE PinInv'
    BY <1>7, PinsStay DEF DropToken, counters, history
  <1>8. CASE Tick BY <1>8, PinsStay DEF Tick, counters
  <1>9. CASE UNCHANGED vars BY <1>9, PinsStay DEF vars, counters, history
  <1> QED BY <1>1, <1>2, <1>3, <1>4, <1>5, <1>6, <1>7, <1>8, <1>9 DEF Next

LEMMA InitPins ==
  ASSUME Init PROVE PinInv
  <1>1. Width \in Nat \ {0} BY WidthType
  <1>2. IsFiniteSet(pending_transfers) /\ Cardinality(pending_transfers) = 0
    BY FS_EmptySet DEF Init
  <1>3. transfer_count = 0 /\ drift = 0 BY DEF Init
  <1> QED BY <1>1, <1>2, <1>3 DEF PinInv, TransferPinsExplained

\* transfer_count differs from the number of pending transfers by the pins
\* that begin_transfer gave back after expire had removed them, and by nothing
\* else, for any number of objects, localities and transfers.
THEOREM TransferCountExplained == Spec => []TransferPinsExplained
  <1>1. Init => PinInv BY InitPins
  <1>2. PinInv /\ [Next]_vars => PinInv' BY NextPins
  <1>3. PinInv => TransferPinsExplained BY DEF PinInv
  <1> QED BY <1>1, <1>2, <1>3, PTL DEF Spec

-----------------------------------------------------------------------------
(* The types of the state.                                                 *)

Kind == {"create", "acquire", "transfer", "renew", "ack", "release", "root release"}
AnyRequest == [kind : Kind, object : Object, from : Locality, lease : Locality]
NoRequest == [kind |-> "none"]

\* The requests of l that are on their way.
Sent(l) == {queue[l][i] : i \in DOMAIN queue[l]}

QueueType ==
  /\ queue \in [Locality -> Seq(AnyRequest)]
  /\ \A l \in Locality : Len(queue[l]) <= QueueCap /\ \A r \in Sent(l) : r.from = l

Requesting == {"pin", "lookup", "insert", "unpin", "release", "ack", "root release"}
Admitting == {"pin", "lookup", "insert", "unpin"}
Place == Requesting \cup {"idle", "check", "collect", "call", "expire", "transfers", "retire"}
Execution ==
  [pc : Place, request : AnyRequest \cup {NoRequest}, object : SUBSET Object,
   seen : {"none", "Resident", "Forwarding", "Retiring"}, active : SUBSET Locality, todo : SUBSET Object, taken : Seq(Object)]

\* What a thread that has got to a place in its code knows.
Knows(x) ==
  /\ x.pc \in Requesting => x.request \in AnyRequest /\ x.object = {x.request.object}
  /\ x.pc \in Admitting => x.request.kind \in {"acquire", "transfer"}
  /\ x.pc \in {"check", "collect", "call", "transfers"} => \E o \in Object : x.object = {o}
  /\ x.pc = "retire" => x.taken # <<>>

RunType == run \in [Thread -> Execution] /\ \A t \in Thread : Knows(run[t])

DirectoryType ==
  /\ stored \subseteq born /\ born \subseteq Object
  /\ leases \in [Object -> [Locality -> Record]]
  /\ unrenewed \in [Object -> [Locality -> 0..(Ttl + Grace)]]
  /\ roots \in [Object -> 0..1]
  /\ lifecycle \in [Object -> {"Resident", "Forwarding", "Retiring"}]
  /\ retirements \in Seq(Object)
  /\ first \subseteq Object \X Locality
  /\ pending_transfers \subseteq Object \X Locality

Future == [kind : {"none", "create", "upgrade", "transfer"}, to : Locality, left : 0..Ttl,
           status : {"none", "pending", "ok", "error"}]
HolderType ==
  /\ held \in [Locality -> [Object -> NotHeld..Renewal]]
  /\ futures \in [Locality -> [Object -> Future]]
  /\ tokens \subseteq Token
  /\ rooted \in [Locality -> SUBSET Object]

Types == QueueType /\ RunType /\ DirectoryType /\ HolderType

LEMMA LimitTypes ==
  /\ Home \in Locality
  /\ Ttl \in Nat /\ Grace \in Nat \ {0} /\ Renewal \in Nat \ {0}
  /\ MaxRoots \in Nat \ {0} /\ MaxRetire \in Nat \ {0} /\ QueueCap \in Nat \ {0}
  BY LifetimeAssumption

LEMMA Thread3 == "worker" \in Thread /\ "client" \in Thread /\ "owner" \in Thread
  BY DEF Thread

\* Records that the code makes.
LEMMA RecordTypes ==
  /\ Absent \in Record /\ Fresh \in Record
  /\ Absent.is = FALSE /\ Fresh.is = TRUE /\ Fresh.left = Ttl /\ Fresh.suspect = -1
  <1>1. Ttl \in Nat /\ Grace \in Nat BY LimitTypes
  <1> QED BY <1>1 DEF Absent, Fresh, Record

LEMMA ChangedRecords ==
  ASSUME NEW x \in Record
  PROVE  /\ Renewed(x) \in Record /\ Renewed(x).is = x.is
         /\ Expired(x) \in Record
         /\ Aged(x) \in Record /\ Aged(x).is = x.is
  <1>1. Ttl \in Nat /\ Grace \in Nat BY LimitTypes
  <1>2. /\ x = [is |-> x.is, left |-> x.left, suspect |-> x.suspect]
        /\ x.is \in BOOLEAN /\ x.left \in 0..Ttl /\ x.suspect \in -1..Grace
    BY DEF Record
  <1>4. Renewed(x) \in Record /\ Renewed(x).is = x.is
    <2>1. Renewed(x) = [x EXCEPT !.left = Ttl, !.suspect = -1] BY DEF Renewed
    <2>2. Ttl \in 0..Ttl /\ -1 \in -1..Grace BY <1>1
    <2> QED BY <1>2, <2>1, <2>2 DEF Record
  <1>5. [x EXCEPT !.suspect = 0] = [is |-> x.is, left |-> x.left, suspect |-> 0]
    BY <1>2
  <1>6. Expired(x) \in Record
    BY <1>1, <1>2, <1>5, RecordTypes DEF Expired, Record
  <1> DEFINE s == IF x.suspect \in 0..(Grace - 1) THEN x.suspect + 1 ELSE x.suspect
  <1>8. Less(x.left) \in 0..Ttl /\ s \in -1..Grace
    BY <1>1, <1>2 DEF Less
  <1>9. Aged(x) \in Record /\ Aged(x).is = x.is
    <2>1. Aged(x) = [x EXCEPT !.left = Less(x.left), !.suspect = s] BY <1>2 DEF Aged, Record
    <2> HIDE DEF s
    <2> QED BY <1>2, <1>8, <2>1 DEF Record
  <1> QED BY <1>4, <1>6, <1>9

LEMMA IdleType ==
  /\ Idle \in Execution /\ Knows(Idle) /\ Idle.pc = "idle" /\ Idle.object = {}
  /\ Idle.request = NoRequest /\ Idle.taken = <<>> /\ Idle.todo = {}
  <1>1. Idle = [pc |-> "idle", request |-> NoRequest, object |-> {}, seen |-> "none",
                active |-> {}, todo |-> {}, taken |-> <<>>]
    BY DEF Idle, NoRequest
  <1>2. <<>> \in Seq(Object) OBVIOUS
  <1>3. Idle \in Execution BY <1>1, <1>2 DEF Execution, Place
  <1>4. Knows(Idle) BY <1>1 DEF Knows, Requesting, Admitting
  <1> QED BY <1>1, <1>3, <1>4

\* Queues.
LEMMA SubmitQueue ==
  ASSUME QueueType, NEW l \in Locality, NEW r \in AnyRequest, r.from = l, Submit(l, r)
  PROVE  QueueType' /\ \A k \in Locality : Sent(k)' \subseteq Sent(k) \cup {r}
                                           /\ (k # l => Sent(k)' = Sent(k))
  <1> DEFINE s == queue[l]
  <1>1. s \in Seq(AnyRequest) /\ queue \in [Locality -> Seq(AnyRequest)] BY DEF QueueType
  <1>2. /\ queue' = [queue EXCEPT ![l] = Append(s, r)] /\ Len(s) < QueueCap BY DEF Submit
  <1>3. queue'[l] = Append(s, r) /\ \A k \in Locality \ {l} : queue'[k] = queue[k]
    BY <1>1, <1>2
  <1> HIDE DEF s
  <1>4. /\ Append(s, r) \in Seq(AnyRequest) /\ Len(Append(s, r)) = Len(s) + 1
        /\ DOMAIN Append(s, r) = 1..(Len(s) + 1) /\ DOMAIN s = 1..Len(s) /\ Len(s) \in Nat
        /\ \A i \in 1..Len(s) : Append(s, r)[i] = s[i]
        /\ Append(s, r)[Len(s) + 1] = r
    BY <1>1
  <1>5. Len(s) + 1 <= QueueCap
    <2>1. QueueCap \in Nat BY LimitTypes
    <2> QED BY <1>2, <1>4, <2>1
  <1>6. \A i \in DOMAIN Append(s, r) : Append(s, r)[i] = r \/ \E j \in DOMAIN s : Append(s, r)[i] = s[j]
    BY <1>4
  <1>7. Sent(l)' \subseteq Sent(l) \cup {r}
    BY <1>3, <1>6 DEF Sent, s
  <1>8. \A k \in Locality \ {l} : Sent(k)' = Sent(k) BY <1>3 DEF Sent
  <1>9. \A k \in Locality : Len(queue'[k]) <= QueueCap /\ \A x \in Sent(k)' : x.from = k
    <2> TAKE k \in Locality
    <2>1. CASE k = l BY <2>1, <1>3, <1>4, <1>5, <1>7 DEF QueueType
    <2>2. CASE k # l BY <2>2, <1>3, <1>8 DEF QueueType
    <2> QED BY <2>1, <2>2
  <1>10. queue' \in [Locality -> Seq(AnyRequest)] BY <1>1, <1>2, <1>4
  <1> QED BY <1>7, <1>8, <1>9, <1>10 DEF QueueType

LEMMA SameQueue ==
  ASSUME QueueType, UNCHANGED queue
  PROVE  QueueType' /\ \A k \in Locality : Sent(k)' = Sent(k)
  BY DEF QueueType, Sent

LEMMA ControlQueue ==
  ASSUME QueueType, NEW l \in Locality, NEW r \in AnyRequest, r.from = l, Control(l, r)
  PROVE  QueueType' /\ \A k \in Locality : Sent(k)' \subseteq Sent(k) \cup {r}
                                           /\ (k # l => Sent(k)' = Sent(k))
  <1>1. CASE Submit(l, r) BY <1>1, SubmitQueue
  <1>2. CASE UNCHANGED queue BY <1>2, SameQueue
  <1> QED BY <1>1, <1>2 DEF Control

LEMMA TakeQueue ==
  ASSUME QueueType, NEW l \in Locality, NEW kind, Take(l, kind)
  PROVE  /\ QueueType' /\ \A k \in Locality : Sent(k)' \subseteq Sent(k)
         /\ run["worker"] = Idle
         /\ Head(queue[l]) \in AnyRequest /\ Head(queue[l]) \in Sent(l)
         /\ Head(queue[l]).from = l /\ Head(queue[l]).kind = kind
  <1> DEFINE s == queue[l]
  <1>1. s \in Seq(AnyRequest) /\ queue \in [Locality -> Seq(AnyRequest)] BY DEF QueueType
  <1>2. s # <<>> /\ queue' = [queue EXCEPT ![l] = Tail(s)] BY DEF Take
  <1>3. queue'[l] = Tail(s) /\ \A k \in Locality \ {l} : queue'[k] = queue[k]
    BY <1>1, <1>2
  <1>4. Len(s) <= QueueCap BY DEF QueueType
  <1>5. Head(s) \in Sent(l)
    <2>1. 1 \in DOMAIN s /\ Head(s) = s[1] BY <1>1, <1>2
    <2> QED BY <2>1 DEF Sent
  <1> HIDE DEF s
  <1>6. /\ Tail(s) \in Seq(AnyRequest) /\ Len(Tail(s)) = Len(s) - 1 /\ Head(s) \in AnyRequest
        /\ DOMAIN Tail(s) = 1..(Len(s) - 1) /\ DOMAIN s = 1..Len(s) /\ Len(s) \in Nat
        /\ \A i \in 1..(Len(s) - 1) : Tail(s)[i] = s[i + 1]
    BY <1>1, <1>2
  <1>7. \A i \in DOMAIN Tail(s) : \E j \in DOMAIN s : Tail(s)[i] = s[j]
    <2> TAKE i \in DOMAIN Tail(s)
    <2>1. i + 1 \in DOMAIN s /\ Tail(s)[i] = s[i + 1] BY <1>6
    <2> QED BY <2>1
  <1>8. Sent(l)' \subseteq Sent(l) BY <1>3, <1>7 DEF Sent, s
  <1>9. \A k \in Locality \ {l} : Sent(k)' = Sent(k) BY <1>3 DEF Sent
  <1>10. Len(Tail(s)) <= QueueCap
    <2>1. QueueCap \in Nat BY LimitTypes
    <2> QED BY <1>4, <1>6, <2>1
  <1>11. \A k \in Locality : Len(queue'[k]) <= QueueCap /\ \A x \in Sent(k)' : x.from = k
    <2> TAKE k \in Locality
    <2>1. CASE k = l BY <2>1, <1>3, <1>8, <1>10 DEF QueueType
    <2>2. CASE k # l BY <2>2, <1>3, <1>9 DEF QueueType
    <2> QED BY <2>1, <2>2
  <1>12. queue' \in [Locality -> Seq(AnyRequest)] BY <1>1, <1>2, <1>6
  <1>13. QueueType' BY <1>11, <1>12 DEF QueueType
  <1>14. Head(s).from = l BY <1>5 DEF QueueType
  <1> QED BY <1>5, <1>6, <1>8, <1>9, <1>13, <1>14 DEF Take, s

\* Threads.
LEMMA RunChange ==
  ASSUME RunType, NEW t \in Thread, NEW x \in Execution, Knows(x), run' = [run EXCEPT ![t] = x]
  PROVE  RunType' /\ run'[t] = x /\ \A u \in Thread : u # t => run'[u] = run[u]
  BY DEF RunType

LEMMA DoneRun ==
  ASSUME RunType, NEW t \in Thread, Done(t)
  PROVE  /\ RunType' /\ run'[t].pc \in {"idle", "expire"} /\ run'[t].object = {}
         /\ run'[t].request = NoRequest /\ run'[t].taken = <<>>
         /\ \A u \in Thread : u # t => run'[u] = run[u]
  <1> DEFINE x == [Idle EXCEPT !.pc = "expire", !.todo = run[t].todo]
  <1>1. run[t].todo \in SUBSET Object BY DEF RunType, Execution
  <1>2. /\ x.pc = "expire" /\ x.object = {} /\ x.request = NoRequest /\ x.taken = <<>>
        /\ x \in Execution
    BY <1>1, IdleType DEF Execution, Place
  <1>3. Knows(x) BY <1>2 DEF Knows, Requesting, Admitting
  <1>4. run' = [run EXCEPT ![t] = IF t = "owner" THEN x ELSE Idle] BY DEF Done
  <1> HIDE DEF x
  <1>5. CASE t = "owner"
    <2>1. run' = [run EXCEPT ![t] = x] BY <1>4, <1>5
    <2> QED BY <1>2, <1>3, <2>1, RunChange
  <1>6. CASE t # "owner"
    <2>1. run' = [run EXCEPT ![t] = Idle] BY <1>4, <1>6
    <2> QED BY <2>1, IdleType, RunChange
  <1> QED BY <1>5, <1>6

\* A thread goes on with what it has.
LEMMA GoesRun ==
  ASSUME RunType, NEW t \in Thread, NEW pc \in Place, Goes(t, pc),
         Knows([run[t] EXCEPT !.pc = pc])
  PROVE  /\ RunType' /\ run'[t].pc = pc /\ run'[t].object = run[t].object
         /\ run'[t].request = run[t].request /\ run'[t].taken = run[t].taken
         /\ \A u \in Thread : u # t => run'[u] = run[u]
  <1> DEFINE x == [run[t] EXCEPT !.pc = pc]
  <1>1. run[t] \in Execution BY DEF RunType
  <1>2. /\ x \in Execution /\ x.pc = pc /\ x.object = run[t].object
        /\ x.request = run[t].request /\ x.taken = run[t].taken
    BY <1>1 DEF Execution
  <1>3. run' = [run EXCEPT ![t] = x] BY DEF Goes
  <1> HIDE DEF x
  <1>4. Knows(x) BY DEF x
  <1> QED BY <1>2, <1>3, <1>4, RunChange

LEMMA StartsRun ==
  ASSUME RunType, NEW t \in Thread, NEW r \in AnyRequest, r.kind \in {"release", "root release"},
         Starts(t, r)
  PROVE  /\ RunType' /\ run'[t].pc = r.kind /\ run'[t].object = {r.object}
         /\ run'[t].request = r /\ run'[t].taken = <<>>
         /\ \A u \in Thread : u # t => run'[u] = run[u]
  <1> DEFINE x == [Idle EXCEPT !.pc = r.kind, !.request = r, !.object = {r.object}]
  <1>1. r.kind \in Place /\ r.object \in Object BY DEF AnyRequest, Place, Requesting
  <1>2. /\ x.pc = r.kind /\ x.object = {r.object} /\ x.request = r /\ x.taken = <<>>
    BY IdleType DEF Execution
  <1>3. x \in Execution BY <1>1, IdleType DEF Execution
  <1>4. Knows(x) BY <1>2 DEF Knows, Requesting, Admitting
  <1>5. run' = [run EXCEPT ![t] = x] BY DEF Starts
  <1> HIDE DEF x
  <1> QED BY <1>2, <1>3, <1>4, <1>5, RunChange

-----------------------------------------------------------------------------
(* Who keeps an object.                                                    *)

\* The lease of o at l is about to be released.
Releasing(o, l) ==
  \/ \E k \in Locality : \E r \in Sent(k) : r.kind = "release" /\ r.object = o /\ r.lease = l
  \/ \E t \in Thread : run[t].pc = "release" /\ run[t].request.object = o /\ run[t].request.lease = l

\* A transfer of o to l was accepted: by begin_transfer, by the future or in
\* the token.
Transferring(o, l) ==
  \/ \E x \in tokens : x.object = o /\ x.to = l
  \/ \E k \in Locality : /\ futures[k][o].kind = "transfer" /\ futures[k][o].status = "ok"
                         /\ futures[k][o].to = l
  \/ /\ run["worker"].pc \in Admitting /\ run["worker"].request.kind = "transfer"
     /\ run["worker"].request.object = o /\ run["worker"].request.lease = l

\* collect has made up its mind, or the object's retirement is queued.
In(o, s) == \E i \in DOMAIN s : s[i] = o
Ending(o) ==
  \/ \E t \in Thread : run[t].pc = "collect" /\ o \in run[t].object
  \/ In(o, retirements) \/ In(o, run["owner"].taken)

\* The root of o is about to be released.
Unrooting(o) ==
  \/ \E k \in Locality : \E r \in Sent(k) : r.kind = "root release" /\ r.object = o
  \/ \E t \in Thread : run[t].pc = "root release" /\ run[t].request.object = o

\* l has the root, or its create_rooted_at has been answered.
Created(l, o) == l \in Rooting /\ futures[l][o].kind = "create" /\ futures[l][o].status = "ok"
HasRoot(l, o) == o \in rooted[l] \/ Created(l, o)

\* The first lease of an object lasts: nothing is under way that ends it.
FirstInv ==
  \A o \in Object, l \in Locality : <<o, l>> \in first =>
    o \in stored /\ leases[o][l].is /\ ~Releasing(o, l) /\ ~Transferring(o, l) /\ ~Ending(o)

\* An object has one root at most, counted in roots, and nothing is under way
\* that ends it.
RootInv ==
  \A o \in Object, l \in Locality : HasRoot(l, o) =>
    /\ o \in stored /\ roots[o] = 1 /\ ~Unrooting(o) /\ ~Ending(o)
    /\ ~(o \in rooted[l] /\ Created(l, o))
    /\ \A k \in Locality : HasRoot(k, o) => k = l

\* Nobody knows an object that was never inserted.
BornInv ==
  \A o \in Object : o \notin born =>
    /\ roots[o] = 0 /\ ~Ending(o) /\ ~Unrooting(o)
    /\ \A t \in Thread : o \notin run[t].object
    /\ \A l \in Locality :
         ~Attached(l, o) /\ ~Releasing(o, l) /\ ~Transferring(o, l) /\ futures[l][o].status # "ok"

KeepInv == FirstInv /\ RootInv /\ BornInv

\* What a step that inserts no object may do.
DirectoryTame ==
  /\ born' = born /\ first' \subseteq first /\ stored' \subseteq stored
  /\ \A o \in Object :
       /\ o \in stored /\ ~Ending(o) => o \in stored'
       /\ roots'[o] = roots[o] \/ (Unrooting(o) /\ roots[o] # 0)
  /\ \A o \in Object, l \in Locality :
       <<o, l>> \in first' /\ leases[o][l].is /\ ~Releasing(o, l) => leases'[o][l].is
ReleaseTame ==
  \A o \in Object :
    /\ Unrooting(o)' => Unrooting(o) \/ \E l \in Locality : o \in rooted[l] /\ ~HasRoot(l, o)'
    /\ \A l \in Locality :
         Releasing(o, l)' => \/ Releasing(o, l) \/ Transferring(o, l)
                             \/ o \in born /\ <<o, l>> \notin first'
TransferTame ==
  \A o \in Object, l \in Locality :
    Transferring(o, l)' => Transferring(o, l) \/ (o \in stored /\ ~leases[o][l].is)
EndTame ==
  \A o \in Object :
    /\ Ending(o)' => Ending(o) \/ (o \in stored /\ Leased(o) = {} /\ roots[o] = 0)
    /\ \A t \in Thread : o \in run'[t].object => o \in run[t].object \/ o \in born
HoldTame ==
  \A o \in Object, l \in Locality :
    /\ HasRoot(l, o)' => HasRoot(l, o)
    /\ o \in rooted'[l] /\ Created(l, o)' => o \in rooted[l] /\ Created(l, o)
    /\ Attached(l, o)' => Attached(l, o) \/ o \in born
    /\ futures'[l][o].status = "ok" => futures[l][o].status = "ok" \/ o \in born

Tame == DirectoryTame /\ ReleaseTame /\ TransferTame /\ EndTame /\ HoldTame

LEMMA TameKeeps ==
  ASSUME Types, KeepInv, Tame PROVE KeepInv'
  <1>1. FirstInv'
    <2> SUFFICES ASSUME NEW o \in Object, NEW l \in Locality, <<o, l>> \in first'
        PROVE  o \in stored' /\ leases'[o][l].is /\ ~Releasing(o, l)' /\ ~Transferring(o, l)'
               /\ ~Ending(o)'
      BY DEF FirstInv
    <2>1. o \in stored /\ leases[o][l].is /\ ~Releasing(o, l) /\ ~Transferring(o, l) /\ ~Ending(o)
      BY DEF KeepInv, FirstInv, Tame, DirectoryTame
    <2>2. o \in stored' /\ leases'[o][l].is BY <2>1 DEF Tame, DirectoryTame
    <2>3. ~Releasing(o, l)' BY <2>1 DEF Tame, ReleaseTame
    <2>4. ~Transferring(o, l)' BY <2>1 DEF Tame, TransferTame
    <2>5. l \in Leased(o) BY <2>1 DEF Leased
    <2>6. ~Ending(o)' BY <2>1, <2>5 DEF Tame, EndTame
    <2> QED BY <2>2, <2>3, <2>4, <2>6
  <1>2. RootInv'
    <2> SUFFICES ASSUME NEW o \in Object, NEW l \in Locality, HasRoot(l, o)'
        PROVE  /\ o \in stored' /\ roots'[o] = 1 /\ ~Unrooting(o)' /\ ~Ending(o)'
               /\ ~(o \in rooted'[l] /\ Created(l, o)')
               /\ \A k \in Locality : HasRoot(k, o)' => k = l
      BY DEF RootInv
    <2>1. HasRoot(l, o) BY DEF Tame, HoldTame
    <2>2. /\ o \in stored /\ roots[o] = 1 /\ ~Unrooting(o) /\ ~Ending(o)
          /\ ~(o \in rooted[l] /\ Created(l, o))
          /\ \A k \in Locality : HasRoot(k, o) => k = l
      BY <2>1 DEF KeepInv, RootInv
    <2>3. o \in stored' /\ roots'[o] = 1 BY <2>2 DEF Tame, DirectoryTame
    <2>4. \A k \in Locality : HasRoot(k, o)' => k = l BY <2>2 DEF Tame, HoldTame
    <2>5. ~(o \in rooted'[l] /\ Created(l, o)') BY <2>2 DEF Tame, HoldTame
    <2>6. ~Unrooting(o)'
      <3>1. ASSUME NEW k \in Locality, o \in rooted[k], ~HasRoot(k, o)' PROVE FALSE
        BY <2>2, <3>1 DEF HasRoot
      <3> QED BY <2>2, <3>1 DEF Tame, ReleaseTame
    <2>7. ~Ending(o)' BY <2>2 DEF Tame, EndTame
    <2> QED BY <2>3, <2>4, <2>5, <2>6, <2>7
  <1>3. BornInv'
    <2> SUFFICES ASSUME NEW o \in Object, o \notin born'
        PROVE  /\ roots'[o] = 0 /\ ~Ending(o)' /\ ~Unrooting(o)'
               /\ \A t \in Thread : o \notin run'[t].object
               /\ \A l \in Locality : ~Attached(l, o)' /\ ~Releasing(o, l)' /\ ~Transferring(o, l)'
                                      /\ futures'[l][o].status # "ok"
      BY DEF BornInv
    <2>1. o \notin born /\ o \notin stored
      BY DEF Tame, DirectoryTame, Types, DirectoryType
    <2>2. /\ roots[o] = 0 /\ ~Ending(o) /\ ~Unrooting(o)
          /\ \A t \in Thread : o \notin run[t].object
          /\ \A l \in Locality : ~Attached(l, o) /\ ~Releasing(o, l) /\ ~Transferring(o, l)
                                 /\ futures[l][o].status # "ok"
      BY <2>1 DEF KeepInv, BornInv
    <2>3. roots'[o] = 0 BY <2>2 DEF Tame, DirectoryTame
    <2>4. \A l \in Locality : o \notin rooted[l]
      BY <2>1 DEF KeepInv, RootInv, HasRoot
    <2>5. ~Ending(o)' /\ \A t \in Thread : o \notin run'[t].object
      BY <2>1, <2>2 DEF Tame, EndTame
    <2>6. ~Unrooting(o)' BY <2>2, <2>4 DEF Tame, ReleaseTame
    <2>7. \A l \in Locality : ~Releasing(o, l)' BY <2>1, <2>2 DEF Tame, ReleaseTame
    <2>8. \A l \in Locality : ~Transferring(o, l)' BY <2>1, <2>2 DEF Tame, TransferTame
    <2>9. \A l \in Locality : ~Attached(l, o)' /\ futures'[l][o].status # "ok"
      BY <2>1, <2>2 DEF Tame, HoldTame
    <2> QED BY <2>3, <2>5, <2>6, <2>7, <2>8, <2>9
  <1> QED BY <1>1, <1>2, <1>3 DEF KeepInv

\* A future that was not dropped is that of the request under way for it.
Fits(f, r) ==
  /\ f.kind = (IF r.kind = "acquire" THEN "upgrade" ELSE r.kind)
  /\ r.kind = "transfer" => f.to = r.lease
MatchInv ==
  \A l \in Locality, o \in Object : futures[l][o].kind # "none" =>
    /\ \A r \in Sent(l) : Asking(r, l, o) => Fits(futures[l][o], r)
    /\ Asking(run["worker"].request, l, o) => Fits(futures[l][o], run["worker"].request)

LifeInv == Types /\ KeepInv /\ MatchInv

-----------------------------------------------------------------------------
(* What most steps do: nothing new is released, transferred or collected.  *)

RunTame ==
  /\ \A t \in Thread :
       /\ run'[t].pc \in {"release", "root release"} =>
            run[t].pc = run'[t].pc /\ run'[t].request = run[t].request
       /\ run'[t].pc = "collect" => run[t].pc = "collect" /\ run'[t].object = run[t].object
       /\ run'[t].object \subseteq run[t].object \cup born
  /\ run'["worker"].pc \in Admitting =>
       run["worker"].pc \in Admitting /\ run'["worker"].request = run["worker"].request
  /\ run'["worker"].request \in {run["worker"].request, NoRequest}
  /\ \A o \in Object : In(o, run'["owner"].taken) => In(o, run["owner"].taken)
Asks == {"create", "acquire", "transfer"}
NoRelease == \A k \in Locality : \A r \in Sent(k)' : r \in Sent(k) \/ r.kind \notin {"release", "root release"}
NoAsk == \A k \in Locality : \A r \in Sent(k)' : r \in Sent(k) \/ r.kind \notin Asks
TokenTame == \A x \in tokens' : \E y \in tokens : y.object = x.object /\ y.to = x.to
FutureKinds ==
  \A l \in Locality, o \in Object : futures'[l][o].kind # "none" =>
    futures'[l][o].kind = futures[l][o].kind /\ futures'[l][o].to = futures[l][o].to
FutureTame ==
  /\ FutureKinds
  /\ \A l \in Locality, o \in Object : futures'[l][o].status = "ok" =>
       futures[l][o].status = "ok" /\ futures'[l][o].kind = futures[l][o].kind
       /\ futures'[l][o].to = futures[l][o].to
RootedTame ==
  /\ \A l \in Locality : rooted'[l] \subseteq rooted[l]
  /\ \A l \in Locality, o \in Object : Attached(l, o)' => Attached(l, o)
LeaseTame ==
  /\ UNCHANGED <<stored, born, roots>> /\ first' \subseteq first
  /\ \A o \in Object, l \in Locality : leases[o][l].is => leases'[o][l].is

LEMMA CalmRelease ==
  ASSUME RunTame, NoRelease PROVE ReleaseTame
  <1>1. ASSUME NEW o \in Object, Unrooting(o)' PROVE Unrooting(o)
    BY <1>1 DEF RunTame, NoRelease, Unrooting
  <1>2. ASSUME NEW o \in Object, NEW l \in Locality, Releasing(o, l)' PROVE Releasing(o, l)
    BY <1>2 DEF RunTame, NoRelease, Releasing
  <1> QED BY <1>1, <1>2 DEF ReleaseTame

LEMMA CalmTransfer ==
  ASSUME RunTame, TokenTame, FutureTame PROVE TransferTame
  <1>1. ASSUME NEW o \in Object, NEW l \in Locality, Transferring(o, l)' PROVE Transferring(o, l)
    <2>1. CASE \E x \in tokens' : x.object = o /\ x.to = l
      BY <2>1 DEF TokenTame, Transferring
    <2>2. CASE \E k \in Locality : /\ futures'[k][o].kind = "transfer" /\ futures'[k][o].status = "ok"
                                   /\ futures'[k][o].to = l
      BY <2>2 DEF FutureTame, Transferring
    <2>3. CASE /\ run'["worker"].pc \in Admitting /\ run'["worker"].request.kind = "transfer"
               /\ run'["worker"].request.object = o /\ run'["worker"].request.lease = l
      BY <2>3 DEF RunTame, Transferring
    <2> QED BY <1>1, <2>1, <2>2, <2>3 DEF Transferring
  <1> QED BY <1>1 DEF TransferTame

LEMMA CalmEnd ==
  ASSUME RunTame, \A o \in Object : In(o, retirements') => In(o, retirements) PROVE EndTame
  <1>1. ASSUME NEW o \in Object, Ending(o)' PROVE Ending(o)
    <2>1. ASSUME NEW t \in Thread, run'[t].pc = "collect", o \in run'[t].object PROVE Ending(o)
      BY <2>1 DEF RunTame, Ending
    <2>2. In(o, run'["owner"].taken) => Ending(o) BY DEF RunTame, Ending
    <2>3. In(o, retirements') => Ending(o) BY DEF Ending
    <2>4. In(o, retirements)' = In(o, retirements') /\ In(o, run["owner"].taken)' = In(o, run'["owner"].taken)
      BY DEF In
    <2> QED BY <1>1, <2>1, <2>2, <2>3, <2>4 DEF Ending
  <1> QED BY <1>1 DEF EndTame, RunTame

LEMMA CalmHold ==
  ASSUME FutureTame, RootedTame PROVE HoldTame
  <1>1. \A o \in Object, l \in Locality : Created(l, o)' => Created(l, o)
    BY DEF FutureTame, Created
  <1>2. \A o \in Object, l \in Locality : HasRoot(l, o)' => HasRoot(l, o)
    BY <1>1 DEF RootedTame, HasRoot
  <1> QED BY <1>1, <1>2 DEF FutureTame, RootedTame, HoldTame

LEMMA CalmDirectory ==
  ASSUME LeaseTame PROVE DirectoryTame
  BY DEF LeaseTame, DirectoryTame

LEMMA CalmMatch ==
  ASSUME MatchInv, RunTame, NoAsk, FutureKinds PROVE MatchInv'
  <1> SUFFICES ASSUME NEW l \in Locality, NEW o \in Object, futures'[l][o].kind # "none"
      PROVE  /\ \A r \in Sent(l)' : Asking(r, l, o) => Fits(futures'[l][o], r)
             /\ Asking(run'["worker"].request, l, o) => Fits(futures'[l][o], run'["worker"].request)
    BY DEF MatchInv, Asking, Fits
  <1>1. futures'[l][o].kind = futures[l][o].kind /\ futures'[l][o].to = futures[l][o].to
    BY DEF FutureKinds
  <1>2. \A r : Fits(futures[l][o], r) => Fits(futures'[l][o], r) BY <1>1 DEF Fits
  <1>3. \A r \in Sent(l)' : Asking(r, l, o) => r \in Sent(l) BY DEF NoAsk, Asks, Asking
  <1>4. /\ \A r \in Sent(l) : Asking(r, l, o) => Fits(futures[l][o], r)
        /\ Asking(run["worker"].request, l, o) => Fits(futures[l][o], run["worker"].request)
    BY <1>1 DEF MatchInv
  <1>5. ~Asking(NoRequest, l, o) BY DEF Asking, NoRequest
  <1> QED BY <1>2, <1>3, <1>4, <1>5 DEF RunTame

\* Frames.
LEMMA SameRunTame ==
  ASSUME RunType, UNCHANGED run PROVE RunTame /\ RunType'
  BY DEF RunTame, RunType
LEMMA SameHolders ==
  ASSUME HolderType, UNCHANGED <<held, rooted>> PROVE RootedTame
  BY DEF RootedTame, Attached, HolderType
LEMMA SameFutures ==
  ASSUME UNCHANGED futures PROVE FutureTame
  BY DEF FutureTame, FutureKinds
LEMMA SameTokens ==
  ASSUME tokens' \subseteq tokens PROVE TokenTame
  BY DEF TokenTame
LEMMA SameSent ==
  ASSUME \A k \in Locality : Sent(k)' \subseteq Sent(k) PROVE NoRelease /\ NoAsk
  BY DEF NoRelease, NoAsk

LEMMA DoneTame ==
  ASSUME RunType, NEW t \in Thread, Done(t) PROVE RunTame /\ RunType'
  <1>1. /\ RunType' /\ run'[t].pc \in {"idle", "expire"} /\ run'[t].object = {}
        /\ run'[t].request = NoRequest /\ run'[t].taken = <<>>
        /\ \A u \in Thread : u # t => run'[u] = run[u]
    BY DoneRun
  <1>2. \A o : ~In(o, <<>>) BY DEF In
  <1>3. \A u \in Thread :
       /\ run'[u].pc \in {"release", "root release"} =>
            run[u].pc = run'[u].pc /\ run'[u].request = run[u].request
       /\ run'[u].pc = "collect" => run[u].pc = "collect" /\ run'[u].object = run[u].object
       /\ run'[u].object \subseteq run[u].object \cup born
    BY <1>1
  <1>4. /\ run'["worker"].pc \in Admitting =>
             run["worker"].pc \in Admitting /\ run'["worker"].request = run["worker"].request
        /\ run'["worker"].request \in {run["worker"].request, NoRequest}
    BY <1>1, Thread3 DEF Admitting
  <1>5. \A o \in Object : In(o, run'["owner"].taken) => In(o, run["owner"].taken)
    BY <1>1, <1>2, Thread3
  <1> QED BY <1>1, <1>3, <1>4, <1>5 DEF RunTame

\* A thread goes on, but not into the second half of collect.
LEMMA GoesTame ==
  ASSUME RunType, NEW t \in Thread, NEW pc \in Place, Goes(t, pc),
         Knows([run[t] EXCEPT !.pc = pc]), pc \notin {"release", "root release", "collect"},
         pc \in Admitting => run[t].pc \in Admitting
  PROVE  RunTame /\ RunType'
  <1>1. /\ RunType' /\ run'[t].pc = pc /\ run'[t].object = run[t].object
        /\ run'[t].request = run[t].request /\ run'[t].taken = run[t].taken
        /\ \A u \in Thread : u # t => run'[u] = run[u]
    BY GoesRun
  <1>2. \A u \in Thread :
       /\ run'[u].pc \in {"release", "root release"} =>
            run[u].pc = run'[u].pc /\ run'[u].request = run[u].request
       /\ run'[u].pc = "collect" => run[u].pc = "collect" /\ run'[u].object = run[u].object
       /\ run'[u].object \subseteq run[u].object \cup born
    BY <1>1
  <1>3. /\ run'["worker"].pc \in Admitting =>
             run["worker"].pc \in Admitting /\ run'["worker"].request = run["worker"].request
        /\ run'["worker"].request \in {run["worker"].request, NoRequest}
    BY <1>1, Thread3
  <1>4. \A o \in Object : In(o, run'["owner"].taken) => In(o, run["owner"].taken)
    BY <1>1, Thread3
  <1> QED BY <1>1, <1>2, <1>3, <1>4 DEF RunTame

\* The request's future learns of an error, or of a success.
LEMMA AnswerFutures ==
  ASSUME HolderType, NEW r \in AnyRequest, NEW status \in {"ok", "error"}, Answer(r, status)
  PROVE  /\ futures' \in [Locality -> [Object -> Future]]
         /\ \A l \in Locality, o \in Object :
              /\ futures'[l][o].kind = futures[l][o].kind /\ futures'[l][o].to = futures[l][o].to
              /\ \/ futures'[l][o].status = futures[l][o].status
                 \/ l = r.from /\ o = r.object /\ futures'[l][o].status = status
                    /\ futures[l][o] # NoFuture
  <1>1. r.from \in Locality /\ r.object \in Object BY DEF AnyRequest
  <1>2. futures \in [Locality -> [Object -> Future]] BY DEF HolderType
  <1>3. CASE futures[r.from][r.object] = NoFuture
    BY <1>2, <1>3 DEF Answer
  <1>4. CASE futures[r.from][r.object] # NoFuture
    <2> DEFINE f == futures[r.from][r.object]
               g == [f EXCEPT !.status = status]
    <2>1. f \in Future BY <1>1, <1>2
    <2>2. g \in Future /\ g.kind = f.kind /\ g.to = f.to /\ g.status = status
      BY <2>1 DEF Future
    <2>3. futures' = [futures EXCEPT ![r.from] = [futures[r.from] EXCEPT ![r.object] = g]]
      BY <1>4 DEF Answer
    <2> HIDE DEF g
    <2>4. futures' \in [Locality -> [Object -> Future]] BY <1>1, <1>2, <2>2, <2>3
    <2>5. futures'[r.from][r.object] = g BY <1>1, <1>2, <2>3
    <2>6. \A l \in Locality, o \in Object :
            (l = r.from /\ o = r.object) \/ futures'[l][o] = futures[l][o]
      BY <1>1, <1>2, <2>3
    <2> QED BY <1>4, <2>2, <2>4, <2>5, <2>6
  <1> QED BY <1>3, <1>4

LEMMA ErrorFutures ==
  ASSUME HolderType, NEW r \in AnyRequest, Answer(r, "error")
  PROVE  FutureTame /\ futures' \in [Locality -> [Object -> Future]]
  BY AnswerFutures DEF FutureTame, FutureKinds

\* The parts of a calm step together.
LEMMA CalmStep ==
  ASSUME LifeInv, Types', RunTame, NoRelease, NoAsk, TokenTame, FutureTame, RootedTame, LeaseTame,
         \A o \in Object : In(o, retirements') => In(o, retirements)
  PROVE  LifeInv'
  BY TameKeeps, CalmRelease, CalmTransfer, CalmEnd, CalmHold, CalmDirectory, CalmMatch
     DEF Tame, LifeInv, FutureTame

LEMMA TameStep ==
  ASSUME LifeInv, Types', Tame, MatchInv' PROVE LifeInv'
  BY TameKeeps DEF LifeInv

-----------------------------------------------------------------------------
(* The calm steps.                                                         *)

LEMMA SameDirectory ==
  ASSUME DirectoryType,
         UNCHANGED <<stored, born, leases, unrenewed, roots, lifecycle, retirements, first>>,
         pending_transfers' \subseteq pending_transfers
  PROVE  DirectoryType' /\ LeaseTame /\ \A o \in Object : In(o, retirements') => In(o, retirements)
  BY DEF DirectoryType, LeaseTame

LEMMA SameHolderType ==
  ASSUME HolderType, UNCHANGED <<held, tokens, rooted>>,
         futures' \in [Locality -> [Object -> Future]]
  PROVE  HolderType' /\ RootedTame /\ TokenTame
  BY SameHolders, SameTokens DEF HolderType

LEMMA SameHolding ==
  ASSUME HolderType, UNCHANGED <<held, futures, tokens, rooted>>
  PROVE  HolderType' /\ RootedTame /\ TokenTame /\ FutureTame
  BY SameHolders, SameTokens, SameFutures DEF HolderType

LEMMA RenewLeases ==
  ASSUME DirectoryType, NEW S, NEW l \in Locality, Renew(S, l)
  PROVE  /\ leases' \in [Object -> [Locality -> Record]]
         /\ unrenewed' \in [Object -> [Locality -> 0..(Ttl + Grace)]]
         /\ \A o \in Object, k \in Locality :
              /\ leases'[o][k].is = leases[o][k].is
              /\ \/ leases'[o][k] = leases[o][k] /\ unrenewed'[o][k] = unrenewed[o][k]
                 \/ leases'[o][k] = Renewed(leases[o][k]) /\ unrenewed'[o][k] = 0
  <1> DEFINE found == {o \in S \cap stored : leases[o][l].is}
  <1>1. /\ leases' = [o \in Object |-> IF o \in found THEN [leases[o] EXCEPT ![l] = Renewed(@)]
                                       ELSE leases[o]]
        /\ unrenewed' = [o \in Object |-> IF o \in found THEN [unrenewed[o] EXCEPT ![l] = 0]
                                          ELSE unrenewed[o]]
    BY DEF Renew
  <1> HIDE DEF found
  <1>2. /\ leases \in [Object -> [Locality -> Record]]
        /\ unrenewed \in [Object -> [Locality -> 0..(Ttl + Grace)]]
    BY DEF DirectoryType
  <1>3. \A o \in Object : leases[o] \in [Locality -> Record] /\ leases[o][l] \in Record
                          /\ Renewed(leases[o][l]) \in Record
    BY <1>2, ChangedRecords
  <1>4. 0 \in 0..(Ttl + Grace) BY LimitTypes
  <1>5. leases' \in [Object -> [Locality -> Record]] BY <1>1, <1>2, <1>3
  <1>6. unrenewed' \in [Object -> [Locality -> 0..(Ttl + Grace)]]
    <2>1. \A o \in Object : [unrenewed[o] EXCEPT ![l] = 0] \in [Locality -> 0..(Ttl + Grace)]
      <3> TAKE o \in Object
      <3>1. unrenewed[o] \in [Locality -> 0..(Ttl + Grace)] BY <1>2
      <3> QED BY <1>4, <3>1
    <2> QED BY <1>1, <1>2, <2>1
  <1>7. ASSUME NEW o \in Object, NEW k \in Locality
        PROVE  \/ leases'[o][k] = leases[o][k] /\ unrenewed'[o][k] = unrenewed[o][k]
               \/ leases'[o][k] = Renewed(leases[o][k]) /\ unrenewed'[o][k] = 0
    <2>1. leases[o] \in [Locality -> Record] /\ unrenewed[o] \in [Locality -> 0..(Ttl + Grace)]
      BY <1>2
    <2>2. CASE o \in found /\ k = l BY <1>1, <2>1, <2>2
    <2>3. CASE ~(o \in found /\ k = l) BY <1>1, <2>1, <2>3
    <2> QED BY <2>2, <2>3
  <1>8. ASSUME NEW o \in Object, NEW k \in Locality PROVE leases'[o][k].is = leases[o][k].is
    <2>1. leases[o][k] \in Record BY <1>2
    <2> QED BY <1>7, <2>1, ChangedRecords
  <1> QED BY <1>5, <1>6, <1>7, <1>8

LEMMA HandleRenewKeeps ==
  ASSUME LifeInv, NEW l \in Locality, HandleRenew(l) PROVE LifeInv'
  <1> USE DEF LifeInv, Types
  <1>1. QueueType' /\ \A k \in Locality : Sent(k)' \subseteq Sent(k)
    BY TakeQueue DEF HandleRenew
  <1>2. NoRelease /\ NoAsk BY <1>1, SameSent
  <1>3. RunTame /\ RunType' BY SameRunTame DEF HandleRenew
  <1>4. HolderType' /\ RootedTame /\ TokenTame /\ FutureTame
    BY SameHolding DEF HandleRenew, holders
  <1>5. /\ leases' \in [Object -> [Locality -> Record]]
        /\ unrenewed' \in [Object -> [Locality -> 0..(Ttl + Grace)]]
        /\ \A o \in Object, k \in Locality : leases'[o][k].is = leases[o][k].is
    BY RenewLeases DEF HandleRenew
  <1>6. UNCHANGED <<stored, born, roots, lifecycle, retirements, first, pending_transfers>>
    BY DEF HandleRenew, counters
  <1>7. DirectoryType' BY <1>5, <1>6 DEF DirectoryType
  <1>8. LeaseTame BY <1>5, <1>6 DEF LeaseTame
  <1> QED BY <1>1, <1>2, <1>3, <1>4, <1>6, <1>7, <1>8, CalmStep

LEMMA HandleAckKeeps ==
  ASSUME LifeInv, NEW l \in Locality, HandleAck(l) PROVE LifeInv'
  <1> USE DEF LifeInv, Types
  <1>1. QueueType' /\ \A k \in Locality : Sent(k)' \subseteq Sent(k)
    BY TakeQueue DEF HandleAck
  <1>2. NoRelease /\ NoAsk BY <1>1, SameSent
  <1>3. RunTame /\ RunType' BY SameRunTame DEF HandleAck
  <1>4. HolderType' /\ RootedTame /\ TokenTame /\ FutureTame
    BY SameHolding DEF HandleAck, holders
  <1>5. /\ DirectoryType' /\ LeaseTame
        /\ \A o \in Object : In(o, retirements') => In(o, retirements)
    BY SameDirectory DEF HandleAck, directory, history, Unpin
  <1> QED BY <1>1, <1>2, <1>3, <1>4, <1>5, CalmStep

\* What the worker knows while it admits a lease.
LEMMA AdmittingKnows ==
  ASSUME RunType, NEW pc \in Admitting, Working(pc)
  PROVE  LET r == run["worker"].request IN
           /\ r \in AnyRequest /\ r.kind \in {"acquire", "transfer"}
           /\ run["worker"].object = {r.object} /\ run["worker"] \in Execution
           /\ r.object \in Object /\ r.lease \in Locality /\ r.from \in Locality
           /\ run["worker"].pc = pc
           /\ \A next \in Admitting : Knows([run["worker"] EXCEPT !.pc = next])
  <1> DEFINE x == run["worker"]
  <1>1. x \in Execution /\ Knows(x) /\ x.pc = pc BY Thread3 DEF RunType, Working
  <1>2. pc \in Requesting BY DEF Admitting, Requesting
  <1>3. x.request \in AnyRequest /\ x.object = {x.request.object}
        /\ x.request.kind \in {"acquire", "transfer"}
    BY <1>1, <1>2 DEF Knows
  <1>4. ASSUME NEW next \in Admitting PROVE Knows([x EXCEPT !.pc = next])
    <2>1. [x EXCEPT !.pc = next].pc = next /\ [x EXCEPT !.pc = next].request = x.request
          /\ [x EXCEPT !.pc = next].object = x.object
      BY <1>1 DEF Execution
    <2>2. next \notin {"check", "collect", "call", "transfers", "retire"} BY DEF Admitting
    <2> QED BY <1>3, <2>1, <2>2 DEF Knows
  <1> QED BY <1>1, <1>3, <1>4 DEF AnyRequest

LEMMA PinTransferKeeps ==
  ASSUME LifeInv, PinTransfer PROVE LifeInv'
  <1> USE DEF LifeInv, Types
  <1> DEFINE r == run["worker"].request
             pin == <<r.object, r.lease>>
  <1>1. /\ r \in AnyRequest /\ r.object \in Object /\ r.lease \in Locality
        /\ run["worker"].pc = "pin"
        /\ \A next \in Admitting : Knows([run["worker"] EXCEPT !.pc = next])
    BY AdmittingKnows DEF PinTransfer, Admitting
  <1>2. QueueType' /\ \A k \in Locality : Sent(k)' = Sent(k) BY SameQueue DEF PinTransfer
  <1>3. NoRelease /\ NoAsk BY <1>2, SameSent
  <1>4. UNCHANGED <<stored, born, leases, unrenewed, roots, lifecycle, retirements, first>>
    BY DEF PinTransfer, directory, history
  <1>5. UNCHANGED <<held, tokens, rooted>> BY DEF PinTransfer
  <1>6. LeaseTame /\ \A o \in Object : In(o, retirements') => In(o, retirements)
    BY <1>4 DEF LeaseTame
  <1>7. CASE pin \in pending_transfers \/ transfer_count >= MaxTransfers
    <2>1. /\ Answer(r, "error") /\ Done("worker") /\ UNCHANGED pending_transfers
      BY <1>7 DEF PinTransfer
    <2>2. RunTame /\ RunType' BY <2>1, DoneTame, Thread3
    <2>3. FutureTame /\ futures' \in [Locality -> [Object -> Future]]
      BY <1>1, <2>1, ErrorFutures
    <2>4. HolderType' /\ RootedTame /\ TokenTame BY <1>5, <2>3, SameHolderType
    <2>5. DirectoryType' BY <1>4, <2>1, SameDirectory
    <2> QED BY <1>2, <1>3, <1>6, <2>2, <2>3, <2>4, <2>5, CalmStep
  <1>8. CASE ~(pin \in pending_transfers \/ transfer_count >= MaxTransfers)
    <2>1. /\ pending_transfers' = pending_transfers \cup {pin}
          /\ Goes("worker", "lookup") /\ UNCHANGED futures
      BY <1>8 DEF PinTransfer
    <2>2. RunTame /\ RunType'
      BY <1>1, <2>1, GoesTame, Thread3 DEF Admitting, Place, Requesting
    <2>3. HolderType' /\ RootedTame /\ TokenTame /\ FutureTame BY <1>5, <2>1, SameHolding
    <2>4. DirectoryType' BY <1>1, <1>4, <2>1 DEF DirectoryType
    <2> QED BY <1>2, <1>3, <1>6, <2>2, <2>3, <2>4, CalmStep
  <1> QED BY <1>7, <1>8

LEMMA LookUpKeeps ==
  ASSUME LifeInv, LookUp PROVE LifeInv'
  <1> USE DEF LifeInv, Types
  <1>1. /\ run["worker"].pc = "lookup"
        /\ \A next \in Admitting : Knows([run["worker"] EXCEPT !.pc = next])
    BY AdmittingKnows DEF LookUp, Admitting
  <1>2. QueueType' /\ \A k \in Locality : Sent(k)' = Sent(k) BY SameQueue DEF LookUp
  <1>3. NoRelease /\ NoAsk BY <1>2, SameSent
  <1>4. /\ DirectoryType' /\ LeaseTame
        /\ \A o \in Object : In(o, retirements') => In(o, retirements)
    BY SameDirectory DEF LookUp, directory, history, counters
  <1>5. HolderType' /\ RootedTame /\ TokenTame /\ FutureTame
    BY SameHolding DEF LookUp, holders
  <1>6. PICK next \in {"insert", "unpin"} : Goes("worker", next) BY DEF LookUp
  <1>7. RunTame /\ RunType'
    BY <1>1, <1>6, GoesTame, Thread3 DEF Admitting, Place, Requesting
  <1> QED BY <1>2, <1>3, <1>4, <1>5, <1>7, CalmStep

LEMMA GiveUpKeeps ==
  ASSUME LifeInv, GiveUpTransfer PROVE LifeInv'
  <1> USE DEF LifeInv, Types
  <1> DEFINE r == run["worker"].request
  <1>1. r \in AnyRequest BY AdmittingKnows DEF GiveUpTransfer, Admitting
  <1>2. QueueType' /\ \A k \in Locality : Sent(k)' = Sent(k) BY SameQueue DEF GiveUpTransfer
  <1>3. NoRelease /\ NoAsk BY <1>2, SameSent
  <1>4. /\ DirectoryType' /\ LeaseTame
        /\ \A o \in Object : In(o, retirements') => In(o, retirements)
    BY SameDirectory DEF GiveUpTransfer, directory
  <1>5. Answer(r, "error") /\ Done("worker") /\ UNCHANGED <<held, tokens, rooted>>
    BY DEF GiveUpTransfer
  <1>6. FutureTame /\ futures' \in [Locality -> [Object -> Future]]
    BY <1>1, <1>5, ErrorFutures
  <1>7. HolderType' /\ RootedTame /\ TokenTame BY <1>5, <1>6, SameHolderType
  <1>8. RunTame /\ RunType' BY <1>5, DoneTame, Thread3
  <1> QED BY <1>2, <1>3, <1>4, <1>6, <1>7, <1>8, CalmStep

\* From where the object is known a thread may go on to collect's check.
LEMMA CheckKnows ==
  ASSUME RunType, NEW t \in Thread,
         run[t].pc \in Requesting \/ run[t].pc \in {"call", "transfers"}
  PROVE  Knows([run[t] EXCEPT !.pc = "check"]) /\ "check" \in Place
         /\ "check" \notin Admitting /\ "check" \notin {"release", "root release", "collect"}
  <1> DEFINE x == run[t]
  <1>1. x \in Execution /\ Knows(x) BY DEF RunType
  <1>2. \E o \in Object : x.object = {o}
    <2>1. CASE x.pc \in Requesting
      <3>1. x.request \in AnyRequest /\ x.object = {x.request.object} BY <1>1, <2>1 DEF Knows
      <3> QED BY <3>1 DEF AnyRequest
    <2>2. CASE x.pc \in {"call", "transfers"} BY <1>1, <2>2 DEF Knows
    <2> QED BY <2>1, <2>2
  <1>3. [x EXCEPT !.pc = "check"].pc = "check" /\ [x EXCEPT !.pc = "check"].object = x.object
    BY <1>1 DEF Execution
  <1> QED BY <1>2, <1>3 DEF Knows, Requesting, Admitting, Place

LEMMA ReleaseTransferKeeps ==
  ASSUME LifeInv, NEW t \in Thread, ReleaseTransfer(t) PROVE LifeInv'
  <1> USE DEF LifeInv, Types
  <1>1. QueueType' /\ \A k \in Locality : Sent(k)' = Sent(k) BY SameQueue DEF ReleaseTransfer
  <1>2. NoRelease /\ NoAsk BY <1>1, SameSent
  <1>3. /\ DirectoryType' /\ LeaseTame
        /\ \A o \in Object : In(o, retirements') => In(o, retirements)
    BY SameDirectory DEF ReleaseTransfer, directory, history, Unpin
  <1>4. HolderType' /\ RootedTame /\ TokenTame /\ FutureTame
    BY SameHolding DEF ReleaseTransfer, holders
  <1>5. run[t].pc \in Requesting BY DEF ReleaseTransfer, Requesting
  <1>6. RunTame /\ RunType' BY <1>5, CheckKnows, GoesTame DEF ReleaseTransfer
  <1> QED BY <1>1, <1>2, <1>3, <1>4, <1>6, CalmStep

LEMMA ReturnKeeps ==
  ASSUME LifeInv, Return PROVE LifeInv'
  <1> USE DEF LifeInv, Types
  <1>1. QueueType' /\ \A k \in Locality : Sent(k)' = Sent(k) BY SameQueue DEF Return
  <1>2. NoRelease /\ NoAsk BY <1>1, SameSent
  <1>3. /\ DirectoryType' /\ LeaseTame
        /\ \A o \in Object : In(o, retirements') => In(o, retirements)
    BY SameDirectory DEF Return, directory, history, counters
  <1>4. HolderType' /\ RootedTame /\ TokenTame /\ FutureTame
    BY SameHolding DEF Return, holders
  <1>5. RunTame /\ RunType' BY CheckKnows, GoesTame, Thread3 DEF Return
  <1> QED BY <1>1, <1>2, <1>3, <1>4, <1>5, CalmStep

LEMMA ExpireTransfersKeeps ==
  ASSUME LifeInv, ExpireTransfers PROVE LifeInv'
  <1> USE DEF LifeInv, Types
  <1>1. QueueType' /\ \A k \in Locality : Sent(k)' = Sent(k) BY SameQueue DEF ExpireTransfers
  <1>2. NoRelease /\ NoAsk BY <1>1, SameSent
  <1>3. /\ DirectoryType' /\ LeaseTame
        /\ \A o \in Object : In(o, retirements') => In(o, retirements)
    BY SameDirectory DEF ExpireTransfers, directory, history
  <1>4. HolderType' /\ RootedTame /\ TokenTame /\ FutureTame
    BY SameHolding DEF ExpireTransfers, holders
  <1>5. RunTame /\ RunType' BY CheckKnows, GoesTame, Thread3 DEF ExpireTransfers
  <1> QED BY <1>1, <1>2, <1>3, <1>4, <1>5, CalmStep

\* A thread begins something that is neither a release nor a collection.
LEMMA FreshTame ==
  ASSUME RunType, NEW t \in Thread, NEW x \in Execution, Knows(x), run' = [run EXCEPT ![t] = x],
         x.pc \notin {"release", "root release", "collect"}, x.pc \notin Admitting,
         x.object \subseteq born, x.request = NoRequest,
         \A o \in Object : In(o, x.taken) => In(o, run[t].taken)
  PROVE  RunTame /\ RunType'
  <1>1. RunType' /\ run'[t] = x /\ \A u \in Thread : u # t => run'[u] = run[u]
    BY RunChange
  <1>2. \A u \in Thread :
       /\ run'[u].pc \in {"release", "root release"} =>
            run[u].pc = run'[u].pc /\ run'[u].request = run[u].request
       /\ run'[u].pc = "collect" => run[u].pc = "collect" /\ run'[u].object = run[u].object
       /\ run'[u].object \subseteq run[u].object \cup born
    BY <1>1
  <1>3. /\ run'["worker"].pc \in Admitting =>
             run["worker"].pc \in Admitting /\ run'["worker"].request = run["worker"].request
        /\ run'["worker"].request \in {run["worker"].request, NoRequest}
    BY <1>1, Thread3
  <1>4. \A o \in Object : In(o, run'["owner"].taken) => In(o, run["owner"].taken)
    BY <1>1, Thread3
  <1> QED BY <1>1, <1>2, <1>3, <1>4 DEF RunTame

LEMMA NothingIn == \A o : ~In(o, <<>>)
  BY DEF In

LEMMA ProgressKeeps ==
  ASSUME LifeInv, Progress PROVE LifeInv'
  <1> USE DEF LifeInv, Types
  <1>1. QueueType' /\ \A k \in Locality : Sent(k)' = Sent(k) BY SameQueue DEF Progress
  <1>2. NoRelease /\ NoAsk BY <1>1, SameSent
  <1> DEFINE x == [Idle EXCEPT !.pc = "expire", !.todo = stored]
  <1>3. RunTame /\ RunType'
    <2>1. stored \in SUBSET Object BY DEF DirectoryType
    <2>2. /\ x \in Execution /\ x.pc = "expire" /\ x.object = {} /\ x.request = NoRequest
          /\ x.taken = <<>>
      BY <2>1, IdleType DEF Execution, Place
    <2>3. Knows(x) BY <2>2 DEF Knows, Requesting, Admitting
    <2>4. run' = [run EXCEPT !["owner"] = x] BY DEF Progress
    <2>5. x.pc \notin Admitting BY <2>2 DEF Admitting
    <2> HIDE DEF x
    <2> QED BY <2>2, <2>3, <2>4, <2>5, NothingIn, FreshTame, Thread3
  <1>4. Home \in Locality BY LimitTypes
  <1>5. /\ leases' \in [Object -> [Locality -> Record]]
        /\ unrenewed' \in [Object -> [Locality -> 0..(Ttl + Grace)]]
        /\ \A o \in Object, k \in Locality : leases'[o][k].is = leases[o][k].is
    BY <1>4, RenewLeases DEF Progress
  <1>6. UNCHANGED <<stored, born, roots, lifecycle, retirements, first, pending_transfers>>
    BY DEF Progress, counters
  <1>7. DirectoryType' BY <1>5, <1>6 DEF DirectoryType
  <1>8. LeaseTame BY <1>5, <1>6 DEF LeaseTame
  <1>9. held' = [held EXCEPT ![Home] = [o \in Object |-> IF held[Home][o] = 0 THEN Renewal
                                                         ELSE held[Home][o]]]
    BY DEF Progress, Restarted
  <1>10. held \in [Locality -> [Object -> NotHeld..Renewal]] BY DEF HolderType
  <1>11. Renewal \in NotHeld..Renewal /\ Renewal # NotHeld BY LimitTypes DEF NotHeld
  <1>12. held' \in [Locality -> [Object -> NotHeld..Renewal]]
    <2>1. [o \in Object |-> IF held[Home][o] = 0 THEN Renewal ELSE held[Home][o]]
             \in [Object -> NotHeld..Renewal]
      BY <1>4, <1>10, <1>11
    <2> QED BY <1>9, <1>10, <2>1
  <1>13. \A l \in Locality, o \in Object : Attached(l, o)' => Attached(l, o)
    <2> TAKE l \in Locality, o \in Object
    <2>1. CASE l = Home /\ held[Home][o] = 0
      BY <2>1 DEF Attached, NotHeld
    <2>2. CASE ~(l = Home /\ held[Home][o] = 0)
      <3>1. held'[l][o] = held[l][o] BY <1>4, <1>9, <1>10, <2>2
      <3> QED BY <3>1 DEF Attached
    <2> QED BY <2>1, <2>2
  <1>14. UNCHANGED <<futures, tokens, rooted>> BY DEF Progress
  <1>15. HolderType' BY <1>12, <1>14 DEF HolderType
  <1>16. RootedTame BY <1>13, <1>14 DEF RootedTame
  <1>17. FutureTame /\ TokenTame BY <1>14, SameFutures, SameTokens
  <1> QED BY <1>1, <1>2, <1>3, <1>6, <1>7, <1>8, <1>15, <1>16, <1>17, CalmStep

LEMMA CallKeeps ==
  ASSUME LifeInv, NEW o \in Object, Call(o) PROVE LifeInv'
  <1> USE DEF LifeInv, Types
  <1>1. QueueType' /\ \A k \in Locality : Sent(k)' = Sent(k) BY SameQueue DEF Call
  <1>2. NoRelease /\ NoAsk BY <1>1, SameSent
  <1>3. /\ DirectoryType' /\ LeaseTame
        /\ \A p \in Object : In(p, retirements') => In(p, retirements)
    BY SameDirectory DEF Call, directory, history, counters
  <1>4. HolderType' /\ RootedTame /\ TokenTame /\ FutureTame
    BY SameHolding DEF Call, holders
  <1> DEFINE x == [Idle EXCEPT !.pc = "call", !.object = {o}]
  <1>5. /\ x \in Execution /\ x.pc = "call" /\ x.object = {o} /\ x.request = NoRequest
        /\ x.taken = <<>>
    BY IdleType DEF Execution, Place
  <1>6. Knows(x) BY <1>5 DEF Knows, Requesting, Admitting
  <1>7. run' = [run EXCEPT !["client"] = x] BY DEF Call
  <1>8. x.pc \notin Admitting BY <1>5 DEF Admitting
  <1>9. o \in born BY DEF Call, CanCall, DirectoryType
  <1> HIDE DEF x
  <1>10. RunTame /\ RunType'
    BY <1>5, <1>6, <1>7, <1>8, <1>9, NothingIn, FreshTame, Thread3
  <1> QED BY <1>1, <1>2, <1>3, <1>4, <1>10, CalmStep

LEMMA MoveKeeps ==
  ASSUME LifeInv, NEW o \in Object, Move(o) PROVE LifeInv'
  <1> USE DEF LifeInv, Types
  <1>1. QueueType' /\ \A k \in Locality : Sent(k)' = Sent(k) BY SameQueue DEF Move
  <1>2. NoRelease /\ NoAsk BY <1>1, SameSent
  <1>3. RunTame /\ RunType' BY SameRunTame DEF Move
  <1>4. HolderType' /\ RootedTame /\ TokenTame /\ FutureTame
    BY SameHolding DEF Move, holders
  <1>5. /\ UNCHANGED <<stored, born, leases, unrenewed, roots, retirements, first, pending_transfers>>
        /\ lifecycle' = [lifecycle EXCEPT ![o] = "Forwarding"]
    BY DEF Move, history, counters
  <1>6. DirectoryType' /\ LeaseTame BY <1>5 DEF DirectoryType, LeaseTame
  <1> QED BY <1>1, <1>2, <1>3, <1>4, <1>5, <1>6, CalmStep

LEMMA NoFutureType ==
  NoFuture \in Future /\ NoFuture.kind = "none" /\ NoFuture.status = "none"
  BY LimitTypes DEF NoFuture, Future

LEMMA DropFutureKeeps ==
  ASSUME LifeInv, NEW l \in Locality, NEW o \in Object, DropFuture(l, o) PROVE LifeInv'
  <1> USE DEF LifeInv, Types
  <1>1. QueueType' /\ \A k \in Locality : Sent(k)' = Sent(k) BY SameQueue DEF DropFuture
  <1>2. NoRelease /\ NoAsk BY <1>1, SameSent
  <1>3. RunTame /\ RunType' BY SameRunTame DEF DropFuture
  <1>4. /\ DirectoryType' /\ LeaseTame
        /\ \A p \in Object : In(p, retirements') => In(p, retirements)
    BY SameDirectory DEF DropFuture, directory, history, counters
  <1>5. futures' = [futures EXCEPT ![l][o] = NoFuture] /\ UNCHANGED <<held, tokens, rooted>>
    BY DEF DropFuture
  <1>6. futures \in [Locality -> [Object -> Future]] BY DEF HolderType
  <1>7. futures' \in [Locality -> [Object -> Future]] BY <1>5, <1>6, NoFutureType
  <1>8. \A k \in Locality, p \in Object :
          futures'[k][p] = NoFuture \/ futures'[k][p] = futures[k][p]
    BY <1>5, <1>6
  <1>9. FutureTame BY <1>8, NoFutureType DEF FutureTame, FutureKinds
  <1>10. HolderType' /\ RootedTame /\ TokenTame BY <1>5, <1>7, SameHolderType
  <1> QED BY <1>1, <1>2, <1>3, <1>4, <1>9, <1>10, CalmStep

\* A new request.
LEMMA RequestType ==
  ASSUME NEW kind \in Kind, NEW o \in Object, NEW l \in Locality, NEW k \in Locality
  PROVE  /\ Request(kind, o, l, k) \in AnyRequest
         /\ Request(kind, o, l, k).kind = kind /\ Request(kind, o, l, k).object = o
         /\ Request(kind, o, l, k).from = l /\ Request(kind, o, l, k).lease = k
  BY DEF Request, AnyRequest

LEMMA Kinds ==
  /\ "create" \in Kind /\ "acquire" \in Kind /\ "transfer" \in Kind /\ "renew" \in Kind
  /\ "ack" \in Kind /\ "release" \in Kind /\ "root release" \in Kind
  BY DEF Kind

LEMMA RenewDueKeeps ==
  ASSUME LifeInv, NEW l \in Locality, NEW o \in Object, RenewDue(l, o) PROVE LifeInv'
  <1> DEFINE r == Request("renew", o, l, l)
  <1>1. r \in AnyRequest /\ r.kind = "renew" /\ r.from = l
    <2>1. "renew" \in Kind BY Kinds
    <2> QED BY <2>1, RequestType
  <1> USE DEF LifeInv, Types
  <1>2. Control(l, r) BY DEF RenewDue
  <1> HIDE DEF r
  <1>3. QueueType' /\ \A k \in Locality : Sent(k)' \subseteq Sent(k) \cup {r}
    BY <1>1, <1>2, ControlQueue
  <1>4. NoRelease /\ NoAsk BY <1>1, <1>3 DEF NoRelease, NoAsk, Asks
  <1>5. RunTame /\ RunType' BY SameRunTame DEF RenewDue
  <1>6. /\ DirectoryType' /\ LeaseTame
        /\ \A p \in Object : In(p, retirements') => In(p, retirements)
    BY SameDirectory DEF RenewDue, directory, history, counters
  <1>7. held \in [Locality -> [Object -> NotHeld..Renewal]] BY DEF HolderType
  <1>8. /\ held' = [held EXCEPT ![l][o] = Renewal] /\ held[l][o] = 0
        /\ UNCHANGED <<futures, tokens, rooted>>
    BY DEF RenewDue
  <1>9. Renewal \in NotHeld..Renewal /\ 0 # NotHeld BY LimitTypes DEF NotHeld
  <1>10. HolderType' BY <1>7, <1>8, <1>9 DEF HolderType
  <1>11. RootedTame
    <2>1. \A k \in Locality, p \in Object : Attached(k, p)' => Attached(k, p)
      BY <1>7, <1>8, <1>9 DEF Attached
    <2> QED BY <1>8, <2>1 DEF RootedTame
  <1>12. FutureTame /\ TokenTame BY <1>8, SameFutures, SameTokens
  <1> QED BY <1>3, <1>4, <1>5, <1>6, <1>10, <1>11, <1>12, CalmStep

LEMMA TickKeeps ==
  ASSUME LifeInv, Tick PROVE LifeInv'
  <1> USE DEF LifeInv, Types
  <1>1. QueueType' /\ \A k \in Locality : Sent(k)' = Sent(k) BY SameQueue DEF Tick
  <1>2. NoRelease /\ NoAsk BY <1>1, SameSent
  <1>3. RunTame /\ RunType' BY SameRunTame DEF Tick
  <1>4. UNCHANGED <<stored, born, roots, lifecycle, retirements, first, pending_transfers, rooted>>
    BY DEF Tick, counters
  <1>5. leases \in [Object -> [Locality -> Record]] BY DEF DirectoryType
  <1>6. leases' = [o \in Object |-> [l \in Locality |->
                     IF o \in stored THEN Aged(leases[o][l]) ELSE leases[o][l]]]
    BY DEF Tick
  <1>7. \A o \in Object, l \in Locality :
          leases[o][l] \in Record /\ Aged(leases[o][l]) \in Record
          /\ Aged(leases[o][l]).is = leases[o][l].is
    BY <1>5, ChangedRecords
  <1>8. leases' \in [Object -> [Locality -> Record]] BY <1>6, <1>7
  <1>9. \A o \in Object, l \in Locality : leases[o][l].is => leases'[o][l].is
    BY <1>6, <1>7
  <1>10. unrenewed' \in [Object -> [Locality -> 0..(Ttl + Grace)]]
    <2>1. unrenewed \in [Object -> [Locality -> 0..(Ttl + Grace)]] BY DEF DirectoryType
    <2>2. Ttl + Grace \in Nat BY LimitTypes
    <2>3. \A o \in Object, l \in Locality : unrenewed[o][l] \in 0..(Ttl + Grace) BY <2>1
    <2>4. \A o \in Object, l \in Locality :
            unrenewed[o][l] < Ttl + Grace => unrenewed[o][l] + 1 \in 0..(Ttl + Grace)
      <3> TAKE o \in Object, l \in Locality
      <3> DEFINE u == unrenewed[o][l]
                 m == Ttl + Grace
      <3>1. u \in 0..m /\ m \in Nat BY <2>2, <2>3
      <3> HIDE DEF u, m
      <3>2. u < m => u + 1 \in 0..m BY <3>1
      <3> QED BY <3>2 DEF u, m
    <2>5. unrenewed' = [o \in Object |-> [l \in Locality |->
                     IF o \in stored /\ leases[o][l].is /\ unrenewed[o][l] < Ttl + Grace
                     THEN unrenewed[o][l] + 1 ELSE unrenewed[o][l]]]
      BY DEF Tick
    <2> QED BY <2>3, <2>4, <2>5
  <1>11. DirectoryType' BY <1>4, <1>8, <1>10 DEF DirectoryType
  <1>12. LeaseTame BY <1>4, <1>9 DEF LeaseTame
  <1>13. /\ held' \in [Locality -> [Object -> NotHeld..Renewal]]
         /\ \A l \in Locality, o \in Object : Attached(l, o)' => Attached(l, o)
    <2>1. held \in [Locality -> [Object -> NotHeld..Renewal]] BY DEF HolderType
    <2>2. held' = [l \in Locality |-> [o \in Object |-> Less(held[l][o])]] BY DEF Tick
    <2>3. \A l \in Locality, o \in Object :
            /\ held[l][o] \in NotHeld..Renewal /\ Less(held[l][o]) \in NotHeld..Renewal
            /\ held[l][o] = NotHeld => Less(held[l][o]) = NotHeld
      BY <2>1, LimitTypes DEF Less, NotHeld
    <2>4. held' \in [Locality -> [Object -> NotHeld..Renewal]] BY <2>2, <2>3
    <2>5. \A l \in Locality, o \in Object : held'[l][o] = Less(held[l][o]) BY <2>2
    <2> QED BY <2>3, <2>4, <2>5 DEF Attached
  <1>14. FutureTame /\ futures' \in [Locality -> [Object -> Future]]
    <2> DEFINE Later(f) == [f EXCEPT !.left = Less(@)]
    <2>1. futures \in [Locality -> [Object -> Future]] BY DEF HolderType
    <2>2. futures' = [l \in Locality |-> [o \in Object |-> Later(futures[l][o])]]
      BY DEF Tick
    <2>3. ASSUME NEW f \in Future
          PROVE  /\ Later(f) \in Future /\ Later(f).kind = f.kind /\ Later(f).to = f.to
                 /\ Later(f).status = f.status
      <3>1. Less(f.left) \in 0..Ttl BY LimitTypes DEF Future, Less
      <3>2. Later(f) = [f EXCEPT !.left = Less(f.left)] BY DEF Future
      <3> QED BY <3>1, <3>2 DEF Future
    <2> HIDE DEF Later
    <2>4. \A l \in Locality, o \in Object :
            /\ futures'[l][o] \in Future /\ futures'[l][o].kind = futures[l][o].kind
            /\ futures'[l][o].to = futures[l][o].to /\ futures'[l][o].status = futures[l][o].status
      BY <2>1, <2>2, <2>3
    <2> QED BY <2>2, <2>3, <2>1, <2>4 DEF FutureTame, FutureKinds
  <1>15. TokenTame /\ tokens' \subseteq Token
    <2> DEFINE Later(t) == [t EXCEPT !.left = Less(@)]
    <2>1. tokens \subseteq Token BY DEF HolderType
    <2>2. tokens' = {Later(t) : t \in tokens} BY DEF Tick
    <2>3. ASSUME NEW t \in Token
          PROVE  Later(t) \in Token /\ Later(t).object = t.object /\ Later(t).to = t.to
      <3>1. Less(t.left) \in 0..Ttl BY LimitTypes DEF Token, Less
      <3>2. Later(t) = [t EXCEPT !.left = Less(t.left)] BY DEF Token
      <3> QED BY <3>1, <3>2 DEF Token
    <2> HIDE DEF Later
    <2> QED BY <2>1, <2>2, <2>3 DEF TokenTame
  <1>16. HolderType' BY <1>4, <1>13, <1>14, <1>15 DEF HolderType
  <1>17. RootedTame BY <1>4, <1>13 DEF RootedTame
  <1> QED BY <1>1, <1>2, <1>3, <1>4, <1>11, <1>12, <1>14, <1>15, <1>16, <1>17, CalmStep

-----------------------------------------------------------------------------
(* Handlers, expiry and collection.                                        *)

LEMMA HandleAcquireKeeps ==
  ASSUME LifeInv, NEW l \in Locality, HandleAcquire(l) PROVE LifeInv'
  <1> DEFINE r == Head(queue[l])
  <1>1. PICK kind \in {"acquire", "transfer"} : Take(l, kind) BY DEF HandleAcquire
  <1> USE DEF LifeInv, Types
  <1>2. /\ QueueType' /\ \A k \in Locality : Sent(k)' \subseteq Sent(k)
        /\ run["worker"] = Idle
        /\ r \in AnyRequest /\ r \in Sent(l) /\ r.from = l /\ r.kind = kind
    BY <1>1, TakeQueue
  <1>3. NoRelease /\ NoAsk BY <1>2, SameSent
  <1>4. /\ DirectoryType' /\ LeaseTame
        /\ \A o \in Object : In(o, retirements') => In(o, retirements)
    BY SameDirectory DEF HandleAcquire, directory, counters, history
  <1>5. r.object \in Object /\ r.lease \in Locality /\ r.from \in Locality BY <1>2 DEF AnyRequest
  <1>6. CASE \/ r.object \notin stored
             \/ r.kind = "transfer" /\ leases[r.object][r.lease].is
    <2>1. Answer(r, "error") /\ UNCHANGED <<run, held, tokens, rooted>>
      BY <1>6 DEF HandleAcquire
    <2>2. FutureTame /\ futures' \in [Locality -> [Object -> Future]]
      BY <1>2, <2>1, ErrorFutures
    <2>3. HolderType' /\ RootedTame /\ TokenTame BY <2>1, <2>2, SameHolderType
    <2>4. RunTame /\ RunType' BY <2>1, SameRunTame
    <2> QED BY <1>2, <1>3, <1>4, <2>2, <2>3, <2>4, CalmStep
  <1>7. CASE ~(\/ r.object \notin stored
               \/ r.kind = "transfer" /\ leases[r.object][r.lease].is)
    <2> DEFINE x == [Idle EXCEPT !.pc = IF r.kind = "transfer" THEN "pin" ELSE "insert",
                                 !.request = r, !.object = {r.object}]
    <2>1. run' = [run EXCEPT !["worker"] = x] /\ UNCHANGED <<futures, held, tokens, rooted>>
      BY <1>7 DEF HandleAcquire
    <2>2. /\ x \in Execution /\ x.pc \in {"pin", "insert"} /\ x.request = r
          /\ x.object = {r.object} /\ x.taken = <<>>
      BY <1>2, <1>5, IdleType DEF Execution, Place, Requesting
    <2> HIDE DEF r, x
    <2>3. Knows(x) BY <1>2, <2>2 DEF Knows, Requesting
    <2>4. RunType' /\ run'["worker"] = x /\ \A u \in Thread : u # "worker" => run'[u] = run[u]
      BY <2>1, <2>2, <2>3, RunChange, Thread3
    <2>5. HolderType' /\ RootedTame /\ TokenTame /\ FutureTame BY <2>1, SameHolding
    <2>6. \A t \in Thread : run'[t].pc \in {"release", "root release", "collect"} => run'[t] = run[t]
      BY <2>2, <2>4
    <2>7. ReleaseTame
      <3>1. ASSUME NEW o \in Object, Unrooting(o)' PROVE Unrooting(o)
        BY <1>2, <2>6, <3>1 DEF Unrooting
      <3>2. ASSUME NEW o \in Object, NEW k \in Locality, Releasing(o, k)' PROVE Releasing(o, k)
        BY <1>2, <2>6, <3>2 DEF Releasing
      <3> QED BY <3>1, <3>2 DEF ReleaseTame
    <2>8. TransferTame
      <3> SUFFICES ASSUME NEW o \in Object, NEW k \in Locality, Transferring(o, k)'
          PROVE  Transferring(o, k) \/ (o \in stored /\ ~leases[o][k].is)
        BY DEF TransferTame
      <3>1. CASE \E y \in tokens' : y.object = o /\ y.to = k BY <2>1, <3>1 DEF Transferring
      <3>2. CASE \E j \in Locality : /\ futures'[j][o].kind = "transfer"
                                     /\ futures'[j][o].status = "ok" /\ futures'[j][o].to = k
        BY <2>1, <3>2 DEF Transferring
      <3>3. CASE /\ run'["worker"].request.kind = "transfer"
                 /\ run'["worker"].request.object = o /\ run'["worker"].request.lease = k
        BY <1>7, <2>2, <2>4, <3>3
      <3> QED BY <3>1, <3>2, <3>3 DEF Transferring
    <2>9. EndTame
      <3>1. ASSUME NEW o \in Object, Ending(o)' PROVE Ending(o)
        <4>1. run'["owner"] = run["owner"] /\ UNCHANGED retirements
          BY <2>4, Thread3 DEF HandleAcquire
        <4> QED BY <2>6, <3>1, <4>1 DEF Ending, In
      <3>2. r.object \in born BY <1>7 DEF DirectoryType
      <3>3. \A o \in Object, t \in Thread : o \in run'[t].object => o \in run[t].object \/ o \in born
        BY <2>2, <2>4, <3>2
      <3> QED BY <3>1, <3>3 DEF EndTame
    <2>10. HoldTame /\ DirectoryTame BY <1>4, <2>5, CalmHold, CalmDirectory
    <2>11. MatchInv'
      <3> SUFFICES ASSUME NEW k \in Locality, NEW o \in Object, futures'[k][o].kind # "none"
          PROVE  /\ \A y \in Sent(k)' : Asking(y, k, o) => Fits(futures'[k][o], y)
                 /\ Asking(run'["worker"].request, k, o) => Fits(futures'[k][o], run'["worker"].request)
        BY DEF MatchInv, Asking, Fits
      <3>1. futures' = futures BY <2>1
      <3>2. \A y \in Sent(k) : Asking(y, k, o) => Fits(futures[k][o], y)
        BY <3>1 DEF MatchInv
      <3>3. Asking(r, k, o) => k = l BY <1>2 DEF Asking
      <3> QED BY <1>2, <2>2, <2>4, <3>1, <3>2, <3>3
    <2> QED BY <1>2, <1>4, <2>4, <2>5, <2>7, <2>8, <2>9, <2>10, <2>11, TameStep DEF Tame
  <1> QED BY <1>6, <1>7

LEMMA HandleReleaseKeeps ==
  ASSUME LifeInv, NEW l \in Locality, HandleRelease(l) PROVE LifeInv'
  <1> DEFINE r == Head(queue[l])
  <1>1. PICK kind \in {"release", "root release"} : Take(l, kind) BY DEF HandleRelease
  <1> USE DEF LifeInv, Types
  <1>2. /\ QueueType' /\ \A k \in Locality : Sent(k)' \subseteq Sent(k)
        /\ run["worker"] = Idle
        /\ r \in AnyRequest /\ r \in Sent(l) /\ r.from = l /\ r.kind = kind
    BY <1>1, TakeQueue
  <1>3. /\ DirectoryType' /\ LeaseTame
        /\ \A o \in Object : In(o, retirements') => In(o, retirements)
    BY SameDirectory DEF HandleRelease, directory, counters, history
  <1>4. HolderType' /\ RootedTame /\ TokenTame /\ FutureTame
    BY SameHolding DEF HandleRelease, holders
  <1>5. Starts("worker", r) /\ UNCHANGED <<retirements, tokens, futures>>
    BY DEF HandleRelease, holders
  <1> HIDE DEF r
  <1>6. /\ RunType' /\ run'["worker"].pc = r.kind /\ run'["worker"].object = {r.object}
        /\ run'["worker"].request = r /\ run'["worker"].taken = <<>>
        /\ \A u \in Thread : u # "worker" => run'[u] = run[u]
    BY <1>2, <1>5, StartsRun, Thread3
  <1>7. r.object \in Object /\ r.lease \in Locality BY <1>2 DEF AnyRequest
  <1>8. r.object \in born
    <2>1. CASE r.kind = "release"
      <3>1. Releasing(r.object, r.lease) BY <1>2, <2>1 DEF Releasing
      <3> QED BY <1>7, <3>1 DEF KeepInv, BornInv
    <2>2. CASE r.kind = "root release"
      <3>1. Unrooting(r.object) BY <1>2, <2>2 DEF Unrooting
      <3> QED BY <1>7, <3>1 DEF KeepInv, BornInv
    <2> QED BY <1>2, <2>1, <2>2
  <1>9. ReleaseTame
    <2>1. ASSUME NEW o \in Object, Unrooting(o)' PROVE Unrooting(o)
      <3>1. CASE \E k \in Locality : \E y \in Sent(k)' : y.kind = "root release" /\ y.object = o
        BY <1>2, <3>1 DEF Unrooting
      <3>2. ASSUME NEW t \in Thread, run'[t].pc = "root release", run'[t].request.object = o
            PROVE  Unrooting(o)
        <4>1. CASE t = "worker" BY <1>2, <1>6, <3>2, <4>1 DEF Unrooting
        <4>2. CASE t # "worker" BY <1>6, <3>2, <4>2 DEF Unrooting
        <4> QED BY <4>1, <4>2
      <3> QED BY <2>1, <3>1, <3>2 DEF Unrooting
    <2>2. ASSUME NEW o \in Object, NEW k \in Locality, Releasing(o, k)' PROVE Releasing(o, k)
      <3>1. CASE \E j \in Locality : \E y \in Sent(j)' : y.kind = "release" /\ y.object = o /\ y.lease = k
        BY <1>2, <3>1 DEF Releasing
      <3>2. ASSUME NEW t \in Thread, run'[t].pc = "release", run'[t].request.object = o,
                   run'[t].request.lease = k
            PROVE  Releasing(o, k)
        <4>1. CASE t = "worker" BY <1>2, <1>6, <3>2, <4>1 DEF Releasing
        <4>2. CASE t # "worker" BY <1>6, <3>2, <4>2 DEF Releasing
        <4> QED BY <4>1, <4>2
      <3> QED BY <2>2, <3>1, <3>2 DEF Releasing
    <2> QED BY <2>1, <2>2 DEF ReleaseTame
  <1>10. TransferTame
    <2>1. run'["worker"].pc \notin Admitting BY <1>2, <1>6 DEF Admitting
    <2>2. \A o \in Object, k \in Locality : Transferring(o, k)' => Transferring(o, k)
      BY <1>5, <2>1 DEF Transferring
    <2> QED BY <2>2 DEF TransferTame
  <1>11. EndTame
    <2>1. run'["owner"] = run["owner"] BY <1>6, Thread3
    <2>2. \A t \in Thread : run'[t].pc = "collect" => run'[t] = run[t] BY <1>2, <1>6
    <2>3. ASSUME NEW o \in Object, Ending(o)' PROVE Ending(o)
      BY <1>5, <2>1, <2>2, <2>3 DEF Ending, In
    <2>4. \A o \in Object, t \in Thread : o \in run'[t].object => o \in run[t].object \/ o \in born
      BY <1>6, <1>8
    <2> QED BY <2>3, <2>4 DEF EndTame
  <1>12. HoldTame /\ DirectoryTame BY <1>3, <1>4, CalmHold, CalmDirectory
  <1>13. MatchInv'
    <2> SUFFICES ASSUME NEW k \in Locality, NEW o \in Object, futures'[k][o].kind # "none"
        PROVE  /\ \A y \in Sent(k)' : Asking(y, k, o) => Fits(futures'[k][o], y)
               /\ Asking(run'["worker"].request, k, o) => Fits(futures'[k][o], run'["worker"].request)
      BY DEF MatchInv, Asking, Fits
    <2>1. \A y \in Sent(k) : Asking(y, k, o) => Fits(futures[k][o], y)
      BY <1>5 DEF MatchInv
    <2>2. ~Asking(r, k, o) BY <1>2 DEF Asking
    <2> QED BY <1>2, <1>5, <1>6, <2>1, <2>2
  <1> QED BY <1>2, <1>3, <1>4, <1>6, <1>9, <1>10, <1>11, <1>12, <1>13, TameStep DEF Tame

\* acquire: the record is new or renewed.
LEMMA InsertLeaseRecords ==
  ASSUME DirectoryType, NEW o \in Object, NEW l \in Locality,
         leases' = [leases EXCEPT ![o][l] = Fresh], unrenewed' = [unrenewed EXCEPT ![o][l] = 0]
  PROVE  /\ leases' \in [Object -> [Locality -> Record]]
         /\ unrenewed' \in [Object -> [Locality -> 0..(Ttl + Grace)]]
         /\ leases'[o][l] = Fresh /\ unrenewed'[o][l] = 0
         /\ \A p \in Object, k \in Locality : (p = o /\ k = l) \/
              (leases'[p][k] = leases[p][k] /\ unrenewed'[p][k] = unrenewed[p][k])
         /\ \A p \in Object, k \in Locality : leases[p][k].is => leases'[p][k].is
  <1>1. /\ leases \in [Object -> [Locality -> Record]]
        /\ unrenewed \in [Object -> [Locality -> 0..(Ttl + Grace)]]
    BY DEF DirectoryType
  <1>2. 0 \in 0..(Ttl + Grace) BY LimitTypes
  <1>3. leases' \in [Object -> [Locality -> Record]] BY <1>1, RecordTypes
  <1>4. unrenewed' \in [Object -> [Locality -> 0..(Ttl + Grace)]] BY <1>1, <1>2
  <1>5. leases'[o][l] = Fresh /\ unrenewed'[o][l] = 0 BY <1>1
  <1>6. \A p \in Object, k \in Locality : (p = o /\ k = l) \/
          (leases'[p][k] = leases[p][k] /\ unrenewed'[p][k] = unrenewed[p][k])
    BY <1>1
  <1> QED BY <1>3, <1>4, <1>5, <1>6, RecordTypes

LEMMA InsertLeaseKeeps ==
  ASSUME LifeInv, InsertLease PROVE LifeInv'
  <1> DEFINE r == run["worker"].request
  <1> USE DEF LifeInv, Types
  <1>1. /\ r \in AnyRequest /\ r.object \in Object /\ r.lease \in Locality /\ r.from \in Locality
        /\ run["worker"].pc = "insert" /\ r.kind \in {"acquire", "transfer"}
        /\ run["worker"].object = {r.object}
        /\ \A next \in Admitting : Knows([run["worker"] EXCEPT !.pc = next])
    BY AdmittingKnows DEF InsertLease, Admitting
  <1>2. QueueType' /\ \A k \in Locality : Sent(k)' = Sent(k) BY SameQueue DEF InsertLease
  <1>3. NoRelease /\ NoAsk BY <1>2, SameSent
  <1>4. /\ UNCHANGED <<stored, born, roots, lifecycle, retirements, first, pending_transfers>>
        /\ UNCHANGED <<held, tokens, rooted>>
    BY DEF InsertLease, counters
  <1> DEFINE full == Cardinality(Leased(r.object)) >= MaxLeases /\ ~leases[r.object][r.lease].is
  <1>5. /\ DirectoryType' /\ LeaseTame
    <2>1. CASE UNCHANGED <<leases, unrenewed>>
      BY <1>4, <2>1 DEF DirectoryType, LeaseTame
    <2>2. CASE /\ leases' = [leases EXCEPT ![r.object][r.lease] = Fresh]
               /\ unrenewed' = [unrenewed EXCEPT ![r.object][r.lease] = 0]
      <3>1. /\ leases' \in [Object -> [Locality -> Record]]
            /\ unrenewed' \in [Object -> [Locality -> 0..(Ttl + Grace)]]
            /\ \A p \in Object, k \in Locality : leases[p][k].is => leases'[p][k].is
        BY <1>1, <2>2, InsertLeaseRecords
      <3> QED BY <1>4, <3>1 DEF DirectoryType, LeaseTame
    <2> QED BY <2>1, <2>2 DEF InsertLease
  <1>6. RunTame /\ RunType'
    <2>1. CASE Goes("worker", "unpin")
      BY <1>1, <2>1, GoesTame, Thread3 DEF Admitting, Place, Requesting
    <2>2. CASE Done("worker") BY <2>2, DoneTame, Thread3
    <2> QED BY <2>1, <2>2 DEF InsertLease
  <1>7. ReleaseTame /\ EndTame /\ DirectoryTame
    BY <1>3, <1>4, <1>5, <1>6, CalmRelease, CalmEnd, CalmDirectory
  <1>8. CASE UNCHANGED futures \/ Answer(r, "error")
    <2>1. FutureTame /\ futures' \in [Locality -> [Object -> Future]]
      BY <1>1, <1>8, ErrorFutures, SameFutures DEF HolderType
    <2>2. HolderType' /\ RootedTame /\ TokenTame BY <1>4, <2>1, SameHolderType
    <2> QED BY <1>2, <1>3, <1>4, <1>5, <1>6, <2>1, <2>2, CalmStep
  <1>9. CASE Answer(r, "ok")
    <2>1. /\ futures' \in [Locality -> [Object -> Future]]
          /\ \A l \in Locality, o \in Object :
               /\ futures'[l][o].kind = futures[l][o].kind /\ futures'[l][o].to = futures[l][o].to
               /\ \/ futures'[l][o].status = futures[l][o].status
                  \/ l = r.from /\ o = r.object
      BY <1>1, <1>9, AnswerFutures
    <2>2. FutureKinds BY <2>1 DEF FutureKinds
    <2>3. MatchInv' BY <1>3, <1>6, <2>2, CalmMatch
    <2>4. HolderType' /\ RootedTame /\ TokenTame BY <1>4, <2>1, SameHolderType
    <2> DEFINE f == futures[r.from][r.object]
    <2>5. f.kind # "none" => f.kind \in {"upgrade", "transfer"}
                             /\ (f.kind = "transfer" => r.kind = "transfer" /\ f.to = r.lease)
      <3>1. Asking(r, r.from, r.object) BY <1>1 DEF Asking
      <3>2. f.kind # "none" => Fits(f, r) BY <1>1, <3>1 DEF MatchInv
      <3> QED BY <1>1, <3>2 DEF Fits
    <2> HIDE DEF f
    <2>6. TransferTame
      <3>1. ASSUME NEW o \in Object, NEW k \in Locality, Transferring(o, k)' PROVE Transferring(o, k)
        <4>1. CASE \E y \in tokens' : y.object = o /\ y.to = k BY <1>4, <4>1 DEF Transferring
        <4>2. ASSUME NEW j \in Locality, futures'[j][o].kind = "transfer",
                     futures'[j][o].status = "ok", futures'[j][o].to = k
              PROVE  Transferring(o, k)
          <5>1. CASE futures'[j][o].status = futures[j][o].status
            BY <2>1, <4>2, <5>1 DEF Transferring
          <5>2. CASE j = r.from /\ o = r.object
            BY <1>1, <2>1, <2>5, <4>2, <5>2 DEF Transferring, Admitting, f
          <5> QED BY <2>1, <5>1, <5>2
        <4>3. CASE /\ run'["worker"].pc \in Admitting /\ run'["worker"].request.kind = "transfer"
                   /\ run'["worker"].request.object = o /\ run'["worker"].request.lease = k
          BY <1>6, <4>3 DEF RunTame, Transferring
        <4> QED BY <3>1, <4>1, <4>2, <4>3 DEF Transferring
      <3> QED BY <3>1 DEF TransferTame
    <2>7. HoldTame
      <3>1. r.object \in born BY <1>1, Thread3 DEF KeepInv, BornInv
      <3>2. \A o \in Object, l \in Locality : Created(l, o)' => Created(l, o)
        BY <2>1, <2>5 DEF Created, f
      <3>3. \A o \in Object, l \in Locality : HasRoot(l, o)' => HasRoot(l, o)
        BY <1>4, <3>2 DEF HasRoot
      <3>4. \A o \in Object, l \in Locality :
              futures'[l][o].status = "ok" => futures[l][o].status = "ok" \/ o \in born
        BY <2>1, <3>1
      <3> QED BY <1>4, <2>4, <3>2, <3>3, <3>4 DEF HoldTame, RootedTame
    <2> QED BY <1>2, <1>5, <1>6, <1>7, <2>3, <2>4, <2>6, <2>7, TameStep DEF Tame
  <1> QED BY <1>8, <1>9 DEF InsertLease

LEMMA ReleaseLeaseKeeps ==
  ASSUME LifeInv, NEW t \in Thread, ReleaseLease(t) PROVE LifeInv'
  <1> DEFINE r == run[t].request
  <1> USE DEF LifeInv, Types
  <1>1. /\ run[t].pc = "release" /\ r \in AnyRequest /\ run[t].object = {r.object}
        /\ run[t] \in Execution
    BY DEF ReleaseLease, RunType, Knows, Requesting
  <1>2. r.object \in Object /\ r.lease \in Locality BY <1>1 DEF AnyRequest
  <1>3. QueueType' /\ \A k \in Locality : Sent(k)' = Sent(k) BY SameQueue DEF ReleaseLease
  <1>4. NoRelease /\ NoAsk BY <1>3, SameSent
  <1>5. HolderType' /\ RootedTame /\ TokenTame /\ FutureTame
    BY SameHolding DEF ReleaseLease, holders
  <1>6. /\ UNCHANGED <<stored, born, roots, lifecycle, retirements, first, pending_transfers,
                       unrenewed>>
    BY DEF ReleaseLease, counters, history
  <1>7. RunTame /\ RunType'
    <2>1. CASE Done(t) BY <2>1, DoneTame
    <2>2. CASE Goes(t, "ack")
      <3>1. /\ [run[t] EXCEPT !.pc = "ack"].pc = "ack"
            /\ [run[t] EXCEPT !.pc = "ack"].request = r
            /\ [run[t] EXCEPT !.pc = "ack"].object = {r.object}
        BY <1>1 DEF Execution
      <3>2. Knows([run[t] EXCEPT !.pc = "ack"])
        BY <1>1, <3>1 DEF Knows, Requesting, Admitting
      <3> QED BY <2>2, <3>2, GoesTame DEF Place, Requesting, Admitting
    <2> QED BY <2>1, <2>2 DEF ReleaseLease
  <1>8. leases \in [Object -> [Locality -> Record]] BY DEF DirectoryType
  <1>9. /\ leases' \in [Object -> [Locality -> Record]]
        /\ \A o \in Object, l \in Locality : leases'[o][l] = leases[o][l] \/ (o = r.object /\ l = r.lease)
    <2>1. CASE UNCHANGED leases BY <1>8, <2>1
    <2>2. CASE leases' = [leases EXCEPT ![r.object][r.lease] = Absent]
      BY <1>2, <1>8, <2>2, RecordTypes
    <2> QED BY <2>1, <2>2 DEF ReleaseLease
  <1>10. DirectoryType' BY <1>6, <1>9 DEF DirectoryType
  <1>11. Releasing(r.object, r.lease) BY <1>1 DEF Releasing
  <1>12. DirectoryTame BY <1>6, <1>9, <1>11 DEF DirectoryTame
  <1>13. ReleaseTame /\ TransferTame /\ EndTame /\ HoldTame /\ MatchInv'
    BY <1>4, <1>5, <1>6, <1>7, CalmRelease, CalmTransfer, CalmEnd, CalmHold, CalmMatch
       DEF FutureTame
  <1> QED BY <1>3, <1>5, <1>7, <1>10, <1>12, <1>13, TameStep DEF Tame

LEMMA ReleaseRootKeeps ==
  ASSUME LifeInv, NEW t \in Thread, ReleaseRoot(t) PROVE LifeInv'
  <1> DEFINE r == run[t].request
  <1> USE DEF LifeInv, Types
  <1>1. /\ run[t].pc = "root release" /\ r \in AnyRequest /\ run[t].pc \in Requesting
    BY DEF ReleaseRoot, RunType, Knows, Requesting
  <1>2. r.object \in Object BY <1>1 DEF AnyRequest
  <1>3. QueueType' /\ \A k \in Locality : Sent(k)' = Sent(k) BY SameQueue DEF ReleaseRoot
  <1>4. NoRelease /\ NoAsk BY <1>3, SameSent
  <1>5. HolderType' /\ RootedTame /\ TokenTame /\ FutureTame
    BY SameHolding DEF ReleaseRoot, holders
  <1>6. UNCHANGED <<stored, born, leases, lifecycle, retirements, first, pending_transfers,
                    unrenewed>>
    BY DEF ReleaseRoot, history
  <1>7. RunTame /\ RunType'
    <2>1. CASE Done(t) BY <2>1, DoneTame
    <2>2. CASE Goes(t, "check") BY <1>1, <2>2, CheckKnows, GoesTame
    <2> QED BY <2>1, <2>2 DEF ReleaseRoot
  <1>8. roots \in [Object -> 0..1] BY DEF DirectoryType
  <1>9. /\ roots' \in [Object -> 0..1]
        /\ \A o \in Object : roots'[o] = roots[o] \/ (o = r.object /\ roots[o] # 0)
    <2>1. CASE UNCHANGED roots BY <1>8, <2>1
    <2>2. CASE roots[r.object] # 0 /\ roots' = [roots EXCEPT ![r.object] = @ - 1]
      <3>1. roots[r.object] - 1 \in 0..1 BY <1>2, <1>8, <2>2
      <3> QED BY <1>2, <1>8, <2>2, <3>1
    <2> QED BY <2>1, <2>2 DEF ReleaseRoot
  <1>10. DirectoryType' BY <1>6, <1>9 DEF DirectoryType
  <1>11. Unrooting(r.object) BY <1>1 DEF Unrooting
  <1>12. DirectoryTame BY <1>6, <1>9, <1>11 DEF DirectoryTame
  <1>13. ReleaseTame /\ TransferTame /\ EndTame /\ HoldTame /\ MatchInv'
    BY <1>4, <1>5, <1>6, <1>7, CalmRelease, CalmTransfer, CalmEnd, CalmHold, CalmMatch
       DEF FutureTame
  <1> QED BY <1>3, <1>5, <1>7, <1>10, <1>12, <1>13, TameStep DEF Tame

LEMMA CollectCheckKeeps ==
  ASSUME LifeInv, NEW t \in Thread, CollectCheck(t) PROVE LifeInv'
  <1> DEFINE o == CHOOSE x \in run[t].object : TRUE
  <1> USE DEF LifeInv, Types
  <1>1. /\ run[t].pc = "check" /\ run[t] \in Execution /\ \E p \in Object : run[t].object = {p}
    BY DEF CollectCheck, RunType, Knows
  <1>2. o \in Object /\ run[t].object = {o} BY <1>1
  <1>3. QueueType' /\ \A k \in Locality : Sent(k)' = Sent(k) BY SameQueue DEF CollectCheck
  <1>4. NoRelease /\ NoAsk BY <1>3, SameSent
  <1>5. HolderType' /\ RootedTame /\ TokenTame /\ FutureTame
    BY SameHolding DEF CollectCheck, holders
  <1>6. /\ DirectoryType' /\ LeaseTame
        /\ \A p \in Object : In(p, retirements') => In(p, retirements)
    BY SameDirectory DEF CollectCheck, directory, history, counters
  <1>7. UNCHANGED <<retirements, tokens, futures>> BY DEF CollectCheck, holders
  <1>8. CASE Done(t)
    BY <1>3, <1>4, <1>5, <1>6, <1>8, DoneTame, CalmStep
  <1>9. CASE /\ o \in stored /\ Collectible(o)
             /\ run' = [run EXCEPT ![t].pc = "collect", ![t].seen = lifecycle[o]]
    <2> DEFINE x == [run[t] EXCEPT !.pc = "collect", !.seen = lifecycle[o]]
    <2>1. lifecycle[o] \in {"Resident", "Forwarding", "Retiring"} BY <1>2 DEF DirectoryType
    <2>2. /\ x \in Execution /\ x.pc = "collect" /\ x.object = run[t].object
          /\ x.request = run[t].request /\ x.taken = run[t].taken
      BY <1>1, <2>1 DEF Execution, Place
    <2>3. run' = [run EXCEPT ![t] = x]
      BY <1>9, <1>1 DEF RunType
    <2> HIDE DEF x, o
    <2>4. Knows(x) BY <1>2, <2>2 DEF Knows, Requesting, Admitting
    <2>5. RunType' /\ run'[t] = x /\ \A u \in Thread : u # t => run'[u] = run[u]
      BY <2>2, <2>3, <2>4, RunChange
    <2>6. ReleaseTame
      <3>1. \A u \in Thread : run'[u].pc \in {"release", "root release"} => run'[u] = run[u]
        BY <2>2, <2>5
      <3>2. ASSUME NEW p \in Object, Unrooting(p)' PROVE Unrooting(p)
        BY <1>3, <3>1, <3>2 DEF Unrooting
      <3>3. ASSUME NEW p \in Object, NEW k \in Locality, Releasing(p, k)' PROVE Releasing(p, k)
        BY <1>3, <3>1, <3>3 DEF Releasing
      <3> QED BY <3>2, <3>3 DEF ReleaseTame
    <2>7. TransferTame
      <3>1. run'["worker"].pc \in Admitting => run'["worker"] = run["worker"]
        BY <2>2, <2>5, Thread3 DEF Admitting
      <3>2. \A p \in Object, k \in Locality : Transferring(p, k)' => Transferring(p, k)
        BY <1>7, <3>1 DEF Transferring
      <3> QED BY <3>2 DEF TransferTame
    <2>8. EndTame
      <3>1. run'["owner"].taken = run["owner"].taken BY <2>2, <2>5, Thread3
      <3>2. Leased(o) = {} /\ roots[o] = 0 BY <1>9 DEF Collectible
      <3>3. ASSUME NEW p \in Object, NEW u \in Thread, run'[u].pc = "collect", p \in run'[u].object
            PROVE  Ending(p) \/ (p \in stored /\ Leased(p) = {} /\ roots[p] = 0)
        <4>1. CASE u = t BY <1>2, <1>9, <2>2, <2>5, <3>2, <3>3, <4>1
        <4>2. CASE u # t BY <2>5, <3>3, <4>2 DEF Ending
        <4> QED BY <4>1, <4>2
      <3>4. ASSUME NEW p \in Object, Ending(p)'
            PROVE  Ending(p) \/ (p \in stored /\ Leased(p) = {} /\ roots[p] = 0)
        BY <1>7, <3>1, <3>3, <3>4 DEF Ending, In
      <3>5. \A p \in Object, u \in Thread : p \in run'[u].object => p \in run[u].object
        BY <2>2, <2>5
      <3> QED BY <3>4, <3>5 DEF EndTame
    <2>9. HoldTame /\ DirectoryTame BY <1>5, <1>6, CalmHold, CalmDirectory
    <2>10. MatchInv'
      <3>1. run'["worker"].request = run["worker"].request BY <2>2, <2>5, Thread3
      <3> QED BY <1>3, <1>7, <3>1 DEF MatchInv
    <2> QED BY <1>3, <1>5, <1>6, <2>5, <2>6, <2>7, <2>8, <2>9, <2>10, TameStep DEF Tame
  <1> QED BY <1>8, <1>9 DEF CollectCheck

LEMMA CollectRemoveKeeps ==
  ASSUME LifeInv, NEW t \in Thread, CollectRemove(t) PROVE LifeInv'
  <1> DEFINE o == CHOOSE x \in run[t].object : TRUE
  <1> USE DEF LifeInv, Types
  <1>1. /\ run[t].pc = "collect" /\ \E p \in Object : run[t].object = {p}
    BY DEF CollectRemove, RunType, Knows
  <1>2. o \in Object /\ run[t].object = {o} BY <1>1
  <1>3. Ending(o) BY <1>1, <1>2 DEF Ending
  <1>4. QueueType' /\ \A k \in Locality : Sent(k)' = Sent(k) BY SameQueue DEF CollectRemove
  <1>5. NoRelease /\ NoAsk BY <1>4, SameSent
  <1>6. HolderType' /\ RootedTame /\ TokenTame /\ FutureTame
    BY SameHolding DEF CollectRemove, holders
  <1>7. RunTame /\ RunType' BY DoneTame DEF CollectRemove
  <1>8. UNCHANGED <<born, leases, roots, first, pending_transfers, unrenewed>>
    BY DEF CollectRemove, history, counters
  <1>9. /\ stored' \in {stored, stored \ {o}}
        /\ lifecycle' \in {lifecycle, [lifecycle EXCEPT ![o] = "Retiring"]}
        /\ retirements' \in {retirements, Append(retirements, o)}
    BY DEF CollectRemove
  <1> HIDE DEF o
  <1>10. retirements \in Seq(Object) BY DEF DirectoryType
  <1>11. /\ retirements' \in Seq(Object)
         /\ \A p \in Object : In(p, retirements') => In(p, retirements) \/ p = o
    <2>1. Append(retirements, o) \in Seq(Object) BY <1>2, <1>10
    <2>2. \A i \in DOMAIN Append(retirements, o) :
            Append(retirements, o)[i] = o
            \/ (i \in DOMAIN retirements /\ Append(retirements, o)[i] = retirements[i])
      BY <1>2, <1>10
    <2> QED BY <1>9, <1>10, <2>1, <2>2 DEF In
  <1>12. DirectoryType' BY <1>2, <1>8, <1>9, <1>11 DEF DirectoryType
  <1>13. DirectoryTame BY <1>3, <1>8, <1>9 DEF DirectoryTame
  <1>14. EndTame
    <2>1. ASSUME NEW p \in Object, Ending(p)' PROVE Ending(p)
      <3>1. ASSUME NEW u \in Thread, run'[u].pc = "collect", p \in run'[u].object PROVE Ending(p)
        BY <1>7, <3>1 DEF RunTame, Ending
      <3>2. In(p, run'["owner"].taken) => Ending(p) BY <1>7 DEF RunTame, Ending
      <3>3. In(p, retirements') => Ending(p) BY <1>3, <1>11 DEF Ending
      <3>4. In(p, retirements)' = In(p, retirements') /\ In(p, run["owner"].taken)' = In(p, run'["owner"].taken)
        BY DEF In
      <3> QED BY <2>1, <3>1, <3>2, <3>3, <3>4 DEF Ending
    <2> QED BY <1>7, <2>1 DEF EndTame, RunTame
  <1>15. ReleaseTame /\ TransferTame /\ HoldTame /\ MatchInv'
    BY <1>5, <1>6, <1>7, CalmRelease, CalmTransfer, CalmHold, CalmMatch DEF FutureTame
  <1> QED BY <1>4, <1>6, <1>7, <1>12, <1>13, <1>14, <1>15, TameStep DEF Tame

LEMMA ExpireLeasesKeeps ==
  ASSUME LifeInv, NEW o \in Object, ExpireLeases(o) PROVE LifeInv'
  <1> USE DEF LifeInv, Types
  <1> DEFINE rest == run["owner"].todo \ {o}
             after == [l \in Locality |-> Expired(leases[o][l])]
  <1>1. QueueType' /\ \A k \in Locality : Sent(k)' = Sent(k) BY SameQueue DEF ExpireLeases
  <1>2. NoRelease /\ NoAsk BY <1>1, SameSent
  <1>3. HolderType' /\ RootedTame /\ TokenTame /\ FutureTame
    BY SameHolding DEF ExpireLeases, holders
  <1>4. UNCHANGED <<stored, born, roots, lifecycle, retirements, pending_transfers, unrenewed>>
    BY DEF ExpireLeases, counters
  <1>5. /\ run["owner"] \in Execution /\ run["owner"].pc = "expire" /\ Knows(run["owner"])
        /\ rest \in SUBSET Object
    BY Thread3 DEF ExpireLeases, RunType, Execution
  <1>6. leases \in [Object -> [Locality -> Record]] BY DEF DirectoryType
  <1>7. CASE o \notin stored
    <2>1. run' = [run EXCEPT !["owner"].todo = rest] /\ UNCHANGED <<leases, first>>
      BY <1>7 DEF ExpireLeases
    <2> DEFINE x == [run["owner"] EXCEPT !.todo = rest]
    <2>2. /\ x \in Execution /\ x.pc = "expire" /\ x.object = run["owner"].object
          /\ x.request = run["owner"].request /\ x.taken = run["owner"].taken
      BY <1>5 DEF Execution
    <2>3. run' = [run EXCEPT !["owner"] = x] BY <2>1
    <2> HIDE DEF x, rest
    <2>4. Knows(x) BY <2>2 DEF Knows, Requesting, Admitting
    <2>5. RunType' /\ run'["owner"] = x /\ \A u \in Thread : u # "owner" => run'[u] = run[u]
      BY <2>2, <2>3, <2>4, RunChange, Thread3
    <2>6. RunTame
      <3>1. run'["worker"] = run["worker"] BY <2>5, Thread3
      <3>2. \A u \in Thread :
             /\ run'[u].pc \in {"release", "root release"} =>
                  run[u].pc = run'[u].pc /\ run'[u].request = run[u].request
             /\ run'[u].pc = "collect" => run[u].pc = "collect" /\ run'[u].object = run[u].object
             /\ run'[u].object \subseteq run[u].object \cup born
        BY <2>2, <2>5
      <3> QED BY <2>2, <2>5, <3>1, <3>2 DEF RunTame
    <2>7. DirectoryType' /\ LeaseTame BY <1>4, <2>1 DEF DirectoryType, LeaseTame
    <2> QED BY <1>1, <1>2, <1>3, <1>4, <2>5, <2>6, <2>7, CalmStep
  <1>8. CASE o \in stored
    <2> DEFINE x == [Idle EXCEPT !.pc = "transfers", !.object = {o}, !.todo = rest,
                                 !.active = {l \in Locality : after[l].is}]
    <2>1. /\ leases' = [leases EXCEPT ![o] = after]
          /\ first' = {p \in first : p[1] = o => after[p[2]].is}
          /\ run' = [run EXCEPT !["owner"] = x]
      BY <1>8 DEF ExpireLeases
    <2>2. /\ x \in Execution /\ x.pc = "transfers" /\ x.object = {o} /\ x.request = NoRequest
          /\ x.taken = <<>>
      <3>1. {l \in Locality : after[l].is} \in SUBSET Locality OBVIOUS
      <3> HIDE DEF rest, after
      <3> QED BY <1>5, <3>1, IdleType DEF Execution, Place
    <2>3. after \in [Locality -> Record] BY <1>6, ChangedRecords
    <2> HIDE DEF x, after
    <2>4. Knows(x) BY <2>2 DEF Knows, Requesting, Admitting
    <2>5. o \in born /\ x.pc \notin Admitting BY <1>8, <2>2 DEF DirectoryType, Admitting
    <2>6. RunTame /\ RunType'
      BY <2>1, <2>2, <2>4, <2>5, FreshTame, NothingIn, Thread3
    <2>7. leases' \in [Object -> [Locality -> Record]] BY <1>6, <2>1, <2>3
    <2>8. first' \subseteq first BY <2>1
    <2>9. DirectoryType' BY <1>4, <2>7, <2>8 DEF DirectoryType
    <2>10. \A p \in Object, l \in Locality :
             <<p, l>> \in first' /\ leases[p][l].is => leases'[p][l].is
      BY <1>6, <2>1
    <2>11. DirectoryTame BY <1>4, <2>8, <2>10 DEF DirectoryTame
    <2>12. ReleaseTame /\ TransferTame /\ EndTame /\ HoldTame /\ MatchInv'
      BY <1>2, <1>3, <1>4, <2>6, CalmRelease, CalmTransfer, CalmEnd, CalmHold, CalmMatch
         DEF FutureTame
    <2> QED BY <1>1, <1>3, <2>6, <2>9, <2>11, <2>12, TameStep DEF Tame
  <1> QED BY <1>7, <1>8

\* The owner takes a retirement: what is to be retired stays so.
LEMMA TakeRetirementsKeeps ==
  ASSUME LifeInv, TakeRetirements PROVE LifeInv'
  <1> USE DEF LifeInv, Types
  <1>1. QueueType' /\ \A k \in Locality : Sent(k)' = Sent(k) BY SameQueue DEF TakeRetirements
  <1>2. NoRelease /\ NoAsk BY <1>1, SameSent
  <1>3. HolderType' /\ RootedTame /\ TokenTame /\ FutureTame
    BY SameHolding DEF TakeRetirements, holders
  <1>4. /\ UNCHANGED <<stored, born, leases, unrenewed, roots, lifecycle, first, pending_transfers>>
        /\ retirements' = <<>>
    BY DEF TakeRetirements, directory, history, counters
  <1>5. retirements \in Seq(Object) BY DEF DirectoryType
  <1>6. DirectoryType' /\ LeaseTame BY <1>4 DEF DirectoryType, LeaseTame
  <1> DEFINE x == IF retirements = <<>> THEN Idle
                  ELSE [Idle EXCEPT !.pc = "retire", !.taken = retirements]
  <1>7. run' = [run EXCEPT !["owner"] = x] BY DEF TakeRetirements
  <1>8. /\ x \in Execution /\ x.pc \in {"idle", "retire"} /\ x.object = {} /\ x.request = NoRequest
        /\ x.taken = retirements /\ (x.pc = "retire" => retirements # <<>>)
    BY <1>5, IdleType DEF Execution, Place
  <1> HIDE DEF x
  <1>9. Knows(x) BY <1>8 DEF Knows, Requesting, Admitting
  <1>10. RunType' /\ run'["owner"] = x /\ \A u \in Thread : u # "owner" => run'[u] = run[u]
    BY <1>7, <1>8, <1>9, RunChange, Thread3
  <1>11. ReleaseTame
    <2>1. \A u \in Thread : run'[u].pc \in {"release", "root release"} => run'[u] = run[u]
      BY <1>8, <1>10
    <2>2. ASSUME NEW p \in Object, Unrooting(p)' PROVE Unrooting(p)
      BY <1>1, <2>1, <2>2 DEF Unrooting
    <2>3. ASSUME NEW p \in Object, NEW k \in Locality, Releasing(p, k)' PROVE Releasing(p, k)
      BY <1>1, <2>1, <2>3 DEF Releasing
    <2> QED BY <2>2, <2>3 DEF ReleaseTame
  <1>12. run'["worker"] = run["worker"] BY <1>10, Thread3
  <1>13. UNCHANGED <<tokens, futures>> BY DEF TakeRetirements, holders
  <1>14. TransferTame BY <1>12, <1>13 DEF TransferTame, Transferring
  <1>15. EndTame
    <2>1. ASSUME NEW p \in Object, Ending(p)' PROVE Ending(p)
      <3>1. ASSUME NEW u \in Thread, run'[u].pc = "collect", p \in run'[u].object PROVE Ending(p)
        BY <1>8, <1>10, <3>1 DEF Ending
      <3>2. In(p, run'["owner"].taken) => Ending(p) BY <1>8, <1>10, Thread3 DEF Ending
      <3>3. ~In(p, retirements') BY <1>4, NothingIn
      <3>4. In(p, retirements)' = In(p, retirements') /\ In(p, run["owner"].taken)' = In(p, run'["owner"].taken)
        BY DEF In
      <3> QED BY <2>1, <3>1, <3>2, <3>3, <3>4 DEF Ending
    <2>2. \A p \in Object, u \in Thread : p \in run'[u].object => p \in run[u].object
      BY <1>8, <1>10
    <2> QED BY <2>1, <2>2 DEF EndTame
  <1>16. MatchInv' BY <1>1, <1>12, <1>13 DEF MatchInv
  <1>17. HoldTame /\ DirectoryTame BY <1>3, <1>6, CalmHold, CalmDirectory
  <1> QED BY <1>1, <1>3, <1>6, <1>10, <1>11, <1>14, <1>15, <1>16, <1>17, TameStep DEF Tame

LEMMA RetiringOwner ==
  ASSUME RunType, run["owner"].pc = "retire"
  PROVE  LET s == run["owner"].taken IN
           /\ run["owner"] \in Execution /\ s \in Seq(Object) /\ s # <<>>
           /\ Head(s) \in Object /\ Tail(s) \in Seq(Object) /\ In(Head(s), s)
           /\ \A p : In(p, Tail(s)) => In(p, s)
  <1> DEFINE s == run["owner"].taken
  <1>1. run["owner"] \in Execution /\ s # <<>> BY Thread3 DEF RunType, Knows
  <1>2. s \in Seq(Object) BY <1>1 DEF Execution
  <1> HIDE DEF s
  <1>3. Head(s) \in Object /\ Tail(s) \in Seq(Object) /\ 1 \in DOMAIN s /\ Head(s) = s[1]
    BY <1>1, <1>2
  <1>4. \A i \in DOMAIN Tail(s) : i + 1 \in DOMAIN s /\ Tail(s)[i] = s[i + 1] BY <1>1, <1>2
  <1> QED BY <1>1, <1>2, <1>3, <1>4 DEF In, s

LEMMA SendRetirementKeeps ==
  ASSUME LifeInv, SendRetirement PROVE LifeInv'
  <1> USE DEF LifeInv, Types
  <1> DEFINE s == run["owner"].taken
  <1>1. /\ run["owner"] \in Execution /\ s \in Seq(Object) /\ run["owner"].pc = "retire"
        /\ Head(s) \in Object /\ Tail(s) \in Seq(Object) /\ In(Head(s), s)
        /\ \A p : In(p, Tail(s)) => In(p, s)
    BY RetiringOwner DEF SendRetirement
  <1>2. QueueType' /\ \A k \in Locality : Sent(k)' = Sent(k) BY SameQueue DEF SendRetirement
  <1>3. NoRelease /\ NoAsk BY <1>2, SameSent
  <1>4. HolderType' /\ RootedTame /\ TokenTame /\ FutureTame
    BY SameHolding DEF SendRetirement, holders
  <1>5. /\ UNCHANGED <<born, leases, unrenewed, roots, lifecycle, first, pending_transfers,
                       retirements>>
        /\ stored' = stored \ {Head(s)}
    BY DEF SendRetirement, history, counters
  <1>6. Ending(Head(s)) BY <1>1 DEF Ending
  <1>7. DirectoryType' BY <1>5 DEF DirectoryType
  <1>8. DirectoryTame BY <1>5, <1>6 DEF DirectoryTame
  <1> DEFINE x == IF Tail(s) = <<>> THEN Idle ELSE [run["owner"] EXCEPT !.taken = Tail(s)]
  <1>9. run' = [run EXCEPT !["owner"] = x]
    BY Thread3 DEF SendRetirement, RunType
  <1>10. /\ x \in Execution /\ x.pc \in {"idle", "retire"}
         /\ x.object \subseteq run["owner"].object
         /\ x.taken \in {Tail(s), <<>>} /\ (x.pc = "retire" => x.taken # <<>>)
    BY <1>1, IdleType DEF Execution, Place
  <1> HIDE DEF x, s
  <1>11. Knows(x) BY <1>10 DEF Knows, Requesting, Admitting
  <1>12. RunType' /\ run'["owner"] = x /\ \A u \in Thread : u # "owner" => run'[u] = run[u]
    BY <1>9, <1>10, <1>11, RunChange, Thread3
  <1>13. RunTame
    <2>1. run'["worker"] = run["worker"] BY <1>12, Thread3
    <2>2. \A u \in Thread :
           /\ run'[u].pc \in {"release", "root release"} =>
                run[u].pc = run'[u].pc /\ run'[u].request = run[u].request
           /\ run'[u].pc = "collect" => run[u].pc = "collect" /\ run'[u].object = run[u].object
           /\ run'[u].object \subseteq run[u].object \cup born
      BY <1>10, <1>12
    <2>3. \A p \in Object : In(p, run'["owner"].taken) => In(p, run["owner"].taken)
      BY <1>1, <1>10, <1>12, NothingIn, Thread3 DEF s
    <2> QED BY <2>1, <2>2, <2>3 DEF RunTame
  <1>14. ReleaseTame /\ TransferTame /\ EndTame /\ HoldTame /\ MatchInv'
    BY <1>3, <1>4, <1>5, <1>13, CalmRelease, CalmTransfer, CalmEnd, CalmHold, CalmMatch
       DEF FutureTame
  <1> QED BY <1>2, <1>4, <1>7, <1>8, <1>12, <1>14, TameStep DEF Tame

LEMMA RefuseRetirementKeeps ==
  ASSUME LifeInv, RefuseRetirement PROVE LifeInv'
  <1> USE DEF LifeInv, Types
  <1> DEFINE s == run["owner"].taken
  <1>1. Head(s) \in Object /\ In(Head(s), s)
    BY RetiringOwner DEF RefuseRetirement
  <1>2. QueueType' /\ \A k \in Locality : Sent(k)' = Sent(k) BY SameQueue DEF RefuseRetirement
  <1>3. NoRelease /\ NoAsk BY <1>2, SameSent
  <1>4. HolderType' /\ RootedTame /\ TokenTame /\ FutureTame
    BY SameHolding DEF RefuseRetirement, holders
  <1>5. /\ UNCHANGED <<stored, born, leases, unrenewed, roots, lifecycle, first, pending_transfers>>
        /\ retirements' = <<Head(s)>> \o retirements
    BY DEF RefuseRetirement, directory, history, counters
  <1> HIDE DEF s
  <1>6. retirements \in Seq(Object) BY DEF DirectoryType
  <1>7. /\ retirements' \in Seq(Object)
        /\ \A p : In(p, retirements') => p = Head(s) \/ In(p, retirements)
    <2>1. <<Head(s)>> \in Seq(Object) BY <1>1
    <2>2. retirements' \in Seq(Object) BY <1>5, <1>6, <2>1
    <2>3. /\ DOMAIN retirements' = 1..(1 + Len(retirements)) /\ DOMAIN retirements = 1..Len(retirements)
          /\ Len(retirements) \in Nat
          /\ \A i \in 1..(1 + Len(retirements)) :
               retirements'[i] = IF i = 1 THEN Head(s) ELSE retirements[i - 1]
      BY <1>1, <1>5, <1>6
    <2>4. \A i \in DOMAIN retirements' :
            retirements'[i] = Head(s)
            \/ (i - 1 \in DOMAIN retirements /\ retirements'[i] = retirements[i - 1])
      BY <2>3
    <2> QED BY <2>2, <2>4 DEF In
  <1>8. DirectoryType' /\ LeaseTame BY <1>5, <1>7 DEF DirectoryType, LeaseTame
  <1>9. run' = [run EXCEPT !["owner"] = Idle] BY DEF RefuseRetirement
  <1>10. RunTame /\ RunType'
    BY <1>9, IdleType, NothingIn, FreshTame, Thread3 DEF Admitting
  <1>11. EndTame
    <2>1. Ending(Head(s)) BY <1>1 DEF Ending, s
    <2>2. ASSUME NEW p \in Object, Ending(p)' PROVE Ending(p)
      <3>1. ASSUME NEW u \in Thread, run'[u].pc = "collect", p \in run'[u].object PROVE Ending(p)
        BY <1>10, <3>1 DEF RunTame, Ending
      <3>2. In(p, run'["owner"].taken) => Ending(p) BY <1>10 DEF RunTame, Ending
      <3>3. In(p, retirements') => Ending(p) BY <1>7, <2>1 DEF Ending
      <3>4. In(p, retirements)' = In(p, retirements') /\ In(p, run["owner"].taken)' = In(p, run'["owner"].taken)
        BY DEF In
      <3> QED BY <2>2, <3>1, <3>2, <3>3, <3>4 DEF Ending
    <2> QED BY <1>10, <2>2 DEF EndTame, RunTame
  <1>12. ReleaseTame /\ TransferTame /\ HoldTame /\ MatchInv' /\ DirectoryTame
    BY <1>3, <1>4, <1>8, <1>10, CalmRelease, CalmTransfer, CalmHold, CalmMatch, CalmDirectory
       DEF FutureTame
  <1> QED BY <1>2, <1>4, <1>8, <1>10, <1>11, <1>12, TameStep DEF Tame

-----------------------------------------------------------------------------
(* Clients.                                                                *)

\* A create, upgrade or transfer is asked for.
LEMMA AskKeeps ==
  ASSUME LifeInv, NEW l \in Locality, NEW o \in Object, NEW r \in AnyRequest, NEW f \in Future,
         r.kind \in Asks, r.from = l, r.object = o, Unasked(l, o), Submit(l, r),
         futures' = [futures EXCEPT ![l][o] = f], f.status = "pending", Fits(f, r),
         UNCHANGED <<directory, counters, retirements, run, held, tokens, rooted, history>>
  PROVE  LifeInv'
  <1> USE DEF LifeInv, Types
  <1>1. QueueType' /\ \A k \in Locality : Sent(k)' \subseteq Sent(k) \cup {r} BY SubmitQueue
  <1>2. NoRelease BY <1>1 DEF NoRelease, Asks
  <1>3. RunTame /\ RunType' BY SameRunTame
  <1>4. /\ DirectoryType' /\ LeaseTame
        /\ \A p \in Object : In(p, retirements') => In(p, retirements)
    BY SameDirectory DEF directory, counters, history
  <1>5. futures \in [Locality -> [Object -> Future]] BY DEF HolderType
  <1>6. futures' \in [Locality -> [Object -> Future]] BY <1>5
  <1>7. /\ futures'[l][o] = f
        /\ \A k \in Locality, p \in Object : (k = l /\ p = o) \/ futures'[k][p] = futures[k][p]
    BY <1>5
  <1>8. HolderType' /\ RootedTame /\ TokenTame BY <1>6, SameHolderType
  <1>9. TransferTame
    <2>1. \A p \in Object, k \in Locality : Transferring(p, k)' => Transferring(p, k)
      BY <1>7 DEF Transferring
    <2> QED BY <2>1 DEF TransferTame
  <1>10. HoldTame
    <2>1. \A p \in Object, k \in Locality : Created(k, p)' => Created(k, p)
      BY <1>7 DEF Created
    <2>2. \A p \in Object, k \in Locality : HasRoot(k, p)' => HasRoot(k, p)
      BY <2>1 DEF HasRoot
    <2>3. \A p \in Object, k \in Locality :
            futures'[k][p].status = "ok" => futures[k][p].status = "ok"
      BY <1>7
    <2> QED BY <1>8, <2>1, <2>2, <2>3 DEF HoldTame, RootedTame
  <1>11. MatchInv'
    <2> SUFFICES ASSUME NEW k \in Locality, NEW p \in Object, futures'[k][p].kind # "none"
        PROVE  /\ \A y \in Sent(k)' : Asking(y, k, p) => Fits(futures'[k][p], y)
               /\ Asking(run'["worker"].request, k, p) => Fits(futures'[k][p], run'["worker"].request)
      BY DEF MatchInv, Asking, Fits
    <2>1. CASE k = l /\ p = o
      <3>1. \A y \in Sent(l) : ~Asking(y, l, o) BY DEF Unasked, Sent
      <3>2. ~Asking(run["worker"].request, l, o) BY DEF Unasked
      <3> QED BY <1>1, <1>7, <2>1, <3>1, <3>2
    <2>2. CASE ~(k = l /\ p = o)
      <3>1. ~Asking(r, k, p) BY <2>2 DEF Asking
      <3>2. futures'[k][p] = futures[k][p] BY <1>7, <2>2
      <3>3. /\ \A y \in Sent(k) : Asking(y, k, p) => Fits(futures[k][p], y)
            /\ Asking(run["worker"].request, k, p) => Fits(futures[k][p], run["worker"].request)
        BY <3>2 DEF MatchInv
      <3> QED BY <1>1, <3>1, <3>2, <3>3
    <2> QED BY <2>1, <2>2
  <1>12. ReleaseTame /\ EndTame /\ DirectoryTame
    BY <1>2, <1>3, <1>4, CalmRelease, CalmEnd, CalmDirectory
  <1> QED BY <1>1, <1>3, <1>4, <1>8, <1>9, <1>10, <1>11, <1>12, TameStep DEF Tame

LEMMA AwaitFuture ==
  ASSUME NEW kind \in {"create", "upgrade", "transfer"}, NEW to \in Locality
  PROVE  LET f == [kind |-> kind, to |-> to, status |-> "pending",
                   left |-> IF kind = "transfer" THEN Ttl ELSE 0] IN
           f \in Future /\ f.status = "pending" /\ f.kind = kind /\ f.to = to
  <1>1. Ttl \in 0..Ttl /\ 0 \in 0..Ttl BY LimitTypes
  <1> QED BY <1>1 DEF Future

LEMMA CreateThereKeeps ==
  ASSUME LifeInv, NEW l \in Locality, NEW o \in Object, CreateThere(l, o) PROVE LifeInv'
  <1> DEFINE r == Request("create", o, l, l)
             f == [kind |-> "create", to |-> Home, status |-> "pending",
                   left |-> IF "create" = "transfer" THEN Ttl ELSE 0]
  <1>1. r \in AnyRequest /\ r.kind = "create" /\ r.from = l /\ r.object = o
    <2>1. "create" \in Kind BY Kinds
    <2> QED BY <2>1, RequestType
  <1>2. f \in Future /\ f.status = "pending" /\ f.kind = "create" BY AwaitFuture, LimitTypes
  <1>3. futures' = [futures EXCEPT ![l][o] = f] BY DEF CreateThere, Await
  <1>4. Unasked(l, o) /\ Submit(l, r) BY DEF CreateThere
  <1>5. UNCHANGED <<directory, counters, retirements, run, held, tokens, rooted, history>>
    BY DEF CreateThere
  <1> HIDE DEF r, f
  <1>6. Fits(f, r) /\ r.kind \in Asks BY <1>1, <1>2 DEF Fits, Asks
  <1> QED BY <1>1, <1>2, <1>3, <1>4, <1>5, <1>6, AskKeeps

LEMMA UpgradeKeeps ==
  ASSUME LifeInv, NEW l \in Locality, NEW o \in Object, Upgrade(l, o) PROVE LifeInv'
  <1> DEFINE r == Request("acquire", o, l, l)
             f == [kind |-> "upgrade", to |-> l, status |-> "pending",
                   left |-> IF "upgrade" = "transfer" THEN Ttl ELSE 0]
  <1>1. r \in AnyRequest /\ r.kind = "acquire" /\ r.from = l /\ r.object = o
    <2>1. "acquire" \in Kind BY Kinds
    <2> QED BY <2>1, RequestType
  <1>2. f \in Future /\ f.status = "pending" /\ f.kind = "upgrade" BY AwaitFuture
  <1>3. futures' = [futures EXCEPT ![l][o] = f] BY DEF Upgrade, Await
  <1>4. Unasked(l, o) /\ Submit(l, r) BY DEF Upgrade
  <1>5. UNCHANGED <<directory, counters, retirements, run, held, tokens, rooted, history>>
    BY DEF Upgrade
  <1> HIDE DEF r, f
  <1>6. Fits(f, r) /\ r.kind \in Asks BY <1>1, <1>2 DEF Fits, Asks
  <1> QED BY <1>1, <1>2, <1>3, <1>4, <1>5, <1>6, AskKeeps

LEMMA TransferToKeeps ==
  ASSUME LifeInv, NEW l \in Locality, NEW o \in Object, NEW to \in Locality, TransferTo(l, o, to)
  PROVE  LifeInv'
  <1> DEFINE r == Request("transfer", o, l, to)
             f == [kind |-> "transfer", to |-> to, status |-> "pending",
                   left |-> IF "transfer" = "transfer" THEN Ttl ELSE 0]
  <1>1. r \in AnyRequest /\ r.kind = "transfer" /\ r.from = l /\ r.object = o /\ r.lease = to
    <2>1. "transfer" \in Kind BY Kinds
    <2> QED BY <2>1, RequestType
  <1>2. f \in Future /\ f.status = "pending" /\ f.kind = "transfer" /\ f.to = to BY AwaitFuture
  <1>3. futures' = [futures EXCEPT ![l][o] = f] BY DEF TransferTo, Await
  <1>4. Unasked(l, o) /\ Submit(l, r) BY DEF TransferTo
  <1>5. UNCHANGED <<directory, counters, retirements, run, held, tokens, rooted, history>>
    BY DEF TransferTo
  <1> HIDE DEF r, f
  <1>6. Fits(f, r) /\ r.kind \in Asks BY <1>1, <1>2 DEF Fits, Asks
  <1> QED BY <1>1, <1>2, <1>3, <1>4, <1>5, <1>6, AskKeeps

\* A handle is attached.
LEMMA AttachHeld ==
  ASSUME HolderType, NEW l \in Locality, NEW o \in Object, Attach(l, o)
  PROVE  /\ held' \in [Locality -> [Object -> NotHeld..Renewal]]
         /\ \A k \in Locality, p \in Object : Attached(k, p)' => Attached(k, p) \/ (k = l /\ p = o)
  <1>1. held \in [Locality -> [Object -> NotHeld..Renewal]] BY DEF HolderType
  <1>2. Renewal \in NotHeld..Renewal BY LimitTypes DEF NotHeld
  <1>3. CASE Attached(l, o) BY <1>1, <1>3 DEF Attach, Attached
  <1>4. CASE ~Attached(l, o)
    <2>1. held' = [held EXCEPT ![l][o] = Renewal] BY <1>4 DEF Attach
    <2> QED BY <1>1, <1>2, <2>1 DEF Attached
  <1> QED BY <1>3, <1>4

LEMMA PollKeeps ==
  ASSUME LifeInv, NEW l \in Locality, NEW o \in Object, Poll(l, o) PROVE LifeInv'
  <1> USE DEF LifeInv, Types
  <1> DEFINE f == futures[l][o]
  <1>1. QueueType' /\ \A k \in Locality : Sent(k)' = Sent(k) BY SameQueue DEF Poll
  <1>2. NoRelease /\ NoAsk BY <1>1, SameSent
  <1>3. RunTame /\ RunType' BY SameRunTame DEF Poll
  <1>4. /\ DirectoryType' /\ LeaseTame
        /\ \A p \in Object : In(p, retirements') => In(p, retirements)
    BY SameDirectory DEF Poll, directory, history, counters
  <1>5. /\ futures \in [Locality -> [Object -> Future]]
        /\ rooted \in [Locality -> SUBSET Object]
        /\ held \in [Locality -> [Object -> NotHeld..Renewal]]
    BY DEF HolderType
  <1>6. f \in Future BY <1>5
  <1>7. futures' = [futures EXCEPT ![l][o] = NoFuture] /\ run' = run BY DEF Poll
  <1>8. futures' \in [Locality -> [Object -> Future]] BY <1>5, <1>7, NoFutureType
  <1>9. /\ futures'[l][o] = NoFuture
        /\ \A k \in Locality, p \in Object : (k = l /\ p = o) \/ futures'[k][p] = futures[k][p]
    BY <1>5, <1>7
  <1>10. FutureTame BY <1>9, NoFutureType DEF FutureTame, FutureKinds
  <1>11. tokens' = tokens \cup TokenOf(l, o, f) BY DEF Poll
  <1>12. \A x \in TokenOf(l, o, f) :
           x \in Token /\ x.object = o /\ x.to = f.to /\ f.status = "ok" /\ f.kind = "transfer"
    BY <1>6 DEF TokenOf, Token, Future
  <1>13. TransferTame
    <2>1. ASSUME NEW p \in Object, NEW k \in Locality, Transferring(p, k)' PROVE Transferring(p, k)
      <3>1. CASE \E y \in tokens' : y.object = p /\ y.to = k
        BY <1>11, <1>12, <3>1 DEF Transferring
      <3>2. CASE \E j \in Locality : /\ futures'[j][p].kind = "transfer"
                                     /\ futures'[j][p].status = "ok" /\ futures'[j][p].to = k
        BY <1>10, <3>2 DEF FutureTame, Transferring
      <3>3. CASE /\ run'["worker"].pc \in Admitting /\ run'["worker"].request.kind = "transfer"
                 /\ run'["worker"].request.object = p /\ run'["worker"].request.lease = k
        BY <1>7, <3>3 DEF Transferring
      <3> QED BY <2>1, <3>1, <3>2, <3>3 DEF Transferring
    <2> QED BY <2>1 DEF TransferTame
  <1>14. /\ held' \in [Locality -> [Object -> NotHeld..Renewal]]
         /\ rooted' \in [Locality -> SUBSET Object]
         /\ \A k \in Locality, p \in Object :
              /\ Attached(k, p)' => Attached(k, p) \/ (k = l /\ p = o /\ f.status = "ok")
              /\ p \in rooted'[k] => p \in rooted[k] \/ (k = l /\ p = o /\ Created(l, o))
    <2>1. CASE UNCHANGED <<held, rooted>> BY <1>5, <2>1 DEF Attached
    <2>2. CASE /\ f.status = "ok" /\ Attach(l, o)
               /\ rooted' = [rooted EXCEPT ![l] = @ \cup RootOf(l, o, f)]
      <3>1. /\ held' \in [Locality -> [Object -> NotHeld..Renewal]]
            /\ \A k \in Locality, p \in Object : Attached(k, p)' => Attached(k, p) \/ (k = l /\ p = o)
        BY <2>2, AttachHeld
      <3>2. RootOf(l, o, f) \subseteq Object /\ \A p \in RootOf(l, o, f) : p = o /\ Created(l, o)
        BY <2>2 DEF RootOf, Created
      <3>3. /\ rooted' \in [Locality -> SUBSET Object]
            /\ \A k \in Locality, p \in Object :
                 p \in rooted'[k] => p \in rooted[k] \/ (k = l /\ p \in RootOf(l, o, f))
        BY <1>5, <2>2, <3>2
      <3> QED BY <2>2, <3>1, <3>2, <3>3
    <2> QED BY <2>1, <2>2 DEF Poll
  <1>15. HolderType' BY <1>8, <1>11, <1>12, <1>14 DEF HolderType
  <1>16. HoldTame
    <2>1. f.status = "ok" => o \in born BY DEF KeepInv, BornInv
    <2>2. \A k \in Locality, p \in Object : Created(k, p)' => Created(k, p) /\ ~(k = l /\ p = o)
      BY <1>9, <1>10, NoFutureType DEF FutureTame, Created
    <2>3. \A k \in Locality, p \in Object : HasRoot(k, p)' => HasRoot(k, p)
      BY <1>14, <2>2 DEF HasRoot
    <2>4. \A k \in Locality, p \in Object :
            p \in rooted'[k] /\ Created(k, p)' => p \in rooted[k] /\ Created(k, p)
      BY <1>14, <2>2
    <2>5. \A k \in Locality, p \in Object : Attached(k, p)' => Attached(k, p) \/ p \in born
      BY <1>14, <2>1
    <2>6. \A k \in Locality, p \in Object :
            futures'[k][p].status = "ok" => futures[k][p].status = "ok"
      BY <1>10 DEF FutureTame
    <2> QED BY <2>3, <2>4, <2>5, <2>6 DEF HoldTame
  <1>17. ReleaseTame /\ EndTame /\ DirectoryTame /\ MatchInv'
    BY <1>2, <1>3, <1>4, <1>10, CalmRelease, CalmEnd, CalmDirectory, CalmMatch DEF FutureTame
  <1> QED BY <1>1, <1>3, <1>4, <1>13, <1>15, <1>16, <1>17, TameStep DEF Tame

\* A release is sent to Home, or begun there.
LEMMA GiveEffect ==
  ASSUME QueueType, RunType, NEW l \in Locality, NEW r \in AnyRequest,
         r.kind \in {"release", "root release"}, r.from = l, Give(l, r)
  PROVE  /\ QueueType' /\ RunType' /\ NoAsk
         /\ \A k \in Locality : Sent(k)' \subseteq Sent(k) \cup {r}
         /\ \A t \in Thread : \/ run'[t] = run[t]
                              \/ /\ run'[t].pc = r.kind /\ run'[t].request = r
                                 /\ run'[t].object = {r.object}
         /\ run'["worker"] = run["worker"] /\ run'["owner"] = run["owner"]
  <1>1. CASE l = Home
    <2>1. Starts("client", r) /\ UNCHANGED queue BY <1>1 DEF Give
    <2>2. /\ RunType' /\ run'["client"].pc = r.kind /\ run'["client"].object = {r.object}
          /\ run'["client"].request = r
          /\ \A u \in Thread : u # "client" => run'[u] = run[u]
      BY <2>1, StartsRun, Thread3
    <2>3. QueueType' /\ \A k \in Locality : Sent(k)' = Sent(k) BY <2>1, SameQueue
    <2>4. run'["worker"] = run["worker"] /\ run'["owner"] = run["owner"] BY <2>2, Thread3
    <2> QED BY <2>2, <2>3, <2>4 DEF NoAsk
  <1>2. CASE l # Home
    <2>1. Control(l, r) /\ UNCHANGED run BY <1>2 DEF Give
    <2>2. QueueType' /\ \A k \in Locality : Sent(k)' \subseteq Sent(k) \cup {r}
      BY <2>1, ControlQueue
    <2>3. NoAsk BY <2>2 DEF NoAsk, Asks
    <2>4. RunType' BY <2>1 DEF RunType
    <2> QED BY <2>1, <2>2, <2>3, <2>4
  <1> QED BY <1>1, <1>2

LEMMA GiveTame ==
  ASSUME QueueType, RunType, NEW l \in Locality, NEW r \in AnyRequest,
         r.kind \in {"release", "root release"}, r.from = l, Give(l, r), MatchInv,
         r.object \in born, TokenTame, FutureTame, UNCHANGED retirements
  PROVE  /\ QueueType' /\ RunType' /\ MatchInv' /\ TransferTame /\ EndTame
         /\ \A o \in Object : Unrooting(o)' => \/ Unrooting(o)
                                               \/ o = r.object /\ r.kind = "root release"
         /\ \A o \in Object, k \in Locality :
              Releasing(o, k)' => \/ Releasing(o, k)
                                  \/ o = r.object /\ k = r.lease /\ r.kind = "release"
  <1>1. /\ QueueType' /\ RunType' /\ NoAsk
        /\ \A k \in Locality : Sent(k)' \subseteq Sent(k) \cup {r}
        /\ \A t \in Thread : \/ run'[t] = run[t]
                             \/ /\ run'[t].pc = r.kind /\ run'[t].request = r
                                /\ run'[t].object = {r.object}
        /\ run'["worker"] = run["worker"] /\ run'["owner"] = run["owner"]
    BY GiveEffect
  <1>2. MatchInv'
    <2> SUFFICES ASSUME NEW k \in Locality, NEW o \in Object, futures'[k][o].kind # "none"
        PROVE  /\ \A y \in Sent(k)' : Asking(y, k, o) => Fits(futures'[k][o], y)
               /\ Asking(run'["worker"].request, k, o) => Fits(futures'[k][o], run'["worker"].request)
      BY DEF MatchInv, Asking, Fits
    <2>1. futures'[k][o].kind = futures[k][o].kind /\ futures'[k][o].to = futures[k][o].to
      BY DEF FutureTame, FutureKinds
    <2>2. \A y : Fits(futures[k][o], y) => Fits(futures'[k][o], y) BY <2>1 DEF Fits
    <2>3. \A y \in Sent(k)' : Asking(y, k, o) => y \in Sent(k) BY <1>1 DEF NoAsk, Asks, Asking
    <2>4. /\ \A y \in Sent(k) : Asking(y, k, o) => Fits(futures[k][o], y)
          /\ Asking(run["worker"].request, k, o) => Fits(futures[k][o], run["worker"].request)
      BY <2>1 DEF MatchInv
    <2> QED BY <1>1, <2>2, <2>3, <2>4
  <1>3. TransferTame
    <2>1. ASSUME NEW o \in Object, NEW k \in Locality, Transferring(o, k)' PROVE Transferring(o, k)
      <3>1. CASE \E x \in tokens' : x.object = o /\ x.to = k
        BY <3>1 DEF TokenTame, Transferring
      <3>2. CASE \E j \in Locality : /\ futures'[j][o].kind = "transfer" /\ futures'[j][o].status = "ok"
                                     /\ futures'[j][o].to = k
        BY <3>2 DEF FutureTame, Transferring
      <3>3. CASE /\ run'["worker"].pc \in Admitting /\ run'["worker"].request.kind = "transfer"
                 /\ run'["worker"].request.object = o /\ run'["worker"].request.lease = k
        BY <1>1, <3>3 DEF Transferring
      <3> QED BY <2>1, <3>1, <3>2, <3>3 DEF Transferring
    <2> QED BY <2>1 DEF TransferTame
  <1>4. EndTame
    <2>1. \A t \in Thread : run'[t].pc = "collect" => run'[t] = run[t] BY <1>1
    <2>2. ASSUME NEW o \in Object, Ending(o)' PROVE Ending(o)
      BY <1>1, <2>1, <2>2 DEF Ending, In
    <2>3. \A o \in Object, t \in Thread : o \in run'[t].object => o \in run[t].object \/ o \in born
      BY <1>1
    <2> QED BY <2>2, <2>3 DEF EndTame
  <1>5. ASSUME NEW o \in Object, Unrooting(o)'
        PROVE  Unrooting(o) \/ (o = r.object /\ r.kind = "root release")
    <2>1. CASE \E k \in Locality : \E y \in Sent(k)' : y.kind = "root release" /\ y.object = o
      BY <1>1, <2>1 DEF Unrooting
    <2>2. CASE \E t \in Thread : run'[t].pc = "root release" /\ run'[t].request.object = o
      BY <1>1, <2>2 DEF Unrooting
    <2> QED BY <1>5, <2>1, <2>2 DEF Unrooting
  <1>6. ASSUME NEW o \in Object, NEW k \in Locality, Releasing(o, k)'
        PROVE  Releasing(o, k) \/ (o = r.object /\ k = r.lease /\ r.kind = "release")
    <2>1. CASE \E j \in Locality : \E y \in Sent(j)' : y.kind = "release" /\ y.object = o /\ y.lease = k
      BY <1>1, <2>1 DEF Releasing
    <2>2. CASE \E t \in Thread : run'[t].pc = "release" /\ run'[t].request.object = o
                                 /\ run'[t].request.lease = k
      BY <1>1, <2>2 DEF Releasing
    <2> QED BY <1>6, <2>1, <2>2 DEF Releasing
  <1> QED BY <1>1, <1>2, <1>3, <1>4, <1>5, <1>6

LEMMA DropHandleKeeps ==
  ASSUME LifeInv, NEW l \in Locality, NEW o \in Object, DropHandle(l, o) PROVE LifeInv'
  <1> DEFINE r == Request("release", o, l, l)
  <1>1. r \in AnyRequest /\ r.kind = "release" /\ r.from = l /\ r.object = o /\ r.lease = l
    <2>1. "release" \in Kind BY Kinds
    <2> QED BY <2>1, RequestType
  <1>2. Give(l, r) BY DEF DropHandle
  <1> HIDE DEF r
  <1> USE DEF LifeInv, Types
  <1>3. /\ UNCHANGED <<stored, born, leases, unrenewed, roots, lifecycle, retirements,
                       pending_transfers, futures, tokens, rooted>>
        /\ first' = first \ {<<o, l>>} /\ held' = [held EXCEPT ![l][o] = NotHeld]
    BY DEF DropHandle, directory, counters
  <1>4. o \in born BY DEF DropHandle, KeepInv, BornInv
  <1>5. TokenTame /\ FutureTame BY <1>3, SameTokens, SameFutures
  <1>6. /\ QueueType' /\ RunType' /\ MatchInv' /\ TransferTame /\ EndTame
        /\ \A p \in Object : Unrooting(p)' => Unrooting(p)
        /\ \A p \in Object, k \in Locality : Releasing(p, k)' => Releasing(p, k) \/ (p = o /\ k = l)
    BY <1>1, <1>2, <1>3, <1>4, <1>5, GiveTame
  <1>7. ReleaseTame BY <1>3, <1>4, <1>6 DEF ReleaseTame
  <1>8. DirectoryType' /\ DirectoryTame BY <1>3 DEF DirectoryType, DirectoryTame
  <1>9. /\ held' \in [Locality -> [Object -> NotHeld..Renewal]]
        /\ \A k \in Locality, p \in Object : Attached(k, p)' => Attached(k, p)
    <2>1. held \in [Locality -> [Object -> NotHeld..Renewal]] BY DEF HolderType
    <2>2. NotHeld \in NotHeld..Renewal BY LimitTypes DEF NotHeld
    <2> QED BY <1>3, <2>1, <2>2 DEF Attached
  <1>10. HolderType' BY <1>3, <1>9 DEF HolderType
  <1>11. RootedTame BY <1>3, <1>9 DEF RootedTame
  <1>12. HoldTame BY <1>5, <1>11, CalmHold
  <1> QED BY <1>6, <1>7, <1>8, <1>10, <1>12, TameStep DEF Tame

LEMMA DropRootKeeps ==
  ASSUME LifeInv, NEW l \in Locality, NEW o \in Object, DropRoot(l, o) PROVE LifeInv'
  <1> DEFINE r == Request("root release", o, l, l)
  <1>1. r \in AnyRequest /\ r.kind = "root release" /\ r.from = l /\ r.object = o
    <2>1. \A kind \in Kind :
            /\ Request(kind, o, l, l) \in AnyRequest /\ Request(kind, o, l, l).kind = kind
            /\ Request(kind, o, l, l).from = l /\ Request(kind, o, l, l).object = o
      BY RequestType
    <2> QED BY <2>1, Kinds, Zenon
  <1>2. Give(l, r) BY DEF DropRoot
  <1> HIDE DEF r
  <1> USE DEF LifeInv, Types
  <1>3. /\ UNCHANGED <<stored, born, leases, unrenewed, roots, lifecycle, retirements, first,
                       pending_transfers, futures, tokens, held>>
        /\ o \in rooted[l] /\ rooted' = [rooted EXCEPT ![l] = @ \ {o}]
    BY DEF DropRoot, directory, counters, history
  <1>4. o \in born /\ ~Created(l, o)
    <2>1. HasRoot(l, o) BY <1>3 DEF HasRoot
    <2> QED BY <1>3, <2>1 DEF KeepInv, RootInv, DirectoryType
  <1>5. TokenTame /\ FutureTame BY <1>3, SameTokens, SameFutures
  <1>6. /\ QueueType' /\ RunType' /\ MatchInv' /\ TransferTame /\ EndTame
        /\ \A p \in Object : Unrooting(p)' => Unrooting(p) \/ p = o
        /\ \A p \in Object, k \in Locality : Releasing(p, k)' => Releasing(p, k)
    BY <1>1, <1>2, <1>3, <1>4, <1>5, GiveTame
  <1>7. rooted \in [Locality -> SUBSET Object] BY DEF HolderType
  <1>8. /\ rooted' \in [Locality -> SUBSET Object] /\ o \notin rooted'[l]
        /\ \A k \in Locality : rooted'[k] \subseteq rooted[k]
    BY <1>3, <1>7
  <1>9. ~HasRoot(l, o)' BY <1>3, <1>4, <1>8 DEF HasRoot, Created
  <1>10. ReleaseTame BY <1>3, <1>6, <1>9 DEF ReleaseTame
  <1>11. DirectoryType' /\ LeaseTame BY <1>3, SameDirectory
  <1>12. HolderType' BY <1>3, <1>8 DEF HolderType
  <1>13. RootedTame BY <1>3, <1>8 DEF RootedTame, Attached
  <1>14. HoldTame /\ DirectoryTame BY <1>5, <1>11, <1>13, CalmHold, CalmDirectory
  <1> QED BY <1>6, <1>10, <1>11, <1>12, <1>14, TameStep DEF Tame

LEMMA DropTokenKeeps ==
  ASSUME LifeInv, NEW t \in tokens, DropToken(t) PROVE LifeInv'
  <1> USE DEF LifeInv, Types
  <1>1. t.object \in Object /\ t.from \in Locality /\ t.to \in Locality
    BY DEF HolderType, Token
  <1> DEFINE r == Request("release", t.object, t.from, t.to)
  <1>2. r \in AnyRequest /\ r.kind = "release" /\ r.from = t.from /\ r.object = t.object
        /\ r.lease = t.to
    <2>1. "release" \in Kind BY Kinds
    <2> QED BY <1>1, <2>1, RequestType
  <1>3. Give(t.from, r) BY DEF DropToken
  <1> HIDE DEF r
  <1>4. /\ UNCHANGED <<stored, born, leases, unrenewed, roots, lifecycle, retirements, first,
                       pending_transfers, futures, rooted, held>>
        /\ tokens' = tokens \ {t}
    BY DEF DropToken, directory, counters, history
  <1>5. Transferring(t.object, t.to) BY DEF Transferring
  <1>6. t.object \in born BY <1>1, <1>5 DEF KeepInv, BornInv
  <1>7. TokenTame /\ FutureTame BY <1>4, SameTokens, SameFutures
  <1>8. /\ QueueType' /\ RunType' /\ MatchInv' /\ TransferTame /\ EndTame
        /\ \A p \in Object : Unrooting(p)' => Unrooting(p)
        /\ \A p \in Object, k \in Locality :
             Releasing(p, k)' => Releasing(p, k) \/ (p = t.object /\ k = t.to)
    BY <1>1, <1>2, <1>3, <1>4, <1>6, <1>7, GiveTame
  <1>9. ReleaseTame BY <1>5, <1>8 DEF ReleaseTame
  <1>10. DirectoryType' /\ LeaseTame BY <1>4, SameDirectory
  <1>11. HolderType' BY <1>4 DEF HolderType
  <1>12. RootedTame BY <1>4, SameHolders
  <1>13. HoldTame /\ DirectoryTame BY <1>7, <1>10, <1>12, CalmHold, CalmDirectory
  <1> QED BY <1>8, <1>9, <1>10, <1>11, <1>13, TameStep DEF Tame

LEMMA ImportKeeps ==
  ASSUME LifeInv, NEW t \in tokens, Import(t) PROVE LifeInv'
  <1> USE DEF LifeInv, Types
  <1>1. t.object \in Object /\ t.from \in Locality /\ t.to \in Locality
    BY DEF HolderType, Token
  <1>2. t.object \in born
    <2>1. Transferring(t.object, t.to) BY DEF Transferring
    <2> QED BY <1>1, <2>1 DEF KeepInv, BornInv
  <1>3. /\ UNCHANGED <<stored, born, leases, unrenewed, roots, lifecycle, retirements, first, run,
                       futures, rooted>>
        /\ tokens' = tokens \ {t} /\ Attach(t.to, t.object)
    BY DEF Import, directory, history
  <1>4. pending_transfers' \subseteq pending_transfers BY DEF Import, Unpin
  <1>5. QueueType' /\ NoRelease /\ NoAsk
    <2>1. CASE t.to = Home
      <3>1. UNCHANGED queue BY <2>1 DEF Import
      <3> QED BY <3>1, SameQueue, SameSent
    <2>2. CASE t.to # Home
      <3> DEFINE r == Request("ack", t.object, t.to, t.to)
      <3>1. r \in AnyRequest /\ r.kind = "ack" /\ r.from = t.to
        <4>1. "ack" \in Kind BY Kinds
        <4> QED BY <1>1, <4>1, RequestType
      <3>2. Control(t.to, r) BY <2>2 DEF Import
      <3> HIDE DEF r
      <3>3. QueueType' /\ \A k \in Locality : Sent(k)' \subseteq Sent(k) \cup {r}
        BY <1>1, <3>1, <3>2, ControlQueue
      <3> QED BY <3>1, <3>3 DEF NoRelease, NoAsk, Asks
    <2> QED BY <2>1, <2>2
  <1>6. /\ DirectoryType' /\ LeaseTame
        /\ \A p \in Object : In(p, retirements') => In(p, retirements)
    BY <1>3, <1>4, SameDirectory
  <1>7. RunTame /\ RunType' BY <1>3, SameRunTame
  <1>8. FutureTame /\ TokenTame BY <1>3, SameFutures, SameTokens
  <1>9. /\ held' \in [Locality -> [Object -> NotHeld..Renewal]]
        /\ \A k \in Locality, p \in Object :
             Attached(k, p)' => Attached(k, p) \/ (k = t.to /\ p = t.object)
    BY <1>1, <1>3, AttachHeld
  <1>10. HolderType' BY <1>3, <1>9 DEF HolderType
  <1>11. HoldTame
    <2>1. \A k \in Locality, p \in Object : HasRoot(k, p)' = HasRoot(k, p) /\ Created(k, p)' = Created(k, p)
      BY <1>3 DEF HasRoot, Created
    <2> QED BY <1>2, <1>3, <1>9, <2>1 DEF HoldTame
  <1>12. ReleaseTame /\ TransferTame /\ EndTame /\ DirectoryTame /\ MatchInv'
    BY <1>5, <1>6, <1>7, <1>8, CalmRelease, CalmTransfer, CalmEnd, CalmDirectory, CalmMatch
       DEF FutureTame
  <1> QED BY <1>5, <1>6, <1>7, <1>10, <1>11, <1>12, TameStep DEF Tame

LEMMA LeaveKeeps ==
  ASSUME LifeInv, NEW l \in Locality, Leave(l) PROVE LifeInv'
  <1> USE DEF LifeInv, Types
  <1>1. /\ UNCHANGED <<stored, born, leases, unrenewed, roots, lifecycle, retirements,
                       pending_transfers, run>>
        /\ first' = {p \in first : p[2] # l}
        /\ held' = [held EXCEPT ![l] = [o \in Object |-> NotHeld]]
        /\ futures' = [futures EXCEPT ![l] = [o \in Object |-> NoFuture]]
        /\ tokens' \subseteq tokens
        /\ rooted' = [rooted EXCEPT ![l] = {}]
    BY DEF Leave, directory, counters
  <1>2. RunTame /\ RunType' BY <1>1, SameRunTame
  <1>3. first' \subseteq first /\ \A o \in Object : <<o, l>> \notin first' BY <1>1
  <1>4. DirectoryType' /\ LeaseTame BY <1>1, <1>3 DEF DirectoryType, LeaseTame
  <1>5. /\ held \in [Locality -> [Object -> NotHeld..Renewal]]
        /\ futures \in [Locality -> [Object -> Future]]
        /\ rooted \in [Locality -> SUBSET Object] /\ tokens \subseteq Token
    BY DEF HolderType
  <1>6. /\ held' \in [Locality -> [Object -> NotHeld..Renewal]]
        /\ \A k \in Locality, p \in Object : Attached(k, p)' => Attached(k, p)
    <2>1. NotHeld \in NotHeld..Renewal BY LimitTypes DEF NotHeld
    <2> QED BY <1>1, <1>5, <2>1 DEF Attached
  <1>7. /\ futures' \in [Locality -> [Object -> Future]]
        /\ \A k \in Locality, p \in Object :
             futures'[k][p] = NoFuture \/ futures'[k][p] = futures[k][p]
    BY <1>1, <1>5, NoFutureType
  <1>8. FutureTame BY <1>7, NoFutureType DEF FutureTame, FutureKinds
  <1>9. TokenTame BY <1>1, SameTokens
  <1>10. /\ rooted' \in [Locality -> SUBSET Object]
         /\ \A k \in Locality : rooted'[k] \subseteq rooted[k]
    BY <1>1, <1>5
  <1>11. HolderType' BY <1>1, <1>5, <1>6, <1>7, <1>10 DEF HolderType
  <1>12. RootedTame BY <1>6, <1>10 DEF RootedTame
  <1>13. QueueType' /\ NoAsk /\ ReleaseTame
    <2>1. CASE UNCHANGED queue
      BY <1>2, <2>1, SameQueue, SameSent, CalmRelease
    <2>2. CASE \E o \in Object : Attached(l, o) /\ Submit(l, Request("release", o, l, l))
      <3>1. PICK o \in Object : Attached(l, o) /\ Submit(l, Request("release", o, l, l)) BY <2>2
      <3> DEFINE r == Request("release", o, l, l)
      <3>2. r \in AnyRequest /\ r.kind = "release" /\ r.from = l /\ r.object = o /\ r.lease = l
        <4>1. "release" \in Kind BY Kinds
        <4> QED BY <4>1, RequestType
      <3> HIDE DEF r
      <3>3. QueueType' /\ \A k \in Locality : Sent(k)' \subseteq Sent(k) \cup {r}
        BY <3>1, <3>2, SubmitQueue DEF r
      <3>4. NoAsk BY <3>2, <3>3 DEF NoAsk, Asks
      <3>5. o \in born BY <3>1 DEF KeepInv, BornInv
      <3>6. \A p \in Object : Unrooting(p)' => Unrooting(p)
        BY <1>1, <3>2, <3>3 DEF Unrooting
      <3>7. \A p \in Object, k \in Locality : Releasing(p, k)' => Releasing(p, k) \/ (p = o /\ k = l)
        BY <1>1, <3>2, <3>3 DEF Releasing
      <3>8. ReleaseTame BY <1>3, <3>5, <3>6, <3>7 DEF ReleaseTame
      <3> QED BY <3>3, <3>4, <3>8
    <2> QED BY <2>1, <2>2 DEF Leave
  <1>14. TransferTame /\ EndTame /\ DirectoryTame /\ HoldTame /\ MatchInv'
    BY <1>1, <1>2, <1>4, <1>8, <1>9, <1>12, <1>13, CalmTransfer, CalmEnd, CalmDirectory, CalmHold,
       CalmMatch DEF FutureTame
  <1> QED BY <1>2, <1>4, <1>11, <1>13, <1>14, TameStep DEF Tame

-----------------------------------------------------------------------------
(* A new object.  Nobody knew it, so nothing is under way that ends it.    *)

\* The futures and the holders after an insertion of o for l.
InsertFutures(o, l) ==
  \A k \in Locality, p \in Object :
    /\ futures'[k][p].kind = futures[k][p].kind /\ futures'[k][p].to = futures[k][p].to
    /\ \/ futures'[k][p].status = futures[k][p].status
       \/ k = l /\ p = o /\ futures[k][p].kind # "transfer"
InsertHolds(o, l) ==
  /\ \A k \in Locality, p \in Object :
       /\ Attached(k, p)' => Attached(k, p) \/ p = o
       /\ p \in rooted'[k] => p \in rooted[k] \/ (k = l /\ p = o /\ l \in Rooting)
  /\ ~(o \in rooted'[l] /\ futures'[l][o].status = "ok")

LEMMA InsertDirectory ==
  ASSUME DirectoryType, NEW o \in Object, NEW l \in Locality,
         Insert(o, l, l \in Rooting), UNCHANGED <<lifecycle, pending_transfers, retirements>>
  PROVE  /\ DirectoryType'
         /\ \A p \in Object, k \in Locality : leases'[p][k].is = (leases[p][k].is \/ (p = o /\ k = l))
         /\ roots'[o] = (IF l \in Rooting THEN 1 ELSE 0) /\ \A p \in Object : p # o => roots'[p] = roots[p]
  <1>1. /\ stored \subseteq born /\ born \subseteq Object
        /\ leases \in [Object -> [Locality -> Record]]
        /\ unrenewed \in [Object -> [Locality -> 0..(Ttl + Grace)]]
        /\ roots \in [Object -> 0..1]
    BY DEF DirectoryType
  <1>2. /\ stored' = stored \cup {o} /\ born' = born \cup {o} /\ first' = first \cup {<<o, l>>}
        /\ leases' = [leases EXCEPT ![o][l] = Fresh]
        /\ roots' = [roots EXCEPT ![o] = IF l \in Rooting THEN 1 ELSE 0]
        /\ unrenewed' = [unrenewed EXCEPT ![o][l] = 0]
    BY DEF Insert
  <1>3. leases' \in [Object -> [Locality -> Record]] BY <1>1, <1>2, RecordTypes
  <1>4. \A p \in Object, k \in Locality : leases'[p][k] = IF p = o /\ k = l THEN Fresh ELSE leases[p][k]
    BY <1>1, <1>2
  <1>5. \A p \in Object, k \in Locality : leases[p][k].is \in BOOLEAN
    BY <1>1 DEF Record
  <1>6. \A p \in Object, k \in Locality : leases'[p][k].is = (leases[p][k].is \/ (p = o /\ k = l))
    <2> TAKE p \in Object, k \in Locality
    <2>1. CASE p = o /\ k = l BY <1>4, <2>1, RecordTypes
    <2>2. CASE ~(p = o /\ k = l) BY <1>4, <1>5, <2>2
    <2> QED BY <2>1, <2>2
  <1>7. unrenewed' \in [Object -> [Locality -> 0..(Ttl + Grace)]]
    <2>1. 0 \in 0..(Ttl + Grace) BY LimitTypes
    <2> QED BY <1>1, <1>2, <2>1
  <1>8. roots' \in [Object -> 0..1] /\ roots'[o] = (IF l \in Rooting THEN 1 ELSE 0)
        /\ \A p \in Object : p # o => roots'[p] = roots[p]
    BY <1>1, <1>2
  <1>9. DirectoryType' BY <1>1, <1>2, <1>3, <1>7, <1>8 DEF DirectoryType
  <1> QED BY <1>6, <1>8, <1>9

LEMMA InsertKeeps ==
  ASSUME LifeInv, NEW o \in Object, NEW l \in Locality, o \notin born, Insert(o, l, l \in Rooting),
         UNCHANGED <<lifecycle, pending_transfers, retirements, run, tokens>>,
         QueueType', \A k \in Locality : Sent(k)' \subseteq Sent(k),
         HolderType', InsertFutures(o, l), InsertHolds(o, l)
  PROVE  LifeInv'
  <1> USE DEF LifeInv, Types
  <1>1. /\ DirectoryType'
        /\ \A p \in Object, k \in Locality : leases'[p][k].is = (leases[p][k].is \/ (p = o /\ k = l))
        /\ roots'[o] = (IF l \in Rooting THEN 1 ELSE 0)
        /\ \A p \in Object : p # o => roots'[p] = roots[p]
    BY InsertDirectory
  <1>2. stored' = stored \cup {o} /\ born' = born \cup {o} /\ first' = first \cup {<<o, l>>}
    BY DEF Insert
  <1>3. NoRelease /\ NoAsk BY SameSent
  <1>4. RunTame /\ RunType' BY SameRunTame
  <1>5. FutureKinds BY DEF InsertFutures, FutureKinds
  <1>6. MatchInv' BY <1>3, <1>4, <1>5, CalmMatch
  <1>7. \A p \in Object : (Unrooting(p)' => Unrooting(p)) /\ Ending(p)' = Ending(p)
    <2>1. \A p \in Object : Unrooting(p)' => Unrooting(p) BY <1>4, <1>3 DEF RunTame, NoRelease, Unrooting
    <2>2. \A p \in Object : Ending(p)' = Ending(p) BY DEF Ending, In
    <2> QED BY <2>1, <2>2
  <1>8. \A p \in Object, k \in Locality : Releasing(p, k)' => Releasing(p, k)
    BY <1>4, <1>3 DEF RunTame, NoRelease, Releasing
  <1>9. \A p \in Object, k \in Locality : Transferring(p, k)' => Transferring(p, k)
    BY DEF Transferring, InsertFutures
  <1>10. \A p \in Object, k \in Locality : Created(k, p)' => Created(k, p) \/ (k = l /\ p = o /\ l \in Rooting)
    BY DEF Created, InsertFutures
  <1>11. \A p \in Object, k \in Locality : HasRoot(k, p)' => HasRoot(k, p) \/ (k = l /\ p = o /\ l \in Rooting)
    BY <1>10 DEF HasRoot, InsertHolds
  <1>12. /\ ~Ending(o) /\ ~Unrooting(o) /\ o \notin stored
         /\ \A k \in Locality : ~Releasing(o, k) /\ ~Transferring(o, k) /\ ~HasRoot(k, o)
    BY DEF KeepInv, BornInv, RootInv, DirectoryType
  <1>13. FirstInv'
    <2> SUFFICES ASSUME NEW p \in Object, NEW k \in Locality, <<p, k>> \in first'
        PROVE  p \in stored' /\ leases'[p][k].is /\ ~Releasing(p, k)' /\ ~Transferring(p, k)'
               /\ ~Ending(p)'
      BY DEF FirstInv
    <2>1. CASE <<p, k>> \in first
      <3>1. p \in stored /\ leases[p][k].is /\ ~Releasing(p, k) /\ ~Transferring(p, k) /\ ~Ending(p)
        BY <2>1 DEF KeepInv, FirstInv
      <3> QED BY <1>1, <1>2, <1>7, <1>8, <1>9, <3>1
    <2>2. CASE <<p, k>> = <<o, l>>
      <3>1. p = o /\ k = l BY <2>2
      <3> QED BY <1>1, <1>2, <1>7, <1>8, <1>9, <1>12, <3>1
    <2> QED BY <1>2, <2>1, <2>2
  <1>14. RootInv'
    <2> SUFFICES ASSUME NEW p \in Object, NEW k \in Locality, HasRoot(k, p)'
        PROVE  /\ p \in stored' /\ roots'[p] = 1 /\ ~Unrooting(p)' /\ ~Ending(p)'
               /\ ~(p \in rooted'[k] /\ Created(k, p)')
               /\ \A j \in Locality : HasRoot(j, p)' => j = k
      BY DEF RootInv
    <2>1. CASE p = o
      <3>1. k = l /\ l \in Rooting BY <1>11, <1>12, <2>1
      <3>2. \A j \in Locality : HasRoot(j, p)' => j = k BY <1>11, <1>12, <2>1, <3>1
      <3>3. p \in stored' /\ roots'[p] = 1 BY <1>1, <1>2, <2>1, <3>1
      <3>4. ~(p \in rooted'[k] /\ Created(k, p)') BY <2>1, <3>1 DEF InsertHolds, Created
      <3> QED BY <1>7, <1>12, <2>1, <3>2, <3>3, <3>4
    <2>2. CASE p # o
      <3>1. HasRoot(k, p) BY <1>11, <2>2
      <3>2. /\ p \in stored /\ roots[p] = 1 /\ ~Unrooting(p) /\ ~Ending(p)
            /\ ~(p \in rooted[k] /\ Created(k, p))
            /\ \A j \in Locality : HasRoot(j, p) => j = k
        BY <3>1 DEF KeepInv, RootInv
      <3>3. ~(p \in rooted'[k] /\ Created(k, p)') BY <1>10, <2>2, <3>2 DEF InsertHolds
      <3>4. \A j \in Locality : HasRoot(j, p)' => j = k BY <1>11, <2>2, <3>2
      <3> QED BY <1>1, <1>2, <1>7, <2>2, <3>2, <3>3, <3>4
    <2> QED BY <2>1, <2>2
  <1>15. BornInv'
    <2> SUFFICES ASSUME NEW p \in Object, p \notin born'
        PROVE  /\ roots'[p] = 0 /\ ~Ending(p)' /\ ~Unrooting(p)'
               /\ \A t \in Thread : p \notin run'[t].object
               /\ \A k \in Locality : ~Attached(k, p)' /\ ~Releasing(p, k)' /\ ~Transferring(p, k)'
                                      /\ futures'[k][p].status # "ok"
      BY DEF BornInv
    <2>1. p \notin born /\ p # o BY <1>2
    <2>2. /\ roots[p] = 0 /\ ~Ending(p) /\ ~Unrooting(p)
          /\ \A t \in Thread : p \notin run[t].object
          /\ \A k \in Locality : ~Attached(k, p) /\ ~Releasing(p, k) /\ ~Transferring(p, k)
                                 /\ futures[k][p].status # "ok"
      BY <2>1 DEF KeepInv, BornInv
    <2>3. \A k \in Locality : ~Attached(k, p)' /\ futures'[k][p].status # "ok"
      BY <2>1, <2>2 DEF InsertHolds, InsertFutures
    <2> QED BY <1>1, <1>7, <1>8, <1>9, <2>1, <2>2, <2>3
  <1> QED BY <1>1, <1>4, <1>6, <1>13, <1>14, <1>15 DEF KeepInv

LEMMA HandleCreateKeeps ==
  ASSUME LifeInv, NEW l \in Locality, HandleCreate(l) PROVE LifeInv'
  <1> DEFINE r == Head(queue[l])
  <1>1. Take(l, "create") BY DEF HandleCreate
  <1> USE DEF LifeInv, Types
  <1>2. /\ QueueType' /\ \A k \in Locality : Sent(k)' \subseteq Sent(k)
        /\ r \in AnyRequest /\ r \in Sent(l) /\ r.from = l /\ r.kind = "create"
    BY <1>1, TakeQueue
  <1>3. r.object \in Object BY <1>2 DEF AnyRequest
  <1>4. UNCHANGED <<lifecycle, pending_transfers, retirements, run, held, tokens, rooted>>
    BY DEF HandleCreate
  <1>5. CASE CanInsert(r.object, l \in Rooting)
    <2>1. Insert(r.object, l, l \in Rooting) /\ Answer(r, "ok")
      BY <1>5 DEF HandleCreate
    <2>2. r.object \notin born BY <1>5 DEF CanInsert
    <2> HIDE DEF r
    <2>3. /\ futures' \in [Locality -> [Object -> Future]]
          /\ \A k \in Locality, p \in Object :
               /\ futures'[k][p].kind = futures[k][p].kind /\ futures'[k][p].to = futures[k][p].to
               /\ \/ futures'[k][p].status = futures[k][p].status
                  \/ k = r.from /\ p = r.object /\ futures'[k][p].status = "ok"
                     /\ futures[k][p] # NoFuture
      BY <1>2, <2>1, AnswerFutures
    <2>4. futures[l][r.object].kind # "transfer"
      <3>1. Asking(r, l, r.object) BY <1>2 DEF Asking
      <3>2. CASE futures[l][r.object].kind = "none" BY <3>2
      <3>3. CASE futures[l][r.object].kind # "none"
        <4>1. Fits(futures[l][r.object], r) BY <1>2, <1>3, <3>1, <3>3 DEF MatchInv
        <4> QED BY <1>2, <4>1 DEF Fits
      <3> QED BY <3>2, <3>3
    <2>5. InsertFutures(r.object, l) BY <1>2, <2>3, <2>4 DEF InsertFutures
    <2>6. HolderType' BY <1>4, <2>3, SameHolderType
    <2>7. \A k \in Locality : r.object \notin rooted[k]
      BY <1>3, <2>2 DEF KeepInv, RootInv, HasRoot, DirectoryType
    <2>8. InsertHolds(r.object, l) BY <1>4, <2>7 DEF InsertHolds, Attached
    <2> QED BY <1>2, <1>3, <1>4, <2>1, <2>2, <2>5, <2>6, <2>8, InsertKeeps
  <1>6. CASE ~CanInsert(r.object, l \in Rooting)
    <2>1. Answer(r, "error") /\ UNCHANGED <<stored, leases, roots, born, first, unrenewed>>
      BY <1>6 DEF HandleCreate
    <2> HIDE DEF r
    <2>2. FutureTame /\ futures' \in [Locality -> [Object -> Future]]
      BY <1>2, <2>1, ErrorFutures
    <2>3. HolderType' /\ RootedTame /\ TokenTame BY <1>4, <2>2, SameHolderType
    <2>4. RunTame /\ RunType' BY <1>4, SameRunTame
    <2>5. /\ DirectoryType' /\ LeaseTame
          /\ \A o \in Object : In(o, retirements') => In(o, retirements)
      BY <1>4, <2>1, SameDirectory
    <2>6. NoRelease /\ NoAsk BY <1>2, SameSent
    <2> QED BY <1>2, <2>2, <2>3, <2>4, <2>5, <2>6, CalmStep
  <1> QED BY <1>5, <1>6

LEMMA CreateHereKeeps ==
  ASSUME LifeInv, NEW o \in Object, CreateHere(o) PROVE LifeInv'
  <1> USE DEF LifeInv, Types
  <1>1. Home \in Locality BY LimitTypes
  <1>2. /\ UNCHANGED <<lifecycle, pending_transfers, retirements, run, tokens, queue, futures>>
        /\ Insert(o, Home, Home \in Rooting) /\ o \notin born
    BY DEF CreateHere, CanInsert
  <1>3. QueueType' /\ \A k \in Locality : Sent(k)' = Sent(k) BY <1>2, SameQueue
  <1>4. InsertFutures(o, Home) BY <1>2 DEF InsertFutures
  <1>5. futures[Home][o].status # "ok" BY <1>1, <1>2 DEF KeepInv, BornInv
  <1>6. /\ held \in [Locality -> [Object -> NotHeld..Renewal]]
        /\ rooted \in [Locality -> SUBSET Object]
    BY DEF HolderType
  <1>7. /\ held' \in [Locality -> [Object -> NotHeld..Renewal]]
        /\ rooted' \in [Locality -> SUBSET Object]
        /\ \A k \in Locality, p \in Object :
             /\ Attached(k, p)' => Attached(k, p) \/ p = o
             /\ p \in rooted'[k] => p \in rooted[k] \/ (k = Home /\ p = o /\ Home \in Rooting)
    <2>1. CASE UNCHANGED <<held, rooted>> BY <1>6, <2>1 DEF Attached
    <2>2. CASE /\ Attach(Home, o)
               /\ rooted' = [rooted EXCEPT ![Home] = IF Home \in Rooting THEN @ \cup {o} ELSE @]
      <3>1. /\ held' \in [Locality -> [Object -> NotHeld..Renewal]]
            /\ \A k \in Locality, p \in Object :
                 Attached(k, p)' => Attached(k, p) \/ (k = Home /\ p = o)
        BY <1>1, <2>2, AttachHeld
      <3>2. /\ rooted' \in [Locality -> SUBSET Object]
            /\ \A k \in Locality, p \in Object :
                 p \in rooted'[k] => p \in rooted[k] \/ (k = Home /\ p = o /\ Home \in Rooting)
        BY <1>1, <1>6, <2>2
      <3> QED BY <3>1, <3>2
    <2> QED BY <2>1, <2>2 DEF CreateHere
  <1>8. HolderType' BY <1>2, <1>7 DEF HolderType
  <1>9. InsertHolds(o, Home) BY <1>2, <1>5, <1>7 DEF InsertHolds
  <1> QED BY <1>1, <1>2, <1>3, <1>4, <1>8, <1>9, InsertKeeps

-----------------------------------------------------------------------------

LEMMA InitLife ==
  ASSUME Init PROVE LifeInv
  <1>1. /\ stored = {} /\ born = {} /\ first = {} /\ tokens = {} /\ retirements = <<>>
        /\ pending_transfers = {}
        /\ leases = [o \in Object |-> [l \in Locality |-> Absent]]
        /\ roots = [o \in Object |-> 0]
        /\ lifecycle = [o \in Object |-> "Resident"]
        /\ run = [t \in Thread |-> Idle]
        /\ queue = [l \in Locality |-> <<>>]
        /\ held = [l \in Locality |-> [o \in Object |-> NotHeld]]
        /\ futures = [l \in Locality |-> [o \in Object |-> NoFuture]]
        /\ rooted = [l \in Locality |-> {}]
        /\ unrenewed = [o \in Object |-> [l \in Locality |-> 0]]
    BY DEF Init
  <1>2. \A l \in Locality : Sent(l) = {} BY <1>1 DEF Sent
  <1>3. QueueType
    <2>1. QueueCap \in Nat /\ <<>> \in Seq(AnyRequest) /\ Len(<<>>) = 0 BY LimitTypes
    <2> QED BY <1>1, <1>2, <2>1 DEF QueueType
  <1>4. \A t \in Thread : run[t] = Idle BY <1>1
  <1>5. RunType
    <2>1. run \in [Thread -> Execution] BY <1>1, IdleType
    <2> QED BY <1>4, <2>1, IdleType DEF RunType
  <1>6. DirectoryType
    <2>1. 0 \in 0..(Ttl + Grace) BY LimitTypes
    <2>2. <<>> \in Seq(Object) OBVIOUS
    <2> QED BY <1>1, <2>1, <2>2, RecordTypes DEF DirectoryType
  <1>7. HolderType
    <2>1. NotHeld \in NotHeld..Renewal BY LimitTypes DEF NotHeld
    <2> QED BY <1>1, <2>1, NoFutureType DEF HolderType
  <1>8. \A l \in Locality, o \in Object :
          futures[l][o] = NoFuture /\ rooted[l] = {} /\ held[l][o] = NotHeld /\ roots[o] = 0
    BY <1>1
  <1>9. MatchInv BY <1>8, NoFutureType DEF MatchInv
  <1>10. FirstInv BY <1>1 DEF FirstInv
  <1>11. RootInv BY <1>8, NoFutureType DEF RootInv, HasRoot, Created
  <1>12. BornInv
    <2> SUFFICES ASSUME NEW o \in Object
        PROVE  /\ roots[o] = 0 /\ ~Ending(o) /\ ~Unrooting(o)
               /\ \A t \in Thread : o \notin run[t].object
               /\ \A l \in Locality : ~Attached(l, o) /\ ~Releasing(o, l) /\ ~Transferring(o, l)
                                      /\ futures[l][o].status # "ok"
      BY DEF BornInv
    <2>1. ~Ending(o) BY <1>1, <1>4, IdleType, NothingIn, Thread3 DEF Ending
    <2>2. ~Unrooting(o) BY <1>2, <1>4, IdleType DEF Unrooting
    <2>3. \A l \in Locality : ~Releasing(o, l) BY <1>2, <1>4, IdleType DEF Releasing
    <2>4. \A l \in Locality : ~Transferring(o, l)
      BY <1>1, <1>4, <1>8, IdleType, NoFutureType, Thread3 DEF Transferring, Admitting
    <2>5. roots[o] = 0 BY <1>1
    <2>6. \A l \in Locality : ~Attached(l, o) /\ futures[l][o].status # "ok"
      BY <1>8, NoFutureType DEF Attached
    <2>7. \A t \in Thread : o \notin run[t].object BY <1>4, IdleType
    <2> QED BY <2>1, <2>2, <2>3, <2>4, <2>5, <2>6, <2>7
  <1> QED BY <1>3, <1>5, <1>6, <1>7, <1>9, <1>10, <1>11, <1>12 DEF LifeInv, Types, KeepInv

LEMMA StutterKeeps ==
  ASSUME LifeInv, UNCHANGED vars PROVE LifeInv'
  <1> USE DEF LifeInv, Types
  <1>1. UNCHANGED <<directory, counters, retirements, run, queue, holders, history>> BY DEF vars
  <1>2. QueueType' /\ \A k \in Locality : Sent(k)' = Sent(k) BY <1>1, SameQueue
  <1>3. NoRelease /\ NoAsk BY <1>2, SameSent
  <1>4. RunTame /\ RunType' BY <1>1, SameRunTame
  <1>5. /\ DirectoryType' /\ LeaseTame
        /\ \A p \in Object : In(p, retirements') => In(p, retirements)
    BY <1>1, SameDirectory DEF directory, history, counters
  <1>6. HolderType' /\ RootedTame /\ TokenTame /\ FutureTame
    BY <1>1, SameHolding DEF holders
  <1> QED BY <1>2, <1>3, <1>4, <1>5, <1>6, CalmStep

LEMMA CollectingKeeps ==
  ASSUME LifeInv, NEW t \in Thread, Collecting(t) PROVE LifeInv'
  <1>1. CASE ReleaseLease(t) BY <1>1, ReleaseLeaseKeeps
  <1>2. CASE ReleaseTransfer(t) BY <1>2, ReleaseTransferKeeps
  <1>3. CASE ReleaseRoot(t) BY <1>3, ReleaseRootKeeps
  <1>4. CASE CollectCheck(t) BY <1>4, CollectCheckKeeps
  <1>5. CASE CollectRemove(t) BY <1>5, CollectRemoveKeeps
  <1> QED BY <1>1, <1>2, <1>3, <1>4, <1>5 DEF Collecting

LEMMA HandlersKeep ==
  ASSUME LifeInv, Handlers PROVE LifeInv'
  <1>1. CASE Work
    <2>1. CASE PinTransfer BY <2>1, PinTransferKeeps
    <2>2. CASE LookUp BY <2>2, LookUpKeeps
    <2>3. CASE InsertLease BY <2>3, InsertLeaseKeeps
    <2>4. CASE GiveUpTransfer BY <2>4, GiveUpKeeps
    <2> QED BY <1>1, <2>1, <2>2, <2>3, <2>4 DEF Work
  <1>2. CASE Return BY <1>2, ReturnKeeps
  <1>3. ASSUME NEW l \in Locality, Handle(l) PROVE LifeInv'
    <2>1. CASE HandleCreate(l) BY <2>1, HandleCreateKeeps
    <2>2. CASE HandleRenew(l) BY <2>2, HandleRenewKeeps
    <2>3. CASE HandleAck(l) BY <2>3, HandleAckKeeps
    <2>4. CASE HandleAcquire(l) BY <2>4, HandleAcquireKeeps
    <2>5. CASE HandleRelease(l) BY <2>5, HandleReleaseKeeps
    <2> QED BY <1>3, <2>1, <2>2, <2>3, <2>4, <2>5 DEF Handle
  <1>4. ASSUME NEW t \in {"worker", "client"}, Collecting(t) PROVE LifeInv'
    BY <1>4, CollectingKeeps, Thread3
  <1> QED BY <1>1, <1>2, <1>3, <1>4 DEF Handlers

LEMMA OwnerKeeps ==
  ASSUME LifeInv, Owner PROVE LifeInv'
  <1>1. CASE Progress BY <1>1, ProgressKeeps
  <1>2. CASE ExpireTransfers BY <1>2, ExpireTransfersKeeps
  <1>3. ASSUME NEW o \in Object, ExpireLeases(o) PROVE LifeInv' BY <1>3, ExpireLeasesKeeps
  <1>4. CASE Collecting("owner") BY <1>4, CollectingKeeps, Thread3
  <1>5. CASE TakeRetirements BY <1>5, TakeRetirementsKeeps
  <1>6. CASE SendRetirement BY <1>6, SendRetirementKeeps
  <1>7. CASE RefuseRetirement BY <1>7, RefuseRetirementKeeps
  <1> QED BY <1>1, <1>2, <1>3, <1>4, <1>5, <1>6, <1>7 DEF Owner, Expire

LEMMA ClientKeeps ==
  ASSUME LifeInv, NEW l \in Locality, NEW o \in Object, Client(l, o) PROVE LifeInv'
  <1>1. CASE CreateThere(l, o) BY <1>1, CreateThereKeeps
  <1>2. CASE Upgrade(l, o) BY <1>2, UpgradeKeeps
  <1>3. CASE Poll(l, o) BY <1>3, PollKeeps
  <1>4. CASE DropFuture(l, o) BY <1>4, DropFutureKeeps
  <1>5. CASE DropHandle(l, o) BY <1>5, DropHandleKeeps
  <1>6. CASE DropRoot(l, o) BY <1>6, DropRootKeeps
  <1>7. CASE RenewDue(l, o) BY <1>7, RenewDueKeeps
  <1>8. ASSUME NEW to \in Locality, TransferTo(l, o, to) PROVE LifeInv' BY <1>8, TransferToKeeps
  <1> QED BY <1>1, <1>2, <1>3, <1>4, <1>5, <1>6, <1>7, <1>8 DEF Client

LEMMA NextKeeps ==
  ASSUME LifeInv, [Next]_vars PROVE LifeInv'
  <1>1. CASE Handlers BY <1>1, HandlersKeep
  <1>2. CASE Owner BY <1>2, OwnerKeeps
  <1>3. ASSUME NEW l \in Locality, Leave(l) PROVE LifeInv' BY <1>3, LeaveKeeps
  <1>4. ASSUME NEW l \in Locality, NEW o \in Object, Client(l, o) PROVE LifeInv'
    BY <1>4, ClientKeeps
  <1>5. ASSUME NEW o \in Object, Call(o) PROVE LifeInv' BY <1>5, CallKeeps
  <1>6. ASSUME NEW o \in Object, Move(o) PROVE LifeInv' BY <1>6, MoveKeeps
  <1>7. ASSUME NEW o \in Object, CreateHere(o) PROVE LifeInv' BY <1>7, CreateHereKeeps
  <1>8. ASSUME NEW t \in tokens, Import(t) PROVE LifeInv' BY <1>8, ImportKeeps
  <1>9. ASSUME NEW t \in tokens, DropToken(t) PROVE LifeInv' BY <1>9, DropTokenKeeps
  <1>10. CASE Tick BY <1>10, TickKeeps
  <1>11. CASE UNCHANGED vars BY <1>11, StutterKeeps
  <1> QED BY <1>1, <1>2, <1>3, <1>4, <1>5, <1>6, <1>7, <1>8, <1>9, <1>10, <1>11 DEF Next

LEMMA LifeAlways == Spec => []LifeInv
  <1>1. Init => LifeInv BY InitLife
  <1>2. LifeInv /\ [Next]_vars => LifeInv' BY NextKeeps
  <1> QED BY <1>1, <1>2, PTL DEF Spec

\* The object of a first handle, of a create whose future was not polled yet
\* and of an active ObjectRoot is in the directory: no release, transfer,
\* upgrade, expiry, collection or retirement of any other holder, and no
\* interleaving of the threads of Home between two locks, removes it.
THEOREM HoldersKeepTheirObject == Spec => []HoldersKeepObject
  <1>1. LifeInv => HoldersKeepObject
    <2> SUFFICES ASSUME LifeInv PROVE HoldersKeepObject
      OBVIOUS
    <2>1. \A p \in first : p[1] \in stored /\ leases[p[1]][p[2]].is
      <3> TAKE p \in first
      <3>1. p \in Object \X Locality BY DEF LifeInv, Types, DirectoryType
      <3>2. p[1] \in Object /\ p[2] \in Locality /\ p = <<p[1], p[2]>> BY <3>1
      <3> QED BY <3>2 DEF LifeInv, KeepInv, FirstInv
    <2>2. \A l \in Locality : rooted[l] \subseteq stored
      <3>1. \A l \in Locality : rooted[l] \subseteq Object BY DEF LifeInv, Types, HolderType
      <3> QED BY <3>1 DEF LifeInv, KeepInv, RootInv, HasRoot
    <2> QED BY <2>1, <2>2 DEF HoldersKeepObject
  <1> QED BY <1>1, LifeAlways, PTL

-----------------------------------------------------------------------------
(* The time a lease has left and the time since it was renewed.            *)

Timely(x, u) ==
  x.is => /\ x.suspect = -1 => u + x.left >= Ttl
          /\ x.suspect >= 0 => u >= Ttl + x.suspect
TimeInv == \A o \in Object, l \in Locality : Timely(leases[o][l], unrenewed[o][l])

\* A lease ends as LeaseOutlivesTtl says.
LeaseEnd ==
  \A o \in Object, l \in Locality :
    leases[o][l].is /\ ~leases'[o][l].is =>
      \/ unrenewed[o][l] >= Ttl + Grace
      \/ \E t \in Thread : run[t].pc = "release" /\ run[t].request.object = o
                                                 /\ run[t].request.lease = l

LEMMA FreshTimely ==
  /\ Timely(Fresh, 0)
  /\ \A u : Timely(Absent, u)
  /\ \A x \in Record : Timely(Renewed(x), 0)
  <1>1. Ttl \in Nat BY LimitTypes
  <1>2. Timely(Fresh, 0) BY <1>1 DEF Timely, Fresh
  <1>3. \A u : Timely(Absent, u) BY DEF Timely, Absent
  <1>4. ASSUME NEW x \in Record PROVE Timely(Renewed(x), 0)
    <2>1. Renewed(x).left = Ttl /\ Renewed(x).suspect = -1 BY DEF Renewed, Record
    <2> QED BY <1>1, <2>1 DEF Timely
  <1> QED BY <1>2, <1>3, <1>4

LEMMA AgedTimely ==
  ASSUME NEW x \in Record, NEW u \in 0..(Ttl + Grace), Timely(x, u)
  PROVE  Timely(Aged(x), IF x.is /\ u < Ttl + Grace THEN u + 1 ELSE u)
  <1>1. Ttl \in Nat /\ Grace \in Nat \ {0} BY LimitTypes
  <1>2. x.is \in BOOLEAN /\ x.left \in 0..Ttl /\ x.suspect \in -1..Grace BY DEF Record
  <1> DEFINE s == IF x.suspect \in 0..(Grace - 1) THEN x.suspect + 1 ELSE x.suspect
             y == Less(x.left)
  <1>3. Aged(x).is = x.is /\ Aged(x).left = y /\ Aged(x).suspect = s
    BY DEF Aged, Record
  <1> SUFFICES ASSUME x.is
      PROVE  LET v == IF u < Ttl + Grace THEN u + 1 ELSE u
             IN  /\ s = -1 => v + y >= Ttl
                 /\ s >= 0 => v >= Ttl + s
    BY <1>2, <1>3 DEF Timely
  <1>4. /\ x.suspect = -1 => u + x.left >= Ttl
        /\ x.suspect >= 0 => u >= Ttl + x.suspect
    BY DEF Timely
  <1>5. CASE u < Ttl + Grace BY <1>1, <1>2, <1>4, <1>5 DEF Less
  <1>6. CASE ~(u < Ttl + Grace) BY <1>1, <1>2, <1>4, <1>6 DEF Less
  <1> QED BY <1>5, <1>6

LEMMA ExpiredTimely ==
  ASSUME NEW x \in Record, NEW u \in 0..(Ttl + Grace), Timely(x, u)
  PROVE  Timely(Expired(x), u) /\ (x.is /\ ~Expired(x).is => u >= Ttl + Grace)
  <1>1. Ttl \in Nat /\ Grace \in Nat \ {0} BY LimitTypes
  <1>2. x.is \in BOOLEAN /\ x.left \in 0..Ttl /\ x.suspect \in -1..Grace BY DEF Record
  <1>3. CASE x.is /\ x.left = 0 /\ x.suspect = -1
    <2>1. Expired(x) = [x EXCEPT !.suspect = 0] BY <1>3 DEF Expired
    <2>2. Expired(x).is /\ Expired(x).suspect = 0 BY <1>3, <2>1 DEF Record
    <2>3. u >= Ttl BY <1>1, <1>3 DEF Timely
    <2> QED BY <1>1, <2>2, <2>3 DEF Timely
  <1>4. CASE ~(x.is /\ x.left = 0 /\ x.suspect = -1) /\ x.is /\ x.suspect >= Grace
    <2>1. Expired(x) = Absent BY <1>4 DEF Expired
    <2>2. u >= Ttl + Grace BY <1>1, <1>2, <1>4 DEF Timely
    <2> QED BY <2>1, <2>2, FreshTimely
  <1>5. CASE ~(x.is /\ x.left = 0 /\ x.suspect = -1) /\ ~(x.is /\ x.suspect >= Grace)
    <2>1. Expired(x) = x BY <1>5 DEF Expired
    <2> QED BY <2>1
  <1> QED BY <1>3, <1>4, <1>5

LEMMA SameTime ==
  ASSUME TimeInv, UNCHANGED <<leases, unrenewed>> PROVE TimeInv' /\ LeaseEnd
  BY DEF TimeInv, Timely, LeaseEnd

LEMMA FreshTime ==
  ASSUME DirectoryType, TimeInv, NEW o \in Object, NEW l \in Locality,
         leases' = [leases EXCEPT ![o][l] = Fresh], unrenewed' = [unrenewed EXCEPT ![o][l] = 0]
  PROVE  TimeInv' /\ LeaseEnd
  <1>1. /\ leases \in [Object -> [Locality -> Record]]
        /\ unrenewed \in [Object -> [Locality -> 0..(Ttl + Grace)]]
    BY DEF DirectoryType
  <1>2. /\ leases'[o][l] = Fresh /\ unrenewed'[o][l] = 0
        /\ \A p \in Object, k \in Locality : (p = o /\ k = l)
             \/ (leases'[p][k] = leases[p][k] /\ unrenewed'[p][k] = unrenewed[p][k])
    BY <1>1
  <1>3. \A p \in Object, k \in Locality : Timely(leases'[p][k], unrenewed'[p][k])
    BY <1>2, FreshTimely DEF TimeInv
  <1>4. TimeInv' BY <1>3 DEF TimeInv, Timely
  <1>5. LeaseEnd BY <1>2, RecordTypes DEF LeaseEnd
  <1> QED BY <1>4, <1>5

LEMMA RenewTime ==
  ASSUME DirectoryType, TimeInv, NEW S, NEW l \in Locality, Renew(S, l)
  PROVE  TimeInv' /\ LeaseEnd
  <1>1. /\ leases \in [Object -> [Locality -> Record]]
        /\ unrenewed \in [Object -> [Locality -> 0..(Ttl + Grace)]]
    BY DEF DirectoryType
  <1> DEFINE found == {o \in S \cap stored : leases[o][l].is}
             Later(o) == [leases[o] EXCEPT ![l] = Renewed(leases[o][l])]
  <1>2. /\ leases' = [o \in Object |-> IF o \in found THEN Later(o) ELSE leases[o]]
        /\ unrenewed' = [o \in Object |-> IF o \in found THEN [unrenewed[o] EXCEPT ![l] = 0]
                                          ELSE unrenewed[o]]
    BY DEF Renew
  <1>3. \A o \in Object, k \in Locality :
          \/ leases'[o][k] = leases[o][k] /\ unrenewed'[o][k] = unrenewed[o][k]
          \/ leases'[o][k] = Renewed(leases[o][k]) /\ unrenewed'[o][k] = 0
    <2> HIDE DEF found
    <2> TAKE o \in Object, k \in Locality
    <2>1. leases[o] \in [Locality -> Record] /\ unrenewed[o] \in [Locality -> 0..(Ttl + Grace)] BY <1>1
    <2>2. CASE o \in found
      <3>1. leases'[o] = Later(o) /\ unrenewed'[o] = [unrenewed[o] EXCEPT ![l] = 0]
        BY <1>2, <2>2
      <3> QED BY <2>1, <3>1
    <2>3. CASE o \notin found BY <1>2, <2>3
    <2> QED BY <2>2, <2>3
  <1>4. \A o \in Object, k \in Locality :
          leases[o][k] \in Record /\ Renewed(leases[o][k]).is = leases[o][k].is
    BY <1>1, ChangedRecords
  <1>5. \A p \in Object, k \in Locality : Timely(leases'[p][k], unrenewed'[p][k])
    BY <1>3, <1>4, FreshTimely DEF TimeInv
  <1>6. TimeInv' BY <1>5 DEF TimeInv, Timely
  <1>7. LeaseEnd BY <1>3, <1>4 DEF LeaseEnd
  <1> QED BY <1>6, <1>7

LEMMA InsertLeaseTime ==
  ASSUME DirectoryType, RunType, TimeInv, InsertLease PROVE TimeInv' /\ LeaseEnd
  <1> DEFINE r == run["worker"].request
  <1>1. run["worker"] \in Execution /\ Knows(run["worker"]) BY Thread3 DEF RunType
  <1>2. r \in AnyRequest BY <1>1 DEF InsertLease, Working, Knows, Requesting
  <1>3. r.object \in Object /\ r.lease \in Locality BY <1>2 DEF AnyRequest
  <1>4. \/ UNCHANGED <<leases, unrenewed>>
        \/ /\ leases' = [leases EXCEPT ![r.object][r.lease] = Fresh]
           /\ unrenewed' = [unrenewed EXCEPT ![r.object][r.lease] = 0]
    BY DEF InsertLease
  <1> HIDE DEF r
  <1> QED BY <1>3, <1>4, SameTime, FreshTime

LEMMA ReleaseLeaseTime ==
  ASSUME DirectoryType, RunType, TimeInv, NEW t \in Thread, ReleaseLease(t)
  PROVE  TimeInv' /\ LeaseEnd
  <1> DEFINE r == run[t].request
  <1>1. run[t] \in Execution /\ Knows(run[t]) /\ run[t].pc = "release" BY DEF RunType, ReleaseLease
  <1>2. r \in AnyRequest BY <1>1 DEF Knows, Requesting
  <1>3. r.object \in Object /\ r.lease \in Locality BY <1>2 DEF AnyRequest
  <1>4. CASE r.object \notin stored
    <2>1. UNCHANGED <<leases, unrenewed>> BY <1>4 DEF ReleaseLease, history
    <2> QED BY <2>1, SameTime
  <1>5. CASE r.object \in stored
    <2>1. leases' = [leases EXCEPT ![r.object][r.lease] = Absent] /\ unrenewed' = unrenewed
      BY <1>5 DEF ReleaseLease, history
    <2>2. leases \in [Object -> [Locality -> Record]] BY DEF DirectoryType
    <2>3. /\ leases'[r.object][r.lease] = Absent
          /\ \A p \in Object, k \in Locality :
               (p = r.object /\ k = r.lease) \/ leases'[p][k] = leases[p][k]
      BY <1>3, <2>1, <2>2
    <2>4. \A p \in Object, k \in Locality : Timely(leases'[p][k], unrenewed'[p][k])
      BY <2>1, <2>3, FreshTimely DEF TimeInv
    <2>5. TimeInv' BY <2>4 DEF TimeInv, Timely
    <2>6. LeaseEnd BY <1>1, <2>3 DEF LeaseEnd
    <2> QED BY <2>5, <2>6
  <1> QED BY <1>4, <1>5

LEMMA ExpireLeasesTime ==
  ASSUME DirectoryType, TimeInv, NEW o \in Object, ExpireLeases(o) PROVE TimeInv' /\ LeaseEnd
  <1> DEFINE after == [l \in Locality |-> Expired(leases[o][l])]
  <1>1. UNCHANGED <<leases, unrenewed>> \/ (leases' = [leases EXCEPT ![o] = after] /\ unrenewed' = unrenewed)
    BY DEF ExpireLeases
  <1>2. CASE UNCHANGED <<leases, unrenewed>> BY <1>2, SameTime
  <1>3. CASE leases' = [leases EXCEPT ![o] = after] /\ unrenewed' = unrenewed
    <2>1. /\ leases \in [Object -> [Locality -> Record]]
          /\ unrenewed \in [Object -> [Locality -> 0..(Ttl + Grace)]]
      BY DEF DirectoryType
    <2>2. \A p \in Object, k \in Locality :
            leases'[p][k] = leases[p][k] \/ leases'[p][k] = Expired(leases[p][k])
      BY <1>3, <2>1
    <2>3. \A p \in Object, k \in Locality :
            /\ leases[p][k] \in Record /\ unrenewed[p][k] \in 0..(Ttl + Grace)
            /\ Timely(leases[p][k], unrenewed[p][k])
      BY <2>1 DEF TimeInv
    <2>4. \A p \in Object, k \in Locality :
            /\ Timely(Expired(leases[p][k]), unrenewed[p][k])
            /\ leases[p][k].is /\ ~Expired(leases[p][k]).is => unrenewed[p][k] >= Ttl + Grace
      BY <2>3, ExpiredTimely
    <2>5. \A p \in Object, k \in Locality : Timely(leases'[p][k], unrenewed'[p][k])
      BY <1>3, <2>2, <2>3, <2>4
    <2>6. TimeInv' BY <2>5 DEF TimeInv, Timely
    <2>7. LeaseEnd BY <2>2, <2>4 DEF LeaseEnd
    <2> QED BY <2>6, <2>7
  <1> QED BY <1>1, <1>2, <1>3

LEMMA TickTime ==
  ASSUME DirectoryType, TimeInv, Tick PROVE TimeInv' /\ LeaseEnd
  <1>1. /\ leases \in [Object -> [Locality -> Record]]
        /\ unrenewed \in [Object -> [Locality -> 0..(Ttl + Grace)]]
    BY DEF DirectoryType
  <1> DEFINE Later(x, u) == IF x.is /\ u < Ttl + Grace THEN u + 1 ELSE u
  <1>2. /\ leases' = [o \in Object |-> [l \in Locality |->
                        IF o \in stored THEN Aged(leases[o][l]) ELSE leases[o][l]]]
        /\ unrenewed' = [o \in Object |-> [l \in Locality |->
                           IF o \in stored /\ leases[o][l].is /\ unrenewed[o][l] < Ttl + Grace
                           THEN unrenewed[o][l] + 1 ELSE unrenewed[o][l]]]
    BY DEF Tick
  <1>3. \A o \in Object, k \in Locality :
          \/ leases'[o][k] = leases[o][k] /\ unrenewed'[o][k] = unrenewed[o][k]
          \/ /\ leases'[o][k] = Aged(leases[o][k])
             /\ unrenewed'[o][k] = Later(leases[o][k], unrenewed[o][k])
    BY <1>2
  <1>4. \A o \in Object, k \in Locality :
          leases[o][k] \in Record /\ unrenewed[o][k] \in 0..(Ttl + Grace)
          /\ Timely(leases[o][k], unrenewed[o][k]) /\ Aged(leases[o][k]).is = leases[o][k].is
    BY <1>1, ChangedRecords DEF TimeInv
  <1>5. \A x \in Record : \A u \in 0..(Ttl + Grace) : Timely(x, u) => Timely(Aged(x), Later(x, u))
    BY AgedTimely
  <1> HIDE DEF Later
  <1>6. \A p \in Object, k \in Locality : Timely(leases'[p][k], unrenewed'[p][k])
    BY <1>3, <1>4, <1>5
  <1>7. TimeInv' BY <1>6 DEF TimeInv, Timely
  <1>8. LeaseEnd BY <1>3, <1>4 DEF LeaseEnd
  <1> QED BY <1>7, <1>8

LEMMA InsertTime ==
  ASSUME DirectoryType, TimeInv, NEW o \in Object, NEW l \in Locality, Insert(o, l, l \in Rooting)
  PROVE  TimeInv' /\ LeaseEnd
  BY FreshTime DEF Insert

LEMMA CollectingTime ==
  ASSUME DirectoryType, RunType, TimeInv, NEW t \in Thread, Collecting(t)
  PROVE  TimeInv' /\ LeaseEnd
  <1>1. CASE ReleaseLease(t) BY <1>1, ReleaseLeaseTime
  <1>2. CASE ReleaseTransfer(t) BY <1>2, SameTime DEF ReleaseTransfer, directory, history
  <1>3. CASE ReleaseRoot(t) BY <1>3, SameTime DEF ReleaseRoot, history
  <1>4. CASE CollectCheck(t) BY <1>4, SameTime DEF CollectCheck, directory, history
  <1>5. CASE CollectRemove(t) BY <1>5, SameTime DEF CollectRemove, history
  <1> QED BY <1>1, <1>2, <1>3, <1>4, <1>5 DEF Collecting

LEMMA HandlersTime ==
  ASSUME Types, TimeInv, Handlers PROVE TimeInv' /\ LeaseEnd
  <1> USE DEF Types
  <1>1. CASE Work
    <2>1. CASE PinTransfer BY <2>1, SameTime DEF PinTransfer, directory, history
    <2>2. CASE LookUp BY <2>2, SameTime DEF LookUp, directory, history
    <2>3. CASE InsertLease BY <2>3, InsertLeaseTime
    <2>4. CASE GiveUpTransfer BY <2>4, SameTime DEF GiveUpTransfer, directory
    <2> QED BY <1>1, <2>1, <2>2, <2>3, <2>4 DEF Work
  <1>2. CASE Return BY <1>2, SameTime DEF Return, directory, history
  <1>3. ASSUME NEW l \in Locality, Handle(l) PROVE TimeInv' /\ LeaseEnd
    <2>1. CASE HandleCreate(l)
      <3> DEFINE r == Head(queue[l])
      <3>1. Take(l, "create") BY <2>1 DEF HandleCreate
      <3>2. r.object \in Object BY <3>1, TakeQueue DEF AnyRequest
      <3>3. Insert(r.object, l, l \in Rooting) \/ UNCHANGED <<leases, unrenewed>>
        BY <2>1 DEF HandleCreate
      <3> HIDE DEF r
      <3> QED BY <3>2, <3>3, SameTime, InsertTime
    <2>2. CASE HandleRenew(l) BY <2>2, RenewTime DEF HandleRenew
    <2>3. CASE HandleAck(l) BY <2>3, SameTime DEF HandleAck, directory, history
    <2>4. CASE HandleAcquire(l) BY <2>4, SameTime DEF HandleAcquire, directory, history
    <2>5. CASE HandleRelease(l) BY <2>5, SameTime DEF HandleRelease, directory, history
    <2> QED BY <1>3, <2>1, <2>2, <2>3, <2>4, <2>5 DEF Handle
  <1>4. ASSUME NEW t \in {"worker", "client"}, Collecting(t) PROVE TimeInv' /\ LeaseEnd
    BY <1>4, CollectingTime, Thread3
  <1> QED BY <1>1, <1>2, <1>3, <1>4 DEF Handlers

LEMMA OwnerTime ==
  ASSUME Types, TimeInv, Owner PROVE TimeInv' /\ LeaseEnd
  <1> USE DEF Types
  <1>1. CASE Progress BY <1>1, RenewTime, LimitTypes DEF Progress
  <1>2. CASE ExpireTransfers BY <1>2, SameTime DEF ExpireTransfers, directory, history
  <1>3. ASSUME NEW o \in Object, ExpireLeases(o) PROVE TimeInv' /\ LeaseEnd
    BY <1>3, ExpireLeasesTime
  <1>4. CASE Collecting("owner") BY <1>4, CollectingTime, Thread3
  <1>5. CASE TakeRetirements BY <1>5, SameTime DEF TakeRetirements, directory, history
  <1>6. CASE SendRetirement BY <1>6, SameTime DEF SendRetirement, history
  <1>7. CASE RefuseRetirement BY <1>7, SameTime DEF RefuseRetirement, directory, history
  <1> QED BY <1>1, <1>2, <1>3, <1>4, <1>5, <1>6, <1>7 DEF Owner, Expire

LEMMA ClientTime ==
  ASSUME TimeInv, NEW l \in Locality, NEW o \in Object, Client(l, o) PROVE TimeInv' /\ LeaseEnd
  <1> USE SameTime DEF directory, history
  <1>1. CASE CreateThere(l, o) BY <1>1 DEF CreateThere
  <1>2. CASE Upgrade(l, o) BY <1>2 DEF Upgrade
  <1>3. CASE Poll(l, o) BY <1>3 DEF Poll
  <1>4. CASE DropFuture(l, o) BY <1>4 DEF DropFuture
  <1>5. CASE DropHandle(l, o) BY <1>5 DEF DropHandle
  <1>6. CASE DropRoot(l, o) BY <1>6 DEF DropRoot
  <1>7. CASE RenewDue(l, o) BY <1>7 DEF RenewDue
  <1>8. ASSUME NEW to \in Locality, TransferTo(l, o, to) PROVE TimeInv' /\ LeaseEnd
    BY <1>8 DEF TransferTo
  <1> QED BY <1>1, <1>2, <1>3, <1>4, <1>5, <1>6, <1>7, <1>8 DEF Client

LEMMA NextTime ==
  ASSUME Types, TimeInv, [Next]_vars PROVE TimeInv' /\ LeaseEnd
  <1>1. CASE Handlers BY <1>1, HandlersTime
  <1>2. CASE Owner BY <1>2, OwnerTime
  <1>3. ASSUME NEW l \in Locality, Leave(l) PROVE TimeInv' /\ LeaseEnd
    BY <1>3, SameTime DEF Leave, directory
  <1>4. ASSUME NEW l \in Locality, NEW o \in Object, Client(l, o) PROVE TimeInv' /\ LeaseEnd
    BY <1>4, ClientTime
  <1>5. ASSUME NEW o \in Object, Call(o) \/ Move(o) PROVE TimeInv' /\ LeaseEnd
    BY <1>5, SameTime DEF Call, Move, directory, history
  <1>6. ASSUME NEW o \in Object, CreateHere(o) PROVE TimeInv' /\ LeaseEnd
    BY <1>6, InsertTime, LimitTypes DEF CreateHere, Types
  <1>7. ASSUME NEW t \in tokens, Import(t) \/ DropToken(t) PROVE TimeInv' /\ LeaseEnd
    BY <1>7, SameTime DEF Import, DropToken, directory, history
  <1>8. CASE Tick BY <1>8, TickTime DEF Types
  <1>9. CASE UNCHANGED vars BY <1>9, SameTime DEF vars, directory, history
  <1> QED BY <1>1, <1>2, <1>3, <1>4, <1>5, <1>6, <1>7, <1>8, <1>9 DEF Next

\* A lease leaves the record of its object in one of two ways: release removes
\* the one its request names, and expire removes one that has not been acquired
\* or renewed for lease_ttl and, after that, lease_grace.
THEOREM LeasesOutliveTheirTtl == Spec => LeaseOutlivesTtl
  <1>1. Init => TimeInv
    <2>1. Init => \A o \in Object, l \in Locality : leases[o][l] = Absent BY DEF Init
    <2> QED BY <2>1, FreshTimely DEF TimeInv
  <1>2. LifeInv /\ TimeInv /\ [Next]_vars => TimeInv' /\ LeaseEnd BY NextTime DEF LifeInv
  <1>3. [][LeaseEnd]_vars => LeaseOutlivesTtl BY DEF LeaseEnd, LeaseOutlivesTtl
  <1> QED BY <1>1, <1>2, <1>3, LifeAlways, PTL DEF Spec

-----------------------------------------------------------------------------
(* The limits: max_roots and max_migrations.                               *)

RootSet == {o \in Object : roots[o] = 1}
CountInv ==
  IsFiniteSet(RootSet) /\ root_count = Cardinality(RootSet) /\ root_count <= MaxRoots
RetireInv ==
  /\ Len(retirements) <= MaxRetire + 1
  /\ run["owner"].pc = "retire" => Len(retirements) <= MaxRetire
LimitInv == CountInv /\ RetireInv

\* The owner does not begin to send retirements in this step.
StillOwner == run'["owner"].pc = "retire" => run["owner"].pc = "retire"

LEMMA SameLimits ==
  /\ CountInv /\ UNCHANGED <<roots, root_count>> => CountInv'
  /\ RetireInv /\ UNCHANGED retirements /\ StillOwner => RetireInv'
  BY DEF CountInv, RootSet, RetireInv, StillOwner

LEMMA OwnerGoes ==
  ASSUME RunType, NEW t \in Thread, NEW pc, Goes(t, pc), pc # "retire" PROVE StillOwner
  <1>1. run \in [Thread -> Execution] /\ run' = [run EXCEPT ![t].pc = pc] BY DEF RunType, Goes
  <1>2. run["owner"] \in Execution BY <1>1, Thread3
  <1>3. run'["owner"].pc \in {pc, run["owner"].pc} BY <1>1, <1>2, Thread3 DEF Execution
  <1> QED BY <1>3 DEF StillOwner

LEMMA OwnerDone ==
  ASSUME RunType, NEW t \in Thread, Done(t) PROVE StillOwner
  BY DoneRun, Thread3 DEF StillOwner

\* Another thread begins something.
LEMMA OwnerApart ==
  ASSUME RunType, NEW t \in Thread, t # "owner", NEW x, run' = [run EXCEPT ![t] = x]
  PROVE  StillOwner
  <1>1. run \in [Thread -> Execution] BY DEF RunType
  <1> QED BY <1>1, Thread3 DEF StillOwner

LEMMA OwnerStarts ==
  ASSUME RunType, NEW t \in {"worker", "client"}, NEW r, Starts(t, r) PROVE StillOwner
  BY OwnerApart, Thread3 DEF Starts

LEMMA OwnerGives ==
  ASSUME RunType, NEW l, NEW r, Give(l, r) PROVE StillOwner
  <1>1. UNCHANGED run => StillOwner BY DEF StillOwner
  <1>2. Starts("client", r) => StillOwner BY OwnerStarts
  <1> QED BY <1>1, <1>2 DEF Give

LEMMA ReleaseRootCount ==
  ASSUME Types, CountInv, NEW t \in Thread, ReleaseRoot(t) PROVE CountInv'
  <1> DEFINE o == run[t].request.object
  <1>1. run[t] \in Execution /\ Knows(run[t]) /\ run[t].pc = "root release"
    BY DEF Types, RunType, ReleaseRoot
  <1>2. o \in Object BY <1>1 DEF Knows, Requesting, AnyRequest
  <1>3. CASE o \notin stored \/ roots[o] = 0
    <2>1. UNCHANGED <<roots, root_count>> BY <1>3 DEF ReleaseRoot
    <2> QED BY <2>1, SameLimits
  <1>4. CASE ~(o \notin stored \/ roots[o] = 0)
    <2>1. roots \in [Object -> 0..1] BY DEF Types, DirectoryType
    <2>2. roots' = [roots EXCEPT ![o] = @ - 1] /\ root_count' = root_count - 1
      BY <1>4 DEF ReleaseRoot
    <2> HIDE DEF o
    <2>3. roots[o] = 1 BY <1>2, <1>4, <2>1
    <2>4. roots'[o] = 0 /\ \A p \in Object : p # o => roots'[p] = roots[p]
      BY <1>2, <2>1, <2>2, <2>3
    <2>5. RootSet' = RootSet \ {o} BY <2>4 DEF RootSet
    <2>6. o \in RootSet BY <1>2, <2>3 DEF RootSet
    <2>7. IsFiniteSet(RootSet) /\ root_count = Cardinality(RootSet) /\ root_count <= MaxRoots
      BY DEF CountInv
    <2>8. /\ IsFiniteSet(RootSet \ {o}) /\ Cardinality(RootSet \ {o}) = Cardinality(RootSet) - 1
          /\ Cardinality(RootSet) \in Nat
      BY <2>6, <2>7, FS_RemoveElement, FS_CardinalityType
    <2>9. IsFiniteSet(RootSet') /\ root_count' = Cardinality(RootSet') BY <2>2, <2>5, <2>7, <2>8
    <2>10. root_count' <= MaxRoots
      <3>1. MaxRoots \in Nat BY LimitTypes
      <3> QED BY <2>2, <2>7, <2>8, <3>1
    <2> QED BY <2>9, <2>10 DEF CountInv, RootSet
  <1> QED BY <1>3, <1>4

LEMMA InsertCount ==
  ASSUME LifeInv, CountInv, NEW o \in Object, NEW l \in Locality, CanInsert(o, l \in Rooting),
         Insert(o, l, l \in Rooting)
  PROVE  CountInv'
  <1>1. o \notin born /\ (l \in Rooting => root_count < MaxRoots) BY DEF CanInsert
  <1>2. roots \in [Object -> 0..1] BY DEF LifeInv, Types, DirectoryType
  <1>3. roots[o] = 0 BY <1>1 DEF LifeInv, KeepInv, BornInv
  <1>4. /\ roots' = [roots EXCEPT ![o] = IF l \in Rooting THEN 1 ELSE 0]
        /\ root_count' = root_count + (IF l \in Rooting THEN 1 ELSE 0)
    BY DEF Insert
  <1>5. IsFiniteSet(RootSet) /\ root_count = Cardinality(RootSet) /\ root_count <= MaxRoots
    BY DEF CountInv
  <1>6. Cardinality(RootSet) \in Nat BY <1>5, FS_CardinalityType
  <1>7. MaxRoots \in Nat BY LimitTypes
  <1>8. CASE l \in Rooting
    <2>1. roots'[o] = 1 /\ \A p \in Object : p # o => roots'[p] = roots[p]
      BY <1>2, <1>4, <1>8
    <2>2. RootSet' = RootSet \cup {o} BY <2>1 DEF RootSet
    <2>3. o \notin RootSet BY <1>3 DEF RootSet
    <2>4. /\ IsFiniteSet(RootSet \cup {o})
          /\ Cardinality(RootSet \cup {o}) = Cardinality(RootSet) + 1
      BY <1>5, <2>3, FS_AddElement
    <2>5. root_count' = root_count + 1 BY <1>4, <1>8
    <2>6. IsFiniteSet(RootSet') /\ root_count' = Cardinality(RootSet') BY <1>5, <2>2, <2>4, <2>5
    <2>7. root_count' <= MaxRoots BY <1>1, <1>5, <1>6, <1>7, <1>8, <2>5
    <2> QED BY <2>6, <2>7 DEF CountInv, RootSet
  <1>9. CASE l \notin Rooting
    <2>1. \A p \in Object : roots'[p] = roots[p] BY <1>2, <1>3, <1>4, <1>9
    <2>2. RootSet' = RootSet BY <2>1 DEF RootSet
    <2>3. root_count' = root_count BY <1>4, <1>5, <1>6, <1>9
    <2> QED BY <1>5, <2>2, <2>3 DEF CountInv, RootSet
  <1> QED BY <1>8, <1>9

LEMMA CollectRemoveRetire ==
  ASSUME Types, RetireInv, NEW t \in Thread, CollectRemove(t) PROVE RetireInv'
  <1>1. StillOwner BY OwnerDone DEF CollectRemove, Types
  <1>2. CASE UNCHANGED retirements BY <1>1, <1>2, SameLimits
  <1>3. CASE \E o : retirements' = Append(retirements, o) /\ ~(Len(retirements) >= MaxRetire)
    <2>1. PICK o : retirements' = Append(retirements, o) /\ ~(Len(retirements) >= MaxRetire)
      BY <1>3
    <2>2. retirements \in Seq(Object) /\ MaxRetire \in Nat
      BY LimitTypes DEF Types, DirectoryType
    <2>3. Len(retirements) \in Nat /\ Len(retirements') = Len(retirements) + 1 BY <2>1, <2>2
    <2>4. Len(retirements') <= MaxRetire /\ Len(retirements') <= MaxRetire + 1
      BY <2>1, <2>2, <2>3
    <2> QED BY <2>4 DEF RetireInv
  <1>4. UNCHANGED retirements \/ \E o : retirements' = Append(retirements, o) /\ ~(Len(retirements) >= MaxRetire)
    BY DEF CollectRemove
  <1> QED BY <1>2, <1>3, <1>4

LEMMA CollectingLimits ==
  ASSUME Types, LimitInv, NEW t \in Thread, Collecting(t) PROVE LimitInv'
  <1> USE SameLimits DEF LimitInv, Types
  <1>1. CASE ReleaseLease(t)
    <2>1. StillOwner BY <1>1, OwnerDone, OwnerGoes DEF ReleaseLease
    <2> QED BY <1>1, <2>1 DEF ReleaseLease, counters
  <1>2. CASE ReleaseTransfer(t)
    <2>1. StillOwner BY <1>2, OwnerGoes DEF ReleaseTransfer
    <2> QED BY <1>2, <2>1 DEF ReleaseTransfer, directory
  <1>3. CASE ReleaseRoot(t)
    <2>1. StillOwner BY <1>3, OwnerDone, OwnerGoes DEF ReleaseRoot
    <2>2. CountInv' BY <1>3, ReleaseRootCount
    <2> QED BY <1>3, <2>1, <2>2 DEF ReleaseRoot
  <1>4. CASE CollectCheck(t)
    <2> DEFINE x == [run[t] EXCEPT !.pc = "collect", !.seen = lifecycle[CHOOSE y \in run[t].object : TRUE]]
    <2>1. run' = [run EXCEPT ![t] = x] \/ Done(t) BY <1>4 DEF CollectCheck
    <2>2. x.pc = "collect"
      <3>1. run[t] \in Execution BY DEF RunType
      <3> QED BY <3>1 DEF Execution
    <2>3. run \in [Thread -> Execution] BY DEF RunType
    <2> HIDE DEF x
    <2>4. run' = [run EXCEPT ![t] = x] => StillOwner
      BY <2>2, <2>3, Thread3 DEF StillOwner
    <2>5. StillOwner BY <2>1, <2>4, OwnerDone
    <2> QED BY <1>4, <2>5 DEF CollectCheck, directory, counters
  <1>5. CASE CollectRemove(t)
    <2>1. RetireInv' BY <1>5, CollectRemoveRetire
    <2> QED BY <1>5, <2>1 DEF CollectRemove, counters
  <1> QED BY <1>1, <1>2, <1>3, <1>4, <1>5 DEF Collecting

LEMMA HandlersLimits ==
  ASSUME LifeInv, LimitInv, Handlers PROVE LimitInv'
  <1> USE SameLimits DEF LifeInv, LimitInv, Types
  <1>0. UNCHANGED run => StillOwner BY DEF StillOwner
  <1>1. CASE Work
    <2>1. CASE PinTransfer
      <3>1. StillOwner BY <2>1, OwnerDone, OwnerGoes, Thread3 DEF PinTransfer
      <3> QED BY <2>1, <3>1 DEF PinTransfer, directory
    <2>2. CASE LookUp
      <3>1. Goes("worker", "insert") \/ Goes("worker", "unpin") BY <2>2 DEF LookUp
      <3>2. StillOwner BY <3>1, OwnerGoes, Thread3
      <3> QED BY <2>2, <3>2 DEF LookUp, directory, counters
    <2>3. CASE InsertLease
      <3>1. StillOwner BY <2>3, OwnerDone, OwnerGoes, Thread3 DEF InsertLease
      <3> QED BY <2>3, <3>1 DEF InsertLease, counters
    <2>4. CASE GiveUpTransfer
      <3>1. StillOwner BY <2>4, OwnerDone, Thread3 DEF GiveUpTransfer
      <3> QED BY <2>4, <3>1 DEF GiveUpTransfer, directory
    <2> QED BY <1>1, <2>1, <2>2, <2>3, <2>4 DEF Work
  <1>2. CASE Return
    <2>1. StillOwner BY <1>2, OwnerGoes, Thread3 DEF Return
    <2> QED BY <1>2, <2>1 DEF Return, directory, counters
  <1>3. ASSUME NEW l \in Locality, Handle(l) PROVE LimitInv'
    <2>1. CASE HandleCreate(l)
      <3> DEFINE r == Head(queue[l])
      <3>1. Take(l, "create") BY <2>1 DEF HandleCreate
      <3>2. r.object \in Object BY <3>1, TakeQueue DEF AnyRequest
      <3>3. \/ CanInsert(r.object, l \in Rooting) /\ Insert(r.object, l, l \in Rooting)
            \/ UNCHANGED <<roots, root_count>>
        BY <2>1 DEF HandleCreate
      <3>4. UNCHANGED <<retirements, run>> BY <2>1 DEF HandleCreate
      <3> HIDE DEF r
      <3> QED BY <1>0, <3>2, <3>3, <3>4, InsertCount
    <2>2. CASE HandleRenew(l) BY <1>0, <2>2 DEF HandleRenew, counters
    <2>3. CASE HandleAck(l) BY <1>0, <2>3 DEF HandleAck, directory
    <2>4. CASE HandleAcquire(l)
      <3>1. UNCHANGED run \/ \E x : run' = [run EXCEPT !["worker"] = x] BY <2>4 DEF HandleAcquire
      <3>2. StillOwner BY <1>0, <3>1, OwnerApart, Thread3
      <3> QED BY <2>4, <3>2 DEF HandleAcquire, directory, counters
    <2>5. CASE HandleRelease(l)
      <3>1. StillOwner BY <2>5, OwnerStarts DEF HandleRelease
      <3> QED BY <2>5, <3>1 DEF HandleRelease, directory, counters
    <2> QED BY <1>3, <2>1, <2>2, <2>3, <2>4, <2>5 DEF Handle
  <1>4. ASSUME NEW t \in {"worker", "client"}, Collecting(t) PROVE LimitInv'
    BY <1>4, CollectingLimits, Thread3
  <1> QED BY <1>1, <1>2, <1>3, <1>4 DEF Handlers

LEMMA OwnerLimits ==
  ASSUME LifeInv, LimitInv, Owner PROVE LimitInv'
  <1> USE SameLimits DEF LifeInv, LimitInv, Types
  <1>1. run \in [Thread -> Execution] BY DEF RunType
  <1>2. CASE Progress
    <2> DEFINE x == [Idle EXCEPT !.pc = "expire", !.todo = stored]
    <2>1. run' = [run EXCEPT !["owner"] = x] BY <1>2 DEF Progress
    <2>2. x.pc = "expire" BY IdleType DEF Execution
    <2> HIDE DEF x
    <2>3. StillOwner BY <1>1, <2>1, <2>2, Thread3 DEF StillOwner
    <2> QED BY <1>2, <2>3 DEF Progress, counters
  <1>3. CASE ExpireTransfers
    <2>1. StillOwner BY <1>3, OwnerGoes, Thread3 DEF ExpireTransfers
    <2> QED BY <1>3, <2>1 DEF ExpireTransfers, directory
  <1>4. ASSUME NEW o \in Object, ExpireLeases(o) PROVE LimitInv'
    <2> DEFINE rest == run["owner"].todo \ {o}
               x == [run["owner"] EXCEPT !.todo = rest]
               active == {l \in Locality : [k \in Locality |-> Expired(leases[o][k])][l].is}
               y == [Idle EXCEPT !.pc = "transfers", !.object = {o}, !.todo = rest, !.active = active]
    <2>1. run' = [run EXCEPT !["owner"] = x] \/ run' = [run EXCEPT !["owner"] = y]
      BY <1>4 DEF ExpireLeases
    <2>2. x.pc = run["owner"].pc
      <3>1. run["owner"] \in Execution BY <1>1, Thread3
      <3> QED BY <3>1 DEF Execution
    <2>3. y.pc = "transfers" BY IdleType DEF Execution
    <2> HIDE DEF x, y
    <2>4. StillOwner BY <1>1, <2>1, <2>2, <2>3, Thread3 DEF StillOwner
    <2> QED BY <1>4, <2>4 DEF ExpireLeases, counters
  <1>5. CASE Collecting("owner") BY <1>5, CollectingLimits, Thread3
  <1>6. CASE TakeRetirements
    <2>1. Len(<<>>) = 0 /\ MaxRetire \in Nat BY LimitTypes
    <2> QED BY <1>6, <2>1 DEF TakeRetirements, directory, counters, RetireInv
  <1>7. CASE SendRetirement
    <2>1. run["owner"].pc = "retire" /\ UNCHANGED <<retirements, roots, root_count>>
      BY <1>7 DEF SendRetirement, counters
    <2> QED BY <2>1 DEF StillOwner
  <1>8. CASE RefuseRetirement
    <2> DEFINE h == Head(run["owner"].taken)
    <2>1. /\ run["owner"].pc = "retire" /\ retirements' = <<h>> \o retirements
          /\ run' = [run EXCEPT !["owner"] = Idle] /\ UNCHANGED <<roots, root_count>>
      BY <1>8 DEF RefuseRetirement, directory, counters
    <2>2. run'["owner"].pc # "retire" BY <1>1, <2>1, IdleType, Thread3
    <2>3. retirements \in Seq(Object) /\ MaxRetire \in Nat BY LimitTypes DEF DirectoryType
    <2>4. h \in Object
      <3>1. run["owner"] \in Execution /\ Knows(run["owner"]) BY Thread3 DEF RunType
      <3>2. run["owner"].taken \in Seq(Object) /\ run["owner"].taken # <<>>
        BY <2>1, <3>1 DEF Execution, Knows
      <3> QED BY <3>2
    <2> HIDE DEF h
    <2>5. Len(<<h>> \o retirements) = Len(retirements) + 1 /\ Len(retirements) \in Nat
      BY <2>3, <2>4
    <2>6. Len(retirements) <= MaxRetire BY <2>1 DEF RetireInv
    <2>7. RetireInv' BY <2>1, <2>2, <2>3, <2>5, <2>6 DEF RetireInv
    <2> QED BY <2>1, <2>7
  <1> QED BY <1>2, <1>3, <1>4, <1>5, <1>6, <1>7, <1>8 DEF Owner, Expire

LEMMA ClientLimits ==
  ASSUME LifeInv, LimitInv, NEW l \in Locality, NEW o \in Object, Client(l, o) PROVE LimitInv'
  <1> USE SameLimits DEF LifeInv, LimitInv, Types, directory, counters
  <1>0. UNCHANGED run => StillOwner BY DEF StillOwner
  <1>1. CASE CreateThere(l, o) BY <1>0, <1>1 DEF CreateThere
  <1>2. CASE Upgrade(l, o) BY <1>0, <1>2 DEF Upgrade
  <1>3. CASE Poll(l, o) BY <1>0, <1>3 DEF Poll
  <1>4. CASE DropFuture(l, o) BY <1>0, <1>4 DEF DropFuture
  <1>5. CASE DropHandle(l, o) BY <1>5, OwnerGives DEF DropHandle
  <1>6. CASE DropRoot(l, o) BY <1>6, OwnerGives DEF DropRoot
  <1>7. CASE RenewDue(l, o) BY <1>0, <1>7 DEF RenewDue
  <1>8. ASSUME NEW to \in Locality, TransferTo(l, o, to) PROVE LimitInv'
    BY <1>0, <1>8 DEF TransferTo
  <1> QED BY <1>1, <1>2, <1>3, <1>4, <1>5, <1>6, <1>7, <1>8 DEF Client

LEMMA NextLimits ==
  ASSUME LifeInv, LimitInv, [Next]_vars PROVE LimitInv'
  <1>0. UNCHANGED run => StillOwner BY DEF StillOwner
  <1>1. CASE Handlers BY <1>1, HandlersLimits
  <1>2. CASE Owner BY <1>2, OwnerLimits
  <1>3. ASSUME NEW l \in Locality, NEW o \in Object, Client(l, o) PROVE LimitInv'
    BY <1>3, ClientLimits
  <1> USE SameLimits DEF LifeInv, LimitInv, Types
  <1>4. ASSUME NEW l \in Locality, Leave(l) PROVE LimitInv'
    BY <1>0, <1>4 DEF Leave, directory, counters
  <1>5. ASSUME NEW o \in Object, Call(o) PROVE LimitInv'
    <2>1. \E x : run' = [run EXCEPT !["client"] = x] BY <1>5 DEF Call
    <2>2. StillOwner BY <2>1, OwnerApart, Thread3
    <2> QED BY <1>5, <2>2 DEF Call, directory, counters
  <1>6. ASSUME NEW o \in Object, Move(o) PROVE LimitInv'
    BY <1>0, <1>6 DEF Move, counters
  <1>7. ASSUME NEW o \in Object, CreateHere(o) PROVE LimitInv'
    BY <1>0, <1>7, InsertCount, LimitTypes DEF CreateHere
  <1>8. ASSUME NEW t \in tokens, Import(t) PROVE LimitInv'
    BY <1>0, <1>8 DEF Import, directory
  <1>9. ASSUME NEW t \in tokens, DropToken(t) PROVE LimitInv'
    BY <1>9, OwnerGives DEF DropToken, directory, counters
  <1>10. CASE Tick BY <1>0, <1>10 DEF Tick, counters
  <1>11. CASE UNCHANGED vars BY <1>0, <1>11 DEF vars, directory, counters
  <1> QED BY <1>1, <1>2, <1>3, <1>4, <1>5, <1>6, <1>7, <1>8, <1>9, <1>10, <1>11 DEF Next

\* The types of the variables and the limits: root_count is the number of
\* objects that have a root and never passes max_roots, and the retirement queue
\* passes max_migrations by the one object that requeue_retirement puts back.
THEOREM LifetimeTypeCorrect == Spec => []TypeOK
  <1>1. Init => LimitInv
    <2> SUFFICES ASSUME Init PROVE LimitInv OBVIOUS
    <2>1. RootSet = {} BY DEF Init, RootSet
    <2>2. IsFiniteSet(RootSet) /\ Cardinality(RootSet) = 0 BY <2>1, FS_EmptySet
    <2>3. root_count = 0 /\ retirements = <<>> BY DEF Init
    <2>4. MaxRoots \in Nat /\ MaxRetire \in Nat /\ Len(<<>>) = 0 BY LimitTypes
    <2> QED BY <2>2, <2>3, <2>4 DEF LimitInv, CountInv, RetireInv
  <1>2. LifeInv /\ LimitInv /\ [Next]_vars => LimitInv' BY NextLimits
  <1>3. LifeInv /\ LimitInv /\ PinInv => TypeOK
    <2> SUFFICES ASSUME LifeInv, LimitInv, PinInv PROVE TypeOK OBVIOUS
    <2>1. Cardinality(RootSet) \in Nat BY FS_CardinalityType DEF LimitInv, CountInv
    <2>2. root_count \in 0..MaxRoots
      <3>1. MaxRoots \in Nat BY LimitTypes
      <3> QED BY <2>1, <3>1 DEF LimitInv, CountInv
    <2>3. transfer_count \in 0..(Width - 1) BY DEF PinInv
    <2>4. Len(retirements) <= MaxRetire + 1 BY DEF LimitInv, RetireInv
    <2>5. \A l \in Locality : Len(queue[l]) <= QueueCap BY DEF LifeInv, Types, QueueType
    <2> QED BY <2>2, <2>3, <2>4, <2>5 DEF TypeOK, LifeInv, Types, DirectoryType, HolderType
  <1>4. Spec => []PinInv BY InitPins, NextPins, PTL DEF Spec
  <1> QED BY <1>1, <1>2, <1>3, <1>4, LifeAlways, PTL DEF Spec
=============================================================================
