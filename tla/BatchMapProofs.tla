--------------------------- MODULE BatchMapProofs ---------------------------
(***************************************************************************)
(* Proofs about BatchMap, for any number of items, localities, batch sizes *)
(* and limits: the window, the order of the results, the error that wins   *)
(* and where a batch may run.                                              *)
(***************************************************************************)
EXTENDS BatchMap, TLAPS, FiniteSetTheorems, WellFoundedInduction

-----------------------------------------------------------------------------
(* The plan: the chunks of batch_size items cover every item once.         *)

LEMMA Quotient ==
  ASSUME NEW n \in Nat, NEW d \in Nat \ {0}
  PROVE  n \div d \in Nat /\ (n \div d) * d <= n /\ n < (n \div d) * d + d
  OBVIOUS

LEMMA TimesMonotone ==
  ASSUME NEW j \in Nat, NEW k \in Nat, NEW d \in Nat, j <= k
  PROVE  j * d \in Nat /\ j * d <= k * d
  OBVIOUS

\* Chunks are at least a batch apart, start at an item, and cover the items.
LEMMA PlanCovers ==
  ASSUME NEW size \in Nat \ {0}
  PROVE  /\ Plan(size) \in Seq(Item)
         /\ \A j, k \in DOMAIN Plan(size) : j < k => Plan(size)[j] + size <= Plan(size)[k]
         /\ \A i \in Item : \E k \in DOMAIN Plan(size) :
              Plan(size)[k] <= i /\ i <= Plan(size)[k] + size - 1
  <1> DEFINE n == (N + size - 1) \div size
  <1>0. N \in Nat /\ N + size - 1 \in Nat
    BY BatchMapAssumption
  <1>1. n \in Nat /\ n * size <= N + size - 1 /\ N + size - 1 < n * size + size
    BY <1>0, Quotient
  <1> HIDE DEF n
  <1>2. DOMAIN Plan(size) = 1..n /\ \A k \in 1..n : Plan(size)[k] = (k - 1) * size + 1
    BY DEF Plan, n
  <1> DEFINE start(k) == (k - 1) * size
  <1>3. ASSUME NEW k \in 1..n PROVE start(k) \in Nat /\ start(k) + size <= N + size - 1
    <2>1. k * size <= n * size /\ k * size = start(k) + size
      BY <1>1, TimesMonotone
    <2>2. start(k) \in Nat /\ n * size \in Nat /\ k * size \in Nat
      BY <1>1, TimesMonotone
    <2> HIDE DEF start
    <2> QED BY <1>0, <1>1, <2>1, <2>2
  <1>4. ASSUME NEW j \in 1..n, NEW k \in 1..n, j < k PROVE start(j) + size <= start(k)
    <2>1. j * size <= (k - 1) * size /\ j * size = start(j) + size
      BY <1>4, TimesMonotone
    <2> QED BY <2>1
  <1>5. ASSUME NEW q \in Nat, q < n PROVE q + 1 \in 1..n /\ start(q + 1) = q * size
    BY <1>1, <1>5
  <1>6. \A k \in 1..n : Plan(size)[k] = start(k) + 1
    BY <1>2
  <1> HIDE DEF start
  <1>7. \A k \in 1..n : Plan(size)[k] \in Item
    BY <1>0, <1>6, <1>3 DEF Item
  <1>8. Plan(size) \in Seq(Item)
    <2>1. Plan(size) \in [1..n -> Item]
      BY <1>2, <1>7 DEF Plan
    <2> QED BY <1>1, <2>1
  <1>9. \A j, k \in 1..n : j < k => Plan(size)[j] + size <= Plan(size)[k]
    BY <1>6, <1>3, <1>4
  <1>10. ASSUME NEW i \in Item
        PROVE  \E k \in 1..n : Plan(size)[k] <= i /\ i <= Plan(size)[k] + size - 1
    <2> DEFINE q == (i - 1) \div size
               a == q * size
               b == n * size
    <2>1. i \in Nat /\ i - 1 \in Nat /\ i <= N
      BY <1>0 DEF Item
    <2>2. q \in Nat /\ a <= i - 1 /\ i - 1 < a + size
      BY <2>1, Quotient
    <2> HIDE DEF q
    <2>3. a \in Nat /\ b \in Nat /\ (n <= q => b <= a)
      BY <1>1, <2>2, TimesMonotone
    <2>4. N + size - 1 < b + size
      BY <1>1
    <2>5. q < n => q + 1 \in 1..n /\ Plan(size)[q + 1] = a + 1
      BY <1>6, <1>5, <2>2
    <2>6. n \in Nat /\ size \in Nat
      BY <1>1
    <2> HIDE DEF a, b
    <2>7. q < n
      BY <1>0, <2>1, <2>2, <2>3, <2>4, <2>6
    <2>8. q + 1 \in 1..n /\ a + 1 <= i /\ i <= a + 1 + size - 1 /\ Plan(size)[q + 1] = a + 1
      BY <2>1, <2>2, <2>3, <2>5, <2>6, <2>7
    <2> QED BY <2>8
  <1> QED BY <1>2, <1>8, <1>9, <1>10

-----------------------------------------------------------------------------
(* Sequences of batches.                                                   *)

Entries(seq) == {seq[k] : k \in DOMAIN seq}
Distinct(seq) == \A j, k \in DOMAIN seq : j # k => seq[j] # seq[k]

LEMMA EntriesBound ==
  ASSUME NEW T, NEW seq \in Seq(T)
  PROVE  IsFiniteSet(Entries(seq)) /\ Cardinality(Entries(seq)) <= Len(seq)
  <1>1. Len(seq) \in Nat /\ DOMAIN seq = 1..Len(seq)
    OBVIOUS
  <1>2. IsFiniteSet(1..Len(seq)) /\ Cardinality(1..Len(seq)) = Len(seq)
    BY <1>1, FS_Interval
  <1>3. seq \in Surjection(1..Len(seq), Entries(seq))
    BY <1>1 DEF Surjection, Entries
  <1> QED BY <1>2, <1>3, FS_Surjection

LEMMA TailEntries ==
  ASSUME NEW T, NEW seq \in Seq(T), seq # << >>
  PROVE  /\ Tail(seq) \in Seq(T) /\ Head(seq) \in T
         /\ Entries(seq) = Entries(Tail(seq)) \cup {Head(seq)}
         /\ Len(Tail(seq)) = Len(seq) - 1
         /\ DOMAIN Tail(seq) = 1..(Len(seq) - 1)
         /\ \A k \in DOMAIN Tail(seq) : Tail(seq)[k] = seq[k + 1]
         /\ Distinct(seq) => Distinct(Tail(seq)) /\ Head(seq) \notin Entries(Tail(seq))
  <1>1. /\ Len(seq) \in Nat \ {0} /\ DOMAIN seq = 1..Len(seq) /\ Head(seq) = seq[1]
        /\ Tail(seq) \in Seq(T) /\ Head(seq) \in T
        /\ DOMAIN Tail(seq) = 1..(Len(seq) - 1) /\ Len(Tail(seq)) = Len(seq) - 1
    OBVIOUS
  <1>2. \A k \in 1..(Len(seq) - 1) : Tail(seq)[k] = seq[k + 1]
    OBVIOUS
  <1>3. Entries(seq) \subseteq Entries(Tail(seq)) \cup {Head(seq)}
    <2> SUFFICES ASSUME NEW k \in 1..Len(seq) PROVE seq[k] \in Entries(Tail(seq)) \cup {seq[1]}
      BY <1>1 DEF Entries
    <2>1. CASE k # 1
      <3>1. k - 1 \in 1..(Len(seq) - 1) /\ (k - 1) + 1 = k
        BY <1>1, <2>1
      <3>2. Tail(seq)[k - 1] = seq[k]
        BY <1>2, <3>1
      <3> QED BY <1>1, <3>1, <3>2 DEF Entries
    <2> QED BY <2>1
  <1>4. Entries(Tail(seq)) \cup {Head(seq)} \subseteq Entries(seq)
    BY <1>1, <1>2 DEF Entries
  <1>5. ASSUME Distinct(seq) PROVE Distinct(Tail(seq)) /\ Head(seq) \notin Entries(Tail(seq))
    BY <1>1, <1>2, <1>5 DEF Distinct, Entries
  <1> QED BY <1>1, <1>2, <1>3, <1>4, <1>5

LEMMA AppendEntries ==
  ASSUME NEW T, NEW seq \in Seq(T), NEW e \in T
  PROVE  /\ Append(seq, e) \in Seq(T)
         /\ Len(Append(seq, e)) = Len(seq) + 1
         /\ DOMAIN Append(seq, e) = 1..(Len(seq) + 1)
         /\ \A k \in 1..Len(seq) : Append(seq, e)[k] = seq[k]
         /\ Append(seq, e)[Len(seq) + 1] = e
         /\ Entries(Append(seq, e)) = Entries(seq) \cup {e}
         /\ Distinct(seq) /\ e \notin Entries(seq) => Distinct(Append(seq, e))
  <1>1. /\ Len(seq) \in Nat /\ DOMAIN seq = 1..Len(seq) /\ Append(seq, e) \in Seq(T)
        /\ DOMAIN Append(seq, e) = 1..(Len(seq) + 1) /\ Len(Append(seq, e)) = Len(seq) + 1
        /\ Append(seq, e)[Len(seq) + 1] = e
    OBVIOUS
  <1>2. \A k \in 1..Len(seq) : Append(seq, e)[k] = seq[k]
    OBVIOUS
  <1>3. \A k \in 1..(Len(seq) + 1) : k \in 1..Len(seq) \/ k = Len(seq) + 1
    BY <1>1
  <1>4. Len(seq) + 1 \in 1..(Len(seq) + 1) /\ 1..Len(seq) \subseteq 1..(Len(seq) + 1)
    BY <1>1
  <1>5. Entries(Append(seq, e)) = Entries(seq) \cup {e}
    BY <1>1, <1>2, <1>3, <1>4 DEF Entries
  <1>6. ASSUME Distinct(seq), e \notin Entries(seq) PROVE Distinct(Append(seq, e))
    BY <1>1, <1>2, <1>3, <1>6 DEF Distinct, Entries
  <1> QED BY <1>1, <1>2, <1>5, <1>6

\* Vec::swap_remove loses the entry at i and no other.
LEMMA SwapRemovedEntries ==
  ASSUME NEW T, NEW seq \in Seq(T), NEW i \in 1..Len(seq)
  PROVE  /\ SwapRemoved(seq, i) \in Seq(T)
         /\ Len(SwapRemoved(seq, i)) = Len(seq) - 1
         /\ Entries(SwapRemoved(seq, i)) \subseteq Entries(seq)
         /\ Entries(seq) \ {seq[i]} \subseteq Entries(SwapRemoved(seq, i))
         /\ Distinct(seq) => Distinct(SwapRemoved(seq, i))
                             /\ seq[i] \notin Entries(SwapRemoved(seq, i))
  <1> DEFINE n == Len(seq)
             t == SwapRemoved(seq, i)
  <1>1. n \in Nat \ {0} /\ DOMAIN seq = 1..n /\ i \in 1..n /\ \A k \in 1..n : seq[k] \in T
    OBVIOUS
  <1>2. DOMAIN t = 1..(n - 1) /\ \A k \in 1..(n - 1) : t[k] = IF k = i THEN seq[n] ELSE seq[k]
    BY DEF SwapRemoved
  <1>3. t \in [1..(n - 1) -> T]
    BY <1>1 DEF SwapRemoved
  <1> HIDE DEF n, t
  <1>4. t \in Seq(T) /\ Len(t) = n - 1
    BY <1>1, <1>3
  <1>5. Entries(t) \subseteq Entries(seq)
    BY <1>1, <1>2 DEF Entries
  <1>6. ASSUME NEW k \in 1..n, seq[k] # seq[i] PROVE seq[k] \in Entries(t)
    <2>1. CASE k = n
      <3>1. i \in 1..(n - 1) /\ t[i] = seq[k]
        BY <1>1, <1>2, <1>6, <2>1
      <3> QED BY <1>2, <3>1 DEF Entries
    <2>2. CASE k # n
      <3>1. k \in 1..(n - 1) /\ t[k] = seq[k]
        BY <1>1, <1>2, <1>6, <2>2
      <3> QED BY <1>2, <3>1 DEF Entries
    <2> QED BY <2>1, <2>2
  <1>7. ASSUME Distinct(seq) PROVE Distinct(t) /\ seq[i] \notin Entries(t)
    <2>1. \A j, k \in 1..n : j # k => seq[j] # seq[k]
      BY <1>1, <1>7 DEF Distinct
    <2>2. ASSUME NEW j \in 1..(n - 1), NEW k \in 1..(n - 1), j # k PROVE t[j] # t[k]
      BY <1>1, <1>2, <2>1, <2>2
    <2>3. \A k \in 1..(n - 1) : t[k] # seq[i]
      BY <1>1, <1>2, <2>1
    <2> QED BY <1>2, <2>2, <2>3 DEF Distinct, Entries
  <1> QED BY <1>1, <1>4, <1>5, <1>6, <1>7 DEF n, t, Entries

-----------------------------------------------------------------------------
(* Types.                                                                  *)

OptionsType ==
  /\ options.operation \in {"pmap", "pmap_at", "colocated", "preferred", "gather"}
  /\ options.batch_size \in Nat \ {0}
  /\ options.prefetch \in BOOLEAN
  /\ options.fallback \in {"place", "reject"}
  /\ options.errors \in {"plain", "as saturated"}
  /\ options.fallback = "reject" => options.errors = "plain"
  /\ Gather => options.batch_size = 1
PollSet == [pc : {"idle", "fill", "scan"}, at : Nat, progress : BOOLEAN, waits : BOOLEAN]
PollType ==
  /\ poll \in PollSet
  /\ poll.pc = "scan" => poll.at # 0
AdmittedType == admitted \in [Item -> [Placement -> Nat]]
PollRange == poll.at \in 0..(Len(slots) + 1)
Results == {"none", "ok", "callback error", "runtime error", "protocol error", "dropped"}

\* TypeOK, with what it leaves out of options, poll and admitted.
TypeInv ==
  /\ OptionsType /\ fate \in [Item -> {"ok", "error"}]
  /\ pending \in Seq(Item) /\ slots \in Seq(Item)
  /\ request \in [Item -> Status]
  /\ placed \in [Item -> Placement] /\ redirects \in [Item -> 0..MaxRedirects]
  /\ AdmittedType
  /\ outputs \in [Item -> 0..N] /\ first_error \in 0..N
  /\ PollType /\ PollRange
  /\ woken \in BOOLEAN /\ wakers \subseteq Item
  /\ result \in Results

LEMMA IdleType ==
  /\ Idle \in PollSet
  /\ Idle.pc = "idle" /\ Idle.at = 0 /\ Idle.progress = FALSE /\ Idle.waits = FALSE
  BY DEF Idle, PollSet

\* What each step leaves in poll.
LEMMA PollAfter ==
  ASSUME poll \in PollSet
  PROVE  /\ StartPoll => /\ poll' \in PollSet /\ poll'.at = 1 /\ poll'.waits = FALSE
                         /\ poll'.pc = IF Pmap THEN "fill" ELSE "scan"
         /\ FillDone => poll' \in PollSet /\ poll'.at = 1 /\ poll'.waits = FALSE /\ poll'.pc = "scan"
         /\ PollPending => /\ poll' \in PollSet /\ poll'.at = poll.at + 1 /\ poll'.waits = TRUE
                           /\ poll'.pc = poll.pc
         /\ ScanAgain => poll' \in PollSet /\ poll'.at = 0 /\ poll'.pc \in {"fill", "idle"}
         /\ GatherReady => /\ poll' \in PollSet /\ poll'.at = poll.at + 1 /\ poll'.waits = poll.waits
                           /\ poll'.pc = poll.pc
         /\ PollReady => \/ poll' = Idle
                         \/ /\ poll' \in PollSet /\ poll'.at = poll.at /\ poll'.waits = poll.waits
                            /\ poll'.pc = poll.pc
  <1>1. ASSUME StartPoll
        PROVE  /\ poll' \in PollSet /\ poll'.at = 1 /\ poll'.waits = FALSE
               /\ poll'.pc = IF Pmap THEN "fill" ELSE "scan"
    <2> DEFINE c == IF Pmap THEN "fill" ELSE "scan"
    <2>1. c \in {"idle", "fill", "scan"}
      OBVIOUS
    <2>2. poll' = [Idle EXCEPT !.pc = c, !.at = 1]
      BY <1>1 DEF StartPoll
    <2> HIDE DEF c
    <2>3. poll' \in PollSet /\ poll'.at = 1 /\ poll'.waits = FALSE /\ poll'.pc = c
      BY <2>1, <2>2, IdleType DEF PollSet
    <2> QED BY <2>3 DEF c
  <1>2. ASSUME FillDone
        PROVE  poll' \in PollSet /\ poll'.at = 1 /\ poll'.waits = FALSE /\ poll'.pc = "scan"
    <2>1. poll' = [Idle EXCEPT !.pc = "scan", !.at = 1]
      BY <1>2 DEF FillDone
    <2> QED BY <2>1, IdleType DEF PollSet
  <1>3. poll.at + 1 \in Nat
    BY DEF PollSet
  <1>4. ASSUME PollPending
        PROVE  /\ poll' \in PollSet /\ poll'.at = poll.at + 1 /\ poll'.waits = TRUE
               /\ poll'.pc = poll.pc
    <2>1. poll' = [poll EXCEPT !.at = poll.at + 1, !.waits = TRUE]
      BY <1>4 DEF PollPending
    <2> QED BY <1>3, <2>1 DEF PollSet
  <1>5. ASSUME ScanAgain
        PROVE  poll' \in PollSet /\ poll'.at = 0 /\ poll'.pc \in {"fill", "idle"}
    <2>1. poll' = Idle \/ poll' = [Idle EXCEPT !.pc = "fill"]
      BY <1>5 DEF ScanAgain, Again
    <2> QED BY <2>1, IdleType DEF PollSet
  <1>6. ASSUME GatherReady
        PROVE  /\ poll' \in PollSet /\ poll'.at = poll.at + 1 /\ poll'.waits = poll.waits
               /\ poll'.pc = poll.pc
    <2>1. poll' = [poll EXCEPT !.at = poll.at + 1]
      BY <1>6 DEF GatherReady
    <2> QED BY <1>3, <2>1 DEF PollSet
  <1>7. ASSUME PollReady
        PROVE  \/ poll' = Idle
               \/ /\ poll' \in PollSet /\ poll'.at = poll.at /\ poll'.waits = poll.waits
                  /\ poll'.pc = poll.pc
    <2>1. poll' = Idle \/ poll' = [poll EXCEPT !.progress = TRUE]
      BY <1>7 DEF PollReady, Returns
    <2> QED BY <2>1 DEF PollSet
  <1> QED BY <1>1, <1>2, <1>4, <1>5, <1>6, <1>7

LEMMA BatchType ==
  ASSUME TypeInv, NEW s \in Item
  PROVE  Batch(s) \subseteq Item /\ \A i \in Batch(s) : i \in Int /\ s <= i
  <1>1. options.batch_size \in Nat \ {0} /\ N \in Nat
    BY BatchMapAssumption DEF TypeInv, OptionsType
  <1>2. LowerOf(s + options.batch_size - 1, N) <= N /\ LowerOf(s + options.batch_size - 1, N) \in Int
    BY <1>1 DEF LowerOf, Item
  <1> QED BY <1>1, <1>2 DEF Batch, Item

\* What PollFailed and PollReady leave in first_error.
LEMMA LeastError ==
  ASSUME NEW S \in SUBSET Item, S # {}
  PROVE  \E i \in S : \A j \in S : i <= j
  <1>1. N \in Nat
    BY BatchMapAssumption
  <1>2. S \subseteq Nat
    BY <1>1 DEF Item
  <1>3. PICK i \in S : \A j \in S : ~(<<j, i>> \in OpToRel(<, Nat))
    BY <1>2, NatLessThanWellFounded, WFMin
  <1>4. \A j \in S : j < i => <<j, i>> \in OpToRel(<, Nat)
    BY <1>2, Zenon DEF OpToRel
  <1>5. \A j \in S : ~(j < i)
    BY <1>3, <1>4, Zenon
  <1> QED BY <1>2, <1>5

\* first_error after a reply: the least error of it, or the one known before.
LEMMA LoweredIs ==
  ASSUME TypeInv, NEW s \in Item
  PROVE  /\ Lowered(s) \in 0..N
         /\ Lowered(s) = 0 => first_error = 0 /\ Errors(s) = {}
         /\ Lowered(s) # 0 => /\ Lowered(s) \in Errors(s) \/ Lowered(s) = first_error
                              /\ \A i \in Errors(s) : Lowered(s) <= i
                              /\ first_error # 0 => Lowered(s) <= first_error
  <1> DEFINE all == Errors(s) \cup ({first_error} \ {0})
  <1>0. N \in Nat /\ first_error \in 0..N
    BY BatchMapAssumption DEF TypeInv
  <1>1. all \subseteq Item
    BY <1>0, BatchType DEF Errors, Item
  <1>2. CASE all = {}
    <2>1. Lowered(s) = 0
      BY <1>2 DEF Lowered
    <2>2. first_error = 0 /\ Errors(s) = {}
      BY <1>2
    <2> QED BY <1>0, <2>1, <2>2
  <1>3. CASE all # {}
    <2>1. Lowered(s) = CHOOSE i \in all : \A j \in all : i <= j
      BY <1>3 DEF Lowered
    <2>2. \E i \in all : \A j \in all : i <= j
      BY <1>1, <1>3, LeastError
    <2> HIDE DEF all
    <2>3. Lowered(s) \in all /\ \A j \in all : Lowered(s) <= j
      BY <2>1, <2>2
    <2> USE DEF all
    <2>4. Lowered(s) \in 0..N /\ Lowered(s) # 0
      BY <1>0, <1>1, <2>3 DEF Item
    <2> QED BY <2>3, <2>4
  <1> QED BY <1>2, <1>3

\* What a step may do to the two sequences of batches.
LEMMA SubmitType ==
  ASSUME TypeInv, pending # << >>, Submits
  PROVE  /\ pending' \in Seq(Item) /\ slots' \in Seq(Item)
         /\ request' \in [Item -> Status]
         /\ poll' \in {poll, Idle} /\ result' \in {result, "runtime error"}
         /\ Len(slots') \in {Len(slots), Len(slots) + 1}
  <1> DEFINE s == Head(pending)
  <1>1. s \in Item /\ pending' \in Seq(Item)
    BY TailEntries DEF TypeInv, Submits
  <1>2. slots \in Seq(Item) /\ request \in [Item -> Status]
    BY DEF TypeInv
  <1>3. CASE Refused
    BY <1>1, <1>2, <1>3 DEF Submits, Returns
  <1>4. CASE ~Refused
    <2>1. slots' = Append(slots, s) /\ request' = [request EXCEPT ![s] = "sent"]
      BY <1>4 DEF Submits, Offered
    <2>2. UNCHANGED <<poll, result>>
      BY <1>4 DEF Submits
    <2> HIDE DEF s
    <2> QED BY <1>1, <1>2, <2>1, <2>2, AppendEntries DEF Status
  <1> QED BY <1>3, <1>4

LEMMA SlotType ==
  ASSUME TypeInv, Scanning
  PROVE  Slot \in Item /\ poll.at \in 1..Len(slots) /\ Slot \in Entries(slots)
  <1>1. slots \in Seq(Item) /\ poll.at \in Nat \ {0} /\ poll.at <= Len(slots)
    <2>1. slots \in Seq(Item) /\ poll \in PollSet /\ poll.at # 0 /\ poll.at <= Len(slots)
      BY DEF TypeInv, PollType, Scanning
    <2>2. poll.at \in Nat
      BY <2>1 DEF PollSet
    <2> QED BY <2>1, <2>2
  <1>2. poll.at \in DOMAIN slots /\ poll.at \in 1..Len(slots) /\ slots[poll.at] \in Item
    BY <1>1
  <1> QED BY <1>2 DEF Slot, Entries

LEMMA SubmitSteps ==
  ASSUME TypeInv, Spawn \/ Fill PROVE TypeInv'
  <1>1. pending # << >> /\ Submits
    BY DEF Spawn, Fill
  <1>2. UNCHANGED <<options, fate, placed, redirects, admitted, outputs, first_error, woken, wakers>>
    BY DEF Spawn, Fill, placement
  <1>3. PollType' /\ PollRange'
    <2>1. PollType /\ PollRange /\ slots \in Seq(Item) /\ Len(slots) \in Nat
      BY DEF TypeInv
    <2>2. poll' = poll \/ poll' = Idle
      BY <1>1, SubmitType
    <2>3. Len(slots') = Len(slots) \/ Len(slots') = Len(slots) + 1
      BY <1>1, SubmitType
    <2>4. Len(slots') \in Nat /\ Len(slots) <= Len(slots')
      BY <2>1, <2>3
    <2> QED BY <2>1, <2>2, <2>4, IdleType DEF PollType, PollRange
  <1> QED BY <1>1, <1>2, <1>3, SubmitType DEF TypeInv, Results, OptionsType, AdmittedType, Gather

LEMMA PollSteps ==
  ASSUME TypeInv, StartPoll \/ FillDone \/ PollPending \/ Complete \/ ScanAgain \/ GatherEnd
  PROVE  TypeInv'
  <1>0. PollType /\ PollRange /\ slots \in Seq(Item) /\ Len(slots) \in Nat
    BY DEF TypeInv
  <1>1. UNCHANGED <<options, fate, pending, slots, request, placed, redirects, admitted, outputs, first_error>>
    BY DEF StartPoll, FillDone, PollPending, Complete, ScanAgain, GatherEnd, placement
  <1>2. woken' \in BOOLEAN /\ wakers' \subseteq Item /\ result' \in Results
    BY SlotType DEF TypeInv, StartPoll, FillDone, PollPending, Complete, ScanAgain, GatherEnd, Returns,
                              Answer, Results
  <1>3. PollType' /\ PollRange'
    <2>0. poll \in PollSet /\ poll.at \in Nat
      BY <1>0 DEF PollType, PollSet
    <2>1. CASE StartPoll
      BY <1>0, <1>1, <2>0, <2>1, PollAfter DEF PollType, PollRange
    <2>2. CASE FillDone
      BY <1>0, <1>1, <2>0, <2>2, PollAfter DEF PollType, PollRange
    <2>3. CASE PollPending
      <3>1. poll.at <= Len(slots)
        BY <2>3 DEF PollPending, Scanning
      <3> QED BY <1>0, <1>1, <2>0, <2>3, <3>1, PollAfter DEF PollType, PollRange
    <2>4. CASE Complete \/ GatherEnd
      <3>1. poll' = Idle
        BY <2>4 DEF Complete, GatherEnd, Returns
      <3> QED BY <1>0, <1>1, <3>1, IdleType DEF PollType, PollRange
    <2>5. CASE ScanAgain
      BY <1>0, <1>1, <2>0, <2>5, PollAfter DEF PollType, PollRange
    <2> QED BY <2>1, <2>2, <2>3, <2>4, <2>5
  <1> QED BY <1>1, <1>2, <1>3 DEF TypeInv, OptionsType, AdmittedType, Gather

LEMMA FinishedType ==
  ASSUME TypeInv, NEW s \in Item, Finished(s)
  PROVE  /\ request' \in [Item -> Status] /\ placed' \in [Item -> Placement]
         /\ redirects' \in [Item -> 0..MaxRedirects]
  BY BatchMapAssumption DEF TypeInv, Finished, Status, Placement

LEMMA MoveSteps ==
  ASSUME TypeInv, PollFailed \/ PollMoved \/ PollFallback
  PROVE  TypeInv'
  <1>0. Slot \in Item /\ Scanning
    BY SlotType DEF PollFailed, PollMoved, PollFallback
  <1>1. UNCHANGED <<options, fate, pending, slots, admitted, outputs, first_error, woken, wakers>>
    BY DEF PollFailed, PollMoved, PollFallback
  <1>2. (poll' = poll /\ result' = result) \/ (poll' = Idle /\ result' = "runtime error")
    BY DEF PollFailed, PollMoved, PollFallback, Returns
  <1>3. PollType' /\ PollRange' /\ result' \in Results
    <2>1. CASE poll' = poll /\ result' = result
      BY <1>1, <2>1 DEF TypeInv, PollType, PollRange
    <2>2. CASE poll' = Idle /\ result' = "runtime error"
      <3>1. slots \in Seq(Item) /\ slots' = slots
        BY <1>1 DEF TypeInv
      <3>2. Len(slots') \in Nat
        BY <3>1
      <3>3. PollRange'
        <4>1. poll'.at = 0
          BY <2>2, IdleType
        <4>2. 0 \in 0..(Len(slots') + 1)
          BY <3>2
        <4> QED BY <4>1, <4>2 DEF PollRange
      <3>4. PollType'
        BY <2>2, IdleType DEF PollType
      <3> QED BY <2>2, <3>3, <3>4 DEF Results
    <2> QED BY <1>2, <2>1, <2>2
  <1>4. /\ request' \in [Item -> Status] /\ placed' \in [Item -> Placement]
        /\ redirects' \in [Item -> 0..MaxRedirects]
    <2>1. CASE PollFailed
      BY <1>0, <2>1, FinishedType DEF PollFailed
    <2>2. CASE PollMoved
      <3>1. redirects' \in [Item -> 0..MaxRedirects]
        BY <1>0, <2>2, BatchMapAssumption DEF TypeInv, PollMoved, Redirected
      <3>2. request' \in [Item -> Status] /\ UNCHANGED placed
        BY <1>0, <2>2 DEF TypeInv, PollMoved, Offered, Status, Failing
      <3> QED BY <3>1, <3>2 DEF TypeInv
    <2>3. CASE PollFallback
      <3>1. CASE Refused
        BY <1>0, <2>3, <3>1, FinishedType DEF PollFallback
      <3>2. CASE ~Refused
        <4>1. request' \in [Item -> Status]
          BY <1>0, <2>3, <3>2 DEF TypeInv, PollFallback, Offered, Status
        <4>2. placed' \in [Item -> Placement]
          BY <1>0, <2>3, <3>2 DEF TypeInv, PollFallback, Placement
        <4>3. redirects' \in [Item -> 0..MaxRedirects]
          <5>1. redirects' = [redirects EXCEPT ![Slot] = 0]
            BY <2>3, <3>2 DEF PollFallback
          <5>2. 0 \in 0..MaxRedirects
            BY BatchMapAssumption
          <5> QED BY <5>1, <5>2 DEF TypeInv
        <4> QED BY <4>1, <4>2, <4>3
      <3> QED BY <3>1, <3>2
    <2> QED BY <2>1, <2>2, <2>3
  <1> QED BY <1>1, <1>3, <1>4 DEF TypeInv, OptionsType, AdmittedType, Gather

LEMMA ReadySteps ==
  ASSUME TypeInv, PollReady \/ GatherReady
  PROVE  TypeInv'
  <1>0. Slot \in Item /\ Scanning /\ poll.at \in 1..Len(slots) /\ slots \in Seq(Item) /\ Len(slots) \in Nat
    <2>1. Scanning
      BY DEF PollReady, GatherReady
    <2>2. slots \in Seq(Item)
      BY DEF TypeInv
    <2> QED BY <2>1, <2>2, SlotType
  <1>1. CASE GatherReady
    <2>1. UNCHANGED <<options, fate, pending, slots, placed, redirects, admitted, first_error, woken,
                      wakers, result>>
      BY <1>1 DEF GatherReady, placement
    <2>2. request' \in [Item -> Status]
      BY <1>0, <1>1 DEF TypeInv, GatherReady, Status
    <2>3. outputs' \in [Item -> 0..N]
      <3>1. Slot \in 0..N
        BY <1>0, BatchMapAssumption DEF Item
      <3> QED BY <1>1, <3>1 DEF TypeInv, GatherReady
    <2>4. PollType' /\ PollRange'
      <3>1. poll \in PollSet
        BY DEF TypeInv, PollType
      <3> QED BY <1>0, <1>1, <2>1, <3>1, PollAfter DEF PollType, PollRange
    <2> QED BY <2>1, <2>2, <2>3, <2>4 DEF TypeInv, OptionsType, AdmittedType, Gather
  <1>2. CASE PollReady
    <2>1. UNCHANGED <<options, fate, pending, admitted, woken, wakers>>
      BY <1>2 DEF PollReady
    <2>2. slots' \in Seq(Item) /\ Len(slots') = Len(slots) - 1
      BY <1>0, <1>2, SwapRemovedEntries DEF PollReady
    <2>3. /\ request' \in [Item -> Status] /\ placed' \in [Item -> Placement]
          /\ redirects' \in [Item -> 0..MaxRedirects]
      BY <1>0, <1>2, FinishedType DEF PollReady
    <2>4. outputs' \in [Item -> 0..N] /\ first_error' \in 0..N
      <3>1. Stored(Slot) \in [Item -> 0..N]
        <4>1. \A i \in Item : i \in 0..N
          BY BatchMapAssumption DEF Item
        <4> QED BY <4>1 DEF TypeInv, Stored
      <3> QED BY <1>0, <1>2, <3>1, LoweredIs DEF TypeInv, PollReady
    <2>5. result' \in Results
      BY <1>2 DEF TypeInv, PollReady, Returns, Results
    <2>6. PollType' /\ PollRange'
      <3>1. poll \in PollSet
        BY DEF TypeInv, PollType
      <3>2. CASE poll' = Idle
        BY <1>0, <2>2, <3>2, IdleType DEF PollType, PollRange
      <3>3. CASE poll' \in PollSet /\ poll'.at = poll.at
        BY <1>0, <2>2, <3>3 DEF PollType, PollRange
      <3> QED BY <1>2, <3>1, <3>2, <3>3, PollAfter
    <2> QED BY <2>1, <2>2, <2>3, <2>4, <2>5, <2>6 DEF TypeInv, OptionsType, AdmittedType, Gather
  <1> QED BY <1>1, <1>2

LEMMA SettleType ==
  ASSUME TypeInv, NEW s \in Item, NEW how \in {"replied"} \cup Failing, Settle(s, how)
  PROVE  request' \in [Item -> Status] /\ woken' \in BOOLEAN /\ wakers' \subseteq Item
  <1>1. request' \in [Item -> Status]
    BY DEF TypeInv, Settle, Status
  <1>2. woken' \in BOOLEAN
    BY Zenon DEF Settle
  <1>3. wakers' \subseteq Item
    BY DEF TypeInv, Settle
  <1> QED BY <1>1, <1>2, <1>3

LEMMA RunSteps ==
  ASSUME TypeInv, NEW s \in Item, Run(s) \/ Reject(s)
  PROVE  TypeInv'
  <1>1. PICK how \in {"replied"} \cup Failing : Settle(s, how)
    BY DEF Run, Reject, Failing, OwnError
  <1>2. UNCHANGED <<options, fate, pending, slots, placed, redirects, outputs, first_error, poll, result>>
    BY <1>1 DEF Settle
  <1>3. AdmittedType'
    <2>1. admitted \in [Item -> [Placement -> Nat]] /\ placed[s] \in Placement
      BY DEF TypeInv, AdmittedType
    <2>2. UNCHANGED admitted \/ admitted' = [admitted EXCEPT ![s][placed[s]] = @ + 1]
      BY DEF Run, Reject
    <2> QED BY <2>1, <2>2 DEF AdmittedType
  <1>4. request' \in [Item -> Status] /\ woken' \in BOOLEAN /\ wakers' \subseteq Item
    BY <1>1, SettleType
  <1> QED BY <1>2, <1>3, <1>4 DEF TypeInv, OptionsType, PollType, PollRange, Gather

LEMMA DropType ==
  ASSUME TypeInv, DropFuture PROVE TypeInv'
  <1>1. UNCHANGED <<options, fate, admitted, outputs, first_error, poll, woken>> /\ poll = Idle
    BY DEF DropFuture
  <1>2. pending' = << >> /\ slots' = << >> /\ wakers' = {} /\ result' \in Results
    BY DEF TypeInv, DropFuture, Results
  <1>3. request' \in [Item -> Status]
    BY DEF TypeInv, DropFuture, Status
  <1>4. placed' \in [Item -> Placement] /\ redirects' \in [Item -> 0..MaxRedirects]
    BY BatchMapAssumption DEF DropFuture, Placement
  <1>5. PollType' /\ PollRange'
    BY <1>1, <1>2, IdleType DEF PollType, PollRange
  <1>6. pending' \in Seq(Item) /\ slots' \in Seq(Item) /\ wakers' \subseteq Item
    BY <1>2
  <1> QED BY <1>1, <1>2, <1>3, <1>4, <1>5, <1>6 DEF TypeInv, OptionsType, AdmittedType, Gather

LEMMA InitType ==
  ASSUME Init PROVE TypeInv
  <1>1. OptionsType
    BY BatchMapAssumption DEF Init, OptionsType, Gather
  <1>2. pending \in Seq(Item)
    <2>1. pending = Plan(options.batch_size) /\ options.batch_size \in Nat \ {0}
      BY <1>1 DEF Init, OptionsType
    <2> QED BY <2>1, PlanCovers
  <1>3. slots = << >> /\ slots \in Seq(Item) /\ Len(slots) = 0 /\ poll = Idle
    <2>1. slots = << >> /\ poll = Idle
      BY DEF Init
    <2> QED BY <2>1
  <1>4. PollType /\ PollRange
    BY <1>3, IdleType DEF PollType, PollRange
  <1>5. AdmittedType
    BY DEF Init, AdmittedType
  <1>6. request \in [Item -> Status] /\ placed \in [Item -> Placement]
    BY DEF Init, Status, Placement
  <1>7. redirects \in [Item -> 0..MaxRedirects] /\ outputs \in [Item -> 0..N] /\ first_error \in 0..N
    <2>1. 0 \in 0..MaxRedirects /\ 0 \in 0..N
      BY BatchMapAssumption
    <2>2. redirects = [s \in Item |-> 0] /\ outputs = [i \in Item |-> 0] /\ first_error = 0
      BY DEF Init
    <2> QED BY <2>1, <2>2
  <1>8. fate \in [Item -> {"ok", "error"}] /\ woken \in BOOLEAN /\ wakers \subseteq Item /\ result \in Results
    BY DEF Init, Results
  <1> QED BY <1>1, <1>2, <1>3, <1>4, <1>5, <1>6, <1>7, <1>8 DEF TypeInv

LEMMA TypeInvariant == Spec => []TypeInv
  <1>1. Init => TypeInv
    BY InitType
  <1>2. TypeInv /\ [Next]_vars => TypeInv'
    <2> SUFFICES ASSUME TypeInv, [Next]_vars PROVE TypeInv'
      OBVIOUS
    <2>1. CASE UNCHANGED vars
      BY <2>1 DEF TypeInv, vars, placement, OptionsType, AdmittedType, PollType, PollRange, Gather
    <2> QED BY <2>1, SubmitSteps, PollSteps, MoveSteps, ReadySteps, RunSteps, DropType DEF Next, Executor
  <1> QED BY <1>1, <1>2, PTL DEF Spec

-----------------------------------------------------------------------------
(* Batches in their places: each start is pending, in a slot, or done.      *)

Starts == Entries(Plan(options.batch_size))
Open == Entries(pending) \cup Entries(slots)

\* A batch is pending or in one slot, never both, and only a batch in a slot
\* has a request; a future that has returned is not being polled.
SlotInv ==
  /\ Open \subseteq Starts
  /\ Distinct(pending) /\ Distinct(slots) /\ Entries(pending) \cap Entries(slots) = {}
  /\ \A s \in Entries(pending) : request[s] = "none"
  /\ Outstanding \subseteq Entries(slots)
  /\ Pmap => Len(slots) <= Limit
  /\ result # "none" => poll = Idle

LEMMA LimitType ==
  ASSUME TypeInv PROVE Limit \in Nat
  <1>1. Eligible \in Nat /\ options.prefetch \in BOOLEAN
    BY BatchMapAssumption DEF TypeInv, OptionsType, Eligible
  <1> QED BY <1>1 DEF Limit

LEMMA StartsType ==
  ASSUME TypeInv
  PROVE  Starts \subseteq Item /\ Entries(pending) \subseteq Item /\ Entries(slots) \subseteq Item
  <1>1. Plan(options.batch_size) \in Seq(Item)
    BY PlanCovers DEF TypeInv, OptionsType
  <1>2. pending \in Seq(Item) /\ slots \in Seq(Item)
    BY DEF TypeInv
  <1>3. ASSUME NEW seq \in Seq(Item) PROVE Entries(seq) \subseteq Item
    BY DEF Entries
  <1> QED BY <1>1, <1>2, <1>3 DEF Starts

\* A poll of a slot, and an answer, change only the request of a batch in a slot.
LEMMA SlotsKept ==
  ASSUME SlotInv, UNCHANGED <<options, pending, slots>>,
         \A s \in Item : request'[s] = request[s] \/ s \in Entries(slots),
         Entries(pending) \subseteq Item,
         result' # "none" => poll' = Idle
  PROVE  SlotInv'
  <1>1. options' = options /\ pending' = pending /\ slots' = slots
    OBVIOUS
  <1>2. Open' = Open /\ Starts' = Starts
    BY <1>1 DEF Open, Starts, Entries, Plan
  <1>3. Outstanding' \subseteq Entries(slots)
    BY DEF SlotInv, Outstanding
  <1>4. \A s \in Entries(pending) : request'[s] = "none"
    BY DEF SlotInv
  <1>5. (Pmap => Len(slots) <= Limit)'
    BY <1>1 DEF SlotInv, Pmap, Limit, Eligible
  <1> QED BY <1>1, <1>2, <1>3, <1>4, <1>5 DEF SlotInv, Entries, Distinct

\* result is "none" while the future is being polled.
LEMMA PollingUnreturned ==
  ASSUME SlotInv, poll.pc # "idle" PROVE result = "none"
  BY IdleType DEF SlotInv

LEMMA SlotsPolled ==
  ASSUME TypeInv, SlotInv,
         \/ StartPoll \/ FillDone \/ PollPending \/ PollFailed \/ PollMoved \/ PollFallback
         \/ Complete \/ ScanAgain \/ GatherReady \/ GatherEnd
  PROVE  SlotInv'
  <1>1. UNCHANGED <<options, pending, slots>>
    BY DEF StartPoll, FillDone, PollPending, PollFailed, PollMoved, PollFallback, Complete, ScanAgain,
           GatherReady, GatherEnd
  <1>2. result' # "none" => poll' = Idle
    <2>1. CASE StartPoll
      BY <2>1 DEF StartPoll
    <2>2. CASE FillDone
      <3>1. result = "none"
        BY <2>2, PollingUnreturned DEF FillDone
      <3> QED BY <2>2, <3>1 DEF FillDone
    <2>3. CASE \/ PollPending \/ PollFailed \/ PollMoved \/ PollFallback \/ Complete \/ ScanAgain
               \/ GatherReady \/ GatherEnd
      <3>1. result = "none"
        BY <2>3, PollingUnreturned DEF PollPending, PollFailed, PollMoved, PollFallback, Complete,
                                       ScanAgain, GatherReady, GatherEnd, Scanning, Scanned
      <3> QED BY <2>3, <3>1 DEF PollPending, PollFailed, PollMoved, PollFallback, Complete,
                                ScanAgain, GatherReady, GatherEnd, Returns
    <2> QED BY <2>1, <2>2, <2>3
  <1>3. \A s \in Item : request'[s] = request[s] \/ s \in Entries(slots)
    <2>1. CASE StartPoll \/ FillDone \/ PollPending \/ Complete \/ ScanAgain \/ GatherEnd
      BY <2>1 DEF StartPoll, FillDone, PollPending, Complete, ScanAgain, GatherEnd
    <2>2. CASE PollFailed \/ PollMoved \/ PollFallback \/ GatherReady
      <3>1. Slot \in Entries(slots)
        BY <2>2, SlotType DEF PollFailed, PollMoved, PollFallback, GatherReady
      <3>2. request \in [Item -> Status]
        BY DEF TypeInv
      <3>3. \E how \in Status : request' = [request EXCEPT ![Slot] = how]
        BY <2>2 DEF PollFailed, PollMoved, PollFallback, GatherReady, Finished, Offered, Status, Failing
      <3> QED BY <3>1, <3>2, <3>3
    <2> QED BY <2>1, <2>2
  <1> QED BY <1>1, <1>2, <1>3, SlotsKept, StartsType

LEMMA SlotsSettled ==
  ASSUME TypeInv, SlotInv, NEW s \in Item, Run(s) \/ Reject(s)
  PROVE  SlotInv'
  <1>1. PICK how : Settle(s, how)
    BY DEF Run, Reject
  <1>2. UNCHANGED <<options, pending, slots, poll, result>> /\ request[s] = "sent"
        /\ request' = [request EXCEPT ![s] = how]
    BY <1>1 DEF Settle
  <1>3. s \in Entries(slots)
    BY <1>2 DEF SlotInv, Outstanding
  <1>4. \A t \in Item : request'[t] = request[t] \/ t \in Entries(slots)
    BY <1>2, <1>3 DEF TypeInv
  <1>5. result' # "none" => poll' = Idle
    BY <1>2 DEF SlotInv
  <1> QED BY <1>2, <1>4, <1>5, SlotsKept, StartsType

LEMMA SlotsDropped ==
  ASSUME TypeInv, SlotInv, DropFuture PROVE SlotInv'
  <1>1. pending' = << >> /\ slots' = << >> /\ poll' = Idle
    BY DEF DropFuture
  <1>2. Entries(pending') = {} /\ Entries(slots') = {} /\ Distinct(pending') /\ Distinct(slots')
    BY <1>1 DEF Entries, Distinct
  <1>3. Outstanding' = {}
    BY DEF DropFuture, Outstanding, TypeInv, Failing
  <1>4. Len(slots') = 0 /\ Limit' \in Nat
    BY <1>1, LimitType, DropType DEF DropFuture, Limit, Eligible
  <1> QED BY <1>1, <1>2, <1>3, <1>4 DEF SlotInv, Open

\* What a submission does to the two sequences.
LEMMA SubmitMoves ==
  ASSUME TypeInv, SlotInv, pending # << >>, Submits
  PROVE  /\ Head(pending) \in Item /\ Head(pending) \in Entries(pending)
         /\ Entries(pending) = Entries(pending') \cup {Head(pending)}
         /\ Head(pending) \notin Entries(pending') /\ Head(pending) \notin Entries(slots)
         /\ Distinct(pending')
         /\ \/ slots' = slots /\ request' = request /\ poll' = Idle /\ result' = "runtime error"
            \/ /\ slots' = Append(slots, Head(pending)) /\ request' = [request EXCEPT ![Head(pending)] = "sent"]
               /\ poll' = poll /\ result' = result
  <1>1. pending \in Seq(Item) /\ Distinct(pending) /\ pending' = Tail(pending)
    BY DEF TypeInv, SlotInv, Submits
  <1>2. /\ Head(pending) \in Item /\ Entries(pending) = Entries(pending') \cup {Head(pending)}
        /\ Head(pending) \notin Entries(pending') /\ Distinct(pending')
    BY <1>1, TailEntries
  <1>3. Head(pending) \notin Entries(slots)
    BY <1>2 DEF SlotInv
  <1> QED BY <1>2, <1>3 DEF Submits, Returns, Offered

LEMMA SlotsSubmitted ==
  ASSUME TypeInv, SlotInv, Spawn \/ Fill PROVE SlotInv'
  <1> DEFINE s == Head(pending)
  <1>1. pending # << >> /\ Submits /\ UNCHANGED options /\ result = "none"
    BY PollingUnreturned DEF Spawn, Fill
  <1>2. /\ s \in Item /\ s \in Entries(pending) /\ Entries(pending) = Entries(pending') \cup {s}
        /\ s \notin Entries(pending') /\ s \notin Entries(slots) /\ Distinct(pending')
    BY <1>1, SubmitMoves
  <1>3. Starts' = Starts
    BY <1>1 DEF Starts, Entries, Plan
  <1>4. slots \in Seq(Item) /\ Len(slots) \in Nat /\ request \in [Item -> Status]
    BY DEF TypeInv
  <1>5. Entries(pending) \subseteq Item /\ Limit' = Limit /\ Limit \in Nat /\ Pmap' = Pmap
    BY <1>1, StartsType, LimitType DEF Limit, Eligible, Pmap
  <1>6. CASE slots' = slots /\ request' = request /\ poll' = Idle /\ result' = "runtime error"
    <2>1. Entries(slots') = Entries(slots) /\ Distinct(slots') /\ Outstanding' = Outstanding
      BY <1>6 DEF Entries, Distinct, SlotInv, Outstanding
    <2>2. Open' \subseteq Starts'
      BY <1>2, <1>3, <2>1 DEF SlotInv, Open
    <2>3. Entries(pending') \cap Entries(slots') = {} /\ \A t \in Entries(pending') : request'[t] = "none"
      BY <1>2, <1>6, <2>1 DEF SlotInv
    <2>4. Pmap' => Len(slots') <= Limit'
      BY <1>5, <1>6 DEF SlotInv
    <2> QED BY <1>2, <1>6, <2>1, <2>2, <2>3, <2>4 DEF SlotInv
  <1>7. CASE /\ slots' = Append(slots, s) /\ request' = [request EXCEPT ![s] = "sent"]
             /\ poll' = poll /\ result' = result
    <2> HIDE DEF s
    <2>1. Entries(slots') = Entries(slots) \cup {s} /\ Len(slots') = Len(slots) + 1
      BY <1>2, <1>4, <1>7, AppendEntries
    <2>2. Distinct(slots')
      BY <1>2, <1>4, <1>7, AppendEntries DEF SlotInv
    <2>3. Open' \subseteq Starts'
      BY <1>2, <1>3, <2>1 DEF SlotInv, Open
    <2>4. Entries(pending') \cap Entries(slots') = {} /\ \A t \in Entries(pending') : request'[t] = "none"
      BY <1>2, <1>4, <1>5, <1>7, <2>1 DEF SlotInv
    <2>5. Outstanding' \subseteq Entries(slots')
      BY <1>2, <1>4, <1>7, <2>1 DEF SlotInv, Outstanding
    <2>6. Pmap' => Len(slots') <= Limit'
      <3>1. Pmap => Len(slots) < Limit
        BY DEF Spawn, Fill, Pmap, Gather
      <3> QED BY <1>4, <1>5, <2>1, <3>1
    <2> QED BY <1>1, <1>2, <1>7, <2>2, <2>3, <2>4, <2>5, <2>6 DEF SlotInv
  <1> QED BY <1>1, <1>6, <1>7, SubmitMoves

\* What the collection of a reply does to the slots.
LEMMA ReadyMoves ==
  ASSUME TypeInv, SlotInv, PollReady
  PROVE  /\ Slot \in Item /\ Slot \in Entries(slots) /\ Slot \notin Entries(slots')
         /\ Slot \notin Entries(pending) /\ pending' = pending
         /\ Entries(slots) = Entries(slots') \cup {Slot} /\ Distinct(slots')
         /\ Len(slots') <= Len(slots) /\ request' = [request EXCEPT ![Slot] = "taken"]
         /\ slots' \in Seq(Item)
  <1>1. Scanning /\ slots' = SwapRemoved(slots, poll.at) /\ pending' = pending
        /\ request' = [request EXCEPT ![Slot] = "taken"]
    BY DEF PollReady, Finished
  <1>2. Slot \in Item /\ poll.at \in 1..Len(slots) /\ Slot \in Entries(slots) /\ slots \in Seq(Item)
    BY <1>1, SlotType DEF TypeInv
  <1>3. /\ slots' \in Seq(Item) /\ Len(slots') = Len(slots) - 1
        /\ Entries(slots') \subseteq Entries(slots) /\ Entries(slots) \ {Slot} \subseteq Entries(slots')
        /\ Distinct(slots') /\ Slot \notin Entries(slots')
    BY <1>1, <1>2, SwapRemovedEntries DEF SlotInv, Slot
  <1>4. Len(slots) \in Nat
    BY <1>2
  <1>5. Slot \notin Entries(pending)
    BY <1>2 DEF SlotInv
  <1>6. Entries(slots) = Entries(slots') \cup {Slot}
    BY <1>2, <1>3
  <1>7. Len(slots') <= Len(slots)
    BY <1>3, <1>4
  <1> QED BY <1>1, <1>2, <1>3, <1>5, <1>6, <1>7

LEMMA SlotsReady ==
  ASSUME TypeInv, SlotInv, PollReady PROVE SlotInv'
  <1>1. UNCHANGED options /\ pending' = pending
    BY DEF PollReady
  <1>2. Starts' = Starts /\ Limit' = Limit /\ Pmap' = Pmap /\ Limit \in Nat
    BY <1>1, LimitType DEF Starts, Entries, Plan, Limit, Eligible, Pmap
  <1>3. Open' \subseteq Starts'
    BY <1>1, <1>2, ReadyMoves DEF SlotInv, Open
  <1>4. Entries(pending') \cap Entries(slots') = {} /\ Distinct(pending')
    BY <1>1, ReadyMoves DEF SlotInv
  <1>5. \A s \in Entries(pending') : request'[s] = "none"
    BY <1>1, ReadyMoves, StartsType DEF SlotInv, TypeInv
  <1>6. Outstanding' \subseteq Entries(slots')
    BY ReadyMoves DEF SlotInv, Outstanding, TypeInv, Failing
  <1>7. Pmap' => Len(slots') <= Limit'
    <2>1. Len(slots') <= Len(slots) /\ Len(slots') \in Nat /\ Len(slots) \in Nat
      <3>1. slots' \in Seq(Item) /\ slots \in Seq(Item)
        BY ReadyMoves DEF TypeInv
      <3> QED BY <3>1, ReadyMoves
    <2>2. Pmap => Len(slots) <= Limit
      BY DEF SlotInv
    <2> QED BY <1>2, <2>1, <2>2
  <1>8. result' # "none" => poll' = Idle
    <2>1. result = "none"
      BY PollingUnreturned DEF PollReady, Scanning
    <2> QED BY <2>1 DEF PollReady, Returns
  <1>9. Distinct(slots')
    BY ReadyMoves
  <1> QED BY <1>3, <1>4, <1>5, <1>6, <1>7, <1>8, <1>9 DEF SlotInv

LEMMA SlotInvariant == Spec => []SlotInv
  <1>1. Init => SlotInv
    <2> SUFFICES ASSUME Init PROVE SlotInv
      OBVIOUS
    <2>0. TypeInv
      BY InitType
    <2>1. pending = Plan(options.batch_size) /\ slots = << >> /\ poll = Idle
      BY DEF Init
    <2>2. Entries(slots) = {} /\ Distinct(slots) /\ Len(slots) = 0
      BY <2>1 DEF Entries, Distinct
    <2>3. Open \subseteq Starts
      BY <2>1, <2>2 DEF Open, Starts
    <2>4. Distinct(pending)
      <3> DEFINE size == options.batch_size
      <3>0. size \in Nat \ {0}
        BY <2>0 DEF TypeInv, OptionsType
      <3> HIDE DEF size
      <3>1. Plan(size) \in Seq(Item) /\ \A j, k \in DOMAIN Plan(size) : j < k => Plan(size)[j] + size <= Plan(size)[k]
        BY <3>0, PlanCovers
      <3>2. ASSUME NEW j \in DOMAIN Plan(size), NEW k \in DOMAIN Plan(size), j < k
            PROVE  Plan(size)[j] # Plan(size)[k]
        <4>1. Plan(size)[j] \in Item /\ Plan(size)[k] \in Item
          BY <3>1
        <4>2. Plan(size)[j] \in Int /\ Plan(size)[k] \in Int
          BY <4>1, BatchMapAssumption DEF Item
        <4> QED BY <3>0, <3>1, <3>2, <4>2
      <3>3. \A j, k \in DOMAIN Plan(size) : j # k => j < k \/ k < j
        BY <3>1
      <3> QED BY <2>1, <3>2, <3>3 DEF Distinct, size
    <2>5. request = [s \in Item |-> "none"] /\ result = "none"
      BY DEF Init
    <2>6. \A s \in Entries(pending) : request[s] = "none"
      BY <2>0, <2>5, StartsType
    <2>7. Outstanding = {}
      BY <2>5 DEF Outstanding, Failing
    <2>8. Len(slots) <= Limit
      BY <2>0, <2>2, LimitType
    <2> QED BY <2>2, <2>3, <2>4, <2>5, <2>6, <2>7, <2>8 DEF SlotInv
  <1>2. TypeInv /\ SlotInv /\ [Next]_vars => SlotInv'
    <2> SUFFICES ASSUME TypeInv, SlotInv, [Next]_vars PROVE SlotInv'
      OBVIOUS
    <2>1. CASE UNCHANGED vars
      <3>1. UNCHANGED <<options, pending, slots, request, poll, result>>
        BY <2>1 DEF vars
      <3>2. result' # "none" => poll' = Idle
        BY <3>1 DEF SlotInv
      <3> QED BY <3>1, <3>2, SlotsKept, StartsType
    <2> QED BY <2>1, SlotsPolled, SlotsSettled, SlotsDropped, SlotsSubmitted, SlotsReady
            DEF Next, Executor
  <1> QED BY <1>1, <1>2, TypeInvariant, PTL DEF Spec

\* No more requests are outstanding than the window of PmapFuture allows: every
\* one is in a slot, the slots are distinct, and poll fills up to the limit.
THEOREM WindowIsBounded == Spec => []WindowBounded
  <1>1. TypeInv /\ SlotInv => WindowBounded
    <2> SUFFICES ASSUME TypeInv, SlotInv, Pmap PROVE Cardinality(Outstanding) <= Limit
      BY DEF WindowBounded, Limit
    <2>1. slots \in Seq(Item) /\ Len(slots) \in Nat /\ Limit \in Nat
      BY LimitType DEF TypeInv
    <2>2. IsFiniteSet(Entries(slots)) /\ Cardinality(Entries(slots)) <= Len(slots)
      BY <2>1, EntriesBound
    <2>3. /\ IsFiniteSet(Outstanding) /\ Cardinality(Outstanding) \in Nat
          /\ Cardinality(Entries(slots)) \in Nat
          /\ Cardinality(Outstanding) <= Cardinality(Entries(slots))
      BY <2>2, FS_Subset, FS_CardinalityType DEF SlotInv
    <2>4. Len(slots) <= Limit
      BY DEF SlotInv
    <2> QED BY <2>1, <2>2, <2>3, <2>4
  <1> QED BY <1>1, TypeInvariant, SlotInvariant, PTL

-----------------------------------------------------------------------------
(* What pmap has collected.                                                *)

\* The reply of the batch has been stored.
Collects(s) ==
  \A i \in Batch(s) : /\ fate[i] = "ok" => outputs[i] = i
                      /\ fate[i] = "error" => first_error # 0 /\ first_error <= i

\* Until the future returns, every batch is still open or has been collected;
\* nothing is stored for an open batch.
CoverInv ==
  Pmap =>
    /\ \A i \in Item : outputs[i] \in {0, i}
    /\ first_error # 0 => fate[first_error] = "error"
    /\ \A s \in Open : \A i \in Batch(s) : outputs[i] = 0
    /\ result = "none" => \A s \in Starts : s \in Open \/ Collects(s)

LEMMA BatchesDisjoint ==
  ASSUME TypeInv, NEW s \in Starts, NEW t \in Starts, s # t
  PROVE  Batch(s) \cap Batch(t) = {}
  <1> DEFINE size == options.batch_size
             p == Plan(size)
  <1>0. size \in Nat \ {0}
    BY DEF TypeInv, OptionsType
  <1>00. p \in Seq(Item) /\ \A j, k \in DOMAIN p : j < k => p[j] + size <= p[k]
    BY <1>0, PlanCovers
  <1>1. PICK j \in DOMAIN p : s = p[j]
    BY DEF Starts, Entries
  <1>2. PICK k \in DOMAIN p : t = p[k]
    BY DEF Starts, Entries
  <1>3. j \in Nat /\ k \in Nat /\ s \in Item /\ t \in Item /\ j # k
    BY <1>00, <1>1, <1>2
  <1>4. s + size <= t \/ t + size <= s
    <2>1. j < k \/ k < j
      BY <1>3
    <2> HIDE DEF p
    <2> QED BY <1>00, <1>1, <1>2, <2>1
  <1>5. s \in Int /\ t \in Int /\ N \in Nat
    BY <1>3, BatchMapAssumption DEF Item
  <1>6. ASSUME NEW a \in {s, t}, NEW i \in Batch(a) PROVE i \in Int /\ a <= i /\ i <= a + size - 1
    BY <1>0, <1>5 DEF Batch, LowerOf
  <1> HIDE DEF size
  <1>7. ASSUME NEW i \in Batch(s), i \in Batch(t) PROVE FALSE
    <2>1. i \in Int /\ s <= i /\ i <= s + size - 1
      BY <1>6
    <2>2. t <= i /\ i <= t + size - 1
      BY <1>6, <1>7
    <2> QED BY <1>0, <1>4, <1>5, <2>1, <2>2
  <1> QED BY <1>7

LEMMA BatchesCover ==
  ASSUME TypeInv, NEW i \in Item
  PROVE  \E s \in Starts : i \in Batch(s)
  <1> DEFINE size == options.batch_size
             p == Plan(size)
  <1>0. size \in Nat \ {0} /\ N \in Nat
    BY BatchMapAssumption DEF TypeInv, OptionsType
  <1>1. p \in Seq(Item) /\ \E k \in DOMAIN p : p[k] <= i /\ i <= p[k] + size - 1
    BY <1>0, PlanCovers
  <1>2. PICK k \in DOMAIN p : p[k] <= i /\ i <= p[k] + size - 1
    BY <1>1
  <1>3. p[k] \in Starts /\ p[k] \in Item
    BY <1>1 DEF Starts, Entries
  <1>4. \A s \in Item : s <= i /\ i <= s + size - 1 => i \in Batch(s)
    BY <1>0 DEF Batch, LowerOf, Item
  <1> HIDE DEF p, size
  <1> QED BY <1>2, <1>3, <1>4

\* A step that stores nothing and leaves the open batches.
LEMMA CoverKept ==
  ASSUME CoverInv, UNCHANGED <<options, fate, outputs, first_error>>,
         Open' \subseteq Open,
         result' = "none" => result = "none" /\ Open' = Open
  PROVE  CoverInv'
  <1>1. options' = options /\ fate' = fate /\ outputs' = outputs /\ first_error' = first_error
    OBVIOUS
  <1>2. Starts' = Starts /\ Pmap' = Pmap
    BY <1>1 DEF Starts, Entries, Plan, Pmap
  <1>3. \A s : Batch(s)' = Batch(s)
    BY <1>1 DEF Batch
  <1>4. \A s : Collects(s)' = Collects(s)
    BY <1>1, <1>3 DEF Collects
  <1> QED BY <1>1, <1>2, <1>3, <1>4 DEF CoverInv

LEMMA CoverSteps ==
  ASSUME TypeInv, SlotInv, CoverInv, Next, ~PollReady, ~GatherReady
  PROVE  CoverInv'
  <1>1. UNCHANGED <<options, fate, outputs, first_error>>
    BY DEF Next, Executor, Spawn, StartPoll, Fill, FillDone, PollPending, PollFailed, PollMoved,
           PollFallback, Complete, ScanAgain, GatherEnd, Run, Reject, Settle, DropFuture
  <1>2. CASE Spawn \/ Fill
    <2>1. pending # << >> /\ Submits /\ result = "none"
      BY <1>2, PollingUnreturned DEF Spawn, Fill
    <2>2. CASE slots' = slots /\ result' = "runtime error"
      BY <1>1, <2>1, <2>2, SubmitMoves, CoverKept DEF Open
    <2>3. CASE slots' = Append(slots, Head(pending))
      <3>1. Entries(slots') = Entries(slots) \cup {Head(pending)}
        <4>1. Head(pending) \in Item /\ slots \in Seq(Item)
          BY <2>1, SubmitMoves DEF TypeInv
        <4> QED BY <2>3, <4>1, AppendEntries
      <3>2. Open' = Open
        BY <2>1, <3>1, SubmitMoves DEF Open
      <3> QED BY <1>1, <2>1, <3>2, CoverKept
    <2> QED BY <2>1, <2>2, <2>3, SubmitMoves
  <1>3. CASE DropFuture
    <2>1. Open' = {} /\ result' # "none"
      BY <1>3 DEF DropFuture, Open, Entries
    <2> QED BY <1>1, <2>1, CoverKept
  <1>4. CASE ~Spawn /\ ~Fill /\ ~DropFuture
    <2>0. UNCHANGED <<pending, slots>>
      BY <1>4 DEF Next, Executor, StartPoll, FillDone, PollPending, PollFailed, PollMoved,
           PollFallback, Complete, ScanAgain, GatherEnd, Run, Reject, Settle
    <2>1. result' = "none" => result = "none"
      <3>1. CASE Complete
        BY <3>1, PollingUnreturned DEF Complete, Scanned
      <3>2. CASE ~Complete
        BY <1>4, <3>2 DEF Next, Executor, StartPoll, FillDone, PollPending, PollFailed, PollMoved,
                PollFallback, ScanAgain, GatherEnd, Run, Reject, Settle, Returns
      <3> QED BY <3>1, <3>2
    <2>2. Open' = Open
      BY <2>0 DEF Open, Entries
    <2> QED BY <1>1, <2>1, <2>2, CoverKept
  <1> QED BY <1>2, <1>3, <1>4

\* The reply of an open batch finds no output stored.
LEMMA NothingTaken ==
  ASSUME TypeInv, SlotInv, CoverInv, PollReady
  PROVE  ~Taken(Slot) /\ Slot \in Open /\ Slot \in Starts
  BY ReadyMoves DEF PollReady, CoverInv, Open, SlotInv, Taken

LEMMA CoverReady ==
  ASSUME TypeInv, SlotInv, CoverInv, PollReady
  PROVE  CoverInv'
  <1>1. UNCHANGED <<options, fate, pending>> /\ Pmap /\ result' = result /\ result = "none"
        /\ outputs' = Stored(Slot) /\ first_error' = Lowered(Slot)
    BY NothingTaken, PollingUnreturned DEF PollReady, Scanning
  <1>2. Starts' = Starts /\ Pmap' = Pmap /\ \A s : Batch(s)' = Batch(s)
    BY <1>1 DEF Starts, Entries, Plan, Pmap, Batch
  <1>3. Slot \in Item /\ Slot \in Starts /\ Slot \in Open /\ Open' = Open \ {Slot}
    BY <1>1, NothingTaken, ReadyMoves DEF Open
  <1>4. \A i \in Item : outputs'[i] = IF i \in Batch(Slot) /\ fate[i] = "ok" THEN i ELSE outputs[i]
    BY <1>1 DEF Stored
  <1>5. \A i \in Item : outputs'[i] \in {0, i}
    BY <1>1, <1>4 DEF CoverInv
  <1>6. first_error' # 0 => fate[first_error'] = "error"
    <2>1. Lowered(Slot) # 0 => Lowered(Slot) \in Errors(Slot) \/ Lowered(Slot) = first_error
      BY <1>3, LoweredIs
    <2> QED BY <1>1, <2>1 DEF CoverInv, Errors
  <1>7. ASSUME NEW s \in Open, s # Slot, NEW i \in Batch(s) PROVE outputs'[i] = 0
    <2>1. s \in Starts /\ s \in Item
      BY StartsType DEF SlotInv
    <2>2. i \in Item /\ i \notin Batch(Slot)
      BY <1>3, <1>7, <2>1, BatchesDisjoint, BatchType
    <2> QED BY <1>1, <1>4, <2>2 DEF CoverInv
  <1>8. ASSUME NEW s \in Starts, s # Slot, Collects(s), NEW i \in Batch(s)
        PROVE  /\ fate[i] = "ok" => outputs'[i] = i
               /\ fate[i] = "error" => first_error' # 0 /\ first_error' <= i
    <2>1. s \in Item /\ i \in Item
      BY StartsType, BatchType
    <2>2. fate[i] = "ok" => outputs'[i] = i
      BY <1>4, <1>8, <2>1 DEF Collects
    <2>3. ASSUME fate[i] = "error" PROVE first_error' # 0 /\ first_error' <= i
      <3>1. first_error # 0 /\ first_error <= i
        BY <1>8, <2>3 DEF Collects
      <3>2. Lowered(Slot) # 0 /\ Lowered(Slot) <= first_error
        BY <1>3, <3>1, LoweredIs
      <3>3. Lowered(Slot) \in Int /\ first_error \in Int /\ i \in Int
        <4>1. N \in Nat /\ Lowered(Slot) \in 0..N /\ first_error \in 0..N
          BY <1>3, LoweredIs, BatchMapAssumption DEF TypeInv
        <4> QED BY <2>1, <4>1 DEF Item
      <3>4. Lowered(Slot) <= i
        BY <3>1, <3>2, <3>3
      <3> QED BY <1>1, <3>2, <3>4
    <2> QED BY <2>2, <2>3
  <1>9. ASSUME NEW i \in Batch(Slot)
        PROVE  /\ fate[i] = "ok" => outputs'[i] = i
               /\ fate[i] = "error" => first_error' # 0 /\ first_error' <= i
    <2>1. i \in Item
      BY <1>3, BatchType
    <2>2. fate[i] = "ok" => outputs'[i] = i
      BY <1>4, <2>1
    <2>3. ASSUME fate[i] = "error" PROVE first_error' # 0 /\ first_error' <= i
      <3>1. i \in Errors(Slot)
        BY <2>3 DEF Errors
      <3> QED BY <1>1, <1>3, <3>1, LoweredIs
    <2> QED BY <2>2, <2>3
  <1>10. \A s \in Starts : s \in Open' \/ Collects(s)'
    <2> SUFFICES ASSUME NEW s \in Starts, s \notin Open' PROVE Collects(s)'
      OBVIOUS
    <2>1. s = Slot \/ Collects(s)
      BY <1>1, <1>3 DEF CoverInv
    <2> QED BY <1>1, <1>2, <1>8, <1>9, <2>1 DEF Collects
  <1>11. \A s \in Open' : \A i \in Batch(s)' : outputs'[i] = 0
    BY <1>2, <1>3, <1>7
  <1> QED BY <1>1, <1>2, <1>5, <1>6, <1>10, <1>11 DEF CoverInv

-----------------------------------------------------------------------------
(* What gather has collected.                                              *)

\* The futures keep the order of the input, and as long as a scan has met no
\* pending one, the values before its position are in place.
GatherInv ==
  Gather =>
    /\ poll.pc # "fill"
    /\ \A k \in DOMAIN slots : slots[k] = k
    /\ result = "none" => /\ \A k \in DOMAIN pending : pending[k] = Len(slots) + k
                          /\ Len(slots) + Len(pending) = N
    /\ poll.pc = "scan" => pending = << >>
    /\ poll.pc = "scan" /\ ~poll.waits =>
         \A k \in 1..(poll.at - 1) : outputs[k] = k /\ request[k] = "taken"

LEMMA GatherSpawns ==
  ASSUME TypeInv, SlotInv, GatherInv, Spawn
  PROVE  GatherInv'
  <1> DEFINE s == Head(pending)
  <1>1. Gather /\ result = "none" /\ pending # << >> /\ Submits /\ UNCHANGED <<options, outputs>>
    BY DEF Spawn
  <1>2. poll.pc # "scan" /\ poll.pc # "fill"
    BY <1>1 DEF GatherInv
  <1>3. poll'.pc # "scan" /\ poll'.pc # "fill"
    BY <1>1, <1>2, SubmitMoves, IdleType
  <1>4. /\ pending \in Seq(Item) /\ slots \in Seq(Item) /\ pending' = Tail(pending) /\ s = pending[1]
        /\ Len(pending) \in Nat \ {0} /\ Len(slots) \in Nat /\ 1 \in DOMAIN pending
    <2>1. pending \in Seq(Item) /\ slots \in Seq(Item) /\ pending # << >> /\ pending' = Tail(pending)
      BY <1>1 DEF TypeInv, Submits
    <2> QED BY <2>1
  <1>5. s = Len(slots) + 1 /\ s \in Item
    BY <1>1, <1>4 DEF GatherInv
  <1>6. CASE slots' = slots /\ result' = "runtime error"
    BY <1>1, <1>3, <1>6 DEF GatherInv, Gather
  <1>7. CASE slots' = Append(slots, s) /\ result' = result
    <2> HIDE DEF s
    <2>1. /\ DOMAIN slots' = 1..(Len(slots) + 1) /\ Len(slots') = Len(slots) + 1
          /\ \A k \in 1..Len(slots) : slots'[k] = slots[k]
          /\ slots'[Len(slots) + 1] = s
      BY <1>4, <1>5, <1>7, AppendEntries
    <2>2. \A k \in 1..Len(slots) : slots[k] = k
      BY <1>1, <1>4 DEF GatherInv
    <2>3. \A k \in 1..(Len(slots) + 1) : k \in 1..Len(slots) \/ k = Len(slots) + 1
      BY <1>4
    <2>4. \A k \in DOMAIN slots' : slots'[k] = k
      BY <1>5, <2>1, <2>2, <2>3
    <2>5. /\ DOMAIN pending' = 1..(Len(pending) - 1) /\ Len(pending') = Len(pending) - 1
          /\ \A k \in DOMAIN pending' : pending'[k] = pending[k + 1]
      BY <1>1, <1>4, TailEntries
    <2>6. \A k \in DOMAIN pending : pending[k] = Len(slots) + k
      BY <1>1 DEF GatherInv
    <2>7. ASSUME NEW k \in DOMAIN pending' PROVE pending'[k] = Len(slots') + k
      <3>1. k \in Nat /\ k + 1 \in DOMAIN pending
        BY <1>4, <2>5
      <3>2. pending'[k] = Len(slots) + (k + 1)
        BY <2>5, <2>6, <3>1
      <3> QED BY <1>4, <2>1, <3>1, <3>2
    <2>8. Len(slots') + Len(pending') = N
      <3>1. Len(slots) + Len(pending) = N
        BY <1>1 DEF GatherInv
      <3> QED BY <1>4, <2>1, <2>5, <3>1
    <2> QED BY <1>3, <2>4, <2>7, <2>8 DEF GatherInv
  <1> QED BY <1>1, <1>6, <1>7, SubmitMoves

\* A poll of a slot advances one position.
LEMMA GatherKept ==
  ASSUME TypeInv, GatherInv, UNCHANGED <<options, pending, slots>>,
         result' = "none" => result = "none",
         \/ poll'.pc = "idle"
         \/ /\ poll.pc = "scan" /\ poll'.pc = "scan"
            /\ poll'.waits \/ (poll'.waits = poll.waits /\ poll'.at = poll.at)
            /\ \A k \in Item : request[k] = "taken" => request'[k] = "taken" /\ outputs'[k] = outputs[k]
         \/ poll' = poll /\ \A k \in Item : request[k] = "taken" => request'[k] = "taken" /\ outputs'[k] = outputs[k],
         poll.at - 1 <= N
  PROVE  GatherInv'
  <1>1. options' = options /\ pending' = pending /\ slots' = slots /\ Gather' = Gather
    BY DEF Gather
  <1>2. poll.at \in Nat /\ N \in Nat
    BY BatchMapAssumption DEF TypeInv, PollType, PollSet
  <1>3. ASSUME Gather, poll.pc = "scan", ~poll.waits, NEW k \in 1..(poll.at - 1),
               \A i \in Item : request[i] = "taken" => request'[i] = "taken" /\ outputs'[i] = outputs[i]
        PROVE  outputs'[k] = k /\ request'[k] = "taken"
    <2>1. k \in Item
      BY <1>2 DEF Item
    <2>2. outputs[k] = k /\ request[k] = "taken"
      BY <1>3 DEF GatherInv
    <2> QED BY <1>3, <2>1, <2>2
  <1>4. CASE poll'.pc = "idle"
    BY <1>1, <1>4 DEF GatherInv
  <1>5. CASE /\ poll.pc = "scan" /\ poll'.pc = "scan"
             /\ poll'.waits \/ (poll'.waits = poll.waits /\ poll'.at = poll.at)
             /\ \A k \in Item : request[k] = "taken" => request'[k] = "taken" /\ outputs'[k] = outputs[k]
    BY <1>1, <1>3, <1>5 DEF GatherInv
  <1>6. CASE poll' = poll /\ \A k \in Item : request[k] = "taken" => request'[k] = "taken" /\ outputs'[k] = outputs[k]
    BY <1>1, <1>3, <1>6 DEF GatherInv
  <1> QED BY <1>4, <1>5, <1>6

\* gather, broadcast and scatter scan at most one future for each item.
LEMMA GatherRange ==
  ASSUME TypeInv, GatherInv, Gather, SlotInv
  PROVE  poll.at \in Nat /\ poll.at - 1 <= N
  <1>1. poll.at \in Nat /\ poll.at <= Len(slots) + 1 /\ Len(slots) \in Nat /\ slots \in Seq(Item)
    BY DEF TypeInv, PollType, PollSet, PollRange
  <1>2. CASE Len(slots) = 0
    BY <1>1, <1>2, BatchMapAssumption
  <1>3. CASE Len(slots) # 0
    <2>1. Len(slots) \in DOMAIN slots
      BY <1>1, <1>3
    <2>2. slots[Len(slots)] = Len(slots) /\ slots[Len(slots)] \in Item
      BY <1>1, <2>1 DEF GatherInv
    <2>3. Len(slots) <= N
      BY <2>2, BatchMapAssumption DEF Item
    <2> QED BY <1>1, <2>3, BatchMapAssumption
  <1> QED BY <1>2, <1>3

LEMMA GatherReads ==
  ASSUME TypeInv, SlotInv, GatherInv, GatherReady
  PROVE  GatherInv'
  <1>1. /\ Gather /\ Scanning /\ UNCHANGED <<options, pending, slots, result>>
        /\ request' = [request EXCEPT ![Slot] = "taken"] /\ outputs' = [outputs EXCEPT ![poll.at] = Slot]
    BY DEF GatherReady
  <1>2. poll'.at = poll.at + 1 /\ poll'.waits = poll.waits /\ poll'.pc = poll.pc
    BY PollAfter DEF TypeInv, PollType
  <1>3. Slot \in Item /\ poll.at \in 1..Len(slots) /\ Len(slots) \in Nat /\ slots \in Seq(Item)
    BY <1>1, SlotType DEF TypeInv
  <1>4. Slot = poll.at /\ poll.at \in Nat
    BY <1>1, <1>3 DEF GatherInv, Slot
  <1>5. request \in [Item -> Status] /\ outputs \in [Item -> 0..N] /\ N \in Nat
    BY BatchMapAssumption DEF TypeInv
  <1>6. poll.at - 1 <= N
    BY <1>1, GatherRange
  <1>7. ASSUME ~poll.waits, NEW k \in 1..(poll'.at - 1) PROVE outputs'[k] = k /\ request'[k] = "taken"
    <2>1. CASE k = poll.at
      BY <1>1, <1>3, <1>4, <1>5, <2>1
    <2>2. CASE k # poll.at
      <3>1. k \in 1..(poll.at - 1) /\ k \in Item
        BY <1>2, <1>4, <1>5, <1>6, <2>2 DEF Item
      <3>2. outputs[k] = k /\ request[k] = "taken"
        BY <1>1, <1>7, <3>1 DEF GatherInv, Scanning
      <3> QED BY <1>1, <1>4, <1>5, <2>2, <3>1, <3>2
    <2> QED BY <2>1, <2>2
  <1>8. pending' = pending /\ slots' = slots /\ Gather' /\ result' = result
    BY <1>1 DEF Gather
  <1> QED BY <1>1, <1>2, <1>7, <1>8 DEF GatherInv

LEMMA GatherPolls ==
  ASSUME TypeInv, SlotInv, GatherInv,
         \/ StartPoll \/ PollPending \/ PollFailed \/ PollMoved \/ PollFallback \/ GatherEnd
         \/ \E s \in Item : Run(s) \/ Reject(s)
  PROVE  GatherInv'
  <1> SUFFICES ASSUME Gather PROVE GatherInv'
    <2>1. UNCHANGED options
      BY DEF StartPoll, PollPending, PollFailed, PollMoved, PollFallback, GatherEnd, Run, Reject, Settle
    <2> QED BY <2>1 DEF GatherInv, Gather
  <1>0. poll \in PollSet /\ poll.at - 1 <= N /\ request \in [Item -> Status]
    BY GatherRange DEF TypeInv, PollType
  <1>1. CASE StartPoll
    <2>1. /\ UNCHANGED <<options, pending, slots, request, outputs, result>> /\ pending = << >>
          /\ poll'.at = 1 /\ poll'.pc = "scan"
      BY <1>0, <1>1, PollAfter DEF StartPoll, Pmap, Gather
    <2>2. 1..(poll'.at - 1) = {}
      BY <2>1
    <2>3. pending' = pending /\ slots' = slots /\ result' = result /\ Gather'
      BY <2>1 DEF Gather
    <2> QED BY <2>1, <2>2, <2>3 DEF GatherInv
  <1>2. CASE PollPending
    <2>1. UNCHANGED <<options, pending, slots, request, outputs, result>> /\ poll.pc = "scan"
      BY <1>2 DEF PollPending, Scanning
    <2>2. poll'.pc = "scan" /\ poll'.waits
      BY <1>0, <1>2, <2>1, PollAfter
    <2> QED BY <1>0, <2>1, <2>2, GatherKept
  <1>3. CASE PollFailed \/ PollMoved \/ PollFallback
    <2>1. UNCHANGED <<options, pending, slots, outputs>> /\ Scanning
      BY <1>3 DEF PollFailed, PollMoved, PollFallback
    <2>2. result = "none" /\ (poll' = Idle \/ poll' = poll)
      BY <1>3, <2>1, PollingUnreturned DEF PollFailed, PollMoved, PollFallback, Scanning, Returns
    <2>3. request[Slot] # "taken" /\ \E how \in Status : request' = [request EXCEPT ![Slot] = how]
      BY <1>3 DEF PollFailed, PollMoved, PollFallback, Finished, Offered, Status, Failing, Redirected,
                  FallsBack
    <2>4. \A k \in Item : request[k] = "taken" => request'[k] = "taken"
      BY <1>0, <2>3
    <2> QED BY <1>0, <2>1, <2>2, <2>4, GatherKept, IdleType
  <1>4. CASE GatherEnd
    <2>1. UNCHANGED <<options, pending, slots>> /\ poll' = Idle /\ result = "none"
      BY <1>4, PollingUnreturned DEF GatherEnd, Returns, Scanned
    <2> QED BY <1>0, <2>1, GatherKept, IdleType
  <1>5. ASSUME NEW s \in Item, Run(s) \/ Reject(s) PROVE GatherInv'
    <2>1. PICK how : Settle(s, how)
      BY <1>5 DEF Run, Reject
    <2>2. UNCHANGED <<options, pending, slots, outputs, poll, result>> /\ request[s] = "sent"
          /\ request' = [request EXCEPT ![s] = how]
      BY <2>1 DEF Settle
    <2>3. \A k \in Item : request[k] = "taken" => request'[k] = "taken"
      BY <1>0, <2>2
    <2> QED BY <1>0, <2>2, <2>3, GatherKept
  <1> QED BY <1>1, <1>2, <1>3, <1>4, <1>5

LEMMA GatherSteps ==
  ASSUME TypeInv, SlotInv, GatherInv, Next
  PROVE  GatherInv'
  <1>1. CASE Fill \/ FillDone
    <2>1. ~Gather /\ UNCHANGED options
      BY <1>1 DEF GatherInv, Fill, FillDone
    <2> QED BY <2>1 DEF GatherInv, Gather
  <1>2. CASE PollReady \/ Complete \/ ScanAgain
    <2>1. ~Gather /\ UNCHANGED options
      BY <1>2 DEF PollReady, Complete, ScanAgain, Pmap, Gather
    <2> QED BY <2>1 DEF GatherInv, Gather
  <1>3. CASE DropFuture
    <2>1. slots' = << >> /\ pending' = << >> /\ poll' = Idle /\ result' # "none"
      BY <1>3 DEF DropFuture
    <2>2. DOMAIN slots' = {}
      BY <2>1
    <2> QED BY <2>1, <2>2, IdleType DEF GatherInv
  <1> QED BY <1>1, <1>2, <1>3, GatherPolls, GatherSpawns, GatherReads DEF Next, Executor

-----------------------------------------------------------------------------
(* What the future returns.                                                *)

\* What pmap returns once every batch is collected.
LEMMA PmapAnswers ==
  ASSUME TypeInv, SlotInv, CoverInv, Complete
  PROVE  /\ result' \in {"ok", "callback error"} /\ Unanswered = {}
         /\ result' = "ok" => \A i \in Item : outputs[i] = i /\ fate[i] = "ok"
         /\ result' = "callback error" => /\ first_error \in Item /\ fate[first_error] = "error"
                                          /\ \A i \in Item : i < first_error => fate[i] = "ok"
  <1>1. Pmap /\ Scanned /\ pending = << >> /\ slots = << >> /\ result' = Answer
    BY DEF Complete, Collected, Returns
  <1>2. result = "none" /\ Open = {}
    BY <1>1, PollingUnreturned DEF Scanned, Open, Entries
  <1>3. Unanswered = {}
    BY <1>1, <1>2 DEF SlotInv, Unanswered, Outstanding, Open
  <1>4. ASSUME NEW i \in Item
        PROVE  /\ fate[i] = "ok" => outputs[i] = i
               /\ fate[i] = "error" => first_error # 0 /\ first_error <= i
    <2>1. PICK s \in Starts : i \in Batch(s)
      BY BatchesCover
    <2>2. Collects(s)
      BY <1>1, <1>2 DEF CoverInv
    <2> QED BY <2>1, <2>2 DEF Collects
  <1>5. \A i \in Item : i # 0 /\ i \in Int /\ fate[i] \in {"ok", "error"}
    BY BatchMapAssumption DEF Item, TypeInv
  <1>6. CASE first_error = 0
    <2>1. \A i \in Item : outputs[i] = i /\ fate[i] = "ok"
      BY <1>4, <1>5, <1>6
    <2>2. result' = "ok"
      BY <1>1, <1>5, <1>6, <2>1 DEF Answer
    <2> QED BY <1>3, <2>1, <2>2
  <1>7. CASE first_error # 0
    <2>1. result' = "callback error"
      BY <1>1, <1>7 DEF Answer
    <2>2. first_error \in Item /\ fate[first_error] = "error"
      BY <1>1, <1>7, BatchMapAssumption DEF TypeInv, Item, CoverInv
    <2>3. \A i \in Item : i < first_error => fate[i] = "ok"
      BY <1>4, <1>5, <2>2
    <2> QED BY <1>3, <2>1, <2>2, <2>3
  <1> QED BY <1>6, <1>7

\* gather, broadcast or scatter returns when a scan has met no pending future.
LEMMA GatherAnswers ==
  ASSUME TypeInv, SlotInv, GatherInv, GatherEnd, result' # "none"
  PROVE  result' = "ok" /\ (\A i \in Item : outputs[i] = i) /\ Unanswered = {} /\ Gather
  <1>1. Gather /\ Scanned /\ result = "none"
    BY PollingUnreturned DEF GatherEnd, Scanned
  <1>2. ~poll.waits /\ result' = "ok"
    BY <1>1 DEF GatherEnd, Returns
  <1>3. pending = << >> /\ poll.pc = "scan" /\ poll.at > Len(slots) /\ Len(slots) + Len(pending) = N
    BY <1>1 DEF GatherInv, Scanned
  <1>4. Len(slots) = N /\ poll.at \in Nat
    <2>1. Len(pending) = 0 /\ Len(slots) \in Nat /\ poll.at \in Nat
      BY <1>3 DEF TypeInv, PollType, PollSet
    <2> QED BY <1>3, <2>1
  <1>5. \A i \in Item : i \in 1..(poll.at - 1)
    BY <1>3, <1>4, BatchMapAssumption DEF Item
  <1>6. \A i \in Item : outputs[i] = i /\ request[i] = "taken"
    BY <1>1, <1>2, <1>3, <1>5 DEF GatherInv
  <1> QED BY <1>1, <1>2, <1>6 DEF Unanswered

ResultInv == ResultsInOrder /\ LowestErrorWins

\* A step by which the future does not return keeps what it has returned.
LEMMA ResultKept ==
  ASSUME ResultInv, UNCHANGED <<options, fate>>,
         \/ result' \in {"none", "runtime error", "dropped"}
         \/ result' = result /\ UNCHANGED <<outputs, first_error>> /\ Unanswered' \subseteq Unanswered
  PROVE  ResultInv'
  BY DEF ResultInv, ResultsInOrder, LowestErrorWins, Pmap

LEMMA ResultSteps ==
  ASSUME TypeInv, SlotInv, CoverInv, GatherInv, ResultInv, Next
  PROVE  ResultInv'
  <1>0. UNCHANGED <<options, fate>>
    BY DEF Next, Executor, Spawn, StartPoll, Fill, FillDone, PollPending, PollFailed, PollMoved,
           PollFallback, PollReady, Complete, ScanAgain, GatherReady, GatherEnd, Run, Reject, Settle, DropFuture
  <1>1. CASE Spawn \/ Fill
    <2>1. pending # << >> /\ Submits /\ result = "none"
      BY <1>1, PollingUnreturned DEF Spawn, Fill
    <2>2. result' \in {"none", "runtime error"}
      BY <2>1, SubmitMoves
    <2> QED BY <1>0, <2>2, ResultKept
  <1>2. CASE StartPoll \/ FillDone \/ PollPending \/ PollMoved \/ ScanAgain \/ GatherReady
    <2>1. result = "none"
      BY <1>2, PollingUnreturned DEF StartPoll, FillDone, PollPending, PollMoved, ScanAgain, GatherReady,
                                     Scanning, Scanned
    <2>2. result' = "none"
      BY <1>2, <2>1 DEF StartPoll, FillDone, PollPending, PollMoved, ScanAgain, GatherReady
    <2> QED BY <1>0, <2>2, ResultKept
  <1>3. CASE PollFailed \/ PollFallback
    <2>1. result = "none"
      BY <1>3, PollingUnreturned DEF PollFailed, PollFallback, Scanning
    <2>2. result' \in {"none", "runtime error"}
      BY <1>3, <2>1 DEF PollFailed, PollFallback, Returns
    <2> QED BY <1>0, <2>2, ResultKept
  <1>4. CASE PollReady
    <2>1. result' = "none"
      BY <1>4, NothingTaken, PollingUnreturned DEF PollReady, Scanning
    <2> QED BY <1>0, <2>1, ResultKept
  <1>5. CASE Complete
    <2>1. UNCHANGED <<outputs, first_error, request>>
      BY <1>5 DEF Complete
    <2>2. Unanswered' = Unanswered
      BY <2>1 DEF Unanswered
    <2> QED BY <1>0, <1>5, <2>1, <2>2, PmapAnswers DEF ResultInv, ResultsInOrder, LowestErrorWins, Pmap
  <1>6. CASE GatherEnd
    <2>1. UNCHANGED <<outputs, request>>
      BY <1>6 DEF GatherEnd
    <2>2. Unanswered' = Unanswered
      BY <2>1 DEF Unanswered
    <2>3. CASE result' = "none"
      BY <1>0, <2>3, ResultKept
    <2>4. CASE result' # "none"
      BY <1>0, <1>6, <2>1, <2>2, <2>4, GatherAnswers DEF ResultInv, ResultsInOrder, LowestErrorWins, Pmap, Gather
    <2> QED BY <2>3, <2>4
  <1>7. ASSUME NEW s \in Item, Run(s) \/ Reject(s) PROVE ResultInv'
    <2>1. PICK how \in {"replied"} \cup Failing : Settle(s, how)
      BY <1>7 DEF Run, Reject, Failing, OwnError
    <2>2. UNCHANGED <<outputs, first_error, result>> /\ request' = [request EXCEPT ![s] = how]
      BY <2>1 DEF Settle
    <2>3. Unanswered' \subseteq Unanswered
      BY <2>2 DEF Unanswered, TypeInv, Failing
    <2> QED BY <1>0, <2>2, <2>3, ResultKept
  <1>8. CASE DropFuture
    <2>1. result' = "dropped" \/ result' = result
      BY <1>8 DEF DropFuture
    <2>2. UNCHANGED <<outputs, first_error>>
      BY <1>8 DEF DropFuture
    <2>3. Unanswered' \subseteq Unanswered
      BY <1>8 DEF DropFuture, Unanswered, TypeInv
    <2> QED BY <1>0, <2>1, <2>2, <2>3, ResultKept
  <1> QED BY <1>1, <1>2, <1>3, <1>4, <1>5, <1>6, <1>7, <1>8 DEF Next, Executor

CollectInv == CoverInv /\ GatherInv /\ ResultInv

LEMMA CollectInit ==
  ASSUME Init PROVE CollectInv
  <1>0. TypeInv /\ slots = << >> /\ poll = Idle /\ result = "none" /\ first_error = 0
        /\ outputs = [i \in Item |-> 0] /\ pending = Plan(options.batch_size)
    BY InitType DEF Init
  <1>1. CoverInv
    <2>1. \A i \in Item : outputs[i] = 0
      BY <1>0
    <2>2. Starts = Open
      BY <1>0 DEF Starts, Open, Entries
    <2>3. \A s \in Open : Batch(s) \subseteq Item
      BY <1>0, <2>2, StartsType, BatchType
    <2> QED BY <1>0, <2>1, <2>2, <2>3 DEF CoverInv
  <1>2. GatherInv
    <2> SUFFICES ASSUME Gather PROVE GatherInv
      BY DEF GatherInv
    <2>1. options.batch_size = 1 /\ N \in Nat
      BY <1>0, BatchMapAssumption DEF TypeInv, OptionsType
    <2>2. (N + 1 - 1) \div 1 = N
      BY <2>1
    <2>3. pending = [k \in 1..N |-> (k - 1) * 1 + 1]
      BY <1>0, <2>1, <2>2 DEF Plan
    <2>4. Len(pending) = N /\ DOMAIN pending = 1..N /\ \A k \in 1..N : pending[k] = k
      BY <2>1, <2>3
    <2>5. Len(slots) = 0 /\ DOMAIN slots = {}
      BY <1>0
    <2> QED BY <1>0, <2>1, <2>4, <2>5, IdleType DEF GatherInv
  <1>3. ResultInv
    BY <1>0 DEF ResultInv, ResultsInOrder, LowestErrorWins
  <1> QED BY <1>1, <1>2, <1>3 DEF CollectInv

LEMMA CollectInvariant == Spec => []CollectInv
  <1>1. Init => CollectInv
    BY CollectInit
  <1>2. TypeInv /\ SlotInv /\ CollectInv /\ [Next]_vars => CollectInv'
    <2> SUFFICES ASSUME TypeInv, SlotInv, CollectInv, [Next]_vars PROVE CollectInv'
      OBVIOUS
    <2>0. CoverInv /\ GatherInv /\ ResultInv
      BY DEF CollectInv
    <2>1. CASE UNCHANGED vars
      <3>1. UNCHANGED <<options, fate, pending, slots, request, outputs, first_error, poll, result>>
        BY <2>1 DEF vars
      <3>2. CoverInv'
        BY <2>0, <3>1, CoverKept DEF Open, Entries
      <3>3. GatherInv'
        BY <2>0, <3>1 DEF GatherInv, Gather
      <3>4. ResultInv'
        BY <2>0, <3>1 DEF ResultInv, ResultsInOrder, LowestErrorWins, Pmap, Unanswered
      <3> QED BY <3>2, <3>3, <3>4 DEF CollectInv
    <2>2. CASE Next
      <3>1. GatherInv' /\ ResultInv'
        BY <2>0, <2>2, GatherSteps, ResultSteps
      <3>2. CoverInv'
        <4>1. CASE GatherReady
          BY <4>1 DEF GatherReady, CoverInv, Gather, Pmap
        <4> QED BY <2>0, <2>2, <4>1, CoverSteps, CoverReady
      <3> QED BY <3>1, <3>2 DEF CollectInv
    <2> QED BY <2>1, <2>2
  <1> QED BY <1>1, <1>2, TypeInvariant, SlotInvariant, PTL DEF Spec

\* A successful pmap, gather, broadcast or scatter has every value at its item's
\* index, whatever order the batches were answered in, and no reply ever meets
\* an output that is already stored.
THEOREM ValuesInInputOrder == Spec => []ResultsInOrder
  <1>1. CollectInv => ResultsInOrder
    BY DEF CollectInv, ResultInv
  <1> QED BY <1>1, CollectInvariant, PTL

\* pmap returns the error of the lowest failing item, succeeds only when none
\* failed, and in both cases leaves no request running.
THEOREM LowestErrorIsReturned == Spec => []LowestErrorWins
  <1>1. CollectInv => LowestErrorWins
    BY DEF CollectInv, ResultInv
  <1> QED BY <1>1, CollectInvariant, PTL

-----------------------------------------------------------------------------
(* Where a batch was let run.                                              *)
Early == {"none", "sent", "moved", "saturated"}

\* A batch that is still to be answered has not run at the place where it is,
\* nor anywhere before unless its own error read as saturation; it is at its
\* fallback only after home refused it.
AdmitOne(s) ==
  /\ options.fallback = "reject" => placed[s] = "home" /\ admitted[s]["fallback"] = 0
  /\ request[s] \in {"none", "moved"} => placed[s] = "home"
  /\ request[s] \in {"none", "sent", "moved"} => admitted[s][placed[s]] = 0
  /\ placed[s] = "home" /\ request[s] \in Early => admitted[s]["fallback"] = 0
  /\ options.errors = "plain" /\ (request[s] \in Early \/ placed[s] = "fallback") =>
       admitted[s]["home"] = 0
  /\ admitted[s]["home"] \in 0..1 /\ admitted[s]["fallback"] \in 0..1
  /\ options.errors = "plain" => admitted[s]["home"] + admitted[s]["fallback"] <= 1
AdmitInv == \A s \in Item : AdmitOne(s)

LEMMA AdmitKept ==
  ASSUME NEW s \in Item, AdmitOne(s), UNCHANGED options,
         request'[s] = request[s], placed'[s] = placed[s], admitted'[s] = admitted[s]
  PROVE  AdmitOne(s)'
  BY DEF AdmitOne

\* A batch whose future is gone has no place any more.
LEMMA AdmitFinished ==
  ASSUME NEW s \in Item, AdmitOne(s), UNCHANGED options,
         request'[s] \in {"taken", "cancelled"}, admitted'[s] = admitted[s],
         placed'[s] \in {"home", placed[s]}
  PROVE  AdmitOne(s)'
  BY DEF AdmitOne, Early

\* A batch is offered again at home, or home's answer is known.
LEMMA AdmitStays ==
  ASSUME NEW s \in Item, AdmitOne(s), UNCHANGED options,
         admitted'[s] = admitted[s], placed'[s] = placed[s],
         \/ request[s] \in {"none", "moved"} /\ request'[s] \in {"sent", "saturated"}
         \/ request[s] = "sent" /\ request'[s] \in {"failed", "saturated"}
         \/ request[s] = "sent" /\ request'[s] = "moved" /\ placed[s] = "home"
  PROVE  AdmitOne(s)'
  BY DEF AdmitOne, Early

LEMMA AdmitFallback ==
  ASSUME NEW s \in Item, AdmitOne(s), UNCHANGED options,
         request[s] = "saturated", placed[s] = "home", options.fallback = "place",
         admitted'[s] = admitted[s], placed'[s] = "fallback", request'[s] = "sent"
  PROVE  AdmitOne(s)'
  BY DEF AdmitOne, Early

LEMMA AdmitRun ==
  ASSUME NEW s \in Item, AdmitOne(s), UNCHANGED options, placed[s] \in Placement,
         admitted[s] \in [Placement -> Nat],
         request[s] = "sent", placed'[s] = placed[s],
         admitted'[s] = [admitted[s] EXCEPT ![placed[s]] = @ + 1],
         request'[s] \in {"replied", "failed", "saturated"},
         options.errors = "plain" => request'[s] # "saturated"
  PROVE  AdmitOne(s)'
  <1>1. CASE placed[s] = "home"
    <2>1. admitted'[s]["home"] = admitted[s]["home"] + 1 /\ admitted'[s]["fallback"] = admitted[s]["fallback"]
      BY <1>1 DEF Placement
    <2>2. admitted[s]["home"] = 0 /\ admitted[s]["fallback"] = 0
      BY <1>1 DEF AdmitOne, Early
    <2>3. admitted'[s]["home"] = 1 /\ admitted'[s]["fallback"] = 0
      BY <2>1, <2>2
    <2> QED BY <1>1, <2>3 DEF AdmitOne, Early
  <1>2. CASE placed[s] = "fallback"
    <2>1. admitted'[s]["fallback"] = admitted[s]["fallback"] + 1 /\ admitted'[s]["home"] = admitted[s]["home"]
      BY <1>2 DEF Placement
    <2>2. admitted[s]["fallback"] = 0 /\ options.fallback # "reject"
          /\ (options.errors = "plain" => admitted[s]["home"] = 0) /\ admitted[s]["home"] \in 0..1
      BY <1>2 DEF AdmitOne, Early
    <2>3. admitted'[s]["fallback"] = 1
      BY <2>1, <2>2
    <2> QED BY <1>2, <2>1, <2>2, <2>3 DEF AdmitOne, Early
  <1> QED BY <1>1, <1>2 DEF Placement

LEMMA AdmitSteps ==
  ASSUME TypeInv, SlotInv, AdmitInv, Next
  PROVE  AdmitInv'
  <1>0. UNCHANGED options
    BY DEF Next, Executor, Spawn, StartPoll, Fill, FillDone, PollPending, PollFailed, PollMoved,
           PollFallback, PollReady, Complete, ScanAgain, GatherReady, GatherEnd, Run, Reject, Settle, DropFuture
  <1> SUFFICES ASSUME NEW t \in Item PROVE AdmitOne(t)'
    BY DEF AdmitInv
  <1>a. AdmitOne(t)
    BY DEF AdmitInv
  <1>b. /\ request \in [Item -> Status] /\ placed \in [Item -> Placement]
        /\ admitted \in [Item -> [Placement -> Nat]]
    BY DEF TypeInv, AdmittedType
  <1>1. CASE Spawn \/ Fill
    <2>1. pending # << >> /\ Submits /\ UNCHANGED <<placed, admitted>>
      BY <1>1 DEF Spawn, Fill, placement
    <2>2. Head(pending) \in Entries(pending)
      BY <2>1, SubmitMoves
    <2>3. request' = request \/ request' = [request EXCEPT ![Head(pending)] = "sent"]
      BY <2>1, SubmitMoves
    <2>4. CASE request'[t] = request[t]
      BY <1>0, <1>a, <2>1, <2>4, AdmitKept
    <2>5. CASE request'[t] # request[t]
      <3>1. t = Head(pending) /\ request'[t] = "sent"
        BY <1>b, <2>3, <2>5
      <3>2. request[t] = "none"
        BY <2>2, <3>1 DEF SlotInv
      <3> QED BY <1>0, <1>a, <2>1, <3>1, <3>2, AdmitStays
    <2> QED BY <2>4, <2>5
  <1>2. CASE StartPoll \/ FillDone \/ PollPending \/ Complete \/ ScanAgain \/ GatherEnd
    <2>1. UNCHANGED <<request, placed, admitted>>
      BY <1>2 DEF StartPoll, FillDone, PollPending, Complete, ScanAgain, GatherEnd, placement
    <2> QED BY <1>0, <1>a, <2>1, AdmitKept
  <1>3. CASE PollFailed \/ PollReady \/ GatherReady \/ PollMoved \/ PollFallback
    <2>1. Slot \in Item /\ UNCHANGED admitted
      BY <1>3, SlotType DEF PollFailed, PollReady, GatherReady, PollMoved, PollFallback, placement
    <2>2. ASSUME Finished(Slot) PROVE AdmitOne(t)'
      <3>1. request' = [request EXCEPT ![Slot] = "taken"] /\ placed' = [placed EXCEPT ![Slot] = "home"]
        BY <2>2 DEF Finished
      <3>2. CASE t = Slot
        <4>1. request'[t] = "taken" /\ placed'[t] = "home"
          BY <1>b, <2>1, <3>1, <3>2
        <4> QED BY <1>0, <1>a, <2>1, <4>1, AdmitFinished
      <3>3. CASE t # Slot
        <4>1. request'[t] = request[t] /\ placed'[t] = placed[t]
          BY <1>b, <3>1, <3>3
        <4> QED BY <1>0, <1>a, <2>1, <4>1, AdmitKept
      <3> QED BY <3>2, <3>3
    <2>3. CASE PollFailed \/ PollReady
      BY <2>2, <2>3 DEF PollFailed, PollReady
    <2>4. CASE GatherReady
      <3>1. request' = [request EXCEPT ![Slot] = "taken"] /\ UNCHANGED placed
        BY <2>4 DEF GatherReady, placement
      <3>2. request'[t] = request[t] \/ request'[t] = "taken"
        BY <1>b, <3>1
      <3> QED BY <1>0, <1>a, <2>1, <3>1, <3>2, AdmitFinished, AdmitKept
    <2>5. CASE PollMoved
      <3>1. UNCHANGED placed /\ request[Slot] = "moved"
        BY <2>5 DEF PollMoved, Redirected
      <3>2. \E how \in {"sent", "saturated"} : request' = [request EXCEPT ![Slot] = how]
        BY <2>5 DEF PollMoved, Offered
      <3>3. CASE t = Slot
        <4>1. request'[t] \in {"sent", "saturated"}
          BY <1>b, <3>2, <3>3
        <4> QED BY <1>0, <1>a, <2>1, <3>1, <3>3, <4>1, AdmitStays
      <3>4. CASE t # Slot
        <4>1. request'[t] = request[t]
          BY <1>b, <3>2, <3>4
        <4> QED BY <1>0, <1>a, <2>1, <3>1, <4>1, AdmitKept
      <3> QED BY <3>3, <3>4
    <2>6. CASE PollFallback
      <3>1. CASE Refused
        BY <2>2, <2>6, <3>1 DEF PollFallback
      <3>2. CASE ~Refused
        <4>1. /\ request[Slot] = "saturated" /\ placed[Slot] = "home" /\ options.fallback = "place"
              /\ request' = [request EXCEPT ![Slot] = "sent"] /\ placed' = [placed EXCEPT ![Slot] = "fallback"]
          BY <2>6, <3>2 DEF PollFallback, FallsBack, Offered
        <4>2. CASE t = Slot
          <5>1. request'[t] = "sent" /\ placed'[t] = "fallback"
            BY <1>b, <4>1, <4>2
          <5> QED BY <1>0, <1>a, <2>1, <4>1, <4>2, <5>1, AdmitFallback
        <4>3. CASE t # Slot
          <5>1. request'[t] = request[t] /\ placed'[t] = placed[t]
            BY <1>b, <4>1, <4>3
          <5> QED BY <1>0, <1>a, <2>1, <5>1, AdmitKept
        <4> QED BY <4>2, <4>3
      <3> QED BY <3>1, <3>2
    <2> QED BY <1>3, <2>3, <2>4, <2>5, <2>6
  <1>4. ASSUME NEW s \in Item, Run(s) PROVE AdmitOne(t)'
    <2>1. PICK how \in {"replied", "failed", OwnError} : Settle(s, how)
      BY <1>4 DEF Run
    <2>2. request[s] = "sent" /\ request' = [request EXCEPT ![s] = how] /\ UNCHANGED placed
      BY <2>1 DEF Settle
    <2>3. admitted' = [admitted EXCEPT ![s][placed[s]] = @ + 1]
      BY <1>4 DEF Run
    <2>4. how \in {"replied", "failed", "saturated"} /\ (options.errors = "plain" => how # "saturated")
      BY <2>1 DEF OwnError
    <2>5. CASE t = s
      <3>1. request'[t] = how /\ admitted'[t] = [admitted[t] EXCEPT ![placed[t]] = @ + 1]
        BY <1>b, <2>2, <2>3, <2>5
      <3>2. placed[t] \in Placement /\ admitted[t] \in [Placement -> Nat] /\ placed'[t] = placed[t] /\ request[t] = "sent"
        BY <1>b, <2>2, <2>5
      <3> HIDE <1>b
      <3> QED BY <1>0, <1>a, <2>4, <3>1, <3>2, AdmitRun
    <2>6. CASE t # s
      <3>1. request'[t] = request[t] /\ placed'[t] = placed[t] /\ admitted'[t] = admitted[t]
        BY <1>b, <2>2, <2>3, <2>6
      <3> QED BY <1>0, <1>a, <3>1, AdmitKept
    <2> QED BY <2>5, <2>6
  <1>5. ASSUME NEW s \in Item, Reject(s) PROVE AdmitOne(t)'
    <2>1. PICK how \in {"failed", "saturated", "moved"} :
            Settle(s, how) /\ (how = "moved" => placed[s] = "home")
      BY <1>5 DEF Reject
    <2>2. request[s] = "sent" /\ request' = [request EXCEPT ![s] = how] /\ UNCHANGED <<placed, admitted>>
      BY <1>5, <2>1 DEF Settle, Reject
    <2>3. CASE t = s
      <3>1. request'[t] = how
        BY <1>b, <2>2, <2>3
      <3> QED BY <1>0, <1>a, <2>1, <2>2, <2>3, <3>1, AdmitStays
    <2>4. CASE t # s
      <3>1. request'[t] = request[t]
        BY <1>b, <2>2, <2>4
      <3> QED BY <1>0, <1>a, <2>2, <3>1, AdmitKept
    <2> QED BY <2>3, <2>4
  <1>6. CASE DropFuture
    <2>1. placed'[t] = "home" /\ UNCHANGED admitted
      BY <1>6 DEF DropFuture
    <2>2. request'[t] = "cancelled" \/ (request'[t] = request[t] /\ t \notin Outstanding)
      BY <1>6 DEF DropFuture
    <2>3. CASE request'[t] \in {"cancelled", "taken"}
      BY <1>0, <1>a, <2>1, <2>3, AdmitFinished
    <2>4. CASE request'[t] \notin {"cancelled", "taken"}
      <3>1. request[t] = "none" /\ request'[t] = request[t]
        BY <1>b, <2>2, <2>4 DEF Outstanding, Status
      <3>2. placed[t] = "home"
        BY <1>a, <3>1 DEF AdmitOne
      <3> QED BY <1>0, <1>a, <2>1, <3>1, <3>2, AdmitKept
    <2> QED BY <2>3, <2>4
  <1> QED BY <1>1, <1>2, <1>3, <1>4, <1>5, <1>6 DEF Next, Executor

\* A batch runs at most once at each place, never at a fallback the caller did
\* not give, and at most once in all unless its own error reads as saturation.
THEOREM AffinityIsKept == Spec => []AffinityKept
  <1>1. Init => AdmitInv
    <2> SUFFICES ASSUME Init, NEW s \in Item PROVE AdmitOne(s)
      BY DEF AdmitInv
    <2>1. request[s] = "none" /\ placed[s] = "home" /\ admitted[s]["home"] = 0 /\ admitted[s]["fallback"] = 0
      BY DEF Init, Placement
    <2> QED BY <2>1 DEF AdmitOne
  <1>2. TypeInv /\ SlotInv /\ AdmitInv /\ [Next]_vars => AdmitInv'
    <2> SUFFICES ASSUME TypeInv, SlotInv, AdmitInv, [Next]_vars PROVE AdmitInv'
      OBVIOUS
    <2>1. CASE UNCHANGED vars
      <3>1. UNCHANGED <<options, request, placed, admitted>>
        BY <2>1 DEF vars, placement
      <3> QED BY <3>1 DEF AdmitInv, AdmitOne
    <2> QED BY <2>1, AdmitSteps
  <1>3. AdmitInv => AffinityKept
    <2> SUFFICES ASSUME AdmitInv, NEW s \in Item
                 PROVE  /\ options.fallback = "reject" => admitted[s]["fallback"] = 0
                        /\ \A p \in Placement : admitted[s][p] <= 1
                        /\ options.errors = "plain" => admitted[s]["home"] + admitted[s]["fallback"] <= 1
      BY DEF AffinityKept
    <2>1. AdmitOne(s)
      BY DEF AdmitInv
    <2>2. \A p \in Placement : admitted[s][p] \in 0..1
      BY <2>1 DEF AdmitOne, Placement
    <2>3. \A p \in Placement : admitted[s][p] <= 1
      BY <2>2
    <2> QED BY <2>1, <2>3 DEF AdmitOne
  <1> QED BY <1>1, <1>2, <1>3, TypeInvariant, SlotInvariant, PTL DEF Spec
=============================================================================
