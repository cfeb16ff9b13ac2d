--------------------------- MODULE TransportProofs ---------------------------
(***************************************************************************)
(* Proofs about Transport, for any number of localities and channels, any   *)
(* limits and either backend: SubmissionState's counts and bytes are exact  *)
(* through partial writes, failures and shutdown, control parcels keep      *)
(* their reserve, a driver that has stopped retains nothing, and a stream   *)
(* between two drivers that work never loses its framing.                   *)
(***************************************************************************)
EXTENDS Transport, TLAPS, WellFoundedInduction

-----------------------------------------------------------------------------
(* Sums.                                                                    *)

\* A non-empty set of naturals has a least element.
LEMMA LeastOf ==
  ASSUME NEW S, S \subseteq Nat, S # {}
  PROVE  \E i \in S : \A j \in S : i <= j
<1>1. PICK i \in S : \A j \in S : ~(<<j, i>> \in OpToRel(<, Nat))
  BY NatLessThanWellFounded, WFMin
<1>2. \A j \in S : j < i => <<j, i>> \in OpToRel(<, Nat)
  BY Zenon DEF OpToRel
<1>3. \A j \in S : ~(j < i)
  BY <1>1, <1>2, Zenon
<1> QED
  BY <1>3

\* g has the partial sums of f.
Sums(f, n, g) == g \in [0..n -> Int] /\ g[0] = 0 /\ \A i \in 1..n : g[i] = g[i - 1] + f[i]

\* Integers have partial sums.
LEMMA SumsExist ==
  ASSUME NEW n \in Nat, NEW f, \A i \in 1..n : f[i] \in Int
  PROVE  \E g : Sums(f, n, g)
<1> DEFINE S == {k \in 0..n : ~\E g : Sums(f, k, g)}
<1> SUFFICES ASSUME S # {} PROVE FALSE
  OBVIOUS
<1>0. S \subseteq Nat
  OBVIOUS
<1>1. PICK k \in S : \A j \in S : k <= j
  <2> HIDE DEF S
  <2> QED
    BY <1>0, LeastOf
<1>2. k # 0
  <2>1. Sums(f, 0, [i \in 0..0 |-> 0])
    BY DEF Sums
  <2> QED
    BY <2>1
<1>3. k - 1 \in 0..n /\ k - 1 \notin S
  BY <1>1, <1>2
<1>4. PICK g : Sums(f, k - 1, g)
  BY <1>3
<1> DEFINE h == [i \in 0..k |-> IF i = k THEN g[k - 1] + f[k] ELSE g[i]]
<1>5. Sums(f, k, h)
  BY <1>2, <1>4 DEF Sums
<1> QED
  BY <1>5

\* There is only one function of partial sums.
LEMMA SumsUnique ==
  ASSUME NEW n \in Nat, NEW f, NEW g, NEW h, Sums(f, n, g),
         h[0] = 0, \A i \in 1..n : h[i] = h[i - 1] + f[i]
  PROVE  h[n] = g[n]
<1> DEFINE S == {i \in 0..n : h[i] # g[i]}
<1> SUFFICES ASSUME S # {} PROVE FALSE
  OBVIOUS
<1>0. S \subseteq Nat
  OBVIOUS
<1>1. PICK i \in S : \A j \in S : i <= j
  <2> HIDE DEF S
  <2> QED
    BY <1>0, LeastOf
<1>2. i # 0 /\ i - 1 \in 0..n /\ i - 1 \notin S
  BY <1>1 DEF Sums
<1> QED
  BY <1>1, <1>2 DEF Sums

\* The recursive function of Total is that one.
LEMMA TotalIs ==
  ASSUME NEW n \in Nat, NEW f, NEW g, Sums(f, n, g)
  PROVE  Total(f, n) = g[n]
<1> DEFINE F(x) == x = [i \in 0..n |-> IF i = 0 THEN 0 ELSE x[i - 1] + f[i]]
           sum == CHOOSE x : F(x)
<1>1. F(g)
  BY DEF Sums
<1>2. F(sum)
  BY <1>1
<1>3. sum[0] = 0 /\ \A i \in 1..n : sum[i] = sum[i - 1] + f[i]
  <2> HIDE DEF sum
  <2>1. sum = [i \in 0..n |-> IF i = 0 THEN 0 ELSE sum[i - 1] + f[i]]
    BY <1>2
  <2> QED
    BY <2>1
<1>4. Total(f, n) = sum[n]
  BY DEF Total
<1> HIDE DEF sum, F
<1> QED
  BY <1>3, <1>4, SumsUnique

\* Sums of integers are integers, and depend on the summands only.
LEMMA TotalEqual ==
  ASSUME NEW n \in Nat, NEW f, NEW h, \A i \in 1..n : f[i] \in Int /\ h[i] = f[i]
  PROVE  Total(f, n) \in Int /\ Total(h, n) = Total(f, n)
<1>1. PICK g : Sums(f, n, g)
  BY SumsExist
<1>2. Sums(h, n, g)
  BY <1>1 DEF Sums
<1>3. Total(f, n) = g[n] /\ Total(h, n) = g[n]
  BY <1>1, <1>2, TotalIs
<1> QED
  BY <1>1, <1>3 DEF Sums

\* The empty sum.
LEMMA TotalNone == ASSUME NEW f PROVE Total(f, 0) = 0
<1>1. PICK g : Sums(f, 0, g)
  BY SumsExist
<1> QED
  BY <1>1, TotalIs DEF Sums

\* One more summand at the end.
LEMMA TotalMore ==
  ASSUME NEW n \in Nat, NEW f, \A i \in 1..(n + 1) : f[i] \in Int
  PROVE  Total(f, n + 1) = Total(f, n) + f[n + 1]
<1>1. PICK g : Sums(f, n, g)
  BY SumsExist
<1> DEFINE h == [i \in 0..(n + 1) |-> IF i = n + 1 THEN g[n] + f[n + 1] ELSE g[i]]
<1>2. Sums(f, n + 1, h)
  BY <1>1 DEF Sums
<1>3. h[n + 1] = g[n] + f[n + 1]
  OBVIOUS
<1> HIDE DEF h
<1>4. Total(f, n) = g[n] /\ Total(f, n + 1) = h[n + 1]
  BY <1>1, <1>2, TotalIs
<1> QED
  BY <1>3, <1>4

\* The first summand taken away.
LEMMA TotalRest ==
  ASSUME NEW n \in Nat, NEW f, NEW h, \A i \in 1..(n + 1) : f[i] \in Int,
         \A i \in 1..n : h[i] = f[i + 1]
  PROVE  Total(f, n + 1) = f[1] + Total(h, n)
<1>1. PICK g : Sums(f, n + 1, g)
  BY SumsExist
<1> DEFINE k == [i \in 0..n |-> g[i + 1] - f[1]]
<1>2. Sums(h, n, k)
  <2>1. k \in [0..n -> Int]
    BY <1>1 DEF Sums
  <2>2. k[0] = 0
    BY <1>1 DEF Sums
  <2>3. ASSUME NEW i \in 1..n PROVE k[i] = k[i - 1] + h[i]
    <3>1. i + 1 \in 1..(n + 1) /\ i - 1 \in 0..n /\ i \in 0..n
      OBVIOUS
    <3>2. g[i + 1] = g[i] + f[i + 1]
      <4>1. (i + 1) - 1 = i
        OBVIOUS
      <4> QED
        BY <1>1, <3>1, <4>1 DEF Sums
    <3>3. g[i + 1] \in Int /\ g[i] \in Int /\ f[1] \in Int /\ f[i + 1] \in Int
      BY <1>1, <3>1 DEF Sums
    <3>4. (i - 1) + 1 = i
      OBVIOUS
    <3> QED
      BY <3>1, <3>2, <3>3, <3>4
  <2> HIDE DEF k
  <2> QED
    BY <2>1, <2>2, <2>3 DEF Sums
<1>3. k[n] = g[n + 1] - f[1] /\ g[n + 1] \in Int /\ f[1] \in Int
  BY <1>1 DEF Sums
<1> HIDE DEF k
<1>4. Total(f, n + 1) = g[n + 1] /\ Total(h, n) = k[n]
  BY <1>1, <1>2, TotalIs
<1> QED
  BY <1>3, <1>4

\* One summand changed.
LEMMA TotalChange ==
  ASSUME NEW n \in Nat, NEW f, NEW h, NEW k \in 1..n, NEW d \in Int, \A i \in 1..n : f[i] \in Int,
         h[k] = f[k] + d, \A i \in 1..n : i # k => h[i] = f[i]
  PROVE  Total(h, n) = Total(f, n) + d
<1>1. PICK g : Sums(f, n, g)
  BY SumsExist
<1> DEFINE e == [i \in 0..n |-> IF k <= i THEN g[i] + d ELSE g[i]]
<1>2. Sums(h, n, e)
  <2>1. e \in [0..n -> Int] /\ e[0] = 0
    BY <1>1 DEF Sums
  <2>2. ASSUME NEW i \in 1..n PROVE e[i] = e[i - 1] + h[i]
    <3>1. i - 1 \in 0..n /\ i \in 0..n
      OBVIOUS
    <3>2. g[i] = g[i - 1] + f[i] /\ g[i - 1] \in Int /\ f[i] \in Int
      BY <1>1, <3>1 DEF Sums
    <3> QED
      BY <3>1, <3>2
  <2> HIDE DEF e
  <2> QED
    BY <2>1, <2>2 DEF Sums
<1>3. e[n] = g[n] + d
  BY <1>1 DEF Sums
<1> HIDE DEF e
<1>4. Total(f, n) = g[n] /\ Total(h, n) = e[n]
  BY <1>1, <1>2, TotalIs
<1> QED
  BY <1>3, <1>4

\* Larger summands, larger sum.
LEMMA TotalMonotone ==
  ASSUME NEW n \in Nat, NEW f, NEW h, \A i \in 1..n : f[i] \in Int /\ h[i] \in Int /\ f[i] <= h[i]
  PROVE  Total(f, n) <= Total(h, n)
<1>1. PICK g : Sums(f, n, g)
  BY SumsExist
<1>2. PICK k : Sums(h, n, k)
  BY SumsExist
<1> DEFINE S == {i \in 0..n : ~(g[i] <= k[i])}
<1>3. S = {}
  <2> SUFFICES ASSUME S # {} PROVE FALSE
    OBVIOUS
  <2>0. S \subseteq Nat
    OBVIOUS
  <2>1. PICK i \in S : \A j \in S : i <= j
    <3> HIDE DEF S
    <3> QED
      BY <2>0, LeastOf
  <2>2. i # 0 /\ i - 1 \in 0..n /\ i - 1 \notin S
    BY <1>1, <1>2, <2>1 DEF Sums
  <2>3. g[i] = g[i - 1] + f[i] /\ k[i] = k[i - 1] + h[i] /\ i \in 1..n
    BY <1>1, <1>2, <2>2 DEF Sums
  <2>4. g[i - 1] \in Int /\ k[i - 1] \in Int /\ g[i - 1] <= k[i - 1]
    BY <1>1, <1>2, <2>2 DEF Sums
  <2> QED
    BY <2>1, <2>3, <2>4
<1>4. Total(f, n) = g[n] /\ Total(h, n) = k[n]
  BY <1>1, <1>2, TotalIs
<1> QED
  BY <1>3, <1>4

-----------------------------------------------------------------------------
(* The bytes of a lane.                                                     *)

\* An empty queue reserves nothing.
LEMMA ReservedNone == ReservedBy(<<>>) = 0
<1>1. Len(<<>>) = 0
  OBVIOUS
<1> QED
  BY <1>1, TotalNone DEF ReservedBy

LEMMA FrameAt ==
  ASSUME NEW s \in Seq(Frame)
  PROVE  Len(s) \in Nat /\ \A i \in 1..Len(s) : s[i] \in Frame /\ s[i].reserved \in Nat
<1>1. \A i \in 1..Len(s) : s[i] \in Frame
  OBVIOUS
<1>2. \A x \in Frame : x.reserved \in Nat
  BY DEF Frame
<1> QED
  BY <1>1, <1>2

\* A queue of frames reserves a natural number of bytes ...
LEMMA ReservedType == ASSUME NEW s \in Seq(Frame) PROVE ReservedBy(s) \in Nat
<1> DEFINE f == [i \in 1..Len(s) |-> s[i].reserved]
           zero == [i \in 1..Len(s) |-> 0]
           none == [i \in 0..Len(s) |-> 0]
<1>1. Len(s) \in Nat /\ \A i \in 1..Len(s) : f[i] \in Nat
  BY FrameAt
<1>2. Sums(zero, Len(s), none) /\ none[Len(s)] = 0
  BY <1>1 DEF Sums
<1>3. \A i \in 1..Len(s) : zero[i] = 0
  OBVIOUS
<1> HIDE DEF f, zero, none
<1>4. Total(zero, Len(s)) = 0
  BY <1>1, <1>2, TotalIs
<1>5. Total(f, Len(s)) \in Int
  BY <1>1, TotalEqual
<1>6. Total(zero, Len(s)) <= Total(f, Len(s))
  BY <1>1, <1>3, TotalMonotone
<1>7. ReservedBy(s) = Total(f, Len(s))
  BY DEF ReservedBy, f
<1> QED
  BY <1>4, <1>5, <1>6, <1>7

\* ... one more when a frame joins it ...
LEMMA ReservedAppend ==
  ASSUME NEW s \in Seq(Frame), NEW x \in Frame
  PROVE  ReservedBy(Append(s, x)) = ReservedBy(s) + x.reserved
<1> DEFINE f == [i \in 1..Len(s) |-> s[i].reserved]
           h == [i \in 1..Len(Append(s, x)) |-> Append(s, x)[i].reserved]
<1>1. Len(s) \in Nat /\ Len(Append(s, x)) = Len(s) + 1
  OBVIOUS
<1>2. /\ \A i \in 1..Len(s) : f[i] \in Int /\ h[i] = f[i]
      /\ h[Len(s) + 1] = x.reserved /\ x.reserved \in Int
  <2>1. x.reserved \in Int
    BY DEF Frame
  <2>2. \A i \in 1..Len(s) : Append(s, x)[i] = s[i] /\ i \in 1..Len(Append(s, x))
    BY <1>1
  <2>3. Append(s, x)[Len(s) + 1] = x /\ Len(s) + 1 \in 1..Len(Append(s, x))
    BY <1>1
  <2> QED
    BY <2>1, <2>2, <2>3, FrameAt
<1>3. ReservedBy(s) = Total(f, Len(s)) /\ ReservedBy(Append(s, x)) = Total(h, Len(s) + 1)
  BY <1>1 DEF ReservedBy
<1> HIDE DEF f, h
<1>4. \A i \in 1..(Len(s) + 1) : h[i] \in Int
  BY <1>1, <1>2
<1>5. Total(h, Len(s)) = Total(f, Len(s))
  BY <1>1, <1>2, TotalEqual
<1>6. Total(h, Len(s) + 1) = Total(h, Len(s)) + h[Len(s) + 1]
  BY <1>1, <1>4, TotalMore
<1> QED
  BY <1>2, <1>3, <1>5, <1>6

\* ... and less by the first frame when it leaves.
LEMMA ReservedTail ==
  ASSUME NEW s \in Seq(Frame), s # <<>>
  PROVE  ReservedBy(s) = Head(s).reserved + ReservedBy(Tail(s))
<1> DEFINE n == Len(s) - 1
           f == [i \in 1..Len(s) |-> s[i].reserved]
           h == [i \in 1..Len(Tail(s)) |-> Tail(s)[i].reserved]
<1>1. n \in Nat /\ Len(s) = n + 1 /\ Len(Tail(s)) = n /\ Head(s) = s[1]
  OBVIOUS
<1>2. \A i \in 1..(n + 1) : f[i] \in Int
  BY <1>1, FrameAt
<1>3. \A i \in 1..n : h[i] = f[i + 1]
  BY <1>1
<1>4. f[1] = Head(s).reserved
  BY <1>1
<1>5. ReservedBy(s) = Total(f, n + 1) /\ ReservedBy(Tail(s)) = Total(h, n)
  BY <1>1 DEF ReservedBy
<1> HIDE DEF f, h, n
<1>6. n \in Nat
  BY <1>1
<1>7. Total(f, n + 1) = f[1] + Total(h, n)
  BY <1>2, <1>3, <1>6, TotalRest
<1> QED
  BY <1>4, <1>5, <1>7

\* The reserved bytes do not depend on how far the first frame is written.
LEMMA ReservedHead ==
  ASSUME NEW s \in Seq(Frame), s # <<>>, NEW x \in Frame, x.reserved = Head(s).reserved
  PROVE  /\ <<x>> \o Tail(s) \in Seq(Frame) /\ Len(<<x>> \o Tail(s)) = Len(s)
         /\ ReservedBy(<<x>> \o Tail(s)) = ReservedBy(s)
<1> DEFINE t == <<x>> \o Tail(s)
           f == [i \in 1..Len(s) |-> s[i].reserved]
           h == [i \in 1..Len(t) |-> t[i].reserved]
<1>1. t \in Seq(Frame) /\ Len(t) = Len(s) /\ Len(s) \in Nat
  OBVIOUS
<1>2. \A i \in 1..Len(s) : f[i] \in Int /\ h[i] = f[i]
  <2>1. \A i \in 1..Len(s) : t[i] = IF i = 1 THEN x ELSE s[i]
    OBVIOUS
  <2> QED
    BY <1>1, <2>1, FrameAt
<1>3. ReservedBy(s) = Total(f, Len(s)) /\ ReservedBy(t) = Total(h, Len(s))
  BY <1>1 DEF ReservedBy
<1> HIDE DEF f, h, t
<1>4. ReservedBy(t) = ReservedBy(s)
  BY <1>1, <1>2, <1>3, TotalEqual
<1> QED
  BY <1>1, <1>4 DEF t

-----------------------------------------------------------------------------
(* The invariant.                                                           *)

Shape(r) == r = [op |-> r.op, at |-> r.at, events |-> r.events] /\ r.op \in Op /\ r.at \in Nat

Types ==
  /\ backend \in {"tcp", "mpi"}
  /\ counts \in [Lane -> Int]
  /\ bytes \in [Member -> [Member -> Int]]
  /\ receivers \in [Lane -> Seq(Frame)]
  /\ writes \in [Lane -> Seq(Frame)]
  /\ closed \in [Member -> BOOLEAN]
  /\ failed \in [Member -> BOOLEAN]
  /\ shutdown \in [Member -> BOOLEAN]
  /\ next_ticket \in [Member -> Nat]
  /\ read = [l \in Lane |-> read[l]]
  /\ pending = [n \in Member |-> pending[n]]
  /\ drv = [n \in Member |-> drv[n]]
  /\ \A n \in Member : Shape(drv[n])

\* What a driver that has failed, is closing or has stopped still holds.
Gate(n) ==
  /\ Driving(n) => ~failed[n] /\ ~shutdown[n] /\ drv[n].at >= 1
  /\ drv[n].op = "shutdown" => closed[n]
  /\ drv[n].op \in {"failing", "closing"} => ~shutdown[n]
  /\ drv[n].op \in {"failing", "closing"} \/ failed[n] \/ shutdown[n] =>
       \A l \in From(n) : writes[l] = <<>>
  /\ drv[n].op = "closing" \/ shutdown[n] =>
       closed[n] /\ \A l \in From(n) : receivers[l] # <<>> => failed[n]
  /\ shutdown[n] => pending[n] = <<>> /\ \A l \in To(n) : read[l] = <<>>

IInv == Types /\ CreditsExact /\ \A n \in Member : Gate(n)

-----------------------------------------------------------------------------
(* Lanes.                                                                   *)

\* The channels are distinct, and a lane is a source, a destination and a channel.
LEMMA ChannelFacts ==
  /\ Len(Channels) \in Nat \ {0} /\ DOMAIN Channels = 1..Len(Channels)
  /\ \A i \in 1..Len(Channels) : Channels[i] \in Channel
  /\ \A c \in Channel : \E k \in 1..Len(Channels) : c = Channels[k]
  /\ \A i, j \in 1..Len(Channels) : i # j => Channels[i] # Channels[j]
BY TransportAssumption DEF Channel

LEMMA LaneFacts ==
  /\ \A l \in Lane : /\ Source(l) \in Member /\ Destination(l) \in Member /\ ChannelOf(l) \in Channel
                     /\ Source(l) # Destination(l) /\ l = <<Source(l), Destination(l), ChannelOf(l)>>
  /\ \A n, p \in Member, c \in Channel : n # p =>
       /\ <<n, p, c>> \in Lane
       /\ Source(<<n, p, c>>) = n /\ Destination(<<n, p, c>>) = p /\ ChannelOf(<<n, p, c>>) = c
BY DEF Lane, Source, Destination, ChannelOf

LEMMA Quotient ==
  ASSUME NEW n \in Nat, NEW d \in Nat \ {0}
  PROVE  n \div d \in Nat /\ (n \div d) * d <= n
OBVIOUS

LEMMA TimesMonotone ==
  ASSUME NEW j \in Nat, NEW k \in Nat, NEW d \in Nat, j <= k
  PROVE  j * d \in Nat /\ j * d <= k * d
OBVIOUS

\* A stop of drive is for one of the channels.
LEMMA TurnIsChannel ==
  ASSUME IInv, NEW n \in Member, Driving(n), drv[n].at <= Stops, Size > 1 \/ backend = "mpi"
  PROVE  Turn(n) \in Channel
<1> DEFINE a == drv[n].at - 1
           q == a \div Width
           c == Len(Channels)
<1>1. drv[n].at \in Nat /\ drv[n].at >= 1
  BY DEF IInv, Types, Shape, Gate
<1>2. Width \in Nat \ {0} /\ c \in Nat /\ a \in Nat
  <2>1. Size \in Nat \ {0} /\ backend \in {"tcp", "mpi"}
    BY TransportAssumption DEF IInv, Types
  <2>2. Width \in Nat \ {0}
    BY <2>1 DEF Width
  <2> QED
    BY <1>1, <2>2, ChannelFacts
<1>3. a < c * Width
  <2>1. c * Width \in Nat /\ drv[n].at <= c * Width
    BY <1>2, TimesMonotone DEF Stops
  <2> QED
    BY <1>1, <2>1
<1>4. q \in Nat /\ q * Width <= a
  BY <1>2, Quotient
<1>5. Turn(n) = Channels[q + 1]
  BY DEF Turn
<1>6. c <= q => c * Width <= q * Width
  BY <1>2, <1>4, TimesMonotone
<1>7. q * Width \in Nat /\ c * Width \in Nat
  BY <1>2, <1>4, TimesMonotone
<1> HIDE DEF a, q, c
<1>8. q + 1 \in 1..c
  BY <1>2, <1>3, <1>4, <1>6, <1>7
<1> QED
  BY <1>5, <1>8, ChannelFacts DEF c

LEMMA LaneBytesType ==
  ASSUME Types, NEW l \in Lane
  PROVE  LaneBytes(l) \in Nat
<1>1. receivers[l] \in Seq(Frame) /\ writes[l] \in Seq(Frame)
  BY DEF Types
<1> QED
  BY <1>1, ReservedType DEF LaneBytes

LEMMA LaneBytesTypes ==
  ASSUME Types, NEW n \in Member, NEW p \in Member, n # p
  PROVE  \A i \in 1..Len(Channels) : LaneBytes(<<n, p, Channels[i]>>) \in Nat
BY LaneBytesType, LaneFacts, ChannelFacts

\* What is outstanding changes with one lane ...
LEMMA OutstandingChange ==
  ASSUME Types, NEW m \in Member, NEW q \in Member, m # q, NEW d \in Int, NEW j \in 1..Len(Channels),
         LaneBytes(<<m, q, Channels[j]>>)' = LaneBytes(<<m, q, Channels[j]>>) + d,
         \A i \in 1..Len(Channels) : i # j =>
           LaneBytes(<<m, q, Channels[i]>>)' = LaneBytes(<<m, q, Channels[i]>>)
  PROVE  Outstanding(m, q)' = Outstanding(m, q) + d
<1> DEFINE c == Len(Channels)
           f == [i \in 1..c |-> LaneBytes(<<m, q, Channels[i]>>)]
           h == [i \in 1..c |-> LaneBytes(<<m, q, Channels[i]>>)']
<1>1. Outstanding(m, q) = Total(f, c) /\ Outstanding(m, q)' = Total(h, c)
  BY DEF Outstanding
<1>2. \A i \in 1..c : f[i] \in Int
  BY LaneBytesTypes
<1>3. h[j] = f[j] + d /\ \A i \in 1..c : i # j => h[i] = f[i]
  OBVIOUS
<1>4. c \in Nat
  BY ChannelFacts
<1>5. j \in 1..c
  OBVIOUS
<1> HIDE DEF f, h, c
<1>6. Total(h, c) = Total(f, c) + d
  BY <1>2, <1>3, <1>4, <1>5, TotalChange
<1> QED
  BY <1>1, <1>6

\* ... and not with the others.
LEMMA OutstandingSame ==
  ASSUME Types, NEW m \in Member, NEW q \in Member, m # q,
         \A i \in 1..Len(Channels) :
           LaneBytes(<<m, q, Channels[i]>>)' = LaneBytes(<<m, q, Channels[i]>>)
  PROVE  Outstanding(m, q)' = Outstanding(m, q)
<1> DEFINE c == Len(Channels)
           f == [i \in 1..c |-> LaneBytes(<<m, q, Channels[i]>>)]
           h == [i \in 1..c |-> LaneBytes(<<m, q, Channels[i]>>)']
<1>1. Outstanding(m, q) = Total(f, c) /\ Outstanding(m, q)' = Total(h, c)
  BY DEF Outstanding
<1>2. \A i \in 1..c : f[i] \in Int /\ h[i] = f[i]
  BY LaneBytesTypes
<1>3. c \in Nat
  BY ChannelFacts
<1> HIDE DEF f, h, c
<1>4. Total(h, c) = Total(f, c)
  BY <1>2, <1>3, TotalEqual
<1> QED
  BY <1>1, <1>4

\* One lane changes, with its count and its bytes.
Moved(l, n, p, d) ==
  /\ n = Source(l) /\ p = Destination(l)
  /\ LaneBytes(l)' = LaneBytes(l) + d
  /\ counts'[l] = Len(receivers'[l]) + Len(writes'[l])
  /\ \A k \in Lane : k # l => /\ receivers'[k] = receivers[k] /\ writes'[k] = writes[k]
                             /\ counts'[k] = counts[k]
  /\ bytes'[n][p] = bytes[n][p] + d
  /\ \A m, q \in Member : m # n \/ q # p => bytes'[m][q] = bytes[m][q]

LEMMA CreditStep ==
  ASSUME Types, CreditsExact, NEW l \in Lane, NEW d \in Int, NEW n \in Member, NEW p \in Member,
         Moved(l, n, p, d)
  PROVE  CreditsExact'
<1>0. /\ n = Source(l) /\ p = Destination(l)
      /\ LaneBytes(l)' = LaneBytes(l) + d
      /\ counts'[l] = Len(receivers'[l]) + Len(writes'[l])
      /\ \A k \in Lane : k # l => /\ receivers'[k] = receivers[k] /\ writes'[k] = writes[k]
                                 /\ counts'[k] = counts[k]
      /\ bytes'[n][p] = bytes[n][p] + d
      /\ \A m, q \in Member : m # n \/ q # p => bytes'[m][q] = bytes[m][q]
  BY DEF Moved
<1> USE <1>0
<1>1. \A k \in Lane : counts'[k] = Len(receivers'[k]) + Len(writes'[k])
  BY DEF CreditsExact
<1>2. ASSUME NEW m \in Member, NEW q \in Member, m # q
      PROVE  bytes'[m][q] = Outstanding(m, q)'
  <2>1. bytes[m][q] = Outstanding(m, q)
    BY <1>2 DEF CreditsExact
  <2>2. \A k \in Lane : k # l => LaneBytes(k)' = LaneBytes(k)
    BY DEF LaneBytes
  <2>3. \A i \in 1..Len(Channels) : <<m, q, Channels[i]>> \in Lane
    BY <1>2, LaneFacts, ChannelFacts
  <2>4. CASE m = n /\ q = p
    <3>1. PICK j \in 1..Len(Channels) : ChannelOf(l) = Channels[j]
      BY LaneFacts, ChannelFacts
    <3>2. \A i \in 1..Len(Channels) : <<m, q, Channels[i]>> = l <=> i = j
      BY <2>4, <3>1, LaneFacts, ChannelFacts
    <3>3. LaneBytes(<<m, q, Channels[j]>>)' = LaneBytes(<<m, q, Channels[j]>>) + d
      BY <3>2
    <3>4. \A i \in 1..Len(Channels) : i # j =>
            LaneBytes(<<m, q, Channels[i]>>)' = LaneBytes(<<m, q, Channels[i]>>)
      BY <2>2, <2>3, <3>2
    <3>5. Outstanding(m, q)' = Outstanding(m, q) + d
      BY <1>2, <3>3, <3>4, OutstandingChange
    <3> QED
      BY <2>1, <2>4, <3>5
  <2>5. CASE ~(m = n /\ q = p)
    <3>1. \A i \in 1..Len(Channels) : <<m, q, Channels[i]>> # l
      BY <2>5, <2>3, LaneFacts, ChannelFacts
    <3>2. \A i \in 1..Len(Channels) :
            LaneBytes(<<m, q, Channels[i]>>)' = LaneBytes(<<m, q, Channels[i]>>)
      BY <2>2, <2>3, <3>1
    <3>3. Outstanding(m, q)' = Outstanding(m, q)
      BY <1>2, <3>2, OutstandingSame
    <3> QED
      BY <2>1, <2>5, <3>3
  <2> QED
    BY <2>4, <2>5
<1> QED
  BY <1>1, <1>2 DEF CreditsExact

\* The lanes are as they were.
LEMMA CreditSame ==
  ASSUME Types, CreditsExact, counts' = counts, bytes' = bytes, receivers' = receivers, writes' = writes
  PROVE  CreditsExact'
<1>1. \A l \in Lane : counts'[l] = Len(receivers'[l]) + Len(writes'[l])
  BY DEF CreditsExact
<1>2. \A l : LaneBytes(l)' = LaneBytes(l)
  BY DEF LaneBytes
<1>3. \A m, q \in Member : m # q => Outstanding(m, q)' = Outstanding(m, q)
  BY <1>2, OutstandingSame
<1> QED
  BY <1>1, <1>3 DEF CreditsExact

-----------------------------------------------------------------------------
(* Drivers.                                                                 *)

\* The records a driver is set to are driver records.
LEMMA ShapeOf ==
  /\ \A op \in Op, at \in Nat : \A events : Shape([op |-> op, at |-> at, events |-> events])
  /\ Shape(Idle) /\ Idle.op = "idle"
  /\ \A op \in Op : Shape(Flushed(op)) /\ (Flushed(op).op = "idle" \/ Flushed(op).op = "closing")
  /\ \A op \in Op : Shape(Driven(op)) /\ Driven(op).op = op /\ Driven(op).at = 1
BY DEF Shape, Idle, Flushed, Driven, Op

\* An owner's step changes its own driver only.
LEMMA DrvSet ==
  ASSUME Types, NEW n \in Member, NEW r, Shape(r), drv' = [drv EXCEPT ![n] = r]
  PROVE  /\ drv' = [m \in Member |-> drv'[m]] /\ \A m \in Member : Shape(drv'[m])
         /\ drv'[n] = r /\ \A m \in Member : m # n => drv'[m] = drv[m]
<1>1. drv = [m \in Member |-> drv[m]] /\ \A m \in Member : Shape(drv[m])
  BY DEF Types
<1>2. drv' = [m \in Member |-> IF m = n THEN r ELSE drv[m]]
  BY <1>1
<1> QED
  BY <1>1, <1>2

LEMMA DrvEvents ==
  ASSUME Types, NEW n \in Member, NEW at \in Nat, NEW events,
         drv' = [drv EXCEPT ![n].at = at, ![n].events = events]
  PROVE  /\ drv' = [m \in Member |-> drv'[m]] /\ \A m \in Member : Shape(drv'[m])
         /\ drv'[n].op = drv[n].op /\ drv'[n].at = at
         /\ \A m \in Member : m # n => drv'[m] = drv[m]
<1> DEFINE r == [op |-> drv[n].op, at |-> at, events |-> events]
<1>1. drv = [m \in Member |-> drv[m]] /\ Shape(drv[n])
  BY DEF Types
<1>2. [[drv[n] EXCEPT !.at = at] EXCEPT !.events = events] = r
  <2>1. PICK a, b, c : drv[n] = [op |-> a, at |-> b, events |-> c]
    BY <1>1 DEF Shape
  <2>2. [drv[n] EXCEPT !.at = at] = [op |-> a, at |-> at, events |-> c]
    BY <2>1
  <2>3. [[op |-> a, at |-> at, events |-> c] EXCEPT !.events = events]
          = [op |-> a, at |-> at, events |-> events]
    OBVIOUS
  <2> QED
    BY <2>1, <2>2, <2>3
<1>3. drv' = [drv EXCEPT ![n] = r]
  BY <1>1, <1>2
<1>4. Shape(r) /\ r.op = drv[n].op /\ r.at = at
  BY <1>1, ShapeOf DEF Shape
<1> HIDE DEF r
<1> QED
  BY <1>3, <1>4, DrvSet

LEMMA DrvAdvance ==
  ASSUME Types, NEW n \in Member, NEW events, Advance(n, events)
  PROVE  /\ drv' = [m \in Member |-> drv'[m]] /\ \A m \in Member : Shape(drv'[m])
         /\ drv'[n].op = drv[n].op /\ drv'[n].at = drv[n].at + 1
         /\ \A m \in Member : m # n => drv'[m] = drv[m]
<1>1. drv = [m \in Member |-> drv[m]] /\ Shape(drv[n]) /\ drv[n].at + 1 \in Nat
  BY DEF Types, Shape
<1>2. drv' = [drv EXCEPT ![n].at = drv[n].at + 1, ![n].events = events]
  BY <1>1 DEF Advance
<1> QED
  BY <1>1, <1>2, DrvEvents

\* The other members see nothing of a step.
GateOther(m) ==
  /\ drv'[m] = drv[m] /\ failed'[m] = failed[m] /\ shutdown'[m] = shutdown[m] /\ closed'[m] = closed[m]
  /\ pending'[m] = pending[m]
  /\ \A l \in Lane : Source(l) = m => receivers'[l] = receivers[l] /\ writes'[l] = writes[l]
  /\ \A l \in Lane : Destination(l) = m => read'[l] = read[l]

\* A member that a step leaves alone keeps its gate ...
LEMMA OtherGate ==
  ASSUME NEW m \in Member, Gate(m), GateOther(m)
  PROVE  Gate(m)'
BY DEF GateOther, Gate, Driving, From, To

\* ... and so does one whose driver goes on driving.
LEMMA DrivingGate ==
  ASSUME NEW n \in Member, Gate(n), Driving(n), drv'[n].op = drv[n].op, drv'[n].at >= 1,
         failed'[n] = failed[n], shutdown'[n] = shutdown[n], closed'[n] = closed[n]
  PROVE  Gate(n)'
BY DEF Gate, Driving

\* A step of drive.
LEMMA DriveStep ==
  ASSUME IInv, NEW n \in Member, Driving(n), Types', CreditsExact',
         UNCHANGED <<closed, failed, shutdown>>,
         drv'[n].op = drv[n].op, drv'[n].at >= 1,
         \A m \in Member : m # n => drv'[m] = drv[m] /\ pending'[m] = pending[m],
         \A l \in Lane : Source(l) # n => receivers'[l] = receivers[l] /\ writes'[l] = writes[l],
         \A l \in Lane : Destination(l) # n => read'[l] = read[l]
  PROVE  IInv'
<1>1. \A m \in Member : Gate(m)
  BY DEF IInv
<1>2. closed' = closed /\ failed' = failed /\ shutdown' = shutdown
  OBVIOUS
<1>3. Gate(n)'
  BY <1>1, <1>2, DrivingGate
<1>4. ASSUME NEW m \in Member, m # n PROVE Gate(m)'
  <2>1. GateOther(m)
    BY <1>2, <1>4 DEF GateOther
  <2> QED
    BY <1>1, <2>1, OtherGate
<1> QED
  BY <1>3, <1>4 DEF IInv

\* The first half of fail.
LEMMA DrainStep ==
  ASSUME IInv, NEW n \in Member, Driving(n), FailDrain(n),
         UNCHANGED <<backend, next_ticket, closed, failed, shutdown, pending>>
  PROVE  IInv'
<1>0. /\ Types /\ CreditsExact /\ \A m \in Member : Gate(m)
      /\ closed' = closed /\ failed' = failed /\ shutdown' = shutdown /\ pending' = pending
      /\ backend' = backend /\ next_ticket' = next_ticket
  BY DEF IInv
<1>1. \A l \in Lane : Source(l) = n => receivers'[l] = <<>> /\ writes'[l] = <<>> /\ counts'[l] = 0
  BY <1>0 DEF FailDrain, CreditsExact, Types
<1>2. \A l \in Lane : Source(l) # n => /\ receivers'[l] = receivers[l] /\ writes'[l] = writes[l]
                                       /\ counts'[l] = counts[l]
  BY DEF FailDrain
<1>3. /\ counts' = [l \in Lane |-> counts'[l]] /\ receivers' = [l \in Lane |-> receivers'[l]]
      /\ writes' = [l \in Lane |-> writes'[l]] /\ read' = [l \in Lane |-> read'[l]]
      /\ \A l \in Lane : Destination(l) # n => read'[l] = read[l]
  BY DEF FailDrain
<1>4. /\ bytes' \in [Member -> [Member -> Int]]
      /\ \A p \in Member : n # p => bytes'[n][p] = 0
      /\ \A m, p \in Member : m # n => bytes'[m][p] = bytes[m][p]
  <2>1. bytes' = [bytes EXCEPT ![n] =
                    [p \in Member |-> IF p = n THEN bytes[n][p] ELSE bytes[n][p] - Outstanding(n, p)]]
    BY <1>0 DEF FailDrain, Types
  <2>2. \A p \in Member : n # p => Outstanding(n, p) = bytes[n][p]
    BY <1>0 DEF CreditsExact
  <2>3. bytes' = [bytes EXCEPT ![n] = [p \in Member |-> IF p = n THEN bytes[n][p] ELSE 0]]
    <3>1. \A p \in Member : bytes[n][p] \in Int
      BY <1>0 DEF Types
    <3>2. [p \in Member |-> IF p = n THEN bytes[n][p] ELSE bytes[n][p] - Outstanding(n, p)]
          = [p \in Member |-> IF p = n THEN bytes[n][p] ELSE 0]
      BY <2>2, <3>1
    <3> QED
      BY <2>1, <3>2
  <2> QED
    BY <1>0, <2>3 DEF Types
<1>5. PICK r : r.op = "failing" /\ Shape(r) /\ drv' = [drv EXCEPT ![n] = r]
  <2> DEFINE r == [op |-> "failing", at |-> 0,
                   events |-> IF drv[n].op = "progress" THEN drv[n].events ELSE <<>>]
  <2>1. drv' = [drv EXCEPT ![n] = r]
    BY <1>0 DEF FailDrain, Types
  <2>2. r.op = "failing" /\ Shape(r)
    BY ShapeOf DEF Op
  <2> QED
    BY <2>1, <2>2
<1>6. /\ drv' = [m \in Member |-> drv'[m]] /\ \A m \in Member : Shape(drv'[m])
      /\ drv'[n].op = "failing" /\ \A m \in Member : m # n => drv'[m] = drv[m]
  BY <1>0, <1>5, DrvSet
<1>7. Types'
  <2>1. ASSUME NEW l \in Lane
        PROVE  counts'[l] \in Int /\ receivers'[l] \in Seq(Frame) /\ writes'[l] \in Seq(Frame)
    <3>1. counts[l] \in Int /\ receivers[l] \in Seq(Frame) /\ writes[l] \in Seq(Frame)
      BY <1>0 DEF Types
    <3>2. <<>> \in Seq(Frame) /\ 0 \in Int
      OBVIOUS
    <3>3. CASE Source(l) = n
      BY <1>1, <3>2, <3>3
    <3>4. CASE Source(l) # n
      BY <1>2, <3>1, <3>4
    <3> QED
      BY <3>3, <3>4
  <2>2. /\ counts' \in [Lane -> Int] /\ receivers' \in [Lane -> Seq(Frame)]
        /\ writes' \in [Lane -> Seq(Frame)]
    BY <1>3, <2>1
  <2> QED
    BY <1>0, <1>3, <1>4, <1>6, <2>2 DEF Types
<1>8. CreditsExact'
  <2>1. ASSUME NEW l \in Lane PROVE counts'[l] = Len(receivers'[l]) + Len(writes'[l])
    <3>1. counts[l] = Len(receivers[l]) + Len(writes[l])
      BY <1>0 DEF CreditsExact
    <3>2. Len(<<>>) = 0
      OBVIOUS
    <3>3. CASE Source(l) = n
      <4>1. counts'[l] = 0 /\ Len(receivers'[l]) = 0 /\ Len(writes'[l]) = 0
        BY <1>1, <3>2, <3>3, Zenon
      <4> QED
        BY <4>1
    <3>4. CASE Source(l) # n
      BY <1>2, <3>1, <3>4
    <3> QED
      BY <3>3, <3>4
  <2>2. \A m, p \in Member : \A i \in 1..Len(Channels) : m # p => <<m, p, Channels[i]>> \in Lane
    BY LaneFacts, ChannelFacts
  <2>3. \A l \in Lane : Source(l) # n => LaneBytes(l)' = LaneBytes(l)
    BY <1>2 DEF LaneBytes
  <2>4. \A l \in Lane : Source(l) = n => LaneBytes(l)' = 0
    BY <1>1, ReservedNone DEF LaneBytes
  <2>5. ASSUME NEW m \in Member, NEW p \in Member, m # p, m # n
        PROVE  bytes'[m][p] = Outstanding(m, p)'
    <3>1. \A i \in 1..Len(Channels) : LaneBytes(<<m, p, Channels[i]>>)' = LaneBytes(<<m, p, Channels[i]>>)
      BY <2>2, <2>3, <2>5, LaneFacts, ChannelFacts
    <3>2. Outstanding(m, p)' = Outstanding(m, p)
      BY <1>0, <2>5, <3>1, OutstandingSame
    <3> QED
      BY <1>0, <1>4, <2>5, <3>2 DEF CreditsExact
  <2>6. ASSUME NEW p \in Member, n # p PROVE bytes'[n][p] = Outstanding(n, p)'
    <3> DEFINE c == Len(Channels)
               h == [i \in 1..c |-> LaneBytes(<<n, p, Channels[i]>>)']
               none == [i \in 0..c |-> 0]
    <3>1. \A i \in 1..c : h[i] = 0
      BY <2>2, <2>4, <2>6, LaneFacts, ChannelFacts
    <3>2. c \in Nat
      BY ChannelFacts
    <3>3. Outstanding(n, p)' = Total(h, c)
      BY DEF Outstanding
    <3>4. Sums(h, c, none) /\ none[c] = 0
      BY <3>1, <3>2 DEF Sums
    <3> HIDE DEF c, h, none
    <3>5. Total(h, c) = 0
      BY <3>2, <3>4, TotalIs
    <3> QED
      BY <1>4, <2>6, <3>3, <3>5
  <2> QED
    BY <2>1, <2>5, <2>6 DEF CreditsExact
<1>9. Gate(n)'
  BY <1>0, <1>1, <1>6 DEF Gate, Driving, From
<1>10. ASSUME NEW m \in Member, m # n PROVE Gate(m)'
  <2>1. GateOther(m)
    BY <1>0, <1>2, <1>3, <1>6, <1>10 DEF GateOther
  <2> QED
    BY <1>0, <2>1, OtherGate
<1> QED
  BY <1>7, <1>8, <1>9, <1>10 DEF IInv

\* try_send on any thread.
LEMMA TrySendStep ==
  ASSUME IInv, NEW l \in Lane, NEW length \in Lengths, TrySend(l, length)
  PROVE  IInv'
<1>0. Types /\ CreditsExact /\ \A m \in Member : Gate(m)
  BY DEF IInv
<1>1. PICK n \in Member, p \in Member : n = Source(l) /\ p = Destination(l) /\ n # p
  BY LaneFacts
<1> DEFINE b == Reserved(length)
           x == [ticket |-> next_ticket[n], length |-> length, reserved |-> b, offset |-> 0]
<1>2. length \in Nat /\ b \in Nat /\ next_ticket[n] \in Nat
  <2>1. length \in Nat
    BY TransportAssumption
  <2>2. b \in Nat
    BY <2>1 DEF Reserved, LENGTH
  <2>3. next_ticket[n] \in Nat
    BY <1>0 DEF Types
  <2> HIDE DEF b
  <2> QED
    BY <2>1, <2>2, <2>3
<1>3. x \in Frame /\ x.reserved = b
  BY <1>2 DEF Frame
<1>4. /\ ~closed[n]
      /\ next_ticket' = [next_ticket EXCEPT ![n] = next_ticket[n] + 1]
      /\ counts' = [counts EXCEPT ![l] = @ + 1]
      /\ bytes' = [bytes EXCEPT ![n][p] = @ + b]
      /\ receivers' = [receivers EXCEPT ![l] = Append(@, x)]
      /\ writes' = writes /\ backend' = backend /\ closed' = closed /\ read' = read
      /\ pending' = pending /\ failed' = failed /\ shutdown' = shutdown /\ drv' = drv
  BY <1>1 DEF TrySend, Reservable
<1> HIDE DEF x, b
<1>5. receivers[l] \in Seq(Frame) /\ writes[l] \in Seq(Frame) /\ counts[l] \in Int
  BY <1>0 DEF Types
<1>6. Types'
  <2>1. next_ticket' \in [Member -> Nat]
    BY <1>0, <1>2, <1>4 DEF Types
  <2>3. counts' \in [Lane -> Int]
    BY <1>0, <1>4 DEF Types
  <2>4. receivers' \in [Lane -> Seq(Frame)]
    <3>1. Append(receivers[l], x) \in Seq(Frame)
      BY <1>3, <1>5
    <3> QED
      BY <1>0, <1>4, <3>1 DEF Types
  <2>2. bytes' \in [Member -> [Member -> Int]]
    BY <1>0, <1>2, <1>4 DEF Types
  <2> QED
    BY <1>0, <1>4, <2>1, <2>2, <2>3, <2>4 DEF Types
<1>7. receivers'[l] = Append(receivers[l], x) /\ writes'[l] = writes[l] /\ counts'[l] = counts[l] + 1
  BY <1>0, <1>4 DEF Types
<1>8. LaneBytes(l)' = LaneBytes(l) + b
  <2>1. LaneBytes(l)' = ReservedBy(Append(receivers[l], x)) + ReservedBy(writes[l])
    BY <1>7 DEF LaneBytes
  <2>2. ReservedBy(Append(receivers[l], x)) = ReservedBy(receivers[l]) + b
    BY <1>3, <1>5, ReservedAppend
  <2>3. ReservedBy(receivers[l]) \in Nat /\ ReservedBy(writes[l]) \in Nat
    BY <1>5, ReservedType
  <2> QED
    BY <1>2, <2>1, <2>2, <2>3 DEF LaneBytes
<1>9. counts'[l] = Len(receivers'[l]) + Len(writes'[l])
  <2>1. counts[l] = Len(receivers[l]) + Len(writes[l])
    BY <1>0 DEF CreditsExact
  <2>2. Len(Append(receivers[l], x)) = Len(receivers[l]) + 1
    BY <1>3, <1>5
  <2>3. Len(receivers[l]) \in Nat /\ Len(writes[l]) \in Nat
    BY <1>5
  <2>4. Len(receivers'[l]) = Len(receivers[l]) + 1 /\ Len(writes'[l]) = Len(writes[l])
    BY <1>7, <2>2
  <2>5. counts[l] + 1 = (Len(receivers[l]) + 1) + Len(writes[l])
    <3>1. \A i, j \in Nat : (i + j) + 1 = (i + 1) + j
      OBVIOUS
    <3> QED
      BY <2>1, <2>3, <3>1, Zenon
  <2> QED
    BY <1>7, <2>4, <2>5, Zenon
<1>10. /\ \A k \in Lane : k # l => /\ receivers'[k] = receivers[k] /\ writes'[k] = writes[k]
                                   /\ counts'[k] = counts[k]
       /\ bytes'[n][p] = bytes[n][p] + b
       /\ \A m, q \in Member : m # n \/ q # p => bytes'[m][q] = bytes[m][q]
  BY <1>0, <1>4 DEF Types
<1>11. CreditsExact'
  <2>1. Types /\ CreditsExact /\ b \in Int
    BY <1>0, <1>2
  <2>2. Moved(l, n, p, b)
    BY <1>1, <1>8, <1>9, <1>10, Zenon DEF Moved
  <2> QED
    BY <2>1, <2>2, CreditStep
<1>12. ASSUME NEW m \in Member, m # n PROVE Gate(m)'
  <2>1. GateOther(m)
    BY <1>1, <1>4, <1>10, <1>12 DEF GateOther
  <2> QED
    BY <1>0, <2>1, OtherGate
<1>13. Gate(n)'
  BY <1>0, <1>4 DEF Gate, Driving, From, To
<1> QED
  BY <1>6, <1>11, <1>12, <1>13 DEF IInv

\* Taking a submission moves it, and changes nothing in what the lane holds.
LEMMA TakenFacts ==
  ASSUME Types, NEW l \in Lane
  PROVE  /\ Taken(l).receivers \in Seq(Frame) /\ Taken(l).writes \in Seq(Frame)
         /\ ReservedBy(Taken(l).receivers) + ReservedBy(Taken(l).writes) = LaneBytes(l)
         /\ Len(Taken(l).receivers) + Len(Taken(l).writes) = Len(receivers[l]) + Len(writes[l])
         /\ Taken(l).writes = <<>> => Taken(l).writes = writes[l]
<1> DEFINE r == receivers[l]
           s == writes[l]
           takes == r # <<>> /\ Len(s) < IF backend = "tcp" THEN MaxQueued ELSE 1
<1>1. r \in Seq(Frame) /\ s \in Seq(Frame)
  BY DEF Types
<1>2. LaneBytes(l) = ReservedBy(r) + ReservedBy(s) /\ ReservedBy(r) \in Nat /\ ReservedBy(s) \in Nat
  BY <1>1, ReservedType DEF LaneBytes
<1>3. Len(r) \in Nat /\ Len(s) \in Nat
  BY <1>1
<1>4. /\ takes => Taken(l).receivers = Tail(r) /\ Taken(l).writes = Append(s, Head(r))
      /\ ~takes => Taken(l).receivers = r /\ Taken(l).writes = s
  BY DEF Taken
<1>5. CASE takes
  <2>1. r # <<>>
    BY <1>5
  <2> HIDE DEF r, s, takes
  <2>2. Head(r) \in Frame /\ Tail(r) \in Seq(Frame) /\ Len(Tail(r)) = Len(r) - 1
    BY <1>1, <2>1
  <2>3. Append(s, Head(r)) \in Seq(Frame) /\ Len(Append(s, Head(r))) = Len(s) + 1
    BY <1>1, <2>2
  <2>4. ReservedBy(r) = Head(r).reserved + ReservedBy(Tail(r))
    BY <1>1, <2>1, ReservedTail
  <2>5. ReservedBy(Append(s, Head(r))) = ReservedBy(s) + Head(r).reserved
    BY <1>1, <2>2, ReservedAppend
  <2>6. Head(r).reserved \in Nat /\ ReservedBy(Tail(r)) \in Nat
    BY <2>2, ReservedType DEF Frame
  <2>7. Append(s, Head(r)) # <<>>
    BY <1>1, <2>2
  <2>8. ReservedBy(Tail(r)) + ReservedBy(Append(s, Head(r))) = ReservedBy(r) + ReservedBy(s)
    BY <1>2, <2>4, <2>5, <2>6
  <2>9. Len(Tail(r)) + Len(Append(s, Head(r))) = Len(r) + Len(s)
    BY <1>3, <2>2, <2>3
  <2> QED
    BY <1>2, <1>4, <1>5, <2>2, <2>3, <2>7, <2>8, <2>9, Zenon DEF r, s
<1>6. CASE ~takes
  <2> HIDE DEF takes
  <2> QED
    BY <1>1, <1>2, <1>4, <1>6, Zenon
<1> QED
  BY <1>5, <1>6

\* A step of drive that changes one lane and its credit.
LaneChange(n, p, l, r, s, d, e) ==
  /\ n = Source(l) /\ p = Destination(l) /\ r \in Seq(Frame) /\ s \in Seq(Frame)
  /\ receivers' = [receivers EXCEPT ![l] = r] /\ writes' = [writes EXCEPT ![l] = s]
  /\ counts' = [counts EXCEPT ![l] = counts[l] + e]
  /\ bytes' = [bytes EXCEPT ![n][p] = bytes[n][p] + d]
  /\ ReservedBy(r) + ReservedBy(s) = LaneBytes(l) + d
  /\ Len(r) + Len(s) = Len(receivers[l]) + Len(writes[l]) + e

LEMMA LaneStep ==
  ASSUME IInv, NEW n \in Member, NEW p \in Member, NEW l \in Lane, Driving(n),
         NEW r, NEW s, NEW d \in Int, NEW e \in Int, LaneChange(n, p, l, r, s, d, e),
         \E events : Advance(n, events), \E queue : pending' = [pending EXCEPT ![n] = queue],
         UNCHANGED <<backend, closed, next_ticket, read, failed, shutdown>>
  PROVE  IInv'
<1>a. /\ n = Source(l) /\ p = Destination(l) /\ r \in Seq(Frame) /\ s \in Seq(Frame)
      /\ receivers' = [receivers EXCEPT ![l] = r] /\ writes' = [writes EXCEPT ![l] = s]
      /\ counts' = [counts EXCEPT ![l] = counts[l] + e]
      /\ bytes' = [bytes EXCEPT ![n][p] = bytes[n][p] + d]
      /\ ReservedBy(r) + ReservedBy(s) = LaneBytes(l) + d
      /\ Len(r) + Len(s) = Len(receivers[l]) + Len(writes[l]) + e
  BY DEF LaneChange
<1>b. PICK events : Advance(n, events)
  OBVIOUS
<1>c. PICK queue : pending' = [pending EXCEPT ![n] = queue]
  OBVIOUS
<1> USE <1>a, <1>b, <1>c
<1>0. Types /\ CreditsExact
  BY DEF IInv
<1>1. /\ backend' = backend /\ closed' = closed /\ next_ticket' = next_ticket /\ read' = read
      /\ failed' = failed /\ shutdown' = shutdown
  OBVIOUS
<1>2. /\ receivers'[l] = r /\ writes'[l] = s /\ counts'[l] = counts[l] + e
      /\ \A k \in Lane : k # l => /\ receivers'[k] = receivers[k] /\ writes'[k] = writes[k]
                                  /\ counts'[k] = counts[k]
  BY <1>0 DEF Types
<1>3. /\ bytes'[n][p] = bytes[n][p] + d
      /\ \A m, q \in Member : m # n \/ q # p => bytes'[m][q] = bytes[m][q]
  BY <1>0 DEF Types
<1>4. /\ drv' = [m \in Member |-> drv'[m]] /\ \A m \in Member : Shape(drv'[m])
      /\ drv'[n].op = drv[n].op /\ drv'[n].at = drv[n].at + 1
      /\ \A m \in Member : m # n => drv'[m] = drv[m]
  BY <1>0, DrvAdvance
<1>5. /\ pending' = [m \in Member |-> pending'[m]]
      /\ \A m \in Member : m # n => pending'[m] = pending[m]
  <2>1. pending = [m \in Member |-> pending[m]]
    BY <1>0 DEF Types
  <2> QED
    BY <2>1
<1>6. Types'
  <2>1. receivers' \in [Lane -> Seq(Frame)]
    BY <1>0 DEF Types
  <2>2. writes' \in [Lane -> Seq(Frame)]
    BY <1>0 DEF Types
  <2>3. counts' \in [Lane -> Int]
    <3>1. counts \in [Lane -> Int]
      BY <1>0 DEF Types
    <3>2. counts[l] + e \in Int
      BY <3>1
    <3>3. counts' = [counts EXCEPT ![l] = counts[l] + e]
      OBVIOUS
    <3> QED
      BY ONLY <3>1, <3>2, <3>3
  <2>4. bytes' \in [Member -> [Member -> Int]]
    <3>1. bytes \in [Member -> [Member -> Int]]
      BY <1>0 DEF Types
    <3>2. bytes[n][p] + d \in Int
      BY <3>1
    <3>3. bytes' = [bytes EXCEPT ![n][p] = bytes[n][p] + d]
      OBVIOUS
    <3> QED
      BY ONLY <3>1, <3>2, <3>3, n \in Member, p \in Member
  <2>5. /\ backend' \in {"tcp", "mpi"} /\ closed' \in [Member -> BOOLEAN]
        /\ failed' \in [Member -> BOOLEAN] /\ shutdown' \in [Member -> BOOLEAN]
        /\ next_ticket' \in [Member -> Nat] /\ read' = [k \in Lane |-> read'[k]]
    BY <1>0, <1>1, Zenon DEF Types
  <2> QED
    BY <1>4, <1>5, <2>1, <2>2, <2>3, <2>4, <2>5, Zenon DEF Types
<1>7. LaneBytes(l)' = LaneBytes(l) + d
  <2>1. LaneBytes(l)' = ReservedBy(r) + ReservedBy(s)
    BY <1>2 DEF LaneBytes
  <2> QED
    BY <2>1
<1>8. counts'[l] = Len(receivers'[l]) + Len(writes'[l])
  <2>1. counts[l] = Len(receivers[l]) + Len(writes[l])
    BY <1>0 DEF CreditsExact
  <2> QED
    BY <1>2, <2>1, Zenon
<1>9. CreditsExact'
  <2>1. Moved(l, n, p, d)
    BY <1>2, <1>3, <1>7, <1>8, Zenon DEF Moved
  <2> QED
    BY <1>0, <2>1, CreditStep
<1>10. drv'[n].at >= 1
  <2>1. drv[n].at \in Nat
    BY <1>0 DEF Types, Shape
  <2> QED
    BY <1>4, <2>1
<1>11. \A k \in Lane : Source(k) # n => receivers'[k] = receivers[k] /\ writes'[k] = writes[k]
  BY <1>2
<1> QED
  BY <1>1, <1>4, <1>5, <1>6, <1>9, <1>10, <1>11, DriveStep

\* Writing units of a lane's first frame: credit goes with the frame, when it is complete.
LEMMA WrittenChange ==
  ASSUME IInv, NEW n \in Member, NEW p \in Member, NEW l \in Lane, n = Source(l), p = Destination(l),
         NEW w \in Nat, NEW frames, frames = Taken(l).writes, frames # <<>>,
         Written(n, l, frames, w), receivers' = [receivers EXCEPT ![l] = Taken(l).receivers]
  PROVE  \E r, s : \E d, e \in Int : d <= 0 /\ LaneChange(n, p, l, r, s, d, e)
<1> DEFINE f == Head(frames)
           r == Taken(l).receivers
<1>0. Types
  BY DEF IInv
<1>1. /\ r \in Seq(Frame) /\ frames \in Seq(Frame)
      /\ ReservedBy(r) + ReservedBy(frames) = LaneBytes(l)
      /\ Len(r) + Len(frames) = Len(receivers[l]) + Len(writes[l])
  BY <1>0, TakenFacts
<1>2. receivers' = [receivers EXCEPT ![l] = r]
  OBVIOUS
<1>3. f \in Frame /\ Tail(frames) \in Seq(Frame) /\ Len(Tail(frames)) = Len(frames) - 1
  BY <1>1
<1>4. ReservedBy(r) \in Nat /\ ReservedBy(Tail(frames)) \in Nat /\ f.reserved \in Nat
  BY <1>1, <1>3, ReservedType DEF Frame
<1>5. Len(r) \in Nat /\ Len(frames) \in Nat /\ counts[l] \in Int /\ bytes[n][p] \in Int
  BY <1>0, <1>1 DEF Types
<1>9. CASE f.offset + w = FrameUnits(f)
  <2> DEFINE s == Tail(frames)
             d == 0 - f.reserved
  <2>1. /\ writes' = [writes EXCEPT ![l] = s]
        /\ counts' = [counts EXCEPT ![l] = @ - 1]
        /\ bytes' = [bytes EXCEPT ![n][p] = @ - f.reserved]
    BY <1>9 DEF Written, Release
  <2>2. counts' = [counts EXCEPT ![l] = counts[l] + (-1)]
    BY <1>0, <2>1 DEF Types
  <2>3. bytes' = [bytes EXCEPT ![n][p] = bytes[n][p] + d]
    <3>1. bytes[n][p] - f.reserved = bytes[n][p] + d
      BY <1>4, <1>5
    <3> HIDE DEF d
    <3> QED
      BY <1>0, <2>1, <3>1 DEF Types
  <2>4. ReservedBy(frames) = f.reserved + ReservedBy(s)
    BY <1>1, ReservedTail
  <2>5. ReservedBy(r) + ReservedBy(s) = LaneBytes(l) + d
    BY <1>1, <1>4, <2>4
  <2>6. Len(r) + Len(s) = Len(receivers[l]) + Len(writes[l]) + (-1)
    <3>1. \A i, j \in Nat : i + (j - 1) = (i + j) + (-1)
      OBVIOUS
    <3> QED
      BY <1>1, <1>3, <1>5, <3>1, Zenon
  <2>7. d \in Int /\ d <= 0 /\ -1 \in Int /\ s \in Seq(Frame)
    BY <1>3, <1>4
  <2> HIDE DEF d, s, r, f
  <2>8. LaneChange(n, p, l, r, s, d, -1)
    BY <1>1, <1>2, <2>1, <2>2, <2>3, <2>5, <2>6, <2>7, Zenon DEF LaneChange
  <2> QED
    BY <2>7, <2>8
<1>10. CASE f.offset + w # FrameUnits(f)
  <2> DEFINE x == [f EXCEPT !.offset = @ + w]
             s == <<x>> \o Tail(frames)
  <2>1. writes' = [writes EXCEPT ![l] = s] /\ counts' = counts /\ bytes' = bytes
    BY <1>10 DEF Written, credit
  <2>2. counts' = [counts EXCEPT ![l] = counts[l] + 0] /\ bytes' = [bytes EXCEPT ![n][p] = bytes[n][p] + 0]
    BY <1>0, <1>5, <2>1 DEF Types
  <2>3. x \in Frame /\ x.reserved = f.reserved
    <3>1. f.offset + w \in Nat
      BY <1>3 DEF Frame
    <3> QED
      BY <1>3, <3>1 DEF Frame
  <2> HIDE DEF x
  <2>4. s \in Seq(Frame) /\ Len(s) = Len(frames) /\ ReservedBy(s) = ReservedBy(frames)
    BY <1>1, <2>3, ReservedHead
  <2>5. ReservedBy(r) + ReservedBy(s) = LaneBytes(l) + 0
    <3>1. LaneBytes(l) \in Nat
      BY <1>0, LaneBytesType
    <3> QED
      BY <1>1, <2>4, <3>1
  <2>6. Len(r) + Len(s) = Len(receivers[l]) + Len(writes[l]) + 0
    <3>1. \A i, j \in Nat : i + j = (i + j) + 0
      OBVIOUS
    <3> QED
      BY <1>1, <1>5, <2>4, <3>1, Zenon
  <2>7. 0 \in Int /\ 0 <= 0
    OBVIOUS
  <2> HIDE DEF s, r, f
  <2>8. LaneChange(n, p, l, r, s, 0, 0)
    BY <1>1, <1>2, <2>1, <2>2, <2>4, <2>5, <2>6, Zenon DEF LaneChange
  <2> QED
    BY <2>7, <2>8
<1> QED
  BY <1>9, <1>10

\* So a write keeps the invariant.
LEMMA WrittenStep ==
  ASSUME IInv, NEW n \in Member, NEW p \in Member, NEW l \in Lane, n = Source(l), p = Destination(l),
         Driving(n), NEW w \in Nat, NEW frames, frames = Taken(l).writes, frames # <<>>,
         Written(n, l, frames, w), receivers' = [receivers EXCEPT ![l] = Taken(l).receivers],
         UNCHANGED <<backend, closed, next_ticket, read, failed, shutdown>>
  PROVE  IInv'
<1>1. pending = [m \in Member |-> pending[m]]
  BY DEF IInv, Types
<1>2. \E events : Advance(n, events)
  BY DEF Written
<1>3. \E queue : pending' = [pending EXCEPT ![n] = queue]
  <2>1. CASE pending' = pending
    <3>1. pending' = [pending EXCEPT ![n] = pending[n]]
      BY <1>1, <2>1
    <3> QED
      BY <3>1
  <2>2. pending' = pending \/ \E q : pending' = [pending EXCEPT ![n] = q]
    BY <1>1 DEF Written
  <2> QED
    BY <2>1, <2>2
<1>4. PICK r, s : \E d, e \in Int : d <= 0 /\ LaneChange(n, p, l, r, s, d, e)
  BY WrittenChange
<1>5. PICK d \in Int, e \in Int : LaneChange(n, p, l, r, s, d, e)
  BY <1>4
<1> QED
  BY <1>2, <1>3, <1>5, LaneStep

\* Only a submission is taken.
LEMMA TakenChange ==
  ASSUME Types, NEW n \in Member, NEW p \in Member, NEW l \in Lane, n = Source(l), p = Destination(l),
         receivers' = [receivers EXCEPT ![l] = Taken(l).receivers],
         writes' = [writes EXCEPT ![l] = Taken(l).writes], counts' = counts, bytes' = bytes
  PROVE  LaneChange(n, p, l, Taken(l).receivers, Taken(l).writes, 0, 0)
<1> DEFINE r == Taken(l).receivers
           frames == Taken(l).writes
<1>2. /\ r \in Seq(Frame) /\ frames \in Seq(Frame)
      /\ ReservedBy(r) + ReservedBy(frames) = LaneBytes(l)
      /\ Len(r) + Len(frames) = Len(receivers[l]) + Len(writes[l])
  BY TakenFacts
<1>3. counts' = [counts EXCEPT ![l] = counts[l] + 0] /\ bytes' = [bytes EXCEPT ![n][p] = bytes[n][p] + 0]
  BY DEF Types
<1>4. ReservedBy(r) + ReservedBy(frames) = LaneBytes(l) + 0
  <2>1. LaneBytes(l) \in Nat
    BY LaneBytesType
  <2> QED
    BY <1>2, <2>1
<1>5. Len(r) + Len(frames) = Len(receivers[l]) + Len(writes[l]) + 0
  <2>1. \A i, j \in Nat : i + j = (i + j) + 0
    OBVIOUS
  <2>2. receivers[l] \in Seq(Frame) /\ writes[l] \in Seq(Frame)
    BY DEF Types
  <2>3. Len(receivers[l]) \in Nat /\ Len(writes[l]) \in Nat
    BY <2>2
  <2> QED
    BY <1>2, <2>1, <2>3, Zenon
<1> QED
  BY <1>2, <1>3, <1>4, <1>5, Zenon DEF LaneChange

\* So it keeps the invariant.
LEMMA TakenStep ==
  ASSUME IInv, NEW n \in Member, NEW p \in Member, NEW l \in Lane, n = Source(l), p = Destination(l),
         Driving(n), receivers' = [receivers EXCEPT ![l] = Taken(l).receivers],
         writes' = [writes EXCEPT ![l] = Taken(l).writes], counts' = counts, bytes' = bytes,
         pending' = pending, Advance(n, drv[n].events),
         UNCHANGED <<backend, closed, next_ticket, read, failed, shutdown>>
  PROVE  IInv'
<1>0. Types
  BY DEF IInv
<1>1. LaneChange(n, p, l, Taken(l).receivers, Taken(l).writes, 0, 0)
  BY <1>0, TakenChange
<1>2. \E queue : pending' = [pending EXCEPT ![n] = queue]
  <2>1. pending = [m \in Member |-> pending[m]]
    BY <1>0 DEF Types
  <2>2. pending' = [pending EXCEPT ![n] = pending[n]]
    BY <2>1
  <2> QED
    BY <2>2
<1>3. 0 \in Int /\ \E events : Advance(n, events)
  OBVIOUS
<1> QED
  BY <1>1, <1>2, <1>3, LaneStep

\* A driver that is at a stop is driving, for one of the channels.
LEMMA AtStopFacts ==
  ASSUME IInv, NEW n \in Member, NEW p \in Member, n # p \/ backend = "mpi", NEW stop, AtStop(n, stop, p)
  PROVE  Driving(n) /\ Turn(n) \in Channel
<1>1. Driving(n) /\ drv[n].at <= Stops
  BY DEF AtStop
<1>2. n # p => Size > 1
  BY TransportAssumption DEF Member
<1> QED
  BY <1>1, <1>2, TurnIsChannel

\* service_write of a TCP stream.
LEMMA TcpWriteStep ==
  ASSUME IInv, NEW n \in Member, NEW p \in Member \ {n}, TcpWrite(n, p)
  PROVE  IInv'
<1> DEFINE l == <<n, p, Turn(n)>>
           frames == Taken(l).writes
           r == Taken(l).receivers
<1>0. Types /\ p \in Member /\ p # n
  BY DEF IInv
<1>1. Driving(n) /\ Turn(n) \in Channel
  BY <1>0, AtStopFacts DEF TcpWrite
<1>2. l \in Lane /\ n = Source(l) /\ p = Destination(l)
  BY <1>0, <1>1, LaneFacts
<1>3. /\ backend' = backend /\ closed' = closed /\ next_ticket' = next_ticket
      /\ failed' = failed /\ shutdown' = shutdown
  BY DEF TcpWrite
<1>4. CASE /\ receivers' = [receivers EXCEPT ![l] = r] /\ writes' = [writes EXCEPT ![l] = frames]
           /\ Advance(n, drv[n].events) /\ UNCHANGED <<credit, wire, read, pending>>
  <2>1. counts' = counts /\ bytes' = bytes /\ read' = read /\ pending' = pending
    BY <1>4 DEF credit
  <2>2. /\ receivers' = [receivers EXCEPT ![l] = Taken(l).receivers]
        /\ writes' = [writes EXCEPT ![l] = Taken(l).writes]
    BY <1>4
  <2> HIDE DEF l
  <2> QED
    BY <1>0, <1>1, <1>2, <1>3, <1>4, <2>1, <2>2, TakenStep
<1>5. CASE /\ frames # <<>> /\ \E w \in Nat : Written(n, l, frames, w)
           /\ receivers' = [receivers EXCEPT ![l] = r] /\ UNCHANGED read
  <2>1. read' = read
    BY <1>5
  <2>2. PICK w \in Nat : Written(n, l, frames, w)
    BY <1>5
  <2>3. frames = Taken(l).writes /\ receivers' = [receivers EXCEPT ![l] = Taken(l).receivers]
    BY <1>5
  <2> HIDE DEF l, r, frames
  <2> QED
    BY <1>0, <1>1, <1>2, <1>3, <1>5, <2>1, <2>2, <2>3, WrittenStep
<1>6. CASE FailDrain(n) /\ UNCHANGED <<wire, pending>>
  BY <1>1, <1>3, <1>6, DrainStep
<1> QED
  <2>1. \A w \in 1..(WireCapacity - Len(wire[l])) : w \in Nat
    OBVIOUS
  <2> QED
    BY <1>4, <1>5, <1>6, <2>1 DEF TcpWrite

\* When nothing is to be written, nothing was taken.
LEMMA NothingTaken ==
  ASSUME Types, NEW l \in Lane, Taken(l).writes = <<>>, writes' = writes
  PROVE  writes' = [writes EXCEPT ![l] = Taken(l).writes]
<1>1. Taken(l).writes = writes[l]
  BY TakenFacts
<1>2. writes = [k \in Lane |-> writes[k]]
  BY DEF Types
<1>3. [writes EXCEPT ![l] = writes[l]] = writes
  BY <1>2
<1> QED
  BY <1>1, <1>3

\* A blocking send of an MPI chunk.
LEMMA MpiWriteStep ==
  ASSUME IInv, NEW n \in Member, NEW p \in Member \ {n}, MpiWrite(n, p)
  PROVE  IInv'
<1> DEFINE l == <<n, p, Turn(n)>>
           frames == Taken(l).writes
           r == Taken(l).receivers
<1>0. Types /\ p \in Member /\ p # n
  BY DEF IInv
<1>1. Driving(n) /\ Turn(n) \in Channel
  BY <1>0, AtStopFacts DEF MpiWrite
<1>2. l \in Lane /\ n = Source(l) /\ p = Destination(l)
  BY <1>0, <1>1, LaneFacts
<1>3. /\ backend' = backend /\ closed' = closed /\ next_ticket' = next_ticket /\ read' = read
      /\ failed' = failed /\ shutdown' = shutdown /\ receivers' = [receivers EXCEPT ![l] = r]
  BY DEF MpiWrite
<1>4. CASE frames = <<>> /\ Advance(n, drv[n].events) /\ UNCHANGED <<credit, writes, wire, pending>>
  <2>1. counts' = counts /\ bytes' = bytes /\ writes' = writes /\ pending' = pending
    BY <1>4 DEF credit
  <2>2. receivers' = [receivers EXCEPT ![l] = Taken(l).receivers] /\ Taken(l).writes = <<>>
    BY <1>3, <1>4
  <2> HIDE DEF l
  <2>3. writes' = [writes EXCEPT ![l] = Taken(l).writes]
    BY <1>0, <1>2, <2>1, <2>2, NothingTaken
  <2> QED
    BY <1>0, <1>1, <1>2, <1>3, <1>4, <2>1, <2>2, <2>3, TakenStep
<1>5. CASE frames # <<>> /\ Written(n, l, frames, 1)
  <2>1. 1 \in Nat
    OBVIOUS
  <2>3. frames = Taken(l).writes /\ receivers' = [receivers EXCEPT ![l] = Taken(l).receivers]
    BY <1>3
  <2> HIDE DEF l, r, frames
  <2> QED
    BY <1>0, <1>1, <1>2, <1>3, <1>5, <2>1, <2>3, WrittenStep
<1> QED
  BY <1>4, <1>5 DEF MpiWrite

\* What a step of drive may do to the driver, and to what it reads.
DrvKeeps(n) ==
  /\ drv' = [m \in Member |-> drv'[m]] /\ \A m \in Member : Shape(drv'[m])
  /\ drv'[n].op = drv[n].op /\ drv'[n].at >= 1
  /\ \A m \in Member : m # n => drv'[m] = drv[m]
ReadKeeps(n) ==
  /\ read' = [k \in Lane |-> read'[k]]
  /\ \A k \in Lane : Destination(k) # n => read'[k] = read[k]

LEMMA AtLeastOne ==
  ASSUME IInv, NEW n \in Member, Driving(n)
  PROVE  drv[n].at \in Nat /\ drv[n].at >= 1
BY DEF IInv, Types, Shape, Gate

LEMMA AdvanceKeeps ==
  ASSUME IInv, NEW n \in Member, Driving(n), NEW events, Advance(n, events)
  PROVE  DrvKeeps(n)
<1>1. Types
  BY DEF IInv
<1>2. drv'[n].at >= 1
  <2>1. drv'[n].at = drv[n].at + 1
    BY <1>1, DrvAdvance
  <2> QED
    BY <2>1, AtLeastOne
<1> QED
  BY <1>1, <1>2, DrvAdvance DEF DrvKeeps

LEMMA EventsKeep ==
  ASSUME IInv, NEW n \in Member, Driving(n), NEW events, drv' = [drv EXCEPT ![n].events = events]
  PROVE  DrvKeeps(n)
<1>1. Types
  BY DEF IInv
<1>2. drv[n].at \in Nat /\ drv[n].at >= 1
  BY AtLeastOne
<1>3. drv' = [drv EXCEPT ![n].at = drv[n].at, ![n].events = events]
  <2>1. drv = [m \in Member |-> drv[m]] /\ Shape(drv[n])
    BY <1>1 DEF Types
  <2>2. [drv[n] EXCEPT !.at = drv[n].at] = drv[n]
    BY <2>1 DEF Shape
  <2>3. [drv EXCEPT ![n].at = drv[n].at, ![n].events = events]
          = [drv EXCEPT ![n] = [[drv[n] EXCEPT !.at = drv[n].at] EXCEPT !.events = events]]
    BY <2>1
  <2>4. [drv EXCEPT ![n].events = events] = [drv EXCEPT ![n] = [drv[n] EXCEPT !.events = events]]
    BY <2>1
  <2> QED
    BY <2>2, <2>3, <2>4
<1>4. PICK a \in Nat : a = drv[n].at
  BY <1>2
<1>5. drv' = [drv EXCEPT ![n].at = a, ![n].events = events]
  BY <1>3, <1>4
<1>6. /\ drv' = [m \in Member |-> drv'[m]] /\ \A m \in Member : Shape(drv'[m])
      /\ drv'[n].op = drv[n].op /\ drv'[n].at = a
      /\ \A m \in Member : m # n => drv'[m] = drv[m]
  BY <1>1, <1>5, DrvEvents
<1> QED
  BY <1>2, <1>4, <1>6, Zenon DEF DrvKeeps

LEMMA SameKeeps ==
  ASSUME IInv, NEW n \in Member, Driving(n), drv' = drv
  PROVE  DrvKeeps(n)
<1>1. Types
  BY DEF IInv
<1> QED
  BY <1>1, AtLeastOne DEF Types, DrvKeeps

LEMMA ReadSet ==
  ASSUME Types, NEW l \in Lane, NEW x, read' = [read EXCEPT ![l] = x]
  PROVE  ReadKeeps(Destination(l))
<1>1. read = [k \in Lane |-> read[k]]
  BY DEF Types
<1>2. read' = [k \in Lane |-> IF k = l THEN x ELSE read[k]]
  BY <1>1
<1> QED
  BY <1>2 DEF ReadKeeps

\* A step of drive that only reads.
LEMMA ReadStep ==
  ASSUME IInv, NEW n \in Member, Driving(n), DrvKeeps(n), ReadKeeps(n),
         counts' = counts, bytes' = bytes, receivers' = receivers, writes' = writes, pending' = pending,
         UNCHANGED <<backend, closed, next_ticket, failed, shutdown>>
  PROVE  IInv'
<1>0. Types /\ CreditsExact
  BY DEF IInv
<1>1. CreditsExact'
  BY <1>0, CreditSame
<1>2. Types'
  BY <1>0, Zenon DEF Types, DrvKeeps, ReadKeeps
<1> QED
  BY <1>1, <1>2, DriveStep DEF DrvKeeps, ReadKeeps

\* The reads of a TCP stream.
LEMMA TcpReadStep ==
  ASSUME IInv, NEW n \in Member, NEW p \in Member \ {n}, TcpRead(n, p)
  PROVE  IInv'
<1> DEFINE l == <<p, n, Turn(n)>>
<1>0. Types /\ p \in Member /\ p # n
  BY DEF IInv
<1>1. Driving(n) /\ Turn(n) \in Channel
  BY <1>0, AtStopFacts DEF TcpRead
<1>2. l \in Lane /\ n = Destination(l)
  BY <1>0, <1>1, LaneFacts
<1>3. /\ backend' = backend /\ closed' = closed /\ next_ticket' = next_ticket /\ pending' = pending
      /\ failed' = failed /\ shutdown' = shutdown
  BY DEF TcpRead
<1>4. CASE Advance(n, drv[n].events) /\ UNCHANGED <<credit, flow>>
  <2>1. counts' = counts /\ bytes' = bytes /\ receivers' = receivers /\ writes' = writes /\ read' = read
    BY <1>4 DEF credit, flow
  <2>2. ReadKeeps(n)
    BY <1>0, <2>1, Zenon DEF ReadKeeps, Types
  <2>3. DrvKeeps(n)
    BY <1>1, <1>4, AdvanceKeeps
  <2> QED
    BY <1>1, <1>3, <2>1, <2>2, <2>3, ReadStep
<1>5. CASE /\ read' = [read EXCEPT ![l] = read[l] \o wire[l]] /\ Advance(n, drv[n].events)
           /\ UNCHANGED <<credit, receivers, writes>>
  <2>1. counts' = counts /\ bytes' = bytes /\ receivers' = receivers /\ writes' = writes
    BY <1>5 DEF credit
  <2>2. ReadKeeps(n)
    <3> HIDE DEF l
    <3> QED
      BY <1>0, <1>2, <1>5, ReadSet
  <2>3. DrvKeeps(n)
    BY <1>1, <1>5, AdvanceKeeps
  <2> QED
    BY <1>1, <1>3, <2>1, <2>2, <2>3, ReadStep
<1>6. CASE FailDrain(n)
  BY <1>1, <1>3, <1>6, DrainStep
<1>7. read = [k \in Lane |-> read[k]]
  BY <1>0 DEF Types
<1>8. [read EXCEPT ![l] = @ \o wire[l]] = [read EXCEPT ![l] = read[l] \o wire[l]]
  BY <1>2, <1>7
<1> QED
  BY <1>4, <1>5, <1>6, <1>8 DEF TcpRead

\* The decoding loop of a TCP stream.
LEMMA TcpDecodeStep ==
  ASSUME IInv, NEW n \in Member, NEW p \in Member \ {n}, TcpDecode(n, p)
  PROVE  IInv'
<1> DEFINE l == <<p, n, Turn(n)>>
<1>0. Types /\ p \in Member /\ p # n
  BY DEF IInv
<1>1. Driving(n) /\ Turn(n) \in Channel
  BY <1>0, AtStopFacts DEF TcpDecode
<1>2. l \in Lane /\ n = Destination(l)
  BY <1>0, <1>1, LaneFacts
<1>3. /\ backend' = backend /\ closed' = closed /\ next_ticket' = next_ticket /\ pending' = pending
      /\ failed' = failed /\ shutdown' = shutdown
  BY DEF TcpDecode
<1>4. CASE Advance(n, drv[n].events) /\ UNCHANGED <<credit, receivers, writes, read>>
  <2>1. counts' = counts /\ bytes' = bytes /\ receivers' = receivers /\ writes' = writes /\ read' = read
    BY <1>4 DEF credit
  <2>2. ReadKeeps(n)
    BY <1>0, <2>1, Zenon DEF ReadKeeps, Types
  <2>3. DrvKeeps(n)
    BY <1>1, <1>4, AdvanceKeeps
  <2> QED
    BY <1>1, <1>3, <2>1, <2>2, <2>3, ReadStep
<1>5. CASE /\ \E x : read' = [read EXCEPT ![l] = x]
           /\ \E events : drv' = [drv EXCEPT ![n].events = events]
           /\ UNCHANGED <<credit, receivers, writes>>
  <2>1. counts' = counts /\ bytes' = bytes /\ receivers' = receivers /\ writes' = writes
    BY <1>5 DEF credit
  <2>2. ReadKeeps(n)
    <3> HIDE DEF l
    <3> QED
      BY <1>0, <1>2, <1>5, ReadSet
  <2>3. DrvKeeps(n)
    BY <1>1, <1>5, EventsKeep
  <2> QED
    BY <1>1, <1>3, <2>1, <2>2, <2>3, ReadStep
<1>6. CASE FailDrain(n)
  BY <1>1, <1>3, <1>6, DrainStep
<1>7. /\ read = [k \in Lane |-> read[k]] /\ drv = [m \in Member |-> drv[m]] /\ Shape(drv[n])
  BY <1>0 DEF Types
<1>8. \A a : [read EXCEPT ![l] = SubSeq(@, a, Len(@))]
              = [read EXCEPT ![l] = SubSeq(read[l], a, Len(read[l]))]
  BY <1>2, <1>7
<1>9. \A e : [drv EXCEPT ![n].events = Append(@, e)] = [drv EXCEPT ![n].events = Append(drv[n].events, e)]
  BY <1>7 DEF Shape
<1> QED
  BY <1>4, <1>5, <1>6, <1>8, <1>9 DEF TcpDecode

\* The receive loop of the MPI driver.
LEMMA MpiReceiveStep ==
  ASSUME IInv, NEW n \in Member, MpiReceive(n)
  PROVE  IInv'
<1>0. Types
  BY DEF IInv
<1>1. Driving(n)
  BY DEF MpiReceive, AtStop
<1>3. /\ backend' = backend /\ closed' = closed /\ next_ticket' = next_ticket /\ pending' = pending
      /\ failed' = failed /\ shutdown' = shutdown
  BY DEF MpiReceive
<1>4. PICK l \in To(n) :
        LET unit == Head(wire[l])
            slot == Append(read[l], unit)
        IN  IF ~ InSequence(read[l], unit)
            THEN FailDrain(n)
            ELSE /\ IF Len(slot) = unit.total
                    THEN /\ read' = [read EXCEPT ![l] = <<>>]
                         /\ drv' = [drv EXCEPT ![n].events = Append(@, Incoming(l, unit.ticket))]
                    ELSE read' = [read EXCEPT ![l] = slot] /\ UNCHANGED drv
                 /\ UNCHANGED <<credit, receivers, writes>>
  BY DEF MpiReceive
<1>2. l \in Lane /\ n = Destination(l)
  BY DEF To
<1>5. CASE FailDrain(n)
  BY <1>1, <1>3, <1>5, DrainStep
<1>6. CASE /\ \E x : read' = [read EXCEPT ![l] = x]
           /\ (\E events : drv' = [drv EXCEPT ![n].events = events]) \/ drv' = drv
           /\ UNCHANGED <<credit, receivers, writes>>
  <2>1. counts' = counts /\ bytes' = bytes /\ receivers' = receivers /\ writes' = writes
    BY <1>6 DEF credit
  <2>2. ReadKeeps(n)
    BY <1>0, <1>2, <1>6, ReadSet
  <2>3. DrvKeeps(n)
    BY <1>1, <1>6, EventsKeep, SameKeeps
  <2> QED
    BY <1>1, <1>3, <2>1, <2>2, <2>3, ReadStep
<1>7. drv = [m \in Member |-> drv[m]] /\ Shape(drv[n])
  BY <1>0 DEF Types
<1>8. \A e : [drv EXCEPT ![n].events = Append(@, e)] = [drv EXCEPT ![n].events = Append(drv[n].events, e)]
  BY <1>7 DEF Shape
<1> QED
  BY <1>4, <1>5, <1>6, <1>8

\* The end of the receive loop.
LEMMA MpiReceivedStep ==
  ASSUME IInv, NEW n \in Member, MpiReceived(n)
  PROVE  IInv'
<1>0. Types
  BY DEF IInv
<1>1. Driving(n)
  BY DEF MpiReceived, AtStop
<1>3. /\ backend' = backend /\ closed' = closed /\ next_ticket' = next_ticket /\ pending' = pending
      /\ failed' = failed /\ shutdown' = shutdown
      /\ counts' = counts /\ bytes' = bytes /\ receivers' = receivers /\ writes' = writes /\ read' = read
  BY DEF MpiReceived, credit, flow
<1>4. ReadKeeps(n)
  BY <1>0, <1>3, Zenon DEF ReadKeeps, Types
<1>5. DrvKeeps(n)
  BY <1>1, AdvanceKeeps DEF MpiReceived
<1> QED
  BY <1>1, <1>3, <1>4, <1>5, ReadStep

-----------------------------------------------------------------------------
(* The calls of the owner.                                                  *)

\* What a call of n's owner leaves alone.
CallKeeps(n) ==
  /\ backend' = backend /\ next_ticket' = next_ticket /\ counts' = counts /\ bytes' = bytes
  /\ receivers' = receivers /\ writes' = writes
  /\ read' = [k \in Lane |-> read'[k]] /\ \A k \in Lane : Destination(k) # n => read'[k] = read[k]
  /\ pending' = [m \in Member |-> pending'[m]] /\ \A m \in Member : m # n => pending'[m] = pending[m]
  /\ closed' \in [Member -> BOOLEAN] /\ \A m \in Member : m # n => closed'[m] = closed[m]
  /\ failed' \in [Member -> BOOLEAN] /\ \A m \in Member : m # n => failed'[m] = failed[m]
  /\ shutdown' \in [Member -> BOOLEAN] /\ \A m \in Member : m # n => shutdown'[m] = shutdown[m]

\* A call changes its owner's flags; the rest is the owner's gate.
LEMMA CallStep ==
  ASSUME IInv, NEW n \in Member, CallKeeps(n), NEW r, Shape(r), drv' = [drv EXCEPT ![n] = r], Gate(n)'
  PROVE  IInv'
<1>0. Types /\ CreditsExact /\ \A m \in Member : Gate(m)
  BY DEF IInv
<1>1. /\ drv' = [m \in Member |-> drv'[m]] /\ \A m \in Member : Shape(drv'[m])
      /\ \A m \in Member : m # n => drv'[m] = drv[m]
  BY <1>0, DrvSet
<1>2. Types'
  BY <1>0, <1>1, Zenon DEF Types, CallKeeps
<1>3. CreditsExact'
  BY <1>0, CreditSame DEF CallKeeps
<1>4. ASSUME NEW m \in Member, m # n PROVE Gate(m)'
  <2>1. GateOther(m)
    BY <1>1, <1>4 DEF GateOther, CallKeeps
  <2> QED
    BY <1>0, <2>1, OtherGate
<1> QED
  BY <1>2, <1>3, <1>4 DEF IInv

\* A driver with nothing outbound has nothing in its queues.
LEMMA EmptyOutbound ==
  ASSUME IInv, NEW n \in Member
  PROVE  OutboundEmpty(n) <=> \A l \in From(n) : writes[l] = <<>> /\ receivers[l] = <<>>
<1>1. ASSUME NEW l \in From(n), writes[l] = <<>> PROVE counts[l] = 0 <=> receivers[l] = <<>>
  <2>1. l \in Lane
    BY DEF From
  <2>2. counts[l] = Len(receivers[l]) + Len(writes[l])
    BY <2>1 DEF IInv, CreditsExact
  <2>3. receivers[l] \in Seq(Frame)
    BY <2>1 DEF IInv, Types
  <2>4. Len(writes[l]) = 0
    BY <1>1
  <2>5. Len(receivers[l]) \in Nat /\ (Len(receivers[l]) = 0 <=> receivers[l] = <<>>)
    BY <2>3
  <2>6. \A i \in Nat : i + 0 = i
    OBVIOUS
  <2>7. counts[l] = Len(receivers[l])
    BY <2>2, <2>4, <2>5, <2>6, Zenon
  <2> QED
    BY <2>5, <2>7, Zenon
<1> QED
  BY <1>1, Zenon DEF OutboundEmpty

LEMMA FlagSet ==
  ASSUME NEW f \in [Member -> BOOLEAN], NEW n \in Member, NEW b \in BOOLEAN, NEW g, g = [f EXCEPT ![n] = b]
  PROVE  g \in [Member -> BOOLEAN] /\ g[n] = b /\ \A m \in Member : m # n => g[m] = f[m]
OBVIOUS

\* progress begins, or only hands over pending events.
LEMMA ProgressStep ==
  ASSUME IInv, NEW n \in Member, Progress(n)
  PROVE  IInv'
<1>0. Types
  BY DEF IInv
<1>1. /\ backend' = backend /\ next_ticket' = next_ticket /\ counts' = counts /\ bytes' = bytes
      /\ receivers' = receivers /\ writes' = writes /\ read' = read
      /\ closed' = closed /\ failed' = failed /\ shutdown' = shutdown
  BY DEF Progress, credit, flow
<1>2. drv[n].op = "idle" /\ ~shutdown[n] /\ ~failed[n]
  BY DEF Progress
<1>3. PICK r : /\ Shape(r) /\ drv' = [drv EXCEPT ![n] = r]
               /\ r.op = "idle" \/ (r.op = "progress" /\ r.at = 1)
  <2>1. CASE \E events : drv' = [drv EXCEPT ![n] = [op |-> "progress", at |-> 1, events |-> events]]
    <3>1. PICK events : drv' = [drv EXCEPT ![n] = [op |-> "progress", at |-> 1, events |-> events]]
      BY <2>1
    <3> DEFINE r == [op |-> "progress", at |-> 1, events |-> events]
    <3>2. Shape(r) /\ r.op = "progress" /\ r.at = 1
      BY ShapeOf DEF Op
    <3>3. drv' = [drv EXCEPT ![n] = r]
      BY <3>1
    <3> HIDE DEF r
    <3> QED
      BY <3>2, <3>3
  <2>2. CASE drv' = drv
    <3>1. drv = [m \in Member |-> drv[m]] /\ Shape(drv[n])
      BY <1>0 DEF Types
    <3>2. drv' = [drv EXCEPT ![n] = drv[n]]
      BY <2>2, <3>1
    <3>3. PICK s : s = drv[n]
      OBVIOUS
    <3>4. Shape(s) /\ drv' = [drv EXCEPT ![n] = s] /\ s.op = "idle"
      BY <1>2, <3>1, <3>2, <3>3
    <3> QED
      BY <3>4
  <2> QED
    BY <2>1, <2>2 DEF Progress
<1>4. drv'[n] = r
  BY <1>0, <1>3, DrvSet
<1>5. CallKeeps(n)
  <2>1. pending = [m \in Member |-> pending[m]] /\ read = [k \in Lane |-> read[k]]
    BY <1>0 DEF Types
  <2>2. \E x : pending' = [pending EXCEPT ![n] = x]
    <3>1. \A a : [pending EXCEPT ![n] = SubSeq(@, a, Len(@))]
                  = [pending EXCEPT ![n] = SubSeq(pending[n], a, Len(pending[n]))]
      BY <2>1
    <3> QED
      BY <3>1 DEF Progress
  <2>3. pending' = [m \in Member |-> pending'[m]] /\ \A m \in Member : m # n => pending'[m] = pending[m]
    BY <2>1, <2>2
  <2>4. /\ read' = [k \in Lane |-> read'[k]] /\ \A k \in Lane : Destination(k) # n => read'[k] = read[k]
    BY <1>1, <2>1, Zenon
  <2>5. closed \in [Member -> BOOLEAN] /\ failed \in [Member -> BOOLEAN] /\ shutdown \in [Member -> BOOLEAN]
    BY <1>0 DEF Types
  <2> QED
    BY <1>1, <2>3, <2>4, <2>5, Zenon DEF CallKeeps
<1>6. Gate(n)'
  BY <1>1, <1>2, <1>3, <1>4 DEF Gate, Driving
<1> QED
  BY <1>3, <1>5, <1>6, CallStep

\* What every other call but shutdown's last step leaves alone.
LEMMA QuietCall ==
  ASSUME Types, NEW n \in Member,
         UNCHANGED <<backend, next_ticket, counts, bytes, receivers, writes, read, shutdown>>,
         pending' = pending \/ \E x : pending' = [pending EXCEPT ![n] = x],
         closed' = closed \/ closed' = [closed EXCEPT ![n] = TRUE],
         failed' = failed \/ failed' = [failed EXCEPT ![n] = TRUE]
  PROVE  CallKeeps(n)
<1>1. pending = [m \in Member |-> pending[m]] /\ read = [k \in Lane |-> read[k]]
  BY DEF Types
<1>2. closed \in [Member -> BOOLEAN] /\ failed \in [Member -> BOOLEAN] /\ shutdown \in [Member -> BOOLEAN]
  BY DEF Types
<1>3. /\ backend' = backend /\ next_ticket' = next_ticket /\ counts' = counts /\ bytes' = bytes
      /\ receivers' = receivers /\ writes' = writes /\ read' = read /\ shutdown' = shutdown
  OBVIOUS
<1>4. pending' = [m \in Member |-> pending'[m]] /\ \A m \in Member : m # n => pending'[m] = pending[m]
  <2>1. CASE pending' = pending
    BY <1>1, <2>1, Zenon
  <2>2. CASE \E x : pending' = [pending EXCEPT ![n] = x]
    BY <1>1, <2>2
  <2> QED
    BY <2>1, <2>2
<1>5. closed' \in [Member -> BOOLEAN] /\ \A m \in Member : m # n => closed'[m] = closed[m]
  BY <1>2
<1>6. failed' \in [Member -> BOOLEAN] /\ \A m \in Member : m # n => failed'[m] = failed[m]
  BY <1>2
<1>7. read' = [k \in Lane |-> read'[k]] /\ \A k \in Lane : Destination(k) # n => read'[k] = read[k]
  BY <1>1, <1>3, Zenon
<1> QED
  BY <1>2, <1>3, <1>4, <1>5, <1>6, <1>7, Zenon DEF CallKeeps

\* progress returns.
LEMMA ProgressDoneStep ==
  ASSUME IInv, NEW n \in Member, ProgressDone(n)
  PROVE  IInv'
<1>0. Types /\ Gate(n)
  BY DEF IInv
<1>1. /\ backend' = backend /\ next_ticket' = next_ticket /\ counts' = counts /\ bytes' = bytes
      /\ receivers' = receivers /\ writes' = writes /\ read' = read /\ pending' = pending
      /\ closed' = closed /\ failed' = failed /\ shutdown' = shutdown
  BY DEF ProgressDone, credit, flow
<1>2. drv[n].op = "progress" /\ drv' = [drv EXCEPT ![n] = Idle]
  BY DEF ProgressDone
<1>3. Shape(Idle) /\ Idle.op = "idle"
  BY ShapeOf
<1>4. drv'[n] = Idle
  BY <1>0, <1>2, <1>3, DrvSet
<1>5. CallKeeps(n)
  BY <1>0, <1>1, QuietCall
<1>6. Gate(n)'
  BY <1>0, <1>1, <1>2, <1>3, <1>4 DEF Gate, Driving
<1> QED
  BY <1>2, <1>3, <1>5, <1>6, CallStep

\* flush begins only where something is left to write, so never after shutdown.
LEMMA FlushStep ==
  ASSUME IInv, NEW n \in Member, Flush(n)
  PROVE  IInv'
<1>0. Types /\ Gate(n)
  BY DEF IInv
<1>1. /\ backend' = backend /\ next_ticket' = next_ticket /\ counts' = counts /\ bytes' = bytes
      /\ receivers' = receivers /\ writes' = writes /\ read' = read /\ pending' = pending
      /\ closed' = closed /\ failed' = failed /\ shutdown' = shutdown
  BY DEF Flush, credit, flow
<1>2. ~failed[n] /\ ~OutboundEmpty(n) /\ drv' = [drv EXCEPT ![n] = Driven("flush")]
  BY DEF Flush
<1>3. Shape(Driven("flush")) /\ Driven("flush").op = "flush" /\ Driven("flush").at = 1
  BY ShapeOf DEF Op
<1>4. drv'[n] = Driven("flush")
  BY <1>0, <1>2, <1>3, DrvSet
<1>5. CallKeeps(n)
  BY <1>0, <1>1, QuietCall
<1>6. ~shutdown[n]
  BY <1>0, <1>2, EmptyOutbound DEF Gate
<1>7. Gate(n)'
  BY <1>1, <1>2, <1>3, <1>4, <1>6 DEF Gate, Driving
<1> QED
  BY <1>2, <1>3, <1>5, <1>7, CallStep

\* shutdown closes the gate, and goes on at once when nothing is outbound.
LEMMA ShutdownStep ==
  ASSUME IInv, NEW n \in Member, Shutdown(n)
  PROVE  IInv'
<1>0. Types /\ Gate(n)
  BY DEF IInv
<1>1. /\ backend' = backend /\ next_ticket' = next_ticket /\ counts' = counts /\ bytes' = bytes
      /\ receivers' = receivers /\ writes' = writes /\ read' = read /\ pending' = pending
      /\ failed' = failed /\ shutdown' = shutdown /\ closed' = [closed EXCEPT ![n] = TRUE]
  BY DEF Shutdown, credit, flow
<1>2. closed'[n] = TRUE
  BY <1>0, <1>1 DEF Types
<1>3. CallKeeps(n)
  BY <1>0, <1>1, QuietCall
<1>4. ~shutdown[n]
  BY DEF Shutdown
<1>5. CASE failed[n] \/ OutboundEmpty(n)
  <2> DEFINE r == Flushed("shutdown")
  <2>1. drv' = [drv EXCEPT ![n] = r]
    BY <1>5 DEF Shutdown
  <2>2. Shape(r) /\ (r.op = "idle" \/ r.op = "closing")
    BY ShapeOf DEF Op
  <2> HIDE DEF r
  <2>3. drv'[n] = r
    BY <1>0, <2>1, <2>2, DrvSet
  <2>4. \A l \in From(n) : writes[l] = <<>> /\ (receivers[l] # <<>> => failed[n])
    BY <1>0, <1>5, EmptyOutbound DEF Gate
  <2>5. Gate(n)'
    BY <1>1, <1>2, <1>4, <2>2, <2>3, <2>4 DEF Gate, Driving
  <2> QED
    BY <1>3, <2>1, <2>2, <2>5, CallStep
<1>6. CASE ~(failed[n] \/ OutboundEmpty(n))
  <2> DEFINE r == Driven("shutdown")
  <2>1. drv' = [drv EXCEPT ![n] = r]
    BY <1>6 DEF Shutdown
  <2>2. Shape(r) /\ r.op = "shutdown" /\ r.at = 1
    BY ShapeOf DEF Op
  <2> HIDE DEF r
  <2>3. drv'[n] = r
    BY <1>0, <2>1, <2>2, DrvSet
  <2>4. Gate(n)'
    BY <1>1, <1>2, <1>4, <1>6, <2>2, <2>3 DEF Gate, Driving
  <2> QED
    BY <1>3, <2>1, <2>2, <2>4, CallStep
<1> QED
  BY <1>5, <1>6

\* A call of the owner that has driven to the end and returns.
LEMMA ReturnStep ==
  ASSUME IInv, NEW n \in Member, Driving(n), drv' = [drv EXCEPT ![n] = Idle],
         UNCHANGED <<backend, next_ticket, counts, bytes, receivers, writes, read, closed, failed, shutdown>>,
         pending' = pending \/ \E x : pending' = [pending EXCEPT ![n] = x]
  PROVE  IInv'
<1>0. Types /\ Gate(n)
  BY DEF IInv
<1>1. closed' = closed /\ failed' = failed /\ shutdown' = shutdown
  OBVIOUS
<1>2. Shape(Idle) /\ Idle.op = "idle"
  BY ShapeOf
<1>3. drv'[n] = Idle
  BY <1>0, <1>2, DrvSet
<1>4. CallKeeps(n)
  BY <1>0, <1>1, QuietCall
<1>5. Gate(n)'
  BY <1>0, <1>1, <1>2, <1>3 DEF Gate, Driving
<1> QED
  BY <1>2, <1>4, <1>5, CallStep

\* flush returns with an overflow ...
LEMMA FlushOverflowStep ==
  ASSUME IInv, NEW n \in Member, FlushOverflow(n)
  PROVE  IInv'
<1>1. /\ backend' = backend /\ next_ticket' = next_ticket /\ counts' = counts /\ bytes' = bytes
      /\ receivers' = receivers /\ writes' = writes /\ read' = read /\ pending' = pending
      /\ closed' = closed /\ failed' = failed /\ shutdown' = shutdown
  BY DEF FlushOverflow, FlushEnd, credit, flow
<1>2. Driving(n) /\ drv' = [drv EXCEPT ![n] = Idle]
  BY DEF FlushOverflow, FlushEnd, Driving
<1> QED
  BY <1>1, <1>2, ReturnStep

LEMMA FlushEndFacts ==
  ASSUME IInv, NEW n \in Member, FlushEnd(n, TRUE), pending' = [pending EXCEPT ![n] = @ \o drv[n].events]
  PROVE  /\ backend' = backend /\ next_ticket' = next_ticket /\ counts' = counts /\ bytes' = bytes
         /\ receivers' = receivers /\ writes' = writes /\ read' = read
         /\ closed' = closed /\ failed' = failed /\ shutdown' = shutdown
         /\ drv[n].op = "flush" \/ drv[n].op = "shutdown"
         /\ \E x : pending' = [pending EXCEPT ![n] = x]
<1>1. pending = [m \in Member |-> pending[m]]
  BY DEF IInv, Types
<1>2. pending' = [pending EXCEPT ![n] = pending[n] \o drv[n].events]
  BY <1>1
<1>3. \E x : pending' = [pending EXCEPT ![n] = x]
  BY <1>2
<1> QED
  BY <1>3 DEF FlushEnd, credit, flow

\* ... at its deadline ...
LEMMA FlushTimeoutStep ==
  ASSUME IInv, NEW n \in Member, FlushTimeout(n)
  PROVE  IInv'
<1>0. FlushEnd(n, TRUE) /\ pending' = [pending EXCEPT ![n] = @ \o drv[n].events]
  BY DEF FlushTimeout
<1>1. /\ backend' = backend /\ next_ticket' = next_ticket /\ counts' = counts /\ bytes' = bytes
      /\ receivers' = receivers /\ writes' = writes /\ read' = read
      /\ closed' = closed /\ failed' = failed /\ shutdown' = shutdown
      /\ drv[n].op = "flush" \/ drv[n].op = "shutdown"
      /\ \E x : pending' = [pending EXCEPT ![n] = x]
  BY <1>0, FlushEndFacts
<1>2. Driving(n) /\ drv' = [drv EXCEPT ![n] = Idle]
  BY <1>1 DEF FlushTimeout, Driving
<1> QED
  BY <1>1, <1>2, ReturnStep

\* ... or goes on, and shutdown with it.
LEMMA FlushAgainStep ==
  ASSUME IInv, NEW n \in Member, FlushAgain(n)
  PROVE  IInv'
<1>0. FlushEnd(n, TRUE) /\ pending' = [pending EXCEPT ![n] = @ \o drv[n].events]
  BY DEF FlushAgain
<1>1. /\ backend' = backend /\ next_ticket' = next_ticket /\ counts' = counts /\ bytes' = bytes
      /\ receivers' = receivers /\ writes' = writes /\ read' = read
      /\ closed' = closed /\ failed' = failed /\ shutdown' = shutdown
      /\ drv[n].op = "flush" \/ drv[n].op = "shutdown"
      /\ \E x : pending' = [pending EXCEPT ![n] = x]
  BY <1>0, FlushEndFacts
<1>2. Types /\ Gate(n)
  BY DEF IInv
<1>3. CallKeeps(n)
  BY <1>1, <1>2, QuietCall
<1>4. ~failed[n] /\ ~shutdown[n] /\ (drv[n].op = "shutdown" => closed[n])
  BY <1>1, <1>2 DEF Gate, Driving
<1>5. drv = [m \in Member |-> drv[m]] /\ drv[n].op \in Op
  BY <1>2 DEF Types, Shape
<1>6. CASE OutboundEmpty(n)
  <2> DEFINE r == Flushed(drv[n].op)
  <2>1. drv' = [drv EXCEPT ![n] = r]
    BY <1>5, <1>6 DEF FlushAgain
  <2>2. Shape(r) /\ (r.op = "idle" \/ r.op = "closing")
    BY <1>5, ShapeOf
  <2>3. r.op = "closing" => drv[n].op = "shutdown"
    BY <1>1 DEF Flushed, Idle
  <2> HIDE DEF r
  <2>4. drv'[n] = r
    BY <1>2, <2>1, <2>2, DrvSet
  <2>5. \A l \in From(n) : writes[l] = <<>> /\ receivers[l] = <<>>
    BY <1>6, EmptyOutbound
  <2>6. Gate(n)'
    BY <1>1, <1>4, <2>2, <2>3, <2>4, <2>5 DEF Gate, Driving
  <2> QED
    BY <1>3, <2>1, <2>2, <2>6, CallStep
<1>7. CASE ~OutboundEmpty(n)
  <2> DEFINE r == Driven(drv[n].op)
  <2>1. drv' = [drv EXCEPT ![n] = r]
    BY <1>5, <1>7 DEF FlushAgain
  <2>2. Shape(r) /\ r.op = drv[n].op /\ r.at = 1
    BY <1>5, ShapeOf
  <2> HIDE DEF r
  <2>3. drv'[n] = r
    BY <1>2, <2>1, <2>2, DrvSet
  <2>4. Gate(n)'
    BY <1>1, <1>4, <2>2, <2>3 DEF Gate, Driving
  <2> QED
    BY <1>3, <2>1, <2>2, <2>4, CallStep
<1> QED
  BY <1>6, <1>7

\* shutdown clears writes that are empty already: no credit is lost with them.
LEMMA ShutdownKeepsWrites ==
  ASSUME IInv, NEW n \in Member, ShutdownDone(n)
  PROVE  writes' = writes
<1>1. writes = [l \in Lane |-> writes[l]]
  BY DEF IInv, Types
<1>2. \A l \in Lane : Source(l) = n => writes[l] = <<>>
  BY DEF ShutdownDone, IInv, Gate, From
<1>3. [l \in Lane |-> IF Source(l) = n /\ backend = "tcp" THEN <<>> ELSE writes[l]]
        = [l \in Lane |-> writes[l]]
  BY <1>2
<1>4. writes' = [l \in Lane |-> IF Source(l) = n /\ backend = "tcp" THEN <<>> ELSE writes[l]]
  BY DEF ShutdownDone
<1> QED
  BY <1>1, <1>3, <1>4, Zenon

\* The end of shutdown: nothing is left to drop from writes.
LEMMA ShutdownDoneStep ==
  ASSUME IInv, NEW n \in Member, ShutdownDone(n)
  PROVE  IInv'
<1>0. Types /\ Gate(n)
  BY DEF IInv
<1>1. /\ backend' = backend /\ next_ticket' = next_ticket /\ counts' = counts /\ bytes' = bytes
      /\ receivers' = receivers
      /\ failed' = [failed EXCEPT ![n] = @ \/ Partial(n)]
      /\ read' = [l \in Lane |-> IF Destination(l) = n THEN <<>> ELSE read[l]]
      /\ writes' = [l \in Lane |-> IF Source(l) = n /\ backend = "tcp" THEN <<>> ELSE writes[l]]
      /\ pending' = [pending EXCEPT ![n] = <<>>]
      /\ closed' = [closed EXCEPT ![n] = TRUE]
      /\ shutdown' = [shutdown EXCEPT ![n] = TRUE]
      /\ drv' = [drv EXCEPT ![n] = Idle]
      /\ drv[n].op = "closing"
  BY DEF ShutdownDone, credit
<1>2. \A l \in From(n) : writes[l] = <<>> /\ (receivers[l] # <<>> => failed[n])
  BY <1>0, <1>1 DEF Gate
<1>3. writes' = writes
  BY ShutdownKeepsWrites
<1>4. /\ closed' \in [Member -> BOOLEAN] /\ closed'[n] = TRUE
      /\ \A m \in Member : m # n => closed'[m] = closed[m]
  BY <1>0, <1>1 DEF Types
<1>5. /\ shutdown' \in [Member -> BOOLEAN] /\ shutdown'[n] = TRUE
      /\ \A m \in Member : m # n => shutdown'[m] = shutdown[m]
  BY <1>0, <1>1 DEF Types
<1>6. /\ failed' \in [Member -> BOOLEAN] /\ (failed[n] => failed'[n])
      /\ \A m \in Member : m # n => failed'[m] = failed[m]
  <2>1. failed \in [Member -> BOOLEAN]
    BY <1>0 DEF Types
  <2>2. failed' = [failed EXCEPT ![n] = failed[n] \/ Partial(n)]
    BY <1>1, <2>1
  <2>3. PICK b \in BOOLEAN : b = (failed[n] \/ Partial(n))
    BY <2>1, Zenon
  <2>4. failed' = [failed EXCEPT ![n] = b]
    BY <2>2, <2>3, Zenon
  <2> QED
    BY <2>1, <2>3, <2>4, FlagSet
<1>7. /\ pending' = [m \in Member |-> pending'[m]] /\ pending'[n] = <<>>
      /\ \A m \in Member : m # n => pending'[m] = pending[m]
  <2>1. pending = [m \in Member |-> pending[m]]
    BY <1>0 DEF Types
  <2> QED
    BY <1>1, <2>1
<1>8. /\ read' = [k \in Lane |-> read'[k]] /\ \A k \in Lane : Destination(k) = n => read'[k] = <<>>
      /\ \A k \in Lane : Destination(k) # n => read'[k] = read[k]
  BY <1>1
<1>9. CallKeeps(n)
  BY <1>1, <1>3, <1>4, <1>5, <1>6, <1>7, <1>8, Zenon DEF CallKeeps
<1>10. Shape(Idle) /\ Idle.op = "idle"
  BY ShapeOf
<1>11. drv'[n] = Idle
  BY <1>0, <1>1, <1>10, DrvSet
<1>12. Gate(n)'
  BY <1>1, <1>2, <1>3, <1>4, <1>5, <1>6, <1>7, <1>8, <1>10, <1>11 DEF Gate, Driving, To
<1> QED
  BY <1>1, <1>9, <1>10, <1>12, CallStep

\* A crash leaves the dead member's state as it was.
LEMMA CrashStep ==
  ASSUME IInv, NEW n \in Member, Crash(n)
  PROVE  IInv'
<1>0. Types /\ Gate(n)
  BY DEF IInv
<1>1. /\ backend' = backend /\ next_ticket' = next_ticket /\ counts' = counts /\ bytes' = bytes
      /\ receivers' = receivers /\ writes' = writes /\ read' = read /\ pending' = pending
      /\ closed' = closed /\ failed' = failed /\ shutdown' = shutdown
  BY DEF Crash, credit, flow
<1> DEFINE r == [Idle EXCEPT !.op = "dead"]
<1>2. drv' = [drv EXCEPT ![n] = r]
  BY DEF Crash
<1>3. Shape(r) /\ r.op = "dead"
  BY DEF Idle, Shape, Op
<1> HIDE DEF r
<1>4. drv'[n] = r
  BY <1>0, <1>2, <1>3, DrvSet
<1>5. CallKeeps(n)
  BY <1>0, <1>1, QuietCall
<1>6. Gate(n)'
  BY <1>0, <1>1, <1>3, <1>4 DEF Gate, Driving
<1> QED
  BY <1>2, <1>3, <1>5, <1>6, CallStep

\* The second half of fail.
LEMMA FailCloseStep ==
  ASSUME IInv, NEW n \in Member, FailClose(n)
  PROVE  IInv'
<1>0. Types /\ Gate(n)
  BY DEF IInv
<1>1. /\ backend' = backend /\ next_ticket' = next_ticket /\ counts' = counts /\ bytes' = bytes
      /\ receivers' = receivers /\ writes' = writes /\ read' = read /\ pending' = pending
      /\ closed' = [closed EXCEPT ![n] = TRUE] /\ failed' = [failed EXCEPT ![n] = TRUE]
      /\ shutdown' = shutdown
  BY DEF FailClose, credit, flow
<1>2. drv[n].op = "failing" /\ drv' = [drv EXCEPT ![n] = Idle]
  BY DEF FailClose
<1>3. Shape(Idle) /\ Idle.op = "idle"
  BY ShapeOf
<1>4. drv'[n] = Idle
  BY <1>0, <1>2, <1>3, DrvSet
<1>5. CallKeeps(n)
  BY <1>0, <1>1, QuietCall
<1>6. ~shutdown[n] /\ \A l \in From(n) : writes[l] = <<>>
  BY <1>0, <1>2 DEF Gate
<1>7. Gate(n)'
  BY <1>1, <1>3, <1>4, <1>6 DEF Gate, Driving
<1> QED
  BY <1>2, <1>3, <1>5, <1>7, CallStep

-----------------------------------------------------------------------------
(* The theorems.                                                            *)

\* The invariant holds at the start ...
LEMMA InitIInv == Init => IInv
<1> SUFFICES ASSUME Init PROVE IInv
  OBVIOUS
<1>1. Types
  <2>1. Shape(Idle)
    BY ShapeOf
  <2>2. <<>> \in Seq(Frame)
    OBVIOUS
  <2> HIDE DEF Idle
  <2> QED
    BY <2>1, <2>2, TransportAssumption DEF Init, Types
<1>2. CreditsExact
  <2>1. \A l \in Lane : counts[l] = Len(receivers[l]) + Len(writes[l])
    <3>1. Len(<<>>) = 0 /\ 0 = 0 + 0
      OBVIOUS
    <3>2. \A l \in Lane : counts[l] = 0 /\ receivers[l] = <<>> /\ writes[l] = <<>>
      BY DEF Init
    <3> QED
      BY <3>1, <3>2, Zenon
  <2>2. ASSUME NEW n \in Member, NEW p \in Member, n # p PROVE bytes[n][p] = Outstanding(n, p)
    <3> DEFINE c == Len(Channels)
               h == [i \in 1..c |-> LaneBytes(<<n, p, Channels[i]>>)]
               none == [i \in 0..c |-> 0]
    <3>1. \A l \in Lane : LaneBytes(l) = 0
      <4>1. \A l \in Lane : receivers[l] = <<>> /\ writes[l] = <<>>
        BY DEF Init
      <4> QED
        BY <4>1, ReservedNone DEF LaneBytes
    <3>2. \A i \in 1..c : h[i] = 0
      BY <2>2, <3>1, LaneFacts, ChannelFacts
    <3>3. c \in Nat
      BY ChannelFacts
    <3>4. Outstanding(n, p) = Total(h, c)
      BY DEF Outstanding
    <3>5. Sums(h, c, none) /\ none[c] = 0
      BY <3>2, <3>3 DEF Sums
    <3>6. bytes[n][p] = 0
      BY DEF Init
    <3> HIDE DEF c, h, none
    <3>7. Total(h, c) = 0
      BY <3>3, <3>5, TotalIs
    <3> QED
      BY <3>4, <3>6, <3>7
  <2> QED
    BY <2>1, <2>2 DEF CreditsExact
<1>3. \A n \in Member : Gate(n)
  <2>1. Idle.op = "idle"
    BY ShapeOf
  <2> HIDE DEF Idle
  <2> QED
    BY <2>1 DEF Init, Gate, Driving
<1> QED
  BY <1>1, <1>2, <1>3 DEF IInv

\* ... and every step keeps it.
LEMMA NextIInv == IInv /\ [Next]_vars => IInv'
<1> SUFFICES ASSUME IInv, [Next]_vars PROVE IInv'
  OBVIOUS
<1>1. CASE UNCHANGED vars
  <2>1. /\ backend' = backend /\ next_ticket' = next_ticket /\ counts' = counts /\ bytes' = bytes
        /\ receivers' = receivers /\ writes' = writes /\ read' = read /\ pending' = pending
        /\ closed' = closed /\ failed' = failed /\ shutdown' = shutdown /\ drv' = drv
    BY <1>1 DEF vars, credit, flow
  <2>2. CreditsExact'
    BY <2>1, CreditSame DEF IInv
  <2>3. Types'
    BY <2>1 DEF IInv, Types
  <2>4. ASSUME NEW m \in Member PROVE Gate(m)'
    <3>1. GateOther(m)
      BY <2>1 DEF GateOther
    <3> QED
      BY <3>1, OtherGate DEF IInv
  <2> QED
    BY <2>2, <2>3, <2>4 DEF IInv
<1>2. CASE \E l \in Lane : \E length \in Lengths : TrySend(l, length)
  BY <1>2, TrySendStep
<1>3. ASSUME NEW n \in Member, Step(n) PROVE IInv'
  <2>1. ASSUME NEW p \in Member \ {n},
               TcpWrite(n, p) \/ TcpRead(n, p) \/ TcpDecode(n, p) \/ MpiWrite(n, p)
        PROVE  IInv'
    BY <2>1, TcpWriteStep, TcpReadStep, TcpDecodeStep, MpiWriteStep
  <2> QED
    BY <1>3, <2>1, MpiReceiveStep, MpiReceivedStep, FlushOverflowStep, FlushTimeoutStep, FlushAgainStep,
       ProgressDoneStep, ShutdownDoneStep, FailCloseStep DEF Step
<1>4. ASSUME NEW n \in Member, Progress(n) \/ Flush(n) \/ Shutdown(n) \/ Crash(n) PROVE IInv'
  BY <1>4, ProgressStep, FlushStep, ShutdownStep, CrashStep
<1> QED
  BY <1>1, <1>2, <1>3, <1>4 DEF Next

LEMMA InvariantHolds == Spec => []IInv
BY InitIInv, NextIInv, PTL DEF Spec

\* Under every interleaving of submissions, partial writes, failures and
\* shutdown, SubmissionState's counts and bytes are what the queues hold.
THEOREM CreditIsExact == Spec => []CreditsExact
<1>1. IInv => CreditsExact
  BY DEF IInv
<1> QED
  BY <1>1, InvariantHolds, PTL

\* After shutdown nothing is retained, but for a submission that slipped into a failed driver.
THEOREM StoppedDriverIsEmpty == Spec => []StoppedRetainsNothing
<1>1. IInv => StoppedRetainsNothing
  BY DEF IInv, Gate, StoppedRetainsNothing
<1> QED
  BY <1>1, InvariantHolds, PTL

-----------------------------------------------------------------------------
(* The reserve of the control lanes.                                        *)

\* Only try_send adds to what a lane holds.
Shrinks == \A l \in Lane : LaneBytes(l)' \in Nat /\ LaneBytes(l)' <= LaneBytes(l)

LEMMA SameShrinks ==
  ASSUME IInv, receivers' = receivers, writes' = writes
  PROVE  Shrinks
<1>1. \A l \in Lane : LaneBytes(l) \in Nat
  BY LaneBytesType DEF IInv
<1>2. \A l \in Lane : LaneBytes(l)' = LaneBytes(l)
  BY DEF LaneBytes
<1> QED
  BY <1>1, <1>2 DEF Shrinks

LEMMA ChangeShrinks ==
  ASSUME IInv, NEW n, NEW p, NEW l \in Lane, NEW r, NEW s, NEW d \in Int, NEW e, d <= 0,
         LaneChange(n, p, l, r, s, d, e)
  PROVE  Shrinks
<1>0. Types
  BY DEF IInv
<1>1. /\ r \in Seq(Frame) /\ s \in Seq(Frame)
      /\ receivers' = [receivers EXCEPT ![l] = r] /\ writes' = [writes EXCEPT ![l] = s]
      /\ ReservedBy(r) + ReservedBy(s) = LaneBytes(l) + d
  BY DEF LaneChange
<1>2. receivers'[l] = r /\ writes'[l] = s
  BY <1>0, <1>1 DEF Types
<1>3. \A k \in Lane : k # l => receivers'[k] = receivers[k] /\ writes'[k] = writes[k]
  BY <1>0, <1>1 DEF Types
<1>4. \A k \in Lane : LaneBytes(k) \in Nat
  BY <1>0, LaneBytesType
<1>5. LaneBytes(l)' \in Nat /\ LaneBytes(l)' <= LaneBytes(l)
  <2>1. LaneBytes(l)' = LaneBytes(l) + d
    BY <1>1, <1>2 DEF LaneBytes
  <2>2. ReservedBy(r) \in Nat /\ ReservedBy(s) \in Nat
    BY <1>1, ReservedType
  <2> QED
    BY <1>1, <1>4, <2>1, <2>2
<1>6. \A k \in Lane : k # l => LaneBytes(k)' = LaneBytes(k)
  BY <1>3 DEF LaneBytes
<1> QED
  BY <1>4, <1>5, <1>6 DEF Shrinks

LEMMA DrainShrinks ==
  ASSUME IInv, NEW n \in Member, FailDrain(n)
  PROVE  Shrinks
<1>1. \A l \in Lane : LaneBytes(l) \in Nat
  BY LaneBytesType DEF IInv
<1>2. \A l \in Lane : Source(l) = n => receivers'[l] = <<>> /\ writes'[l] = <<>>
  BY DEF FailDrain
<1>3. \A l \in Lane : Source(l) # n => receivers'[l] = receivers[l] /\ writes'[l] = writes[l]
  BY DEF FailDrain
<1>4. \A l \in Lane : Source(l) = n => LaneBytes(l)' = 0
  BY <1>2, ReservedNone DEF LaneBytes
<1>5. \A l \in Lane : Source(l) # n => LaneBytes(l)' = LaneBytes(l)
  BY <1>3 DEF LaneBytes
<1> QED
  BY <1>1, <1>4, <1>5 DEF Shrinks

\* A write takes from its lane, or leaves it as it was.
LEMMA WriteShrinks ==
  ASSUME IInv, NEW n \in Member, NEW p \in Member \ {n}, TcpWrite(n, p) \/ MpiWrite(n, p)
  PROVE  Shrinks
<1> DEFINE l == <<n, p, Turn(n)>>
           frames == Taken(l).writes
<1>0. Types /\ p \in Member /\ p # n
  BY DEF IInv
<1>1. Turn(n) \in Channel
  BY <1>0, AtStopFacts DEF TcpWrite, MpiWrite
<1>2. l \in Lane /\ n = Source(l) /\ p = Destination(l)
  BY <1>0, <1>1, LaneFacts
<1>3. CASE FailDrain(n)
  BY <1>3, DrainShrinks
<1>4. CASE /\ receivers' = [receivers EXCEPT ![l] = Taken(l).receivers]
           /\ writes' = [writes EXCEPT ![l] = frames] \/ (frames = <<>> /\ writes' = writes)
           /\ UNCHANGED credit
  <2>1. counts' = counts /\ bytes' = bytes
    BY <1>4 DEF credit
  <2>2. /\ receivers' = [receivers EXCEPT ![l] = Taken(l).receivers]
        /\ writes' = [writes EXCEPT ![l] = Taken(l).writes] \/ (Taken(l).writes = <<>> /\ writes' = writes)
    BY <1>4
  <2> HIDE DEF l, frames
  <2>3. writes' = [writes EXCEPT ![l] = Taken(l).writes]
    BY <1>0, <1>2, <2>2, NothingTaken
  <2>4. LaneChange(n, p, l, Taken(l).receivers, Taken(l).writes, 0, 0)
    BY <1>0, <1>2, <2>1, <2>2, <2>3, TakenChange
  <2>5. 0 \in Int /\ 0 <= 0
    OBVIOUS
  <2> QED
    BY <1>2, <2>4, <2>5, ChangeShrinks
<1>5. CASE /\ receivers' = [receivers EXCEPT ![l] = Taken(l).receivers]
           /\ frames # <<>> /\ \E w \in Nat : Written(n, l, frames, w)
  <2>1. PICK w \in Nat : Written(n, l, frames, w)
    BY <1>5
  <2>2. frames = Taken(l).writes
    OBVIOUS
  <2> HIDE DEF l, frames
  <2>3. PICK r, s : \E d, e \in Int : d <= 0 /\ LaneChange(n, p, l, r, s, d, e)
    BY <1>0, <1>2, <1>5, <2>1, <2>2, WrittenChange
  <2>4. PICK d \in Int, e \in Int : d <= 0 /\ LaneChange(n, p, l, r, s, d, e)
    BY <2>3
  <2> QED
    BY <1>2, <2>4, ChangeShrinks
<1>6. CASE TcpWrite(n, p)
  <2>1. \A w \in 1..(WireCapacity - Len(wire[l])) : w \in Nat
    OBVIOUS
  <2>2. UNCHANGED <<credit, wire, read, pending>> => UNCHANGED credit
    BY DEF credit
  <2> QED
    BY <1>3, <1>4, <1>5, <1>6, <2>1, <2>2 DEF TcpWrite
<1>7. CASE MpiWrite(n, p)
  <2>1. 1 \in Nat
    OBVIOUS
  <2>2. UNCHANGED <<credit, writes, wire, pending>> => UNCHANGED credit /\ writes' = writes
    BY DEF credit
  <2> QED
    BY <1>4, <1>5, <1>7, <2>1, <2>2 DEF MpiWrite
<1> QED
  BY <1>6, <1>7

LEMMA StepShrinks ==
  ASSUME IInv, NEW n \in Member, Step(n) \/ Progress(n) \/ Flush(n) \/ Shutdown(n) \/ Crash(n)
  PROVE  Shrinks
<1>1. ASSUME NEW p \in Member \ {n}, TcpRead(n, p) PROVE Shrinks
  <2>1. FailDrain(n) \/ (receivers' = receivers /\ writes' = writes)
    BY <1>1 DEF TcpRead, flow
  <2> QED
    BY <2>1, DrainShrinks, SameShrinks
<1>2. ASSUME NEW p \in Member \ {n}, TcpDecode(n, p) PROVE Shrinks
  <2>1. FailDrain(n) \/ (receivers' = receivers /\ writes' = writes)
    BY <1>2 DEF TcpDecode
  <2> QED
    BY <2>1, DrainShrinks, SameShrinks
<1>3. CASE MpiReceive(n)
  <2>1. FailDrain(n) \/ (receivers' = receivers /\ writes' = writes)
    BY <1>3 DEF MpiReceive
  <2> QED
    BY <2>1, DrainShrinks, SameShrinks
<1>4. CASE MpiReceived(n)
  BY <1>4, SameShrinks DEF MpiReceived, flow
<1>5. CASE FlushOverflow(n) \/ FlushTimeout(n) \/ FlushAgain(n)
  BY <1>5, SameShrinks DEF FlushOverflow, FlushTimeout, FlushAgain, FlushEnd, flow
<1>6. CASE ProgressDone(n)
  BY <1>6, SameShrinks DEF ProgressDone, flow
<1>7. CASE FailClose(n)
  BY <1>7, SameShrinks DEF FailClose, flow
<1>8. CASE ShutdownDone(n)
  BY <1>8, SameShrinks, ShutdownKeepsWrites DEF ShutdownDone
<1>9. CASE Progress(n) \/ Flush(n) \/ Shutdown(n) \/ Crash(n)
  <2>1. receivers' = receivers /\ writes' = writes
    BY <1>9 DEF Progress, Flush, Shutdown, Crash, flow
  <2> QED
    BY <2>1, SameShrinks
<1>10. ASSUME NEW p \in Member \ {n}, TcpWrite(n, p) \/ MpiWrite(n, p) PROVE Shrinks
  BY <1>10, WriteShrinks
<1> QED
  BY <1>1, <1>2, <1>3, <1>4, <1>5, <1>6, <1>7, <1>8, <1>9, <1>10 DEF Step

\* What the lanes to p other than the control lane hold.
Held(n, p) == [i \in 1..Len(Channels) |-> IF Channels[i] = "Control" THEN 0
                                          ELSE LaneBytes(<<n, p, Channels[i]>>)]
HeldBytes(n, p) == Total(Held(n, p), Len(Channels))

LEMMA ReserveMeans ==
  ControlKeepsItsReserve <=>
    \A n, p \in Member : n # p => HeldBytes(n, p) <= MaxInflight - ControlReserve
BY DEF ControlKeepsItsReserve, HeldBytes, Held

LEMMA HeldTypes ==
  ASSUME Types, NEW n \in Member, NEW p \in Member, n # p
  PROVE  /\ \A i \in 1..Len(Channels) : Held(n, p)[i] \in Nat
         /\ HeldBytes(n, p) \in Int /\ Outstanding(n, p) \in Int
         /\ HeldBytes(n, p) <= Outstanding(n, p)
<1> DEFINE c == Len(Channels)
           f == Held(n, p)
           h == [i \in 1..c |-> LaneBytes(<<n, p, Channels[i]>>)]
<1>1. \A i \in 1..c : LaneBytes(<<n, p, Channels[i]>>) \in Nat
  BY LaneBytesTypes
<1>2. \A i \in 1..c : f[i] \in Nat /\ h[i] \in Nat /\ f[i] <= h[i]
  BY <1>1 DEF Held
<1>3. c \in Nat
  BY ChannelFacts
<1>4. HeldBytes(n, p) = Total(f, c) /\ Outstanding(n, p) = Total(h, c)
  BY DEF HeldBytes, Outstanding
<1> HIDE DEF f, h, c
<1>5. Total(f, c) \in Int /\ Total(h, c) \in Int
  BY <1>2, <1>3, TotalEqual
<1>6. Total(f, c) <= Total(h, c)
  BY <1>2, <1>3, TotalMonotone
<1> QED
  BY <1>2, <1>4, <1>5, <1>6 DEF f, c

\* A step under which the lanes shrink keeps the reserve ...
LEMMA HeldShrinks ==
  ASSUME IInv, ControlKeepsItsReserve, Shrinks
  PROVE  ControlKeepsItsReserve'
<1> SUFFICES ASSUME NEW n \in Member, NEW p \in Member, n # p
             PROVE  HeldBytes(n, p)' <= MaxInflight - ControlReserve
  BY DEF ControlKeepsItsReserve, HeldBytes, Held
<1> DEFINE c == Len(Channels)
           f == Held(n, p)
           h == [i \in 1..c |-> IF Channels[i] = "Control" THEN 0 ELSE LaneBytes(<<n, p, Channels[i]>>)']
<1>1. \A i \in 1..c : <<n, p, Channels[i]>> \in Lane
  BY LaneFacts, ChannelFacts
<1>2. \A i \in 1..c : LaneBytes(<<n, p, Channels[i]>>) \in Nat
  BY <1>1, LaneBytesType DEF IInv
<1>3. \A i \in 1..c : f[i] \in Int /\ h[i] \in Int /\ h[i] <= f[i]
  BY <1>1, <1>2 DEF Held, Shrinks
<1>4. c \in Nat
  BY ChannelFacts
<1>5. HeldBytes(n, p) = Total(f, c) /\ HeldBytes(n, p)' = Total(h, c)
  BY DEF HeldBytes, Held
<1>6. HeldBytes(n, p) <= MaxInflight - ControlReserve
  BY ReserveMeans
<1>7. MaxInflight - ControlReserve \in Int
  BY TransportAssumption
<1> HIDE DEF f, h, c
<1>8. Total(h, c) <= Total(f, c)
  BY <1>3, <1>4, TotalMonotone
<1>9. Total(h, c) \in Int /\ Total(f, c) \in Int
  BY <1>3, <1>4, TotalEqual
<1> QED
  BY <1>5, <1>6, <1>7, <1>8, <1>9

\* A submission adds what it reserves to its lane.
LEMMA TrySendLane ==
  ASSUME IInv, NEW l \in Lane, NEW length \in Lengths, TrySend(l, length)
  PROVE  /\ Reserved(length) \in Nat /\ LaneBytes(l)' = LaneBytes(l) + Reserved(length)
         /\ \A k \in Lane : k # l => LaneBytes(k)' = LaneBytes(k)
         /\ bytes[Source(l)][Destination(l)] + Reserved(length) <= ByteLimit(ChannelOf(l))
<1>0. Types /\ Source(l) \in Member
  BY LaneFacts DEF IInv
<1> DEFINE n == Source(l)
           b == Reserved(length)
           x == [ticket |-> next_ticket[n], length |-> length, reserved |-> b, offset |-> 0]
<1>1. length \in Nat
  BY TransportAssumption
<1>2. b \in Nat
  BY <1>1 DEF Reserved, LENGTH
<1>3. next_ticket[n] \in Nat
  BY <1>0 DEF Types
<1>4. /\ receivers' = [receivers EXCEPT ![l] = Append(@, x)] /\ writes' = writes
      /\ bytes[Source(l)][Destination(l)] + b <= ByteLimit(ChannelOf(l))
  BY DEF TrySend, Reservable
<1> HIDE DEF b
<1>5. x \in Frame /\ x.reserved = b
  BY <1>1, <1>2, <1>3 DEF Frame
<1> HIDE DEF x
<1>6. /\ receivers'[l] = Append(receivers[l], x) /\ writes'[l] = writes[l]
      /\ \A k \in Lane : k # l => receivers'[k] = receivers[k] /\ writes'[k] = writes[k]
  BY <1>0, <1>4 DEF Types
<1>7. receivers[l] \in Seq(Frame) /\ writes[l] \in Seq(Frame)
  BY <1>0 DEF Types
<1>8. LaneBytes(l)' = LaneBytes(l) + b
  <2>1. LaneBytes(l)' = ReservedBy(Append(receivers[l], x)) + ReservedBy(writes[l])
    BY <1>6 DEF LaneBytes
  <2>2. ReservedBy(Append(receivers[l], x)) = ReservedBy(receivers[l]) + b
    BY <1>5, <1>7, ReservedAppend
  <2>3. ReservedBy(receivers[l]) \in Nat /\ ReservedBy(writes[l]) \in Nat
    BY <1>7, ReservedType
  <2> QED
    BY <1>2, <2>1, <2>2, <2>3 DEF LaneBytes
<1>9. \A k \in Lane : k # l => LaneBytes(k)' = LaneBytes(k)
  BY <1>6 DEF LaneBytes
<1> QED
  BY <1>2, <1>4, <1>8, <1>9 DEF b

\* ... and a submission is refused before it reaches into it.
LEMMA TrySendHeld ==
  ASSUME IInv, ControlKeepsItsReserve, NEW l \in Lane, NEW length \in Lengths, TrySend(l, length)
  PROVE  ControlKeepsItsReserve'
<1> SUFFICES ASSUME NEW n \in Member, NEW p \in Member, n # p
             PROVE  HeldBytes(n, p)' <= MaxInflight - ControlReserve
  BY DEF ControlKeepsItsReserve, HeldBytes, Held
<1> DEFINE c == Len(Channels)
           b == Reserved(length)
           f == Held(n, p)
           h == [i \in 1..c |-> IF Channels[i] = "Control" THEN 0 ELSE LaneBytes(<<n, p, Channels[i]>>)']
           limit == MaxInflight - ControlReserve
<1>0. Types /\ CreditsExact /\ c \in Nat /\ limit \in Int
  BY ChannelFacts, TransportAssumption DEF IInv
<1>1. \A i \in 1..c : <<n, p, Channels[i]>> \in Lane
  BY LaneFacts, ChannelFacts
<1>2. \A i \in 1..c : f[i] \in Int
  BY <1>0, HeldTypes
<1>3. HeldBytes(n, p) = Total(f, c) /\ HeldBytes(n, p)' = Total(h, c)
  BY DEF HeldBytes, Held
<1>4. HeldBytes(n, p) <= limit /\ HeldBytes(n, p) \in Int
  BY <1>0, ReserveMeans, HeldTypes
<1>5. /\ b \in Nat /\ LaneBytes(l)' = LaneBytes(l) + b
      /\ \A k \in Lane : k # l => LaneBytes(k)' = LaneBytes(k)
      /\ bytes[Source(l)][Destination(l)] + b <= ByteLimit(ChannelOf(l))
  BY TrySendLane
<1>6. CASE \A i \in 1..c : Channels[i] # "Control" => <<n, p, Channels[i]>> # l
  <2>1. \A i \in 1..c : h[i] = f[i]
    BY <1>1, <1>5, <1>6 DEF Held
  <2> HIDE DEF c, f, h
  <2>2. Total(h, c) = Total(f, c)
    BY <1>0, <1>2, <2>1, TotalEqual
  <2> QED
    BY <1>3, <1>4, <2>2
<1>7. CASE \E i \in 1..c : Channels[i] # "Control" /\ <<n, p, Channels[i]>> = l
  <2>1. PICK j \in 1..c : Channels[j] # "Control" /\ <<n, p, Channels[j]>> = l
    BY <1>7
  <2>2. n = Source(l) /\ p = Destination(l) /\ ChannelOf(l) = Channels[j]
    BY <2>1, LaneFacts, ChannelFacts
  <2>3. \A i \in 1..c : i # j => <<n, p, Channels[i]>> # l
    BY <2>1, LaneFacts, ChannelFacts
  <2>4. h[j] = f[j] + b
    BY <1>5, <2>1 DEF Held
  <2>5. \A i \in 1..c : i # j => h[i] = f[i]
    BY <1>1, <1>5, <2>3 DEF Held
  <2>6. bytes[n][p] + b <= limit
    BY <1>5, <2>1, <2>2 DEF ByteLimit
  <2>7. bytes[n][p] = Outstanding(n, p) /\ HeldBytes(n, p) <= Outstanding(n, p) /\ Outstanding(n, p) \in Int
    BY <1>0, HeldTypes DEF CreditsExact
  <2>8. b \in Int
    BY <1>5
  <2> HIDE DEF c, f, h, b, limit
  <2>9. Total(h, c) = Total(f, c) + b
    BY <1>0, <1>2, <2>4, <2>5, <2>8, TotalChange
  <2>10. Total(h, c) <= limit
    BY <1>0, <1>3, <1>4, <2>6, <2>7, <2>8, <2>9
  <2> QED
    BY <1>3, <2>10 DEF limit
<1> QED
  BY <1>6, <1>7

LEMMA InitReserve == Init => ControlKeepsItsReserve
<1> SUFFICES ASSUME Init PROVE ControlKeepsItsReserve
  OBVIOUS
<1>0. IInv
  BY InitIInv
<1> SUFFICES ASSUME NEW n \in Member, NEW p \in Member, n # p
             PROVE  HeldBytes(n, p) <= MaxInflight - ControlReserve
  BY ReserveMeans
<1>1. HeldBytes(n, p) <= Outstanding(n, p) /\ HeldBytes(n, p) \in Int
  BY <1>0, HeldTypes DEF IInv
<1>2. bytes[n][p] = Outstanding(n, p)
  BY <1>0 DEF IInv, CreditsExact
<1>3. bytes[n][p] = 0
  BY DEF Init
<1>4. MaxInflight \in Nat /\ ControlReserve \in Nat /\ ControlReserve < MaxInflight
  BY TransportAssumption
<1> QED
  BY <1>1, <1>2, <1>3, <1>4

LEMMA NextReserve == IInv /\ ControlKeepsItsReserve /\ [Next]_vars => ControlKeepsItsReserve'
<1> SUFFICES ASSUME IInv, ControlKeepsItsReserve, [Next]_vars PROVE ControlKeepsItsReserve'
  OBVIOUS
<1>1. CASE UNCHANGED vars
  <2>1. receivers' = receivers /\ writes' = writes
    BY <1>1 DEF vars, flow
  <2> QED
    BY <2>1, SameShrinks, HeldShrinks
<1>2. CASE \E l \in Lane : \E length \in Lengths : TrySend(l, length)
  BY <1>2, TrySendHeld
<1>3. CASE \E n \in Member : Step(n) \/ Progress(n) \/ Flush(n) \/ Shutdown(n) \/ Crash(n)
  BY <1>3, StepShrinks, HeldShrinks
<1> QED
  BY <1>1, <1>2, <1>3 DEF Next

\* Action and Bulk parcels never reach into the bytes SubmissionState keeps for control parcels.
THEOREM ReserveIsKept == Spec => []ControlKeepsItsReserve
<1>1. Init => IInv /\ ControlKeepsItsReserve
  BY InitIInv, InitReserve
<1>2. (IInv /\ ControlKeepsItsReserve) /\ [Next]_vars => (IInv /\ ControlKeepsItsReserve)'
  BY NextIInv, NextReserve
<1> QED
  BY <1>1, <1>2, PTL DEF Spec

-----------------------------------------------------------------------------
(* The framing of a stream.                                                 *)

\* Unit u is the last one of its parcel, k being the units of the length prefix.
Ends(u, k) == u.index + 1 = u.total + k
WholeUnit(u, k) == u.total >= 1 /\ u.index + 1 <= u.total + k
Follows(u, v, k) ==
  IF Ends(u, k) THEN v.index = 0
  ELSE v.ticket = u.ticket /\ v.index = u.index + 1 /\ v.total = u.total

\* A row of parcels from the first unit of one.
Stream(s, k) ==
  /\ s \in Seq(Unit)
  /\ \A i \in 1..Len(s) : WholeUnit(s[i], k)
  /\ Len(s) > 0 => s[1].index = 0
  /\ \A i \in 1..(Len(s) - 1) : Follows(s[i], s[i + 1], k)

\* What waits to be written: only the first frame may have begun.
Queue(q, w, k) ==
  /\ q \in Seq(Frame) /\ w \in Seq(Frame)
  /\ \A i \in 1..Len(q) : q[i].length >= 1 /\ q[i].offset = 0
  /\ \A i \in 1..Len(w) : w[i].length >= 1 /\ (i > 1 => w[i].offset = 0)
  /\ Len(w) > 0 => w[1].offset < w[1].length + k

\* The first frame goes on where the stream stops.
Joined(w, s, k) ==
  IF Len(s) > 0 /\ ~Ends(s[Len(s)], k)
  THEN /\ Len(w) > 0 /\ w[1].ticket = s[Len(s)].ticket /\ w[1].length = s[Len(s)].total
       /\ w[1].offset = s[Len(s)].index + 1
  ELSE Len(w) > 0 => w[1].offset = 0

\* What has been read and what is on its way are a row of parcels.
Line(r, x, k) == r \in Seq(Unit) /\ x \in Seq(Unit) /\ Stream(r \o x, k)
Framed(q, w, r, x, k) == Queue(q, w, k) /\ Line(r, x, k) /\ Joined(w, r \o x, k)
\* A reader that has r and x before it comes to have s and y, and loses no framing.
Shift(r, x, s, y, k) == Line(s, y, k) /\ \A w : Joined(w, r \o x, k) => Joined(w, s \o y, k)

\* A submission joins the queue.
LEMMA Enqueued ==
  ASSUME NEW k \in {0, 1}, NEW q, NEW w, Queue(q, w, k), NEW f \in Frame, f.length >= 1, f.offset = 0
  PROVE  Queue(Append(q, f), w, k)
<1>1. q \in Seq(Frame) /\ \A i \in 1..Len(q) : q[i].length >= 1 /\ q[i].offset = 0
  BY DEF Queue
<1>2. Append(q, f) \in Seq(Frame) /\ Len(Append(q, f)) = Len(q) + 1 /\ Len(q) \in Nat
  BY <1>1
<1>3. \A i \in 1..(Len(q) + 1) : Append(q, f)[i] = IF i = Len(q) + 1 THEN f ELSE q[i]
  BY <1>1
<1>4. \A i \in 1..Len(Append(q, f)) : Append(q, f)[i].length >= 1 /\ Append(q, f)[i].offset = 0
  BY <1>1, <1>2, <1>3
<1> QED
  BY <1>2, <1>4 DEF Queue

\* A submission moves to the frames.
LEMMA Moves ==
  ASSUME NEW k \in {0, 1}, NEW q, NEW w, NEW s, Queue(q, w, k), Joined(w, s, k), q # <<>>
  PROVE  Queue(Tail(q), Append(w, Head(q)), k) /\ Joined(Append(w, Head(q)), s, k)
<1>1. /\ q \in Seq(Frame) /\ w \in Seq(Frame)
      /\ \A i \in 1..Len(q) : q[i].length >= 1 /\ q[i].offset = 0
      /\ \A i \in 1..Len(w) : w[i].length >= 1 /\ (i > 1 => w[i].offset = 0)
      /\ Len(w) > 0 => w[1].offset < w[1].length + k
  BY DEF Queue
<1> DEFINE h == Head(q)
           v == Append(w, h)
<1>2. h \in Frame /\ h = q[1] /\ Len(q) \in Nat /\ Len(q) >= 1
  BY <1>1
<1>3. h.length \in Nat /\ h.length >= 1 /\ h.offset = 0
  BY <1>1, <1>2 DEF Frame
<1>4. /\ Tail(q) \in Seq(Frame) /\ Len(Tail(q)) = Len(q) - 1
      /\ \A i \in 1..(Len(q) - 1) : Tail(q)[i] = q[i + 1]
  BY <1>1, <1>2
<1>5. \A i \in 1..Len(Tail(q)) : Tail(q)[i].length >= 1 /\ Tail(q)[i].offset = 0
  <2> SUFFICES ASSUME NEW i \in 1..(Len(q) - 1)
               PROVE  Tail(q)[i].length >= 1 /\ Tail(q)[i].offset = 0
    BY <1>4
  <2>1. i + 1 \in 1..Len(q)
    BY <1>2
  <2> QED
    BY <1>1, <1>4, <2>1
<1>6. /\ v \in Seq(Frame) /\ Len(v) = Len(w) + 1 /\ Len(w) \in Nat
      /\ \A i \in 1..Len(w) : v[i] = w[i]
      /\ v[Len(w) + 1] = h
  BY <1>1, <1>2
<1> HIDE DEF v, h
<1>7. \A i \in 1..Len(v) : v[i].length >= 1 /\ (i > 1 => v[i].offset = 0)
  BY <1>1, <1>3, <1>6
<1>8. CASE Len(w) > 0
  <2>1. v[1] = w[1] /\ Len(v) > 0
    BY <1>6, <1>8
  <2> QED
    BY <1>1, <1>4, <1>5, <1>6, <1>7, <1>8, <2>1 DEF Queue, Joined, v, h
<1>9. CASE Len(w) = 0
  <2>1. v[1] = h /\ Len(v) = 1
    BY <1>6, <1>9
  <2>2. Queue(Tail(q), v, k)
    BY <1>3, <1>4, <1>5, <1>6, <1>7, <2>1 DEF Queue
  <2>3. ~(Len(s) > 0 /\ ~Ends(s[Len(s)], k))
    BY <1>9 DEF Joined
  <2>4. Joined(v, s, k)
    BY <1>3, <2>1, <2>3 DEF Joined
  <2> QED
    BY <2>2, <2>4 DEF v, h
<1> QED
  BY <1>6, <1>8, <1>9

\* What is left of a row of parcels when whole parcels leave its front, or nothing does.
LEMMA Rest ==
  ASSUME NEW k \in {0, 1}, NEW s, NEW t \in Seq(Unit), NEW n \in Nat, Stream(s, k),
         Len(s) = n + Len(t), \A i \in 1..Len(t) : t[i] = s[i + n], n = 0 \/ Ends(s[n], k)
  PROVE  Stream(t, k) /\ \A w : Joined(w, s, k) => Joined(w, t, k)
<1>1. Len(t) \in Nat /\ Len(s) \in Nat
  BY DEF Stream
<1>2. \A i \in 1..Len(t) : i + n \in 1..Len(s)
  BY <1>1
<1>3. \A i \in 1..Len(t) : WholeUnit(t[i], k)
  BY <1>2 DEF Stream
<1>4. ASSUME Len(t) > 0 PROVE t[1].index = 0
  <2>1. t[1] = s[n + 1]
    BY <1>1, <1>4
  <2>2. CASE n = 0
    BY <1>1, <1>4, <2>1, <2>2 DEF Stream
  <2>3. CASE n # 0
    <3>1. n \in 1..(Len(s) - 1) /\ Ends(s[n], k)
      BY <1>1, <1>4, <2>3
    <3> QED
      BY <2>1, <3>1 DEF Stream, Follows
  <2> QED
    BY <2>2, <2>3
<1>5. ASSUME NEW i \in 1..(Len(t) - 1) PROVE Follows(t[i], t[i + 1], k)
  <2>1. t[i] = s[i + n] /\ t[i + 1] = s[(i + n) + 1] /\ i + n \in 1..(Len(s) - 1)
    <3>1. i \in 1..Len(t) /\ i + 1 \in 1..Len(t) /\ (i + 1) + n = (i + n) + 1
      BY <1>1
    <3> QED
      BY <1>1, <3>1
  <2> QED
    BY <2>1 DEF Stream
<1>6. Stream(t, k)
  BY <1>3, <1>4, <1>5 DEF Stream
<1>7. ASSUME NEW w, Joined(w, s, k) PROVE Joined(w, t, k)
  <2>1. CASE Len(t) > 0
    <3>1. t[Len(t)] = s[Len(s)] /\ Len(s) > 0
      BY <1>1, <2>1
    <3> QED
      BY <1>7, <2>1, <3>1 DEF Joined
  <2>2. CASE Len(t) = 0
    <3>1. Len(s) = n
      BY <1>1, <2>2
    <3>2. ~(Len(s) > 0 /\ ~Ends(s[Len(s)], k))
      BY <3>1
    <3> QED
      BY <1>7, <2>2, <3>2 DEF Joined
  <2> QED
    BY <1>1, <2>1, <2>2
<1> QED
  BY <1>6, <1>7

\* u is the i-th of the units that are written from frame f.
IsUnit(u, f, i) == u.ticket = f.ticket /\ u.index = (f.offset + i) - 1 /\ u.total = f.length

LEMMA Before ==
  \A a, b, k, m, j \in Int : a + m <= b + k /\ j < m => a + j < b + k
OBVIOUS

\* t is the stream s of n units, and m units of the first frame f behind them.
Writes(q, w, s, t, m, f, n, k) ==
  /\ Queue(q, w, k) /\ Stream(s, k) /\ Joined(w, s, k)
  /\ Len(w) > 0 /\ f = w[1] /\ n = Len(s) /\ m \in Nat /\ m >= 1
  /\ f.offset + m <= f.length + k
  /\ t \in Seq(Unit) /\ Len(t) = n + m
  /\ \A i \in 1..n : t[i] = s[i]
  /\ \A i \in 1..m : IsUnit(t[n + i], f, i)

\* Units of the first frame follow the stream ...
LEMMA Extended ==
  ASSUME NEW k \in {0, 1}, NEW q, NEW w, NEW s, NEW t, NEW m, NEW f, NEW n, Writes(q, w, s, t, m, f, n, k)
  PROVE  Stream(t, k)
<1>0. /\ Queue(q, w, k) /\ Stream(s, k) /\ Joined(w, s, k)
      /\ Len(w) > 0 /\ f = w[1] /\ n = Len(s) /\ m \in Nat /\ m >= 1
      /\ f.offset + m <= f.length + k
      /\ t \in Seq(Unit) /\ Len(t) = n + m
      /\ \A i \in 1..n : t[i] = s[i]
      /\ \A i \in 1..m : IsUnit(t[n + i], f, i)
  BY DEF Writes
<1> USE <1>0
<1>1. f.offset \in Nat /\ f.length \in Nat /\ f.ticket \in Nat /\ f.length >= 1
  <2>1. f \in Frame /\ f.length >= 1
    BY DEF Queue
  <2> QED
    BY <2>1 DEF Frame
<1>2. n \in Nat /\ Len(t) = n + m /\ Len(t) \in Nat
  BY DEF Stream
<1>3. \A i \in 1..m : /\ t[n + i].ticket = f.ticket /\ t[n + i].index = (f.offset + i) - 1
                      /\ t[n + i].total = f.length
  BY DEF IsUnit
<1>4. \A i \in 1..n : t[i] = s[i] /\ WholeUnit(t[i], k)
  BY DEF Stream
<1>a. f.offset + m <= f.length + k
  OBVIOUS
<1>b. IF n > 0 /\ ~Ends(s[n], k)
      THEN f.ticket = s[n].ticket /\ f.length = s[n].total /\ f.offset = s[n].index + 1
      ELSE f.offset = 0
  BY DEF Joined
<1>5. \A i \in 1..Len(t) : WholeUnit(t[i], k)
  <2> SUFFICES ASSUME NEW i \in 1..Len(t), ~(i \in 1..n) PROVE WholeUnit(t[i], k)
    BY <1>4
  <2>1. i - n \in 1..m /\ n + (i - n) = i
    BY <1>2
  <2>2. t[i].index = (f.offset + (i - n)) - 1 /\ t[i].total = f.length
    BY <1>3, <2>1
  <2> QED
    BY <1>1, <1>2, <1>a, <2>1, <2>2 DEF WholeUnit
<1>6. t[1].index = 0
  <2>1. CASE n > 0
    BY <1>2, <1>4, <2>1 DEF Stream
  <2>2. CASE n = 0
    <3>1. t[n + 1].index = (f.offset + 1) - 1
      BY <1>3
    <3>2. n + 1 = 1 /\ f.offset = 0
      BY <1>b, <2>2
    <3> QED
      BY <3>1, <3>2
  <2> QED
    BY <1>2, <2>1, <2>2
<1>7. ASSUME NEW i \in 1..(Len(t) - 1) PROVE Follows(t[i], t[i + 1], k)
  <2>1. CASE i < n
    <3>1. i \in 1..(Len(s) - 1) /\ i \in 1..n /\ i + 1 \in 1..n
      BY <1>2, <2>1
    <3> QED
      BY <1>4, <3>1 DEF Stream
  <2>2. CASE i = n
    <3>1. n \in 1..n
      BY <1>2, <2>2
    <3>2. t[i] = s[n]
      BY <1>4, <2>2, <3>1
    <3>3. t[i + 1].ticket = f.ticket /\ t[i + 1].index = (f.offset + 1) - 1 /\ t[i + 1].total = f.length
      BY <1>3, <2>2
    <3>4. t[i + 1].index = f.offset
      BY <1>1, <3>3
    <3> QED
      BY <1>2, <1>b, <2>2, <3>1, <3>2, <3>3, <3>4 DEF Follows
  <2>3. CASE i > n
    <3>1. i - n \in 1..m /\ (i - n) + 1 \in 1..m /\ n + (i - n) = i /\ n + ((i - n) + 1) = i + 1
      BY <1>2, <2>3
    <3>2. t[i].ticket = f.ticket /\ t[i].index = (f.offset + (i - n)) - 1 /\ t[i].total = f.length
      BY <1>3, <3>1
    <3>3. /\ t[i + 1].ticket = f.ticket /\ t[i + 1].index = (f.offset + ((i - n) + 1)) - 1
          /\ t[i + 1].total = f.length
      BY <1>3, <3>1
    <3>4. t[i + 1].index = t[i].index + 1
      BY <1>1, <1>2, <3>1, <3>2, <3>3
    <3>5. ~Ends(t[i], k)
      <4>1. i - n < m
        BY <1>2, <3>1
      <4>2. i - n \in Nat
        BY <3>1
      <4>3. PICK j \in Nat : j = i - n
        BY <4>2
      <4>4. k \in Int
        OBVIOUS
      <4>5. f.offset + j < f.length + k
        <5>1. f.offset \in Int /\ f.length \in Int /\ m \in Int /\ j \in Int /\ j < m
          BY <1>1, <4>1, <4>3
        <5> QED
          BY <1>a, <4>4, <5>1, Before, Zenon
      <4>6. ((f.offset + j) - 1) + 1 # f.length + k
        BY <1>1, <4>3, <4>4, <4>5
      <4>7. t[i].index = (f.offset + j) - 1 /\ t[i].total = f.length
        BY <3>2, <4>3
      <4> QED
        BY <4>6, <4>7 DEF Ends
    <3> QED
      BY <3>2, <3>3, <3>4, <3>5 DEF Follows
  <2> QED
    BY <1>2, <2>1, <2>2, <2>3
<1> QED
  BY <1>2, <1>5, <1>6, <1>7 DEF Stream

\* ... and make room for the next frame when they were the last of theirs ...
LEMMA FrameDone ==
  ASSUME NEW k \in {0, 1}, NEW q, NEW w, NEW t, NEW m \in Nat, Queue(q, w, k), Len(w) > 0,
         NEW f, f = w[1], f.offset + m = f.length + k, Len(t) > 0, IsUnit(t[Len(t)], f, m)
  PROVE  Queue(q, Tail(w), k) /\ Joined(Tail(w), t, k)
<1>1. /\ q \in Seq(Frame) /\ w \in Seq(Frame) /\ Len(w) \in Nat /\ w # <<>>
      /\ \A i \in 1..Len(q) : q[i].length >= 1 /\ q[i].offset = 0
      /\ \A i \in 1..Len(w) : w[i].length >= 1 /\ (i > 1 => w[i].offset = 0)
  BY DEF Queue
<1>2. /\ Tail(w) \in Seq(Frame) /\ Len(Tail(w)) = Len(w) - 1
      /\ \A i \in 1..(Len(w) - 1) : Tail(w)[i] = w[i + 1]
  BY <1>1
<1>3. ASSUME NEW i \in 1..Len(Tail(w))
      PROVE  /\ Tail(w)[i].length \in Nat /\ Tail(w)[i].length >= 1
             /\ Tail(w)[i].offset = 0
  <2>1. i \in 1..(Len(w) - 1) /\ i + 1 \in 1..Len(w) /\ i + 1 > 1
    BY <1>1, <1>2
  <2>2. Tail(w)[i] = w[i + 1] /\ w[i + 1] \in Frame
    BY <1>1, <1>2, <2>1
  <2>3. w[i + 1].length \in Nat
    BY <2>2 DEF Frame
  <2> QED
    BY <1>1, <2>1, <2>2, <2>3
<1>4. Len(Tail(w)) > 0 => 1 \in 1..Len(Tail(w))
  BY <1>1, <1>2
<1>5. Len(Tail(w)) > 0 => Tail(w)[1].offset = 0 /\ Tail(w)[1].offset < Tail(w)[1].length + k
  BY <1>3, <1>4
<1>6. Queue(q, Tail(w), k)
  BY <1>1, <1>2, <1>3, <1>5 DEF Queue
<1>7. Ends(t[Len(t)], k)
  <2>1. f \in Frame
    BY <1>1
  <2>2. f.offset \in Nat /\ f.length \in Nat
    BY <2>1 DEF Frame
  <2> QED
    BY <2>2 DEF Ends, IsUnit
<1> QED
  BY <1>5, <1>6, <1>7 DEF Joined

\* ... or leave it where it goes on.
LEMMA FrameGoesOn ==
  ASSUME NEW k \in {0, 1}, NEW q, NEW w, NEW t, NEW m \in Nat, Queue(q, w, k), Len(w) > 0,
         NEW f, f = w[1], f.offset + m < f.length + k, Len(t) > 0, IsUnit(t[Len(t)], f, m),
         NEW g \in Frame, g.ticket = f.ticket, g.length = f.length, g.offset = f.offset + m
  PROVE  Queue(q, <<g>> \o Tail(w), k) /\ Joined(<<g>> \o Tail(w), t, k)
<1> DEFINE v == <<g>> \o Tail(w)
<1>1. /\ q \in Seq(Frame) /\ w \in Seq(Frame) /\ Len(w) \in Nat /\ w # <<>>
      /\ \A i \in 1..Len(q) : q[i].length >= 1 /\ q[i].offset = 0
      /\ \A i \in 1..Len(w) : w[i].length >= 1 /\ (i > 1 => w[i].offset = 0)
  BY DEF Queue
<1>2. f \in Frame /\ f.length >= 1
  BY <1>1
<1>3. f.offset \in Nat /\ f.length \in Nat
  BY <1>2 DEF Frame
<1>4. Tail(w) \in Seq(Frame) /\ Len(Tail(w)) = Len(w) - 1
  BY <1>1
<1>5. /\ v \in Seq(Frame) /\ Len(v) = Len(w) /\ v[1] = g
      /\ \A i \in 2..Len(w) : v[i] = w[i]
  BY <1>1, <1>4
<1> HIDE DEF v
<1>6. \A i \in 1..Len(v) : v[i].length >= 1 /\ (i > 1 => v[i].offset = 0)
  <2> SUFFICES ASSUME NEW i \in 1..Len(w) PROVE v[i].length >= 1 /\ (i > 1 => v[i].offset = 0)
    BY <1>5
  <2>1. CASE i = 1
    BY <1>2, <1>5, <2>1
  <2>2. CASE i # 1
    <3>1. i \in 2..Len(w)
      BY <1>1, <2>2
    <3> QED
      BY <1>1, <1>5, <3>1
  <2> QED
    BY <2>1, <2>2
<1>7. Queue(q, v, k)
  BY <1>1, <1>5, <1>6 DEF Queue
<1>8. v[1].ticket = f.ticket /\ v[1].length = f.length /\ v[1].offset = f.offset + m
  BY <1>5
<1>9. ~Ends(t[Len(t)], k)
  BY <1>3 DEF Ends, IsUnit
<1>10. Joined(v, t, k)
  <2>1. v[1].offset = t[Len(t)].index + 1
    BY <1>3, <1>8 DEF IsUnit
  <2> QED
    BY <1>1, <1>5, <1>8, <1>9, <2>1 DEF Joined, IsUnit
<1> QED
  BY <1>7, <1>10 DEF v

\* The units at the front of a stream, up to the last one of the first parcel, are in order.
LEMMA FirstParcel ==
  ASSUME NEW k \in {0, 1}, NEW s, Stream(s, k), NEW n \in Nat, n = s[1].total + k, n <= Len(s),
         Len(s) > 0
  PROVE  n >= 1 /\ Ends(s[n], k) /\ s[n].index = n - 1
<1>1. Len(s) \in Nat /\ \A i \in 1..Len(s) : s[i].index \in Nat /\ s[i].total \in Nat
  <2>1. s \in Seq(Unit)
    BY DEF Stream
  <2>2. \A x \in Unit : x.index \in Nat /\ x.total \in Nat
    BY DEF Unit
  <2> QED
    BY <2>1, <2>2
<1>2. s[1].total \in Nat /\ s[1].total >= 1 /\ s[1].index = 0
  BY <1>1 DEF Stream, WholeUnit
<1>3. n >= 1
  BY <1>2
<1> DEFINE bad == {i \in 1..n : ~(s[i].index = i - 1 /\ s[i].total = s[1].total)}
<1>4. bad = {}
  <2> SUFFICES ASSUME bad # {} PROVE FALSE
    OBVIOUS
  <2>1. bad \subseteq Nat
    OBVIOUS
  <2>2. PICK i \in bad : \A j \in bad : i <= j
    <3> HIDE DEF bad
    <3> QED
      BY <2>1, LeastOf
  <2>3. i \in 1..n /\ i # 1
    BY <1>2, <2>2
  <2>4. i - 1 \in 1..n /\ i - 1 \notin bad
    BY <2>2, <2>3
  <2>5. s[i - 1].index = (i - 1) - 1 /\ s[i - 1].total = s[1].total
    BY <2>4
  <2>6. ~Ends(s[i - 1], k)
    BY <1>2, <2>3, <2>5 DEF Ends
  <2>7. Follows(s[i - 1], s[(i - 1) + 1], k)
    <3>1. i - 1 \in 1..(Len(s) - 1)
      BY <1>1, <2>3
    <3> QED
      BY <3>1 DEF Stream
  <2>8. (i - 1) + 1 = i
    BY <2>3
  <2>9. s[i].index = s[i - 1].index + 1 /\ s[i].total = s[i - 1].total
    BY <2>6, <2>7, <2>8 DEF Follows
  <2>10. s[i].index = i - 1 /\ s[i].total = s[1].total
    BY <2>3, <2>5, <2>9
  <2> QED
    BY <2>2, <2>10
<1>5. s[n].index = n - 1 /\ s[n].total = s[1].total
  BY <1>3, <1>4
<1> QED
  BY <1>2, <1>3, <1>5 DEF Ends

\* They are all of one parcel.
LEMMA OneParcel ==
  ASSUME NEW k \in {0, 1}, NEW s, Stream(s, k), NEW n \in 1..Len(s), s[n].index = n - 1
  PROVE  \A i \in 1..n : s[i].ticket = s[n].ticket
<1>1. Len(s) \in Nat /\ \A i \in 1..Len(s) : s[i].index \in Nat
  <2>1. s \in Seq(Unit)
    BY DEF Stream
  <2>2. \A x \in Unit : x.index \in Nat
    BY DEF Unit
  <2> QED
    BY <2>1, <2>2
<1> DEFINE bad == {d \in 0..(n - 1) : ~(s[n - d].index = (n - d) - 1 /\ s[n - d].ticket = s[n].ticket)}
<1>2. bad = {}
  <2> SUFFICES ASSUME bad # {} PROVE FALSE
    OBVIOUS
  <2>1. bad \subseteq Nat
    OBVIOUS
  <2>2. PICK d \in bad : \A e \in bad : d <= e
    <3> HIDE DEF bad
    <3> QED
      BY <2>1, LeastOf
  <2>3. d \in 0..(n - 1) /\ d # 0
    BY <2>2
  <2>4. d - 1 \in 0..(n - 1) /\ d - 1 \notin bad
    <3>1. d \in Int /\ d - 1 \in 0..(n - 1) /\ ~(d <= d - 1)
      BY <2>3
    <3> HIDE DEF bad
    <3> QED
      BY <2>2, <3>1
  <2>5. PICK j \in Nat : j = n - d
    BY <2>3
  <2>6. n - (d - 1) = j + 1 /\ j \in 1..(Len(s) - 1)
    BY <1>1, <2>3, <2>5
  <2>7. s[j + 1].index = (j + 1) - 1 /\ s[j + 1].ticket = s[n].ticket
    BY <2>4, <2>6
  <2>8. Follows(s[j], s[j + 1], k)
    BY <2>6 DEF Stream
  <2>9. s[j].ticket = s[n].ticket /\ s[j].index = j - 1
    <3>1. s[j + 1].index # 0 /\ s[j].index \in Nat
      BY <1>1, <2>6, <2>7
    <3>2. s[j + 1].index = s[j].index + 1 /\ s[j + 1].ticket = s[j].ticket
      BY <2>8, <3>1 DEF Follows
    <3> QED
      BY <2>7, <3>1, <3>2
  <2> QED
    BY <2>2, <2>5, <2>9
<1>3. ASSUME NEW i \in 1..n PROVE s[i].ticket = s[n].ticket
  <2>1. PICK d \in 0..(n - 1) : n - d = i
    <3>1. n - i \in 0..(n - 1) /\ n - (n - i) = i
      OBVIOUS
    <3> QED
      BY <3>1
  <2>2. d \notin bad
    BY <1>2
  <2> QED
    BY <2>1, <2>2
<1> QED
  BY <1>3

-----------------------------------------------------------------------------
(* The invariant of the lanes between two drivers that work.                *)

Prefix == IF backend = "tcp" THEN LENGTH ELSE 0
Works(n) == ~failed[n] /\ ~shutdown[n] /\ drv[n].op \notin {"failing", "dead"}
LaneFramed(l) == Framed(receivers[l], writes[l], read[l], wire[l], Prefix)
LaneRead(l) == Line(read[l], wire[l], Prefix)
Framing ==
  /\ wire = [l \in Lane |-> wire[l]]
  /\ \A l \in Lane : Works(Destination(l)) =>
       LaneRead(l) /\ (Works(Source(l)) => LaneFramed(l))

\* A driver that does not work never works again.
Fades == \A n \in Member : Works(n)' => Works(n)

\* A step that keeps the framing of every lane that still works.
LEMMA FramingStep ==
  ASSUME Framing, Fades, backend' = backend, wire' = [l \in Lane |-> wire'[l]],
         \A l \in Lane : Works(Destination(l))' /\ LaneRead(l) /\ (Works(Source(l)) => LaneFramed(l)) =>
           /\ Line(read'[l], wire'[l], Prefix)
           /\ Works(Source(l))' => Framed(receivers'[l], writes'[l], read'[l], wire'[l], Prefix)
  PROVE  Framing'
<1>1. Prefix' = Prefix
  BY DEF Prefix
<1>2. ASSUME NEW l \in Lane, Works(Destination(l))'
      PROVE  LaneRead(l)' /\ (Works(Source(l))' => LaneFramed(l)')
  <2>1. Works(Destination(l))
    BY <1>2, LaneFacts DEF Fades
  <2>2. LaneRead(l) /\ (Works(Source(l)) => LaneFramed(l))
    BY <2>1 DEF Framing
  <2>3. /\ Line(read'[l], wire'[l], Prefix)
        /\ Works(Source(l))' => Framed(receivers'[l], writes'[l], read'[l], wire'[l], Prefix)
    BY <1>2, <2>2
  <2> QED
    BY <1>1, <2>3 DEF LaneFramed, LaneRead
<1>3. \A l \in Lane : Works(Destination(l))' => LaneRead(l)' /\ (Works(Source(l))' => LaneFramed(l)')
  BY <1>2
<1> QED
  BY <1>3 DEF Framing, Source, Destination

\* The lanes are as they were.
LEMMA QuietFraming ==
  ASSUME Framing, Fades, backend' = backend, receivers' = receivers, writes' = writes, read' = read,
         wire' = wire
  PROVE  Framing'
<1>1. wire' = [l \in Lane |-> wire'[l]]
  BY DEF Framing
<1>2. \A l \in Lane : Works(Source(l))' => Works(Source(l))
  BY LaneFacts DEF Fades
<1>3. \A l \in Lane : LaneRead(l) /\ (Works(Source(l)) => LaneFramed(l)) =>
        /\ Line(read'[l], wire'[l], Prefix)
        /\ Works(Source(l))' => Framed(receivers'[l], writes'[l], read'[l], wire'[l], Prefix)
  BY <1>2 DEF LaneFramed, LaneRead
<1> QED
  BY <1>1, <1>3, FramingStep

\* One lane changes: its source works, or leaves alone what is on its way.
LEMMA OneLaneFraming ==
  ASSUME Framing, Fades, backend' = backend, wire' = [k \in Lane |-> wire'[k]], NEW l \in Lane,
         \A k \in Lane : k # l => /\ receivers'[k] = receivers[k] /\ writes'[k] = writes[k]
                                  /\ read'[k] = read[k] /\ wire'[k] = wire[k],
         Works(Source(l)) \/ (read'[l] = read[l] /\ wire'[l] = wire[l]),
         LaneFramed(l) => Framed(receivers'[l], writes'[l], read'[l], wire'[l], Prefix)
  PROVE  Framing'
<1>1. \A k \in Lane : Works(Source(k))' => Works(Source(k))
  BY LaneFacts DEF Fades
<1>2. ASSUME NEW k \in Lane, LaneRead(k), Works(Source(k)) => LaneFramed(k)
      PROVE  /\ Line(read'[k], wire'[k], Prefix)
             /\ Works(Source(k))' => Framed(receivers'[k], writes'[k], read'[k], wire'[k], Prefix)
  <2>1. CASE k # l
    BY <1>1, <1>2, <2>1 DEF LaneFramed, LaneRead
  <2>2. CASE k = l /\ Works(Source(l))
    BY <1>2, <2>2 DEF Framed
  <2>3. CASE k = l /\ ~Works(Source(l))
    BY <1>1, <1>2, <2>3 DEF LaneRead
  <2> QED
    BY <2>1, <2>2, <2>3
<1> QED
  BY <1>1, <1>2, FramingStep

\* The reader of one lane goes on.
LEMMA ShiftFraming ==
  ASSUME Framing, Fades, backend' = backend, wire' = [k \in Lane |-> wire'[k]], NEW l \in Lane,
         receivers' = receivers, writes' = writes,
         \A k \in Lane : k # l => read'[k] = read[k] /\ wire'[k] = wire[k],
         LaneRead(l) => Shift(read[l], wire[l], read'[l], wire'[l], Prefix)
  PROVE  Framing'
<1>1. \A k \in Lane : Works(Source(k))' => Works(Source(k))
  BY LaneFacts DEF Fades
<1>2. ASSUME NEW k \in Lane, LaneRead(k), Works(Source(k)) => LaneFramed(k)
      PROVE  /\ Line(read'[k], wire'[k], Prefix)
             /\ Works(Source(k))' => Framed(receivers'[k], writes'[k], read'[k], wire'[k], Prefix)
  <2>1. CASE k # l
    BY <1>1, <1>2, <2>1 DEF LaneFramed, LaneRead
  <2>2. CASE k = l
    BY <1>1, <1>2, <2>2 DEF LaneFramed, Framed, Shift
  <2> QED
    BY <2>1, <2>2
<1> QED
  BY <1>1, <1>2, FramingStep

\* A member stops working: what it was to read needs no framing any more, and what it
\* has sent goes no further.
LEMMA EndFraming ==
  ASSUME Framing, Fades, backend' = backend, wire' = [k \in Lane |-> wire'[k]], NEW n \in Member,
         ~Works(n)',
         \A k \in Lane : Source(k) # n /\ Destination(k) # n =>
           receivers'[k] = receivers[k] /\ writes'[k] = writes[k],
         \A k \in Lane : Destination(k) # n => read'[k] = read[k] /\ wire'[k] = wire[k]
  PROVE  Framing'
<1>1. \A k \in Lane : Works(Source(k))' => Works(Source(k)) /\ Source(k) # n
  BY LaneFacts DEF Fades
<1>2. ASSUME NEW k \in Lane, Works(Destination(k))', LaneRead(k), Works(Source(k)) => LaneFramed(k)
      PROVE  /\ Line(read'[k], wire'[k], Prefix)
             /\ Works(Source(k))' => Framed(receivers'[k], writes'[k], read'[k], wire'[k], Prefix)
  <2>1. Destination(k) # n
    BY <1>2
  <2> QED
    BY <1>1, <1>2, <2>1 DEF LaneFramed, LaneRead
<1> QED
  BY <1>2, FramingStep

\* A driver that is driving works.
LEMMA DrivingWorks ==
  ASSUME IInv, NEW n \in Member, Driving(n)
  PROVE  Works(n)
BY DEF IInv, Gate, Driving, Works

\* A call of drive that goes on, and one that sets its driver.
LEMMA DriveFades ==
  ASSUME NEW n \in Member, DrvKeeps(n), failed' = failed, shutdown' = shutdown
  PROVE  Fades
<1>1. \A m \in Member : drv'[m].op = drv[m].op
  BY DEF DrvKeeps
<1> QED
  BY <1>1 DEF Fades, Works

LEMMA SetFades ==
  ASSUME IInv, NEW n \in Member, NEW r, Shape(r), drv' = [drv EXCEPT ![n] = r],
         \A m \in Member : (failed[m] => failed'[m]) /\ (shutdown[m] => shutdown'[m]),
         drv[n].op \notin {"failing", "dead"} \/ failed'[n] \/ r.op \in {"failing", "dead"}
  PROVE  Fades
<1>1. Types
  BY DEF IInv
<1>2. drv'[n] = r /\ \A m \in Member : m # n => drv'[m] = drv[m]
  BY <1>1, DrvSet
<1> QED
  BY <1>2 DEF Fades, Works

\* The first half of fail.
LEMMA DrainFraming ==
  ASSUME IInv, Framing, NEW n \in Member, Driving(n), FailDrain(n), backend' = backend,
         failed' = failed, shutdown' = shutdown,
         wire' = [k \in Lane |-> wire'[k]],
         \A k \in Lane : Destination(k) # n => wire'[k] = wire[k]
  PROVE  Framing'
<1> DEFINE events == IF drv[n].op = "progress" THEN drv[n].events ELSE <<>>
           r == [op |-> "failing", at |-> 0, events |-> events]
<1>1. Types
  BY DEF IInv
<1>2. drv' = [drv EXCEPT ![n] = r]
  BY <1>1 DEF FailDrain, Types
<1>3. Shape(r) /\ r.op = "failing"
  BY ShapeOf DEF Op
<1> HIDE DEF r, events
<1>4. drv[n].op \notin {"failing", "dead"}
  BY DEF Driving
<1>5. Fades
  BY <1>2, <1>3, <1>4, SetFades
<1>6. drv'[n].op = "failing"
  BY <1>1, <1>2, <1>3, DrvSet
<1>7. ~Works(n)'
  BY <1>6 DEF Works
<1>8. \A k \in Lane : Source(k) # n /\ Destination(k) # n =>
        receivers'[k] = receivers[k] /\ writes'[k] = writes[k]
  BY DEF FailDrain
<1>9. \A k \in Lane : Destination(k) # n => read'[k] = read[k] /\ wire'[k] = wire[k]
  BY DEF FailDrain
<1> QED
  BY <1>5, <1>7, <1>8, <1>9, EndFraming

LEMMA PrefixUnits ==
  ASSUME IInv
  PROVE  /\ Prefix \in {0, 1} /\ \A f : FrameUnits(f) = f.length + Prefix
         /\ backend = "tcp" => Prefix = 1
         /\ backend = "mpi" => Prefix = 0
BY DEF IInv, Types, Prefix, FrameUnits, LENGTH

\* try_send on any client's thread.
LEMMA TrySendFraming ==
  ASSUME IInv, Framing, NEW l \in Lane, NEW length \in Lengths, TrySend(l, length)
  PROVE  Framing'
<1> DEFINE n == Source(l)
           f == [ticket |-> next_ticket[n], length |-> length, reserved |-> Reserved(length), offset |-> 0]
<1>0. Types
  BY DEF IInv
<1>1. n \in Member
  BY LaneFacts
<1>2. /\ receivers' = [receivers EXCEPT ![l] = Append(receivers[l], f)]
      /\ writes' = writes /\ read' = read /\ wire' = wire /\ drv' = drv
      /\ backend' = backend /\ failed' = failed /\ shutdown' = shutdown
  BY <1>0 DEF TrySend, Types
<1>3. length \in Nat /\ length >= 1
  BY TransportAssumption
<1>4. f \in Frame /\ f.length >= 1 /\ f.offset = 0
  <2>1. next_ticket[n] \in Nat
    BY <1>0, <1>1 DEF Types
  <2>2. Reserved(length) \in Nat
    BY <1>3 DEF Reserved, LENGTH
  <2> QED
    BY <1>3, <2>1, <2>2 DEF Frame
<1> HIDE DEF f
<1>5. Fades
  BY <1>2 DEF Fades, Works
<1>6. wire' = [k \in Lane |-> wire'[k]]
  BY <1>2 DEF Framing
<1>7. receivers'[l] = Append(receivers[l], f) /\ \A k \in Lane : k # l => receivers'[k] = receivers[k]
  BY <1>0, <1>2 DEF Types
<1>8. ASSUME LaneFramed(l) PROVE Framed(receivers'[l], writes'[l], read'[l], wire'[l], Prefix)
  <2>1. Prefix \in {0, 1}
    BY PrefixUnits
  <2>2. Framed(receivers[l], writes[l], read[l], wire[l], Prefix)
    BY <1>8 DEF LaneFramed
  <2>3. Queue(Append(receivers[l], f), writes[l], Prefix)
    BY <1>4, <2>1, <2>2, Enqueued DEF Framed
  <2> QED
    BY <1>2, <1>7, <2>2, <2>3 DEF Framed
<1> QED
  BY <1>2, <1>5, <1>6, <1>7, <1>8, OneLaneFraming

\* Taking a submission keeps the framing.
LEMMA TakenFramed ==
  ASSUME IInv, NEW l \in Lane, LaneFramed(l)
  PROVE  Framed(Taken(l).receivers, Taken(l).writes, read[l], wire[l], Prefix)
<1> DEFINE q == receivers[l]
           w == writes[l]
           takes == q # <<>> /\ Len(w) < IF backend = "tcp" THEN MaxQueued ELSE 1
<1>1. Framed(q, w, read[l], wire[l], Prefix)
  BY DEF LaneFramed
<1>2. /\ takes => Taken(l).receivers = Tail(q) /\ Taken(l).writes = Append(w, Head(q))
      /\ ~takes => Taken(l).receivers = q /\ Taken(l).writes = w
  BY DEF Taken
<1>3. takes => q # <<>>
  OBVIOUS
<1> HIDE DEF q, w, takes
<1>4. CASE takes
  <2>1. Prefix \in {0, 1}
    BY PrefixUnits
  <2>2. Queue(Tail(q), Append(w, Head(q)), Prefix) /\ Joined(Append(w, Head(q)), read[l] \o wire[l], Prefix)
    BY <1>1, <1>3, <1>4, <2>1, Moves DEF Framed
  <2> QED
    BY <1>1, <1>2, <1>4, <2>2, Zenon DEF Framed
<1>5. CASE ~takes
  BY <1>1, <1>2, <1>5, Zenon
<1> QED
  BY <1>4, <1>5

\* Units written from the first frame.
LEMMA UnitsFacts ==
  ASSUME NEW f \in Frame, NEW m \in Nat
  PROVE  /\ Units(f, m) \in Seq(Unit) /\ Len(Units(f, m)) = m
         /\ \A i \in 1..m : IsUnit(Units(f, m)[i], f, i)
<1>1. f.ticket \in Nat /\ f.offset \in Nat /\ f.length \in Nat
  BY DEF Frame
<1>2. \A i \in 1..m : [ticket |-> f.ticket, index |-> f.offset + i - 1, total |-> f.length] \in Unit
  BY <1>1 DEF Unit
<1>3. Units(f, m) \in [1..m -> Unit]
  BY <1>2 DEF Units
<1>4. Units(f, m) \in Seq(Unit) /\ Len(Units(f, m)) = m
  BY <1>3
<1>5. \A i \in 1..m : Units(f, m)[i] = [ticket |-> f.ticket, index |-> f.offset + i - 1, total |-> f.length]
  BY DEF Units
<1>6. ASSUME NEW i \in 1..m PROVE IsUnit(Units(f, m)[i], f, i)
  <2>1. PICK a \in Int : a = f.offset
    BY <1>1
  <2>2. a + i - 1 = (a + i) - 1
    OBVIOUS
  <2>a. PICK b : b = f.offset + i - 1
    OBVIOUS
  <2>b. Units(f, m)[i] = [ticket |-> f.ticket, index |-> b, total |-> f.length]
    BY <1>5, <2>a
  <2>3. /\ Units(f, m)[i].ticket = f.ticket /\ Units(f, m)[i].index = f.offset + i - 1
        /\ Units(f, m)[i].total = f.length
    BY <2>a, <2>b
  <2> QED
    BY <2>1, <2>2, <2>3 DEF IsUnit
<1> QED
  BY <1>4, <1>6

\* Two sequences in a row, of which the second gets longer.
LEMMA Appended ==
  ASSUME NEW r \in Seq(Unit), NEW x \in Seq(Unit), NEW u \in Seq(Unit)
  PROVE  /\ x \o u \in Seq(Unit) /\ r \o x \in Seq(Unit) /\ r \o (x \o u) \in Seq(Unit)
         /\ Len(r \o (x \o u)) = Len(r \o x) + Len(u)
         /\ \A i \in 1..Len(r \o x) : (r \o (x \o u))[i] = (r \o x)[i]
         /\ \A i \in 1..Len(u) : (r \o (x \o u))[Len(r \o x) + i] = u[i]
<1>1. /\ Len(r) \in Nat /\ Len(x) \in Nat /\ Len(u) \in Nat
      /\ x \o u \in Seq(Unit) /\ r \o x \in Seq(Unit) /\ r \o (x \o u) \in Seq(Unit)
      /\ Len(x \o u) = Len(x) + Len(u) /\ Len(r \o x) = Len(r) + Len(x)
      /\ Len(r \o (x \o u)) = Len(r) + (Len(x) + Len(u))
  OBVIOUS
<1>2. \A i \in 1..Len(x) : (x \o u)[i] = x[i]
  OBVIOUS
<1>3. \A i \in 1..Len(u) : (x \o u)[Len(x) + i] = u[i]
  OBVIOUS
<1>4. \A i \in 1..Len(r) : (r \o (x \o u))[i] = r[i] /\ (r \o x)[i] = r[i]
  OBVIOUS
<1>5. \A i \in 1..(Len(x) + Len(u)) : (r \o (x \o u))[Len(r) + i] = (x \o u)[i]
  OBVIOUS
<1>6. \A i \in 1..Len(x) : (r \o x)[Len(r) + i] = x[i]
  OBVIOUS
<1>7. ASSUME NEW i \in 1..Len(r \o x) PROVE (r \o (x \o u))[i] = (r \o x)[i]
  <2>1. CASE i <= Len(r)
    BY <1>1, <1>4, <2>1
  <2>2. CASE i > Len(r)
    <3>1. PICK j \in 1..Len(x) : i = Len(r) + j
      <4>1. i - Len(r) \in 1..Len(x) /\ i = Len(r) + (i - Len(r))
        BY <1>1, <2>2
      <4> QED
        BY <4>1
    <3>2. j \in 1..(Len(x) + Len(u))
      BY <1>1
    <3>3. (r \o (x \o u))[Len(r) + j] = (x \o u)[j] /\ (r \o x)[Len(r) + j] = x[j]
      BY <1>5, <1>6, <3>2
    <3>4. (x \o u)[j] = x[j]
      BY <1>2
    <3> QED
      BY <3>1, <3>3, <3>4, Zenon
  <2> QED
    BY <1>1, <2>1, <2>2
<1>8. ASSUME NEW i \in 1..Len(u) PROVE (r \o (x \o u))[Len(r \o x) + i] = u[i]
  <2>1. Len(x) + i \in 1..(Len(x) + Len(u)) /\ Len(r \o x) + i = Len(r) + (Len(x) + i)
    BY <1>1
  <2> QED
    BY <1>3, <1>5, <2>1
<1>9. Len(r \o (x \o u)) = Len(r \o x) + Len(u)
  BY <1>1
<1> QED
  BY <1>1, <1>7, <1>8, <1>9, Zenon

\* Writing units keeps the framing.
LEMMA WriteFramed ==
  ASSUME NEW k \in {0, 1}, NEW q, NEW w, NEW r, NEW x, Framed(q, w, r, x, k), w # <<>>, NEW m \in Nat, m >= 1,
         NEW f, f = Head(w), f.offset + m <= f.length + k
  PROVE  /\ f.offset + m = f.length + k => Framed(q, Tail(w), r, x \o Units(f, m), k)
         /\ f.offset + m # f.length + k =>
              Framed(q, <<[f EXCEPT !.offset = f.offset + m]>> \o Tail(w), r, x \o Units(f, m), k)
<1> DEFINE t == r \o (x \o Units(f, m))
           s == r \o x
           u == Units(f, m)
           g == [f EXCEPT !.offset = f.offset + m]
<1>1. Queue(q, w, k) /\ r \in Seq(Unit) /\ x \in Seq(Unit) /\ Stream(s, k) /\ Joined(w, s, k)
  BY DEF Framed, Line
<1>2. w \in Seq(Frame) /\ Len(w) > 0 /\ f = w[1] /\ f \in Frame
  <2>1. w \in Seq(Frame)
    BY <1>1 DEF Queue
  <2> QED
    BY <2>1
<1>3. u \in Seq(Unit) /\ Len(u) = m /\ \A i \in 1..m : IsUnit(u[i], f, i)
  BY <1>2, UnitsFacts
<1>a. /\ x \o u \in Seq(Unit) /\ s \in Seq(Unit) /\ t \in Seq(Unit)
      /\ Len(t) = Len(s) + Len(u)
      /\ \A i \in 1..Len(s) : t[i] = s[i]
      /\ \A i \in 1..Len(u) : t[Len(s) + i] = u[i]
  <2>1. PICK y \in Seq(Unit) : y = u
    BY <1>3
  <2>2. /\ x \o y \in Seq(Unit) /\ s \in Seq(Unit) /\ r \o (x \o y) \in Seq(Unit)
        /\ Len(r \o (x \o y)) = Len(s) + Len(y)
        /\ \A i \in 1..Len(s) : (r \o (x \o y))[i] = s[i]
        /\ \A i \in 1..Len(y) : (r \o (x \o y))[Len(s) + i] = y[i]
    BY <1>1, Appended
  <2>3. t = r \o (x \o y)
    BY <2>1
  <2> HIDE DEF s, t, u
  <2> QED
    BY <2>1, <2>2, <2>3
<1> HIDE DEF s, t, u
<1>4. /\ x \o u \in Seq(Unit) /\ s \in Seq(Unit) /\ t \in Seq(Unit)
      /\ Len(t) = Len(s) + m
      /\ \A i \in 1..Len(s) : t[i] = s[i]
      /\ \A i \in 1..m : t[Len(s) + i] = u[i]
  BY <1>3, <1>a
<1>5. PICK n \in Nat : n = Len(s)
  BY <1>4
<1>6. \A i \in 1..m : IsUnit(t[n + i], f, i)
  BY <1>3, <1>4, <1>5
<1>7. Stream(t, k)
  <2>1. Len(t) = n + m /\ \A i \in 1..n : t[i] = s[i]
    BY <1>4, <1>5
  <2> QED
    <3>1. Writes(q, w, s, t, m, f, n, k)
      BY <1>1, <1>2, <1>4, <1>5, <1>6, <2>1, Zenon DEF Writes
    <3> QED
      BY <3>1, Extended
<1>8. Len(t) > 0 /\ IsUnit(t[Len(t)], f, m)
  BY <1>4, <1>5, <1>6
<1>9. CASE f.offset + m = f.length + k
  <2>1. Queue(q, Tail(w), k) /\ Joined(Tail(w), t, k)
    BY <1>1, <1>2, <1>8, <1>9, FrameDone
  <2> QED
    BY <1>1, <1>4, <1>7, <1>9, <2>1 DEF Framed, Line, t, u
<1>10. CASE f.offset + m # f.length + k
  <2>1. f.offset \in Nat /\ f.length \in Nat
    BY <1>2 DEF Frame
  <2>2. f.offset + m < f.length + k
    BY <1>10, <2>1
  <2>a. f.offset + m \in Nat
    BY <2>1
  <2>b. \A a \in Nat : /\ [f EXCEPT !.offset = a] \in Frame /\ [f EXCEPT !.offset = a].ticket = f.ticket
                      /\ [f EXCEPT !.offset = a].length = f.length /\ [f EXCEPT !.offset = a].offset = a
    BY <1>2 DEF Frame
  <2>3. g \in Frame /\ g.ticket = f.ticket /\ g.length = f.length /\ g.offset = f.offset + m
    BY <2>a, <2>b
  <2> HIDE DEF g
  <2>4. Queue(q, <<g>> \o Tail(w), k) /\ Joined(<<g>> \o Tail(w), t, k)
    BY <1>1, <1>2, <1>8, <2>2, <2>3, FrameGoesOn
  <2> QED
    BY <1>1, <1>4, <1>7, <1>10, <2>4 DEF Framed, Line, t, u, g
<1> QED
  BY <1>9, <1>10

\* Units of a lane's first frame go on their way.
LEMMA WrittenFraming ==
  ASSUME IInv, Framing, NEW n \in Member, NEW l \in From(n), Driving(n), NEW m \in Nat, m >= 1,
         Taken(l).writes # <<>>, Written(n, l, Taken(l).writes, m),
         Head(Taken(l).writes).offset + m <= FrameUnits(Head(Taken(l).writes)),
         receivers' = [receivers EXCEPT ![l] = Taken(l).receivers],
         read' = read, backend' = backend, failed' = failed, shutdown' = shutdown
  PROVE  Framing'
<1> DEFINE w == Taken(l).writes
           f == Head(w)
           k == Prefix
           g == [f EXCEPT !.offset = f.offset + m]
<1>0. Types /\ l \in Lane /\ Works(Source(l))
  BY DrivingWorks DEF IInv, From
<1>1. k \in {0, 1} /\ FrameUnits(f) = f.length + k
  BY PrefixUnits
<1>2. wire = [j \in Lane |-> wire[j]]
  BY DEF Framing
<1>3. wire' = [wire EXCEPT ![l] = wire[l] \o Units(f, m)]
  BY <1>2 DEF Written
<1>4. /\ f.offset + m = FrameUnits(f) => writes' = [writes EXCEPT ![l] = Tail(w)]
      /\ f.offset + m # FrameUnits(f) =>
           writes' = [writes EXCEPT ![l] = <<[f EXCEPT !.offset = @ + m]>> \o Tail(w)]
  BY DEF Written
<1>5. [f EXCEPT !.offset = @ + m] = g
  OBVIOUS
<1>6. PICK events : Advance(n, events)
  BY DEF Written
<1>7. Fades
  BY <1>6, AdvanceKeeps, DriveFades
<1>8. \E v : writes' = [writes EXCEPT ![l] = v]
  BY <1>4
<1>9. \A j \in Lane : j # l => /\ receivers'[j] = receivers[j] /\ writes'[j] = writes[j]
                               /\ read'[j] = read[j] /\ wire'[j] = wire[j]
  BY <1>0, <1>2, <1>3, <1>8 DEF Types
<1>10. wire' = [j \in Lane |-> wire'[j]] /\ wire'[l] = wire[l] \o Units(f, m)
  BY <1>0, <1>2, <1>3
<1>11. receivers'[l] = Taken(l).receivers
  BY <1>0 DEF Types
<1>12. /\ f.offset + m = f.length + k => writes'[l] = Tail(w)
       /\ f.offset + m # f.length + k => writes'[l] = <<g>> \o Tail(w)
  <2>1. writes = [j \in Lane |-> writes[j]]
    BY <1>0 DEF Types
  <2>2. \A v : [writes EXCEPT ![l] = v][l] = v
    BY <1>0, <2>1
  <2> HIDE DEF f, g, w, k
  <2> QED
    BY <1>1, <1>4, <1>5, <2>2
<1>13. ASSUME LaneFramed(l) PROVE Framed(receivers'[l], writes'[l], read'[l], wire'[l], Prefix)
  <2>1. Framed(Taken(l).receivers, w, read[l], wire[l], k)
    BY <1>0, <1>13, TakenFramed
  <2>2. f.offset + m <= f.length + k /\ w # <<>> /\ f = Head(w)
    BY <1>1
  <2> HIDE DEF f, w, k
  <2>3. /\ f.offset + m = f.length + k => Framed(Taken(l).receivers, Tail(w), read[l], wire[l] \o Units(f, m), k)
        /\ f.offset + m # f.length + k =>
             Framed(Taken(l).receivers, <<[f EXCEPT !.offset = f.offset + m]>> \o Tail(w), read[l],
                    wire[l] \o Units(f, m), k)
    BY <1>1, <2>1, <2>2, WriteFramed
  <2> QED
    BY <1>10, <1>11, <1>12, <2>3 DEF k
<1> QED
  BY <1>0, <1>7, <1>9, <1>10, <1>13, OneLaneFraming

\* service_write of a TCP stream.
LEMMA TcpWriteFraming ==
  ASSUME IInv, Framing, NEW n \in Member, NEW p \in Member \ {n}, TcpWrite(n, p)
  PROVE  Framing'
<1> DEFINE l == <<n, p, Turn(n)>>
           free == WireCapacity - Len(wire[l])
<1>0. Types /\ p \in Member /\ p # n
  BY DEF IInv
<1>1. Driving(n) /\ Turn(n) \in Channel
  BY <1>0, AtStopFacts DEF TcpWrite
<1>2. l \in Lane /\ l \in From(n) /\ Works(Source(l))
  BY <1>0, <1>1, LaneFacts, DrivingWorks DEF From
<1>3. backend' = backend /\ failed' = failed /\ shutdown' = shutdown
  BY DEF TcpWrite
<1>4. wire = [k \in Lane |-> wire[k]]
  BY DEF Framing
<1>5. CASE /\ receivers' = [receivers EXCEPT ![l] = Taken(l).receivers]
           /\ writes' = [writes EXCEPT ![l] = Taken(l).writes]
           /\ Advance(n, drv[n].events) /\ UNCHANGED <<credit, wire, read, pending>>
  <2>1. Fades
    BY <1>1, <1>3, <1>5, AdvanceKeeps, DriveFades
  <2>2. wire' = wire /\ read' = read
    BY <1>5
  <2> HIDE DEF l
  <2>3. receivers'[l] = Taken(l).receivers /\ writes'[l] = Taken(l).writes
    BY <1>0, <1>2, <1>5 DEF Types
  <2>4. \A k \in Lane : k # l => receivers'[k] = receivers[k] /\ writes'[k] = writes[k]
    BY <1>0, <1>2, <1>5 DEF Types
  <2>5. LaneFramed(l) => Framed(receivers'[l], writes'[l], read'[l], wire'[l], Prefix)
    BY <1>2, <2>2, <2>3, TakenFramed
  <2>6. wire' = [k \in Lane |-> wire'[k]]
    BY <1>4, <2>2
  <2> QED
    BY <1>2, <1>3, <2>1, <2>2, <2>4, <2>5, <2>6, OneLaneFraming
<1>6. CASE /\ Taken(l).writes # <<>>
           /\ \E m \in 1..free : /\ Head(Taken(l).writes).offset + m <= FrameUnits(Head(Taken(l).writes))
                                 /\ Written(n, l, Taken(l).writes, m)
           /\ receivers' = [receivers EXCEPT ![l] = Taken(l).receivers]
           /\ UNCHANGED read
  <2>1. PICK m \in 1..free : /\ Head(Taken(l).writes).offset + m <= FrameUnits(Head(Taken(l).writes))
                             /\ Written(n, l, Taken(l).writes, m)
    BY <1>6
  <2>2. m \in Nat /\ m >= 1 /\ read' = read
    BY <1>6
  <2> HIDE DEF l, free
  <2> QED
    BY <1>1, <1>2, <1>3, <1>6, <2>1, <2>2, WrittenFraming
<1>7. CASE FailDrain(n) /\ UNCHANGED <<wire, pending>>
  <2>1. wire' = [k \in Lane |-> wire'[k]] /\ \A k \in Lane : wire'[k] = wire[k]
    BY <1>4, <1>7
  <2> QED
    BY <1>1, <1>3, <1>7, <2>1, DrainFraming
<1> QED
  BY <1>5, <1>6, <1>7 DEF TcpWrite

\* A blocking send of an MPI chunk.
LEMMA MpiWriteFraming ==
  ASSUME IInv, Framing, NEW n \in Member, NEW p \in Member \ {n}, MpiWrite(n, p)
  PROVE  Framing'
<1> DEFINE l == <<n, p, Turn(n)>>
<1>0. Types /\ p \in Member /\ p # n
  BY DEF IInv
<1>1. Driving(n) /\ Turn(n) \in Channel
  BY <1>0, AtStopFacts DEF MpiWrite
<1>2. l \in Lane /\ l \in From(n) /\ Works(Source(l))
  BY <1>0, <1>1, LaneFacts, DrivingWorks DEF From
<1>3. /\ backend' = backend /\ failed' = failed /\ shutdown' = shutdown /\ read' = read /\ backend = "mpi"
      /\ receivers' = [receivers EXCEPT ![l] = Taken(l).receivers]
  BY DEF MpiWrite
<1>4. wire = [k \in Lane |-> wire[k]]
  BY DEF Framing
<1>5. CASE Taken(l).writes = <<>> /\ Advance(n, drv[n].events) /\ UNCHANGED <<credit, writes, wire, pending>>
  <2>1. Fades
    BY <1>1, <1>3, <1>5, AdvanceKeeps, DriveFades
  <2>2. wire' = wire /\ writes' = writes
    BY <1>5
  <2> HIDE DEF l
  <2>3. receivers'[l] = Taken(l).receivers /\ writes'[l] = Taken(l).writes
    <3>1. Taken(l).writes = writes[l]
      BY <1>0, <1>2, <1>5, TakenFacts
    <3> QED
      BY <1>0, <1>2, <1>3, <2>2, <3>1 DEF Types
  <2>4. \A k \in Lane : k # l => receivers'[k] = receivers[k]
    BY <1>0, <1>2, <1>3 DEF Types
  <2>5. LaneFramed(l) => Framed(receivers'[l], writes'[l], read'[l], wire'[l], Prefix)
    BY <1>2, <1>3, <2>2, <2>3, TakenFramed
  <2>6. wire' = [k \in Lane |-> wire'[k]]
    BY <1>4, <2>2
  <2> QED
    BY <1>2, <1>3, <2>1, <2>2, <2>4, <2>5, <2>6, OneLaneFraming
<1>6. CASE Taken(l).writes # <<>> /\ Written(n, l, Taken(l).writes, 1)
  <2> DEFINE f == Head(Taken(l).writes)
  <2>1. CASE LaneFramed(l)
    <3>1. Queue(Taken(l).receivers, Taken(l).writes, Prefix)
      <4> HIDE DEF l
      <4> QED
        BY <1>2, <2>1, TakenFramed DEF Framed
    <3>2. f = Taken(l).writes[1] /\ Len(Taken(l).writes) > 0 /\ f \in Frame
      BY <1>6, <3>1 DEF Queue
    <3>3. f.offset < f.length + Prefix
      BY <3>1, <3>2 DEF Queue
    <3>4. f.offset \in Nat /\ f.length \in Nat /\ Prefix \in Nat
      BY <3>2, PrefixUnits DEF Frame
    <3>5. f.offset + 1 <= FrameUnits(f)
      <4>1. f.offset + 1 <= f.length + Prefix
        BY <3>3, <3>4
      <4> QED
        BY <4>1, PrefixUnits
    <3>6. 1 \in Nat /\ 1 >= 1
      OBVIOUS
    <3>7. Head(Taken(l).writes).offset + 1 <= FrameUnits(Head(Taken(l).writes))
      BY <3>5
    <3> HIDE DEF l, f
    <3> QED
      BY <1>1, <1>2, <1>3, <1>6, <3>6, <3>7, WrittenFraming
  <2>2. CASE ~LaneFramed(l)
    <3>1. PICK events : Advance(n, events)
      BY <1>6 DEF Written
    <3>2. Fades
      BY <1>1, <1>3, <3>1, AdvanceKeeps, DriveFades
    <3>3. (\E x : wire' = [wire EXCEPT ![l] = x]) /\ (\E v : writes' = [writes EXCEPT ![l] = v])
      <4>1. wire' = [wire EXCEPT ![l] = wire[l] \o Units(f, 1)]
        BY <1>2, <1>4, <1>6 DEF Written
      <4>2. \E v : writes' = [writes EXCEPT ![l] = v]
        BY <1>6 DEF Written
      <4> QED
        BY <4>1, <4>2
    <3> HIDE DEF l, f
    <3>4. wire' = [k \in Lane |-> wire'[k]]
      BY <1>4, <3>3
    <3>5. \A k \in Lane : k # l => /\ receivers'[k] = receivers[k] /\ writes'[k] = writes[k]
                                   /\ read'[k] = read[k] /\ wire'[k] = wire[k]
      BY <1>0, <1>2, <1>3, <1>4, <3>3 DEF Types
    <3> QED
      BY <1>2, <1>3, <2>2, <3>2, <3>4, <3>5, OneLaneFraming
  <2> QED
    BY <2>1, <2>2
<1> QED
  BY <1>3, <1>5, <1>6 DEF MpiWrite

\* Units that move from the wire to the reader leave the stream as it is.
LEMMA MovedLine ==
  ASSUME NEW k \in {0, 1}, NEW r, NEW x, Line(r, x, k),
         NEW s \in Seq(Unit), NEW y \in Seq(Unit), Len(s \o y) = Len(r \o x),
         \A i \in 1..Len(s \o y) : (s \o y)[i] = (r \o x)[i]
  PROVE  Shift(r, x, s, y, k)
<1> DEFINE a == r \o x
           b == s \o y
<1>1. Stream(a, k)
  BY DEF Line
<1>2. b \in Seq(Unit) /\ Len(b) \in Nat
  OBVIOUS
<1>3. Len(a) = 0 + Len(b) /\ \A i \in 1..Len(b) : b[i] = a[i + 0]
  BY <1>2
<1> HIDE DEF a, b
<1>4. 0 \in Nat /\ (0 = 0 \/ Ends(a[0], k))
  OBVIOUS
<1>5. Stream(b, k) /\ \A v : Joined(v, a, k) => Joined(v, b, k)
  BY <1>1, <1>2, <1>3, <1>4, Rest
<1> QED
  BY <1>5 DEF Line, Shift, a, b

\* Two sequences in a row.
LEMMA InARow ==
  ASSUME NEW s \in Seq(Unit), NEW x \in Seq(Unit)
  PROVE  /\ s \o x \in Seq(Unit) /\ Len(s \o x) = Len(s) + Len(x)
         /\ \A i \in 1..Len(s) : (s \o x)[i] = s[i]
         /\ \A i \in 1..Len(x) : (s \o x)[Len(s) + i] = x[i]
OBVIOUS

\* n units leave the front of two sequences in a row.
LEMMA Dropped ==
  ASSUME NEW r \in Seq(Unit), NEW x \in Seq(Unit), NEW n \in Nat, n <= Len(r)
  PROVE  LET s == SubSeq(r, n + 1, Len(r))
         IN  /\ s \in Seq(Unit) /\ s \o x \in Seq(Unit)
             /\ Len(r \o x) = n + Len(s \o x)
             /\ \A i \in 1..Len(s \o x) : (s \o x)[i] = (r \o x)[i + n]
<1> DEFINE s == SubSeq(r, n + 1, Len(r))
           a == r \o x
           b == s \o x
<1>2. /\ Len(r) \in Nat /\ Len(x) \in Nat /\ Len(a) = Len(r) + Len(x)
      /\ \A i \in 1..Len(r) : a[i] = r[i]
      /\ \A i \in 1..Len(x) : a[Len(r) + i] = x[i]
  OBVIOUS
<1>3. s \in Seq(Unit) /\ Len(s) = Len(r) - n /\ \A i \in 1..(Len(r) - n) : s[i] = r[i + n]
  <2>1. n + 1 \in 1..(Len(r) + 1)
    BY <1>2
  <2>2. \A i \in 1..((Len(r) - (n + 1)) + 1) : r[(i + (n + 1)) - 1] \in Unit
    BY <1>2
  <2>3. Len(s) = Len(r) - n
    BY <1>2, <2>1
  <2>4. ASSUME NEW i \in 1..(Len(r) - n) PROVE s[i] = r[i + n]
    <3>1. s[i] = r[n + 1 + i - 1]
      BY <1>2, <2>1
    <3>2. n + 1 + i - 1 = i + n
      BY <1>2
    <3> QED
      BY <3>1, <3>2
  <2>5. s \in Seq(Unit)
    BY <1>2, <2>1
  <2> QED
    BY <2>3, <2>4, <2>5
<1> HIDE DEF s
<1>4. /\ b \in Seq(Unit) /\ Len(b) = Len(s) + Len(x)
      /\ \A i \in 1..Len(s) : b[i] = s[i]
      /\ \A i \in 1..Len(x) : b[Len(s) + i] = x[i]
  BY <1>3, InARow
<1> HIDE DEF a, b
<1>5. Len(a) = n + Len(b)
  BY <1>2, <1>3, <1>4
<1>6. ASSUME NEW i \in 1..Len(b) PROVE b[i] = a[i + n]
  <2>1. CASE i <= Len(s)
    <3>1. i \in 1..Len(s) /\ i \in 1..(Len(r) - n) /\ i + n \in 1..Len(r)
      BY <1>2, <1>3, <2>1
    <3> QED
      BY <1>2, <1>3, <1>4, <3>1
  <2>2. CASE i > Len(s)
    <3>1. i - Len(s) \in 1..Len(x) /\ Len(s) + (i - Len(s)) = i /\ Len(r) + (i - Len(s)) = i + n
      BY <1>2, <1>3, <1>4, <2>2
    <3> QED
      BY <1>2, <1>4, <3>1
  <2> QED
    BY <1>2, <1>3, <1>4, <2>1, <2>2
<1> QED
  BY <1>3, <1>4, <1>5, <1>6 DEF a, b, s

\* A parcel that has been read completely leaves the front of the stream.
LEMMA ParcelRead ==
  ASSUME NEW k \in {0, 1}, NEW r, NEW x, Line(r, x, k), r # <<>>,
         NEW n \in Nat, n = Head(r).total + k, n <= Len(r)
  PROVE  Shift(r, x, SubSeq(r, n + 1, Len(r)), x, k)
<1> DEFINE a == r \o x
           s == SubSeq(r, n + 1, Len(r))
           b == s \o x
<1>1. /\ Stream(a, k)
      /\ r \in Seq(Unit) /\ x \in Seq(Unit)
  BY DEF Line
<1>2. Len(a) > 0 /\ Len(r) <= Len(a) /\ a[1] = Head(r) /\ Len(r) \in Nat /\ Len(a) \in Nat
  BY <1>1
<1>3. /\ s \in Seq(Unit) /\ b \in Seq(Unit) /\ Len(a) = n + Len(b)
      /\ \A i \in 1..Len(b) : b[i] = a[i + n]
  BY <1>1, Dropped
<1> HIDE DEF a, b, s
<1>4. n >= 1 /\ Ends(a[n], k)
  <2>1. n = a[1].total + k /\ n <= Len(a)
    BY <1>2
  <2> QED
    BY <1>1, <1>2, <2>1, FirstParcel
<1>5. Stream(b, k) /\ \A v : Joined(v, a, k) => Joined(v, b, k)
  BY <1>1, <1>3, <1>4, Rest
<1> QED
  BY <1>1, <1>3, <1>5 DEF Line, Shift, a, b, s

\* The chunk that completes a parcel is its last one, and takes it off the stream.
LEMMA LastChunk ==
  ASSUME NEW r \in Seq(Unit), NEW x \in Seq(Unit), x # <<>>, Head(x).index = Len(r),
         Len(r) + 1 = Head(x).total, NEW n, n = Len(r) + 1
  PROVE  /\ n \in Nat /\ n >= 1 /\ Tail(x) \in Seq(Unit) /\ <<>> \o Tail(x) \in Seq(Unit)
         /\ Len(r \o x) = n + Len(<<>> \o Tail(x))
         /\ \A i \in 1..Len(<<>> \o Tail(x)) : (<<>> \o Tail(x))[i] = (r \o x)[i + n]
         /\ (r \o x)[n] = Head(x) /\ Ends((r \o x)[n], 0)
<1> DEFINE a == r \o x
           b == <<>> \o Tail(x)
<1>2. /\ Len(r) \in Nat /\ Len(x) \in Nat /\ Len(x) > 0 /\ Head(x) = x[1]
      /\ Len(a) = Len(r) + Len(x)
      /\ \A i \in 1..Len(x) : a[Len(r) + i] = x[i]
  OBVIOUS
<1>3. /\ Tail(x) \in Seq(Unit) /\ Len(Tail(x)) = Len(x) - 1
      /\ \A i \in 1..(Len(x) - 1) : Tail(x)[i] = x[i + 1]
  BY <1>2
<1>4. b = Tail(x) /\ <<>> \in Seq(Unit)
  BY <1>3
<1>5. b \in Seq(Unit) /\ Len(b) = Len(x) - 1 /\ \A i \in 1..(Len(x) - 1) : b[i] = x[i + 1]
  BY <1>3, <1>4
<1>6. a[Len(r) + 1] = Head(x)
  <2>1. 1 \in 1..Len(x)
    BY <1>2
  <2> QED
    BY <1>2, <2>1
<1> HIDE DEF a, b
<1>7. n \in Nat /\ n >= 1 /\ Len(a) = n + Len(b)
  BY <1>2, <1>5
<1>8. \A i \in 1..Len(b) : b[i] = a[i + n]
  <2> SUFFICES ASSUME NEW i \in 1..Len(b) PROVE b[i] = a[i + n]
    OBVIOUS
  <2>1. i \in 1..(Len(x) - 1) /\ i + 1 \in 1..Len(x) /\ Len(r) + (i + 1) = i + n
    BY <1>2, <1>5
  <2> QED
    BY <1>2, <1>5, <2>1
<1>9. a[n] = Head(x) /\ Ends(a[n], 0)
  BY <1>2, <1>6 DEF Ends
<1> QED
  BY <1>3, <1>5, <1>7, <1>8, <1>9 DEF a, b

LEMMA ParcelReassembled ==
  ASSUME NEW r, NEW x, Line(r, x, 0), x # <<>>,
         Head(x).index = Len(r), Len(r) + 1 = Head(x).total
  PROVE  Shift(r, x, <<>>, Tail(x), 0)
<1> DEFINE a == r \o x
           b == <<>> \o Tail(x)
<1>1. /\ Stream(a, 0)
      /\ r \in Seq(Unit) /\ x \in Seq(Unit)
  BY DEF Line
<1>2. PICK n : n = Len(r) + 1
  OBVIOUS
<1>3. /\ n \in Nat /\ Tail(x) \in Seq(Unit) /\ b \in Seq(Unit) /\ Len(a) = n + Len(b)
      /\ \A i \in 1..Len(b) : b[i] = a[i + n]
      /\ Ends(a[n], 0)
  BY <1>1, <1>2, LastChunk
<1>4. <<>> \in Seq(Unit) /\ 0 \in {0, 1}
  OBVIOUS
<1> HIDE DEF a, b
<1>5. Stream(b, 0) /\ \A v : Joined(v, a, 0) => Joined(v, b, 0)
  BY <1>1, <1>3, <1>4, Rest
<1> QED
  BY <1>1, <1>3, <1>4, <1>5 DEF Line, Shift, a, b

\* A read takes all that is on its way ...
LEMMA AllRead ==
  ASSUME NEW k \in {0, 1}, NEW r, NEW x, Line(r, x, k)
  PROVE  Shift(r, x, r \o x, <<>>, k)
<1>1. r \in Seq(Unit) /\ x \in Seq(Unit)
  BY DEF Line
<1>2. r \o x \in Seq(Unit) /\ <<>> \in Seq(Unit)
  BY <1>1
<1>3. PICK a \in Seq(Unit) : a = r \o x
  BY <1>2
<1>4. Len(a \o <<>>) = Len(a) /\ \A i \in 1..Len(a \o <<>>) : (a \o <<>>)[i] = a[i]
  OBVIOUS
<1> QED
  BY <1>2, <1>3, <1>4, MovedLine

\* A unit moved from what is on its way to what has been read leaves their row alone.
LEMMA ChunkMoves ==
  ASSUME NEW r \in Seq(Unit), NEW x \in Seq(Unit), x # <<>>
  PROVE  /\ Append(r, Head(x)) \in Seq(Unit) /\ Tail(x) \in Seq(Unit)
         /\ Len(Append(r, Head(x)) \o Tail(x)) = Len(r \o x)
         /\ \A i \in 1..Len(Append(r, Head(x)) \o Tail(x)) : (Append(r, Head(x)) \o Tail(x))[i] = (r \o x)[i]
<1> DEFINE s == Append(r, Head(x))
           y == Tail(x)
<1>1. r \in Seq(Unit) /\ x \in Seq(Unit)
  OBVIOUS
<1>2. /\ Len(r) \in Nat /\ Len(x) \in Nat /\ Len(x) > 0 /\ Head(x) = x[1] /\ Head(x) \in Unit
      /\ Len(r \o x) = Len(r) + Len(x)
      /\ \A i \in 1..Len(r) : (r \o x)[i] = r[i]
      /\ \A i \in 1..Len(x) : (r \o x)[Len(r) + i] = x[i]
  BY <1>1
<1>3. /\ s \in Seq(Unit) /\ Len(s) = Len(r) + 1 /\ s[Len(r) + 1] = x[1]
      /\ \A i \in 1..Len(r) : s[i] = r[i]
  BY <1>1, <1>2
<1>4. /\ y \in Seq(Unit) /\ Len(y) = Len(x) - 1 /\ \A i \in 1..(Len(x) - 1) : y[i] = x[i + 1]
  BY <1>1, <1>2
<1> HIDE DEF s, y
<1>5. /\ Len(s \o y) = Len(s) + Len(y)
      /\ \A i \in 1..Len(s) : (s \o y)[i] = s[i]
      /\ \A i \in 1..Len(y) : (s \o y)[Len(s) + i] = y[i]
  BY <1>3, <1>4, InARow
<1>6. Len(s \o y) = Len(r \o x)
  BY <1>2, <1>3, <1>4, <1>5
<1>7. ASSUME NEW i \in 1..Len(s \o y) PROVE (s \o y)[i] = (r \o x)[i]
  <2>1. CASE i <= Len(r)
    <3>1. i \in 1..Len(r) /\ i \in 1..Len(s)
      BY <1>2, <1>3, <2>1
    <3> QED
      BY <1>2, <1>3, <1>5, <3>1
  <2>2. CASE i = Len(r) + 1
    <3>1. i \in 1..Len(s) /\ 1 \in 1..Len(x)
      BY <1>2, <1>3, <2>2
    <3> QED
      BY <1>2, <1>3, <1>5, <2>2, <3>1
  <2>3. CASE i > Len(r) + 1
    <3>1. PICK j \in 1..Len(y) : i = Len(s) + j
      <4>1. i - Len(s) \in 1..Len(y) /\ i = Len(s) + (i - Len(s))
        BY <1>2, <1>3, <1>4, <1>5, <2>3
      <4> QED
        BY <4>1
    <3>2. j \in 1..(Len(x) - 1) /\ j + 1 \in 1..Len(x) /\ Len(r) + (j + 1) = i
      BY <1>2, <1>3, <1>4, <3>1
    <3> QED
      BY <1>2, <1>4, <1>5, <3>1, <3>2
  <2> QED
    BY <1>2, <1>3, <1>4, <1>5, <2>1, <2>2, <2>3
<1> QED
  BY <1>3, <1>4, <1>6, <1>7 DEF s, y

\* ... and a receive one chunk.
LEMMA ChunkRead ==
  ASSUME NEW k \in {0, 1}, NEW r, NEW x, Line(r, x, k), x # <<>>
  PROVE  Shift(r, x, Append(r, Head(x)), Tail(x), k)
<1>1. r \in Seq(Unit) /\ x \in Seq(Unit)
  BY DEF Line
<1>2. /\ Append(r, Head(x)) \in Seq(Unit) /\ Tail(x) \in Seq(Unit)
      /\ Len(Append(r, Head(x)) \o Tail(x)) = Len(r \o x)
      /\ \A i \in 1..Len(Append(r, Head(x)) \o Tail(x)) : (Append(r, Head(x)) \o Tail(x))[i] = (r \o x)[i]
  BY <1>1, ChunkMoves
<1> QED
  BY <1>2, MovedLine

\* The reads of a TCP stream.
LEMMA TcpReadFraming ==
  ASSUME IInv, Framing, NEW n \in Member, NEW p \in Member \ {n}, TcpRead(n, p)
  PROVE  Framing'
<1> DEFINE l == <<p, n, Turn(n)>>
<1>0. Types /\ p \in Member /\ p # n
  BY DEF IInv
<1>1. Driving(n) /\ Turn(n) \in Channel
  BY <1>0, AtStopFacts DEF TcpRead
<1>2. l \in Lane /\ n = Destination(l)
  BY <1>0, <1>1, LaneFacts
<1>3. backend' = backend /\ failed' = failed /\ shutdown' = shutdown
  BY DEF TcpRead
<1>4. wire = [k \in Lane |-> wire[k]] /\ read = [k \in Lane |-> read[k]]
  BY <1>0 DEF Framing, Types
<1>5. CASE Advance(n, drv[n].events) /\ UNCHANGED <<credit, flow>>
  <2>1. Fades
    BY <1>1, <1>3, <1>5, AdvanceKeeps, DriveFades
  <2> QED
    BY <1>3, <1>5, <2>1, QuietFraming DEF flow
<1>6. CASE /\ read' = [read EXCEPT ![l] = read[l] \o wire[l]] /\ wire' = [wire EXCEPT ![l] = <<>>]
           /\ Advance(n, drv[n].events) /\ UNCHANGED <<credit, receivers, writes>>
  <2>1. Fades
    BY <1>1, <1>3, <1>6, AdvanceKeeps, DriveFades
  <2> HIDE DEF l
  <2>2. /\ read'[l] = read[l] \o wire[l] /\ wire'[l] = <<>> /\ wire' = [k \in Lane |-> wire'[k]]
        /\ receivers' = receivers /\ writes' = writes
    BY <1>2, <1>4, <1>6
  <2>3. \A k \in Lane : k # l => read'[k] = read[k] /\ wire'[k] = wire[k]
    BY <1>2, <1>4, <1>6
  <2>4. LaneRead(l) => Shift(read[l], wire[l], read'[l], wire'[l], Prefix)
    BY <2>2, AllRead, PrefixUnits DEF LaneRead
  <2> QED
    BY <1>2, <1>3, <2>1, <2>2, <2>3, <2>4, ShiftFraming
<1>7. CASE FailDrain(n) /\ \E x : wire' = [wire EXCEPT ![l] = x]
  <2>1. wire' = [k \in Lane |-> wire'[k]] /\ \A k \in Lane : Destination(k) # n => wire'[k] = wire[k]
    <3> HIDE DEF l
    <3> QED
      BY <1>2, <1>4, <1>7
  <2> QED
    BY <1>1, <1>3, <1>7, <2>1, DrainFraming
<1>8. [read EXCEPT ![l] = @ \o wire[l]] = [read EXCEPT ![l] = read[l] \o wire[l]]
  BY <1>2, <1>4
<1> QED
  BY <1>5, <1>6, <1>7, <1>8 DEF TcpRead

\* The decoding loop of a TCP stream.
LEMMA TcpDecodeFraming ==
  ASSUME IInv, Framing, NEW n \in Member, NEW p \in Member \ {n}, TcpDecode(n, p)
  PROVE  Framing'
<1> DEFINE l == <<p, n, Turn(n)>>
           length == Head(read[l]).total
<1>0. Types /\ p \in Member /\ p # n
  BY DEF IInv
<1>1. Driving(n) /\ Turn(n) \in Channel
  BY <1>0, AtStopFacts DEF TcpDecode
<1>2. l \in Lane /\ n = Destination(l)
  BY <1>0, <1>1, LaneFacts
<1>3. backend' = backend /\ failed' = failed /\ shutdown' = shutdown /\ wire' = wire /\ backend = "tcp"
  BY DEF TcpDecode
<1>4. /\ wire' = [k \in Lane |-> wire'[k]] /\ read = [k \in Lane |-> read[k]]
      /\ drv = [m \in Member |-> drv[m]] /\ Shape(drv[n])
  BY <1>0, <1>3 DEF Framing, Types
<1>5. CASE Advance(n, drv[n].events) /\ UNCHANGED <<credit, receivers, writes, read>>
  <2>1. Fades
    BY <1>1, <1>3, <1>5, AdvanceKeeps, DriveFades
  <2> QED
    BY <1>3, <1>5, <2>1, QuietFraming
<1>6. CASE /\ read[l] # <<>> /\ Len(read[l]) >= LENGTH + length
           /\ read' = [read EXCEPT ![l] = SubSeq(read[l], LENGTH + length + 1, Len(read[l]))]
           /\ \E events : drv' = [drv EXCEPT ![n].events = events]
           /\ UNCHANGED <<credit, receivers, writes>>
  <2>1. Fades
    BY <1>1, <1>3, <1>6, EventsKeep, DriveFades
  <2>2. receivers' = receivers /\ writes' = writes
    BY <1>6
  <2>3. read[l] # <<>> /\ Len(read[l]) >= 1 + length
    BY <1>6 DEF LENGTH
  <2>4. read'[l] = SubSeq(read[l], (1 + length) + 1, Len(read[l]))
    <3>1. read'[l] = SubSeq(read[l], LENGTH + length + 1, Len(read[l]))
      <4> HIDE DEF l, length
      <4> QED
        BY <1>2, <1>4, <1>6
    <3> QED
      BY <3>1 DEF LENGTH
  <2>5. \A k \in Lane : k # l => read'[k] = read[k]
    <3> HIDE DEF l, length
    <3> QED
      BY <1>2, <1>4, <1>6
  <2>6. ASSUME LaneRead(l) PROVE Shift(read[l], wire[l], read'[l], wire'[l], Prefix)
    <3>1. Line(read[l], wire[l], 1)
      BY <1>3, <2>6, PrefixUnits DEF LaneRead
    <3>2. length \in Nat
      <4>1. read[l] \in Seq(Unit)
        BY <3>1 DEF Line
      <4>2. Head(read[l]) \in Unit
        BY <2>3, <4>1
      <4> QED
        BY <4>2 DEF Unit
    <3>3. PICK c \in Nat : c = length + 1
      BY <3>2
    <3>4. 1 + length = c /\ c = Head(read[l]).total + 1 /\ c <= Len(read[l])
      <4>1. Len(read[l]) \in Nat
        BY <3>1 DEF Line
      <4>2. 1 + length = c
        BY <3>2, <3>3
      <4> QED
        BY <2>3, <3>2, <3>3, <4>1, <4>2
    <3>5. 1 \in {0, 1}
      OBVIOUS
    <3>6. read'[l] = SubSeq(read[l], c + 1, Len(read[l]))
      BY <2>4, <3>4
    <3> HIDE DEF l, length
    <3>7. Shift(read[l], wire[l], SubSeq(read[l], c + 1, Len(read[l])), wire[l], 1)
      BY <2>3, <3>1, <3>4, <3>5, ParcelRead
    <3> QED
      BY <1>3, <2>2, <3>6, <3>7, PrefixUnits
  <2> HIDE DEF l, length
  <2> QED
    BY <1>2, <1>3, <1>4, <2>1, <2>2, <2>5, <2>6, ShiftFraming
<1>7. CASE FailDrain(n)
  <2>1. \A k \in Lane : wire'[k] = wire[k]
    BY <1>3
  <2> QED
    BY <1>1, <1>3, <1>4, <1>7, <2>1, DrainFraming
<1>8. \A a : [read EXCEPT ![l] = SubSeq(@, a, Len(@))]
              = [read EXCEPT ![l] = SubSeq(read[l], a, Len(read[l]))]
  BY <1>2, <1>4
<1>9. \A e : [drv EXCEPT ![n].events = Append(@, e)] = [drv EXCEPT ![n].events = Append(drv[n].events, e)]
  BY <1>4 DEF Shape
<1> QED
  BY <1>5, <1>6, <1>7, <1>8, <1>9 DEF TcpDecode

\* The receive loop of the MPI driver.
LEMMA MpiReceiveFraming ==
  ASSUME IInv, Framing, NEW n \in Member, MpiReceive(n)
  PROVE  Framing'
<1>0. Types
  BY DEF IInv
<1>1. Driving(n)
  BY DEF MpiReceive, AtStop
<1>3. backend' = backend /\ failed' = failed /\ shutdown' = shutdown /\ backend = "mpi"
  BY DEF MpiReceive
<1>a. PICK l \in To(n) :
        /\ wire[l] # <<>> /\ wire' = [wire EXCEPT ![l] = Tail(@)]
        /\ LET unit == Head(wire[l])
               slot == Append(read[l], unit)
           IN  IF ~ InSequence(read[l], unit)
               THEN FailDrain(n)
               ELSE /\ IF Len(slot) = unit.total
                       THEN /\ read' = [read EXCEPT ![l] = <<>>]
                            /\ drv' = [drv EXCEPT ![n].events = Append(@, Incoming(l, unit.ticket))]
                       ELSE read' = [read EXCEPT ![l] = slot] /\ UNCHANGED drv
                    /\ UNCHANGED <<credit, receivers, writes>>
  BY DEF MpiReceive
<1> DEFINE unit == Head(wire[l])
           slot == Append(read[l], unit)
<1>2. l \in Lane /\ n = Destination(l)
  BY DEF To
<1>4. /\ wire = [k \in Lane |-> wire[k]] /\ read = [k \in Lane |-> read[k]]
      /\ drv = [m \in Member |-> drv[m]] /\ Shape(drv[n])
  BY <1>0 DEF Framing, Types
<1>5. /\ wire'[l] = Tail(wire[l]) /\ wire' = [k \in Lane |-> wire'[k]] /\ wire[l] # <<>>
      /\ \A k \in Lane : k # l => wire'[k] = wire[k]
  BY <1>2, <1>4, <1>a
<1>6. CASE FailDrain(n)
  <2>1. \A k \in Lane : Destination(k) # n => wire'[k] = wire[k]
    BY <1>2, <1>5
  <2> QED
    BY <1>1, <1>3, <1>5, <1>6, <2>1, DrainFraming
<1>7. ASSUME InSequence(read[l], unit), LaneRead(l)
      PROVE  /\ Line(read[l], wire[l], 0)
             /\ unit.index = Len(read[l]) /\ Len(slot) = Len(read[l]) + 1
  <2>1. Line(read[l], wire[l], 0)
    BY <1>3, <1>7, PrefixUnits DEF LaneRead
  <2>2. read[l] \in Seq(Unit)
    BY <2>1 DEF Line
  <2>3. Len(slot) = Len(read[l]) + 1 /\ Len(<<>>) = 0
    BY <2>2
  <2>4. unit.index = Len(read[l])
    BY <1>7, <2>3 DEF InSequence
  <2> QED
    BY <2>1, <2>3, <2>4
<1>8. CASE /\ InSequence(read[l], unit) /\ Len(slot) = unit.total
           /\ read' = [read EXCEPT ![l] = <<>>]
           /\ drv' = [drv EXCEPT ![n].events = Append(@, Incoming(l, unit.ticket))]
           /\ UNCHANGED <<credit, receivers, writes>>
  <2>1. \A e : [drv EXCEPT ![n].events = Append(@, e)] = [drv EXCEPT ![n].events = Append(drv[n].events, e)]
    BY <1>4 DEF Shape
  <2>2. Fades
    BY <1>1, <1>3, <1>8, <2>1, EventsKeep, DriveFades
  <2>3. receivers' = receivers /\ writes' = writes
    BY <1>8
  <2>4. read'[l] = <<>> /\ \A k \in Lane : k # l => read'[k] = read[k]
    BY <1>2, <1>4, <1>8
  <2>5. ASSUME LaneRead(l) PROVE Shift(read[l], wire[l], read'[l], wire'[l], Prefix)
    <3>1. /\ Line(read[l], wire[l], 0)
          /\ Head(wire[l]).index = Len(read[l]) /\ Len(read[l]) + 1 = Head(wire[l]).total
      BY <1>7, <1>8, <2>5
    <3>2. Shift(read[l], wire[l], <<>>, Tail(wire[l]), 0)
      BY <1>5, <3>1, ParcelReassembled
    <3> QED
      BY <1>3, <1>5, <2>3, <2>4, <3>2, PrefixUnits
  <2> QED
    BY <1>2, <1>3, <1>5, <2>2, <2>3, <2>4, <2>5, ShiftFraming
<1>9. CASE /\ InSequence(read[l], unit)
           /\ read' = [read EXCEPT ![l] = slot] /\ UNCHANGED drv
           /\ UNCHANGED <<credit, receivers, writes>>
  <2>1. drv' = drv
    BY <1>9
  <2>2. Fades
    BY <1>1, <1>3, <2>1, SameKeeps, DriveFades
  <2>3. receivers' = receivers /\ writes' = writes
    BY <1>9
  <2>4. read'[l] = slot /\ \A k \in Lane : k # l => read'[k] = read[k]
    <3> HIDE DEF slot
    <3> QED
      BY <1>2, <1>4, <1>9
  <2>5. ASSUME LaneRead(l) PROVE Shift(read[l], wire[l], read'[l], wire'[l], Prefix)
    <3>1. Line(read[l], wire[l], 0)
      BY <1>7, <1>9, <2>5
    <3>2. 0 \in {0, 1}
      OBVIOUS
    <3>3. Shift(read[l], wire[l], Append(read[l], Head(wire[l])), Tail(wire[l]), 0)
      BY <1>5, <3>1, <3>2, ChunkRead
    <3> QED
      BY <1>3, <1>5, <2>3, <2>4, <3>3, PrefixUnits
  <2> QED
    BY <1>2, <1>3, <1>5, <2>2, <2>3, <2>4, <2>5, ShiftFraming
<1> QED
  BY <1>6, <1>8, <1>9, <1>a

\* The end of the receive loop.
LEMMA MpiReceivedFraming ==
  ASSUME IInv, Framing, NEW n \in Member, MpiReceived(n)
  PROVE  Framing'
<1>1. Driving(n)
  BY DEF MpiReceived, AtStop
<1>2. /\ backend' = backend /\ failed' = failed /\ shutdown' = shutdown /\ receivers' = receivers /\ writes' = writes
      /\ read' = read /\ wire' = wire /\ Advance(n, drv[n].events)
  BY DEF MpiReceived, flow
<1>3. Fades
  BY <1>1, <1>2, AdvanceKeeps, DriveFades
<1> QED
  BY <1>2, <1>3, QuietFraming

\* A call that touches no lane, and that a driver which has failed or died does not make.
LEMMA CallFraming ==
  ASSUME IInv, Framing, NEW n \in Member, backend' = backend, receivers' = receivers, writes' = writes,
         read' = read, wire' = wire, drv' = drv \/ \E r : drv' = [drv EXCEPT ![n] = r],
         failed' = failed \/ failed' = [failed EXCEPT ![n] = TRUE], shutdown' = shutdown,
         drv[n].op \notin {"failing", "dead"} \/ failed'[n] \/ drv'[n].op \in {"failing", "dead"}
  PROVE  Framing'
<1>1. Types
  BY DEF IInv
<1>2. \A m \in Member : m # n => drv'[m] = drv[m]
  BY <1>1 DEF Types
<1>3. \A m \in Member : failed[m] => failed'[m]
  BY <1>1 DEF Types
<1>4. Fades
  BY <1>2, <1>3 DEF Fades, Works
<1> QED
  BY <1>4, QuietFraming

\* The calls of the owner that touch no lane.
LEMMA CallsFraming ==
  ASSUME IInv, Framing, NEW n \in Member,
         FlushOverflow(n) \/ FlushTimeout(n) \/ FlushAgain(n) \/ ProgressDone(n) \/ FailClose(n)
         \/ Progress(n) \/ Flush(n) \/ Shutdown(n) \/ Crash(n)
  PROVE  Framing'
<1>0. Types
  BY DEF IInv
<1>1. /\ backend' = backend /\ receivers' = receivers /\ writes' = writes
      /\ read' = read /\ wire' = wire
  BY DEF FlushOverflow, FlushTimeout, FlushAgain, FlushEnd, ProgressDone, FailClose, Progress, Flush,
         Shutdown, Crash, flow
<1>2. CASE FlushOverflow(n) \/ FlushTimeout(n) \/ ProgressDone(n) \/ Flush(n)
  BY <1>1, <1>2, CallFraming DEF FlushOverflow, FlushTimeout, FlushEnd, ProgressDone, Flush
<1>3. CASE FlushAgain(n)
  <2>1. \A a, b : drv' = [drv EXCEPT ![n] = IF OutboundEmpty(n) THEN Flushed(@.op) ELSE Driven(@.op)]
                  => \E r : drv' = [drv EXCEPT ![n] = r]
    <3>1. drv = [m \in Member |-> drv[m]]
      BY <1>0 DEF Types
    <3>2. [drv EXCEPT ![n] = IF OutboundEmpty(n) THEN Flushed(@.op) ELSE Driven(@.op)]
            = [drv EXCEPT ![n] = IF OutboundEmpty(n) THEN Flushed(drv[n].op) ELSE Driven(drv[n].op)]
      BY <3>1
    <3> QED
      BY <3>2
  <2> QED
    BY <1>1, <1>3, <2>1, CallFraming DEF FlushAgain, FlushEnd
<1>4. CASE Progress(n)
  BY <1>1, <1>4, CallFraming DEF Progress
<1>5. CASE Shutdown(n)
  BY <1>1, <1>5, CallFraming DEF Shutdown
<1>6. CASE Crash(n)
  <2> DEFINE r == [Idle EXCEPT !.op = "dead"]
  <2>1. Shape(r) /\ r.op = "dead"
    BY DEF Idle, Shape, Op
  <2>2. drv' = [drv EXCEPT ![n] = r] /\ failed' = failed /\ shutdown' = shutdown
    BY <1>6 DEF Crash
  <2> HIDE DEF r
  <2>3. drv'[n].op = "dead"
    BY <1>0, <2>1, <2>2, DrvSet
  <2> QED
    BY <1>1, <2>2, <2>3, CallFraming
<1>7. CASE FailClose(n)
  <2>1. /\ failed' = [failed EXCEPT ![n] = TRUE] /\ shutdown' = shutdown
        /\ drv' = [drv EXCEPT ![n] = Idle]
    BY <1>7 DEF FailClose
  <2>2. failed'[n]
    BY <1>0, <2>1 DEF Types
  <2> QED
    BY <1>1, <2>1, <2>2, CallFraming
<1> QED
  BY <1>2, <1>3, <1>4, <1>5, <1>6, <1>7

\* The end of shutdown.
LEMMA ShutdownDoneFraming ==
  ASSUME IInv, Framing, NEW n \in Member, ShutdownDone(n)
  PROVE  Framing'
<1>0. Types
  BY DEF IInv
<1>1. /\ backend' = backend /\ receivers' = receivers /\ wire' = wire
      /\ shutdown' = [shutdown EXCEPT ![n] = TRUE] /\ drv' = [drv EXCEPT ![n] = Idle]
      /\ failed' = [failed EXCEPT ![n] = failed[n] \/ Partial(n)]
  BY <1>0 DEF ShutdownDone, Types
<1>2. writes' = writes
  BY ShutdownKeepsWrites
<1>3. \A k \in Lane : Destination(k) # n => read'[k] = read[k]
  BY DEF ShutdownDone
<1>4. shutdown'[n] /\ \A m \in Member : (shutdown[m] => shutdown'[m]) /\ (failed[m] => failed'[m])
  BY <1>0, <1>1 DEF Types
<1>5. \A m \in Member : m # n => drv'[m] = drv[m]
  BY <1>0, <1>1 DEF Types
<1>6. Fades /\ ~Works(n)'
  BY <1>4, <1>5 DEF Fades, Works
<1>7. wire' = [k \in Lane |-> wire'[k]]
  BY <1>1 DEF Framing
<1> QED
  BY <1>1, <1>2, <1>3, <1>6, <1>7, EndFraming

\* At the start the streams are empty ...
LEMMA InitFraming == Init => Framing
<1> SUFFICES ASSUME Init PROVE Framing
  OBVIOUS
<1>1. wire = [l \in Lane |-> wire[l]]
  BY DEF Init
<1>2. ASSUME NEW l \in Lane PROVE LaneFramed(l) /\ LaneRead(l)
  <2>1. receivers[l] = <<>> /\ writes[l] = <<>> /\ read[l] = <<>> /\ wire[l] = <<>>
    BY DEF Init
  <2>2. <<>> \in Seq(Frame) /\ <<>> \in Seq(Unit) /\ Len(<<>>) = 0 /\ <<>> \o <<>> = <<>>
    OBVIOUS
  <2>3. Queue(<<>>, <<>>, Prefix)
    BY <2>2 DEF Queue
  <2>4. Stream(<<>>, Prefix) /\ Joined(<<>>, <<>>, Prefix)
    BY <2>2 DEF Stream, Joined
  <2> QED
    BY <2>1, <2>2, <2>3, <2>4 DEF LaneFramed, LaneRead, Framed, Line
<1> QED
  BY <1>1, <1>2 DEF Framing

\* ... and every step keeps them framed.
LEMMA NextFraming == IInv /\ Framing /\ [Next]_vars => Framing'
<1> SUFFICES ASSUME IInv, Framing, [Next]_vars PROVE Framing'
  OBVIOUS
<1>1. CASE UNCHANGED vars
  <2>1. /\ backend' = backend /\ receivers' = receivers /\ writes' = writes /\ read' = read
        /\ wire' = wire /\ drv' = drv /\ failed' = failed /\ shutdown' = shutdown
    BY <1>1 DEF vars, flow
  <2>2. Fades
    BY <2>1 DEF Fades, Works
  <2> QED
    BY <2>1, <2>2, QuietFraming
<1>2. CASE \E l \in Lane : \E length \in Lengths : TrySend(l, length)
  BY <1>2, TrySendFraming
<1>3. ASSUME NEW n \in Member, Step(n) PROVE Framing'
  <2>1. ASSUME NEW p \in Member \ {n},
               TcpWrite(n, p) \/ TcpRead(n, p) \/ TcpDecode(n, p) \/ MpiWrite(n, p)
        PROVE  Framing'
    BY <2>1, TcpWriteFraming, TcpReadFraming, TcpDecodeFraming, MpiWriteFraming
  <2> QED
    BY <1>3, <2>1, MpiReceiveFraming, MpiReceivedFraming, ShutdownDoneFraming, CallsFraming DEF Step
<1>4. ASSUME NEW n \in Member, Progress(n) \/ Flush(n) \/ Shutdown(n) \/ Crash(n) PROVE Framing'
  BY <1>4, CallsFraming
<1> QED
  BY <1>1, <1>2, <1>3, <1>4 DEF Next

\* Whoever has failed or stopped has closed its gate.
LEMMA FailedHasClosed ==
  /\ Init => \A n \in Member : failed[n] => closed[n]
  /\ IInv /\ (\A n \in Member : failed[n] => closed[n]) /\ [Next]_vars =>
       (\A n \in Member : failed[n] => closed[n])'
<1>1. Init => \A n \in Member : failed[n] => closed[n]
  BY DEF Init
<1> SUFFICES ASSUME IInv, \A n \in Member : failed[n] => closed[n], [Next]_vars
             PROVE  \A n \in Member : failed'[n] => closed'[n]
  BY <1>1
<1>2. Types
  BY DEF IInv
<1>3. CASE failed' = failed /\ closed' = closed
  BY <1>3
<1>4. CASE \E n \in Member : closed' = [closed EXCEPT ![n] = TRUE] /\ failed' = failed
  BY <1>2, <1>4 DEF Types
<1>5. CASE \E n \in Member : /\ closed' = [closed EXCEPT ![n] = TRUE]
                            /\ \E b : failed' = [failed EXCEPT ![n] = b]
  BY <1>2, <1>5 DEF Types
<1>6. CASE UNCHANGED vars
  BY <1>3, <1>6 DEF vars
<1>7. CASE \E l \in Lane : \E length \in Lengths : TrySend(l, length)
  BY <1>3, <1>7 DEF TrySend
<1>8. ASSUME NEW n \in Member, Step(n) PROVE \A m \in Member : failed'[m] => closed'[m]
  <2>1. CASE ShutdownDone(n)
    BY <1>5, <2>1 DEF ShutdownDone
  <2>2. CASE FailClose(n)
    BY <1>5, <2>2 DEF FailClose
  <2>3. CASE ~ShutdownDone(n) /\ ~FailClose(n)
    BY <1>3, <1>8, <2>3 DEF Step, TcpWrite, TcpRead, TcpDecode, MpiWrite, MpiReceive, MpiReceived,
                            FlushOverflow, FlushTimeout, FlushAgain, FlushEnd, ProgressDone
  <2> QED
    BY <2>1, <2>2, <2>3
<1>9. ASSUME NEW n \in Member, Progress(n) \/ Flush(n) \/ Shutdown(n) \/ Crash(n)
      PROVE  \A m \in Member : failed'[m] => closed'[m]
  BY <1>3, <1>4, <1>9 DEF Progress, Flush, Shutdown, Crash
<1> QED
  BY <1>6, <1>7, <1>8, <1>9 DEF Next

\* A framed lane is what the property asks for.
LEMMA FramedMeans == IInv /\ Framing /\ (\A n \in Member : failed[n] => closed[n]) => FramingHolds
<1> SUFFICES ASSUME IInv, Framing, NEW l \in Lane, read[l] \o wire[l] # <<>>,
                    Works(Source(l)), Works(Destination(l))
             PROVE  LET s == read[l] \o wire[l]
                        last(u) == u.index = u.total - IF backend = "tcp" THEN 0 ELSE 1
                    IN  /\ s[1].index = 0
                        /\ \A i \in 1..(Len(s) - 1) :
                             IF last(s[i]) THEN s[i + 1].index = 0
                             ELSE s[i + 1] = [s[i] EXCEPT !.index = @ + 1]
                        /\ ~ last(s[Len(s)]) => /\ writes[l] # <<>>
                                                /\ Head(writes[l]).ticket = s[Len(s)].ticket
                                                /\ Head(writes[l]).offset = s[Len(s)].index + 1
  <2>1. SUFFICES ASSUME IInv, \A n \in Member : failed[n] => closed[n]
                 PROVE  \A n \in Member : ~closed[n] /\ drv[n].op \notin {"failing", "dead"} => Works(n)
    BY LaneFacts DEF FramingHolds
  <2> QED
    BY <2>1 DEF IInv, Gate, Works
<1> DEFINE s == read[l] \o wire[l]
           last(u) == u.index = u.total - IF backend = "tcp" THEN 0 ELSE 1
<1>1. Stream(s, Prefix) /\ Joined(writes[l], s, Prefix) /\ writes[l] \in Seq(Frame)
  BY DEF Framing, LaneFramed, Framed, Line, Queue
<1>a. s # <<>>
  OBVIOUS
<1> HIDE DEF s
<1>2. s \in Seq(Unit) /\ s # <<>> /\ Len(s) \in Nat /\ Len(s) > 0
  <2>1. s \in Seq(Unit)
    BY <1>1 DEF Stream
  <2> QED
    BY <1>a, <2>1
<1>3. \A u \in Unit : last(u) <=> Ends(u, Prefix)
  <2>1. \A u \in Unit : u.index \in Nat /\ u.total \in Nat
    BY DEF Unit
  <2>2. backend \in {"tcp", "mpi"}
    BY DEF IInv, Types
  <2> QED
    BY <2>1, <2>2, PrefixUnits DEF Ends
<1> HIDE DEF last
<1>4. s[1].index = 0
  BY <1>1, <1>2 DEF Stream
<1>5. ASSUME NEW i \in 1..(Len(s) - 1)
      PROVE  IF last(s[i]) THEN s[i + 1].index = 0
             ELSE s[i + 1] = [s[i] EXCEPT !.index = @ + 1]
  <2>1. s[i] \in Unit /\ s[i + 1] \in Unit /\ Follows(s[i], s[i + 1], Prefix)
    BY <1>1, <1>2 DEF Stream
  <2>2. PICK u \in Unit, v \in Unit : u = s[i] /\ v = s[i + 1]
    BY <2>1
  <2>3. IF last(u) THEN v.index = 0
        ELSE v.ticket = u.ticket /\ v.index = u.index + 1 /\ v.total = u.total
    BY <1>3, <2>1, <2>2 DEF Follows
  <2>4. (v.ticket = u.ticket /\ v.index = u.index + 1 /\ v.total = u.total)
          => v = [u EXCEPT !.index = @ + 1]
    BY DEF Unit
  <2> QED
    BY <2>2, <2>3, <2>4
<1>6. ASSUME ~last(s[Len(s)])
      PROVE  /\ writes[l] # <<>> /\ Head(writes[l]).ticket = s[Len(s)].ticket
             /\ Head(writes[l]).offset = s[Len(s)].index + 1
  <2>1. s[Len(s)] \in Unit
    BY <1>2
  <2>2. ~Ends(s[Len(s)], Prefix)
    BY <1>3, <1>6, <2>1
  <2>3. /\ Len(writes[l]) > 0 /\ writes[l][1].ticket = s[Len(s)].ticket
        /\ writes[l][1].offset = s[Len(s)].index + 1
    BY <1>1, <1>2, <2>2 DEF Joined
  <2>4. writes[l] # <<>> /\ Head(writes[l]) = writes[l][1]
    BY <1>1, <2>3
  <2> QED
    BY <2>3, <2>4
<1> QED
  BY <1>4, <1>5, <1>6 DEF s, last

\* However writes are cut, a stream between two drivers that work consists of
\* whole parcels in a row, and the first frame to be written goes on where it stops.
THEOREM FramingIsKept == Spec => []FramingHolds
<1> DEFINE J == IInv /\ Framing /\ \A n \in Member : failed[n] => closed[n]
<1>1. Init => J
  BY InitIInv, InitFraming, FailedHasClosed
<1>2. J /\ [Next]_vars => J'
  BY NextIInv, NextFraming, FailedHasClosed
<1>3. J => FramingHolds
  BY FramedMeans
<1> QED
  BY <1>1, <1>2, <1>3, PTL DEF Spec
=============================================================================
