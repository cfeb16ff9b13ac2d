----------------------- MODULE TransportContractProofs -----------------------
(***************************************************************************)
(* Transport implements ParcelLink (KeepsContract), for any localities,     *)
(* channels and limits and either backend: parcels of a lane are handed     *)
(* over in the order in which they were accepted, none twice or out of      *)
(* nowhere, none left out unless the owner of the receiver has been shown an *)
(* error, and a ticket completes at most once.                              *)
(*                                                                          *)
(* The tickets of a lane are followed from try_send to the receiving owner:  *)
(* accepted, waiting to be written, on the way, and seen by the receiver,    *)
(* that is handed over, in pending_events or in the events of its call.     *)
(***************************************************************************)
EXTENDS TransportProofs, SequenceTheorems

-----------------------------------------------------------------------------
(* Tickets.                                                                 *)

\* The elements of a sequence, and the tickets of a sequence of frames or units.
In(s) == {s[i] : i \in 1..Len(s)}
TicketsIn(s) == {s[i].ticket : i \in 1..Len(s)}
Below(A, B) == \A a \in A, b \in B : a < b

\* The events that hand over a parcel of lane l, and those that complete one.
ArrivalOn(l) == {e \in Event : e.kind = "Incoming" /\ e.lane = l}
Completion == {e \in Event : e.kind = "LocalSendComplete"}
\* Where the events of M are in es, and their tickets.
Places(es, M) == {i \in 1..Len(es) : es[i] \in M}
Marked(es, M) == {es[i].ticket : i \in Places(es, M)}

\* Two tickets are in order, or only distinct, and so are those of two sets.
Precedes(a, b, o) == IF o THEN a < b ELSE a # b
Separate(A, B, o) == \A a \in A, b \in B : Precedes(a, b, o)
\* The tickets t, and those of the events of M in es, are in order.
Rising(t, o) == \A i, j \in 1..Len(t) : i < j => Precedes(t[i], t[j], o)
Aligned(es, M, o) == \A i, j \in Places(es, M) : i < j => Precedes(es[i].ticket, es[j].ticket, o)
\* The tickets handed over in g, and those of the events of M in pending events p
\* and in the events e of a call, one after the other.
Known(g, p, e, M) == In(g) \cup Marked(p, M) \cup Marked(e, M)
Ordered(g, p, e, M, o) ==
  /\ Rising(g, o) /\ Aligned(p, M, o) /\ Aligned(e, M, o)
  /\ Separate(In(g), Marked(p, M) \cup Marked(e, M), o)
  /\ Separate(Marked(p, M), Marked(e, M), o)

-----------------------------------------------------------------------------
(* The invariant.                                                           *)

Accepted(l) == In(sent[l])
Seen(l) == Known(got[l], pending[Destination(l)], drv[Destination(l)].events, ArrivalOn(l))
Way(l) == read[l] \o wire[l]
Waiting(l) == TicketsIn(writes[l]) \cup TicketsIn(receivers[l])

\* Tickets are counted up.
Numbered(s, next) ==
  /\ \A i, j \in 1..Len(s) : i < j => s[i] < s[j]
  /\ \A t \in In(s) : 1 <= t /\ t < next
\* Frames w and submissions q wait in the order of their tickets.
InOrder(s) == \A i, j \in 1..Len(s) : i < j => s[i].ticket < s[j].ticket
Upstream(w, q) == InOrder(w) /\ InOrder(q) /\ Below(TicketsIn(w), TicketsIn(q))
\* What comes after the last unit of a parcel, on the way or waiting (W), is later.
Row(s, W, k) ==
  /\ \A i, j \in 1..Len(s) : i < j =>
       s[i].ticket <= s[j].ticket /\ (Ends(s[i], k) => s[i].ticket < s[j].ticket)
  /\ \A i \in 1..Len(s) : \A z \in W :
       s[i].ticket <= z /\ (Ends(s[i], k) => s[i].ticket < z)
\* A was accepted, S is seen, T on its way and W waiting.
Passing(A, S, T, W) == A \subseteq Nat /\ S \cup T \cup W \subseteq A /\ Below(S, T \cup W)
\* Nothing of A below an element of X is left out of X.
Whole(X, A) == \A a \in A : \A x \in X : a < x => a \in X
\* Nothing is lost before the receiver's owner is shown an error.
Unbroken(A, S, T, W, shown, reads, writing) ==
  ~shown => /\ Whole(S, A)
            /\ reads => Whole(S \cup T, A)
            /\ reads /\ writing => A \subseteq S \cup T \cup W

LaneInv(l) ==
  /\ Numbered(sent[l], next_ticket[Source(l)])
  /\ Upstream(writes[l], receivers[l])
  /\ Row(Way(l), Waiting(l), Prefix)
  /\ Ordered(got[l], pending[Destination(l)], drv[Destination(l)].events, ArrivalOn(l), TRUE)
  /\ Passing(Accepted(l), Seen(l), TicketsIn(Way(l)), Waiting(l))
  /\ Unbroken(Accepted(l), Seen(l), TicketsIn(Way(l)), Waiting(l), visible[Destination(l)],
              Works(Destination(l)), Works(Source(l)))

\* The tickets of n that no longer wait.
Settled(n) == UNION {Accepted(l) \ Waiting(l) : l \in From(n)}
\* Completions are distinct, and none is of a parcel that still waits.
Completes(n) ==
  /\ Ordered(done[n], pending[n], drv[n].events, Completion, FALSE)
  /\ Known(done[n], pending[n], drv[n].events, Completion) \subseteq Settled(n)
\* Where a driver's events can be.
Placed(n) ==
  /\ drv[n].op \in {"idle", "closing", "dead"} => drv[n].events = <<>>
  /\ drv[n].op = "progress" \/ (drv[n].op = "failing" /\ drv[n].events # <<>>) =>
       \A l \in To(n) : Marked(pending[n], ArrivalOn(l)) = {}

Kinds ==
  /\ sent \in [Lane -> Seq(Nat)] /\ got \in [Lane -> Seq(Nat)]
  /\ done \in [Member -> Seq(Nat)] /\ visible \in [Member -> BOOLEAN]
  /\ pending \in [Member -> Seq(Event)] /\ \A n \in Member : drv[n].events \in Seq(Event)
  /\ read \in [Lane -> Seq(Unit)] /\ wire \in [Lane -> Seq(Unit)]
  /\ \A n \in Member : next_ticket[n] >= 1

\* Lanes of one source never share a ticket.
Apart == \A l, m \in Lane : Source(l) = Source(m) /\ l # m => Accepted(l) \cap Accepted(m) = {}

CInv ==
  /\ Kinds /\ Apart
  /\ \A l \in Lane : LaneInv(l)
  /\ \A n \in Member : Completes(n) /\ Placed(n)

-----------------------------------------------------------------------------
(* What a driver's owner is given.                                          *)

\* g has the tickets of the chosen events among the first i, for every i up to n.
Picked(s, es, chosen, i) == IF i \in chosen THEN Append(s, es[i].ticket) ELSE s
Picks(es, chosen, n, g) ==
  /\ g \in [0..n -> Seq(Nat)] /\ g[0] = <<>>
  /\ \A i \in 1..n : g[i] = Picked(g[i - 1], es, chosen, i)

\* Such a function exists, whatever is chosen.
LEMMA PicksExist ==
  ASSUME NEW n \in Nat, NEW es, NEW chosen, \A i \in 1..n : es[i].ticket \in Nat
  PROVE  \E g : Picks(es, chosen, n, g)
<1> DEFINE S == {k \in 0..n : ~\E g : Picks(es, chosen, k, g)}
<1> SUFFICES ASSUME S # {} PROVE FALSE
  OBVIOUS
<1>0. S \subseteq Nat
  OBVIOUS
<1>1. PICK k \in S : \A j \in S : k <= j
  <2> HIDE DEF S
  <2> QED
    BY <1>0, LeastOf
<1>2. k # 0
  <2>1. Picks(es, chosen, 0, [i \in 0..0 |-> <<>>])
    BY DEF Picks
  <2> QED
    BY <2>1
<1>3. k - 1 \in 0..n /\ k - 1 \notin S
  <2>1. k \in 0..n /\ k - 1 \in 0..n /\ ~(k <= k - 1)
    BY <1>2
  <2> HIDE DEF S
  <2> QED
    BY <1>1, <2>1
<1>4. PICK g : Picks(es, chosen, k - 1, g)
  BY <1>3
<1>a. k \in 1..n /\ g[k - 1] \in Seq(Nat) /\ es[k].ticket \in Nat
  BY <1>2, <1>4 DEF Picks
<1> DEFINE next == Picked(g[k - 1], es, chosen, k)
           h == [i \in 0..k |-> IF i = k THEN next ELSE g[i]]
<1>5. next \in Seq(Nat)
  BY <1>a DEF Picked
<1> HIDE DEF next
<1>6. h \in [0..k -> Seq(Nat)] /\ h[0] = <<>> /\ h[k] = next /\ h[k - 1] = g[k - 1]
  BY <1>a, <1>4, <1>5 DEF Picks
<1>7. \A i \in 1..(k - 1) : h[i] = g[i] /\ h[i - 1] = g[i - 1]
  BY <1>a
<1>8. \A i \in 1..k : i = k \/ i \in 1..(k - 1)
  BY <1>a
<1> HIDE DEF h
<1>9. Picks(es, chosen, k, h)
  BY <1>4, <1>6, <1>7, <1>8 DEF Picks, next
<1> QED
  BY <1>9

\* It is the only one: it is determined from its first value on.
LEMMA PicksUnique ==
  ASSUME NEW n \in Nat, NEW es, NEW chosen, NEW g, NEW h, Picks(es, chosen, n, g), h[0] = <<>>,
         \A i \in 1..n : h[i] = Picked(h[i - 1], es, chosen, i)
  PROVE  h[n] = g[n]
<1> DEFINE S == {i \in 0..n : h[i] # g[i]}
<1> SUFFICES ASSUME S # {} PROVE FALSE
  OBVIOUS
<1>0. S \subseteq Nat
  OBVIOUS
<1>1. PICK i \in S : \A j \in S : i <= j
  <2> HIDE DEF S
  <2> QED
    BY <1>0, LeastOf
<1>2. i # 0 /\ i \in 1..n /\ i - 1 \in 0..n /\ ~(i <= i - 1)
  BY <1>1 DEF Picks
<1>3. i - 1 \notin S
  <2> HIDE DEF S
  <2> QED
    BY <1>1, <1>2
<1>4. h[i - 1] = g[i - 1]
  BY <1>2, <1>3
<1>5. h[i] = g[i]
  BY <1>2, <1>4 DEF Picks
<1> QED
  BY <1>1, <1>5

\* The recursive function of Tickets is that one.
LEMMA TicketsIs ==
  ASSUME NEW es \in Seq(Event), NEW chosen, NEW g, Picks(es, chosen, Len(es), g)
  PROVE  Tickets(es, chosen) = g[Len(es)]
<1> DEFINE n == Len(es)
           F(x) == x = [i \in 0..n |-> IF i = 0 THEN <<>> ELSE Picked(x[i - 1], es, chosen, i)]
           tickets == CHOOSE x : F(x)
<1>1. n \in Nat /\ 0 \in 0..n /\ (\A i \in 1..n : i \in 0..n /\ i # 0) /\ \A i \in 0..n : i = 0 \/ i \in 1..n
  OBVIOUS
<1> HIDE DEF n
<1>2. F(g)
  <2>1. g = [i \in 0..n |-> g[i]] /\ g[0] = <<>> /\ \A i \in 1..n : g[i] = Picked(g[i - 1], es, chosen, i)
    BY DEF Picks, n
  <2>2. \A i \in 0..n : g[i] = IF i = 0 THEN <<>> ELSE Picked(g[i - 1], es, chosen, i)
    BY <1>1, <2>1
  <2> QED
    BY <2>1, <2>2
<1>3. F(tickets)
  BY <1>2
<1>4. Tickets(es, chosen) = tickets[n]
  BY DEF Tickets, Picked, n
<1>5. tickets[0] = <<>> /\ \A i \in 1..n : tickets[i] = Picked(tickets[i - 1], es, chosen, i)
  <2> HIDE DEF tickets
  <2>1. tickets = [i \in 0..n |-> IF i = 0 THEN <<>> ELSE Picked(tickets[i - 1], es, chosen, i)]
    BY <1>3
  <2>2. \A i \in 0..n : tickets[i] = IF i = 0 THEN <<>> ELSE Picked(tickets[i - 1], es, chosen, i)
    BY <2>1
  <2> QED
    BY <1>1, <2>2
<1> HIDE DEF tickets, F
<1> QED
  BY <1>1, <1>4, <1>5, PicksUnique DEF n

\* t has the tickets of the chosen events of es, up to the k-th, in their order.
Collected(t, es, chosen, k) ==
  /\ t \in Seq(Nat)
  /\ \A j \in 1..Len(t) : \E i \in chosen \cap 1..k : t[j] = es[i].ticket
  /\ \A i \in chosen \cap 1..k : \E j \in 1..Len(t) : t[j] = es[i].ticket
  /\ \A j1, j2 \in 1..Len(t) : j1 < j2 =>
       \E i1, i2 \in chosen \cap 1..k : i1 < i2 /\ t[j1] = es[i1].ticket /\ t[j2] = es[i2].ticket

\* One event more is looked at.
LEMMA CollectedMore ==
  ASSUME NEW es, NEW chosen, NEW k \in Nat \ {0}, NEW s, Collected(s, es, chosen, k - 1),
         es[k].ticket \in Nat
  PROVE  Collected(Picked(s, es, chosen, k), es, chosen, k)
<1>0. s \in Seq(Nat) /\ Len(s) \in Nat
  BY DEF Collected
<1>1. CASE k \notin chosen
  <2>1. chosen \cap 1..k = chosen \cap 1..(k - 1)
    BY <1>1
  <2> DEFINE C == chosen \cap 1..k
             D == chosen \cap 1..(k - 1)
  <2>2. C = D
    BY <2>1
  <2>3. /\ s \in Seq(Nat)
        /\ \A j \in 1..Len(s) : \E i \in D : s[j] = es[i].ticket
        /\ \A i \in D : \E j \in 1..Len(s) : s[j] = es[i].ticket
        /\ \A j1, j2 \in 1..Len(s) : j1 < j2 =>
             \E i1, i2 \in D : i1 < i2 /\ s[j1] = es[i1].ticket /\ s[j2] = es[i2].ticket
    BY DEF Collected
  <2>4. Collected(s, es, chosen, k) <=>
          (/\ s \in Seq(Nat)
           /\ \A j \in 1..Len(s) : \E i \in C : s[j] = es[i].ticket
           /\ \A i \in C : \E j \in 1..Len(s) : s[j] = es[i].ticket
           /\ \A j1, j2 \in 1..Len(s) : j1 < j2 =>
                \E i1, i2 \in C : i1 < i2 /\ s[j1] = es[i1].ticket /\ s[j2] = es[i2].ticket)
    BY DEF Collected
  <2> HIDE DEF C, D
  <2>5. Collected(s, es, chosen, k)
    BY <2>2, <2>3, <2>4
  <2> QED
    BY <1>1, <2>5 DEF Picked
<1>2. CASE k \in chosen
  <2> DEFINE t == Append(s, es[k].ticket)
  <2>1. /\ t \in Seq(Nat) /\ Len(t) = Len(s) + 1 /\ t[Len(s) + 1] = es[k].ticket
        /\ \A j \in 1..Len(s) : t[j] = s[j]
    BY <1>0
  <2> HIDE DEF t
  <2>2. \A i \in chosen \cap 1..(k - 1) : i \in chosen \cap 1..k /\ i < k
    OBVIOUS
  <2>3. k \in chosen \cap 1..k /\ \A i \in chosen \cap 1..k : i = k \/ i \in chosen \cap 1..(k - 1)
    BY <1>2
  <2>4. \A j \in 1..Len(t) : j = Len(s) + 1 \/ j \in 1..Len(s)
    BY <1>0, <2>1
  <2>5. \A j \in 1..Len(s) : j \in 1..Len(t) /\ j < Len(s) + 1
    BY <1>0, <2>1
  <2>6. Len(s) + 1 \in 1..Len(t)
    BY <1>0, <2>1
  <2>7. \A j \in 1..Len(t) : \E i \in chosen \cap 1..k : t[j] = es[i].ticket
    <3> SUFFICES ASSUME NEW j \in 1..Len(t) PROVE \E i \in chosen \cap 1..k : t[j] = es[i].ticket
      OBVIOUS
    <3>1. CASE j = Len(s) + 1
      BY <2>1, <2>3, <3>1
    <3>2. CASE j \in 1..Len(s)
      <4>1. PICK i \in chosen \cap 1..(k - 1) : s[j] = es[i].ticket
        BY <3>2 DEF Collected
      <4> QED
        BY <2>1, <2>2, <3>2, <4>1
    <3> QED
      BY <2>4, <3>1, <3>2
  <2>8. \A i \in chosen \cap 1..k : \E j \in 1..Len(t) : t[j] = es[i].ticket
    <3> SUFFICES ASSUME NEW i \in chosen \cap 1..k PROVE \E j \in 1..Len(t) : t[j] = es[i].ticket
      OBVIOUS
    <3>1. CASE i = k
      BY <2>1, <2>6, <3>1
    <3>2. CASE i \in chosen \cap 1..(k - 1)
      <4>1. PICK j \in 1..Len(s) : s[j] = es[i].ticket
        BY <3>2 DEF Collected
      <4> QED
        BY <2>1, <2>5, <4>1
    <3> QED
      BY <2>3, <3>1, <3>2
  <2>9. ASSUME NEW j1 \in 1..Len(t), NEW j2 \in 1..Len(t), j1 < j2
        PROVE  \E i1, i2 \in chosen \cap 1..k : i1 < i2 /\ t[j1] = es[i1].ticket /\ t[j2] = es[i2].ticket
    <3>1. j1 \in 1..Len(s)
      BY <1>0, <2>1, <2>9
    <3>2. CASE j2 = Len(s) + 1
      <4>1. PICK i1 \in chosen \cap 1..(k - 1) : s[j1] = es[i1].ticket
        BY <3>1 DEF Collected
      <4> QED
        BY <2>1, <2>2, <2>3, <3>1, <3>2, <4>1
    <3>3. CASE j2 \in 1..Len(s)
      <4>1. PICK i1 \in chosen \cap 1..(k - 1), i2 \in chosen \cap 1..(k - 1) :
              i1 < i2 /\ s[j1] = es[i1].ticket /\ s[j2] = es[i2].ticket
        BY <2>9, <3>1, <3>3 DEF Collected
      <4> QED
        BY <2>1, <2>2, <3>1, <3>3, <4>1
    <3> QED
      BY <2>4, <3>2, <3>3
  <2>10. Collected(t, es, chosen, k)
    BY <2>1, <2>7, <2>8, <2>9 DEF Collected
  <2> QED
    BY <1>2, <2>10 DEF t, Picked
<1> QED
  BY <1>1, <1>2

\* The tickets of the chosen events, in their order.
LEMMA TicketsCollected ==
  ASSUME NEW es \in Seq(Event), NEW chosen
  PROVE  Collected(Tickets(es, chosen), es, chosen, Len(es))
<1>0. Len(es) \in Nat /\ \A i \in 1..Len(es) : es[i].ticket \in Nat
  <2>1. \A e \in Event : e.ticket \in Nat
    BY DEF Event
  <2> QED
    BY <2>1
<1> DEFINE n == Len(es)
<1>1. PICK g : Picks(es, chosen, n, g)
  BY <1>0, PicksExist
<1> HIDE DEF n
<1> DEFINE S == {k \in 0..n : ~Collected(g[k], es, chosen, k)}
<1>2. S = {}
  <2> SUFFICES ASSUME S # {} PROVE FALSE
    OBVIOUS
  <2>0. S \subseteq Nat
    OBVIOUS
  <2>1. PICK k \in S : \A j \in S : k <= j
    <3> HIDE DEF S
    <3> QED
      BY <2>0, LeastOf
  <2>2. k # 0
    <3>1. g[0] = <<>> /\ Len(<<>>) = 0 /\ <<>> \in Seq(Nat)
      BY <1>1 DEF Picks
    <3>2. Collected(<<>>, es, chosen, 0)
      BY <3>1 DEF Collected
    <3> QED
      BY <2>1, <3>1, <3>2
  <2>3. k \in 0..n /\ k \in Nat \ {0} /\ k - 1 \in 0..n /\ ~(k <= k - 1) /\ k \in 1..n
    BY <1>0, <2>1, <2>2 DEF n
  <2>4. k - 1 \notin S
    <3> HIDE DEF S
    <3> QED
      BY <2>1, <2>3
  <2>5. Collected(g[k - 1], es, chosen, k - 1)
    BY <2>3, <2>4
  <2>6. g[k] = Picked(g[k - 1], es, chosen, k)
    BY <1>1, <2>3 DEF Picks
  <2>7. Collected(g[k], es, chosen, k)
    BY <1>0, <2>3, <2>5, <2>6, CollectedMore DEF n
  <2> QED
    BY <2>1, <2>7
<1>3. Collected(g[n], es, chosen, n)
  BY <1>0, <1>2 DEF n
<1> QED
  BY <1>1, <1>3, TicketsIs DEF n

-----------------------------------------------------------------------------
(* Events and tickets in order.                                             *)

\* The chosen events of Give are those of ArrivalOn and Completion.
LEMMA EventAt ==
  ASSUME NEW es \in Seq(Event), NEW M
  PROVE  /\ Len(es) \in Nat /\ DOMAIN es = 1..Len(es)
         /\ \A i \in 1..Len(es) : es[i] \in Event /\ es[i].ticket \in Nat
         /\ Places(es, M) \subseteq 1..Len(es) /\ Marked(es, M) \subseteq Nat
<1>1. \A e \in Event : e.ticket \in Nat
  BY DEF Event
<1> QED
  BY <1>1 DEF Places, Marked

\* What Give chooses are those places.
LEMMA GivenPlaces ==
  ASSUME NEW es \in Seq(Event)
  PROVE  /\ \A l : Arrivals(es, l) = Places(es, ArrivalOn(l))
         /\ Completions(es) = Places(es, Completion)
BY EventAt DEF Arrivals, Completions, Places, ArrivalOn, Completion

\* No events.
LEMMA NoEvents ==
  ASSUME NEW M
  PROVE  Marked(<<>>, M) = {} /\ \A o : Aligned(<<>>, M, o)
BY DEF Places, Marked, Aligned

\* The elements of a sequence with one more.
LEMMA AppendAt ==
  ASSUME NEW S, NEW s \in Seq(S), NEW x \in S
  PROVE  /\ Append(s, x) \in Seq(S) /\ Len(Append(s, x)) = Len(s) + 1 /\ Len(s) \in Nat
         /\ Append(s, x)[Len(s) + 1] = x /\ \A i \in 1..Len(s) : Append(s, x)[i] = s[i]
OBVIOUS

\* The elements of two sequences, one after the other.
LEMMA JoinAt ==
  ASSUME NEW S, NEW s \in Seq(S), NEW t \in Seq(S)
  PROVE  /\ s \o t \in Seq(S) /\ Len(s \o t) = Len(s) + Len(t) /\ Len(s) \in Nat /\ Len(t) \in Nat
         /\ \A i \in 1..Len(s) : (s \o t)[i] = s[i] /\ i \in 1..Len(s \o t)
         /\ \A i \in 1..Len(t) : (s \o t)[Len(s) + i] = t[i] /\ Len(s) + i \in 1..Len(s \o t)
         /\ \A i \in 1..Len(s \o t) : i \in 1..Len(s) \/ \E j \in 1..Len(t) : i = Len(s) + j
<1>1. /\ s \o t \in Seq(S) /\ Len(s \o t) = Len(s) + Len(t) /\ Len(s) \in Nat /\ Len(t) \in Nat
  OBVIOUS
<1>2. /\ \A i \in 1..Len(s) : (s \o t)[i] = s[i] /\ i \in 1..Len(s \o t)
  BY <1>1
<1>3. /\ \A i \in 1..Len(t) : (s \o t)[Len(s) + i] = t[i] /\ Len(s) + i \in 1..Len(s \o t)
  BY <1>1
<1>4. ASSUME NEW i \in 1..Len(s \o t), i \notin 1..Len(s) PROVE \E j \in 1..Len(t) : i = Len(s) + j
  <2>1. i - Len(s) \in 1..Len(t) /\ i = Len(s) + (i - Len(s))
    BY <1>1, <1>4
  <2> QED
    BY <2>1
<1> QED
  BY <1>1, <1>2, <1>3, <1>4

\* r is s followed by t, as JoinAt has it.
Concatenated(S, s, t, r) ==
  /\ r \in Seq(S) /\ Len(r) = Len(s) + Len(t) /\ Len(s) \in Nat /\ Len(t) \in Nat
  /\ \A i \in 1..Len(s) : r[i] = s[i] /\ i \in 1..Len(r)
  /\ \A i \in 1..Len(t) : r[Len(s) + i] = t[i] /\ Len(s) + i \in 1..Len(r)
  /\ \A i \in 1..Len(r) : i \in 1..Len(s) \/ \E j \in 1..Len(t) : i = Len(s) + j

\* Two sequences, one after the other.
LEMMA ConcatenatedIs == \A S : \A s, t \in Seq(S) : Concatenated(S, s, t, s \o t)
<1> SUFFICES ASSUME NEW S, NEW s \in Seq(S), NEW t \in Seq(S) PROVE Concatenated(S, s, t, s \o t)
  OBVIOUS
<1> QED
  BY JoinAt DEF Concatenated

\* Two sequences of events, one after the other.
LEMMA EventsJoin ==
  ASSUME NEW p \in Seq(Event), NEW e \in Seq(Event), NEW M, NEW o
  PROVE  /\ p \o e \in Seq(Event) /\ Marked(p \o e, M) = Marked(p, M) \cup Marked(e, M)
         /\ Aligned(p \o e, M, o) <=>
              Aligned(p, M, o) /\ Aligned(e, M, o) /\ Separate(Marked(p, M), Marked(e, M), o)
<1> DEFINE q == p \o e
           n == Len(p)
<1>1. /\ q \in Seq(Event) /\ n \in Nat /\ Len(e) \in Nat
      /\ \A i \in 1..n : q[i] = p[i] /\ i \in 1..Len(q)
      /\ \A i \in 1..Len(e) : q[n + i] = e[i] /\ n + i \in 1..Len(q)
      /\ \A i \in 1..Len(q) : i \in 1..n \/ \E j \in 1..Len(e) : i = n + j
  BY JoinAt
<1> HIDE DEF q
<1>2. /\ \A i \in Places(p, M) : i \in Places(q, M) /\ q[i] = p[i] /\ i \in 1..n
      /\ \A i \in Places(e, M) : n + i \in Places(q, M) /\ q[n + i] = e[i] /\ i \in 1..Len(e)
      /\ \A i \in Places(q, M) : i \in Places(p, M) \/ \E j \in Places(e, M) : i = n + j
  BY <1>1 DEF Places
<1>3. Marked(q, M) = Marked(p, M) \cup Marked(e, M)
  BY <1>2 DEF Marked
<1>4. ASSUME Aligned(q, M, o)
      PROVE  Aligned(p, M, o) /\ Aligned(e, M, o) /\ Separate(Marked(p, M), Marked(e, M), o)
  <2>1. Aligned(p, M, o)
    BY <1>2, <1>4 DEF Aligned
  <2>2. ASSUME NEW i \in Places(e, M), NEW j \in Places(e, M), i < j
        PROVE  Precedes(e[i].ticket, e[j].ticket, o)
    <3>1. n + i < n + j
      BY <1>1, <1>2, <2>2
    <3> QED
      BY <1>2, <1>4, <3>1 DEF Aligned
  <2>3. ASSUME NEW i \in Places(p, M), NEW j \in Places(e, M)
        PROVE  Precedes(p[i].ticket, e[j].ticket, o)
    <3>1. i < n + j
      BY <1>1, <1>2
    <3> QED
      BY <1>2, <1>4, <3>1 DEF Aligned
  <2> QED
    BY <2>1, <2>2, <2>3 DEF Aligned, Separate, Marked
<1>5. ASSUME Aligned(p, M, o), Aligned(e, M, o), Separate(Marked(p, M), Marked(e, M), o)
      PROVE  Aligned(q, M, o)
  <2> SUFFICES ASSUME NEW i \in Places(q, M), NEW j \in Places(q, M), i < j
               PROVE  Precedes(q[i].ticket, q[j].ticket, o)
    BY DEF Aligned
  <2>1. CASE i \in Places(p, M) /\ j \in Places(p, M)
    BY <1>2, <1>5, <2>1 DEF Aligned
  <2>2. CASE i \in Places(p, M) /\ j \notin Places(p, M)
    <3>1. PICK b \in Places(e, M) : j = n + b
      BY <1>2, <2>2
    <3>2. q[j] = e[b] /\ q[i] = p[i]
      BY <1>2, <2>2, <3>1
    <3> QED
      BY <1>5, <2>2, <3>2 DEF Separate, Marked
  <2>3. CASE i \notin Places(p, M)
    <3>1. PICK a \in Places(e, M) : i = n + a
      BY <1>2, <2>3
    <3>2. j \notin 1..n
      BY <1>1, <1>2, <3>1
    <3>3. PICK b \in Places(e, M) : j = n + b
      BY <1>2, <3>2
    <3>4. a < b
      BY <1>1, <1>2, <3>1, <3>3
    <3>5. q[i] = e[a] /\ q[j] = e[b]
      BY <1>2, <3>1, <3>3
    <3> QED
      BY <1>5, <3>4, <3>5 DEF Aligned
  <2> QED
    BY <2>1, <2>2, <2>3
<1> QED
  BY <1>1, <1>3, <1>4, <1>5 DEF q

\* One event.
LEMMA OneEvent ==
  ASSUME NEW x \in Event, NEW M
  PROVE  /\ <<x>> \in Seq(Event) /\ \A o : Aligned(<<x>>, M, o)
         /\ x \in M => Marked(<<x>>, M) = {x.ticket}
         /\ x \notin M => Marked(<<x>>, M) = {}
<1>1. <<x>> \in Seq(Event) /\ Len(<<x>>) = 1 /\ <<x>>[1] = x
  OBVIOUS
<1> QED
  BY <1>1 DEF Marked, Places, Aligned

\* One more event.
LEMMA EventAppended ==
  ASSUME NEW e \in Seq(Event), NEW x \in Event, NEW M, NEW o
  PROVE  /\ Append(e, x) \in Seq(Event)
         /\ x \notin M => /\ Marked(Append(e, x), M) = Marked(e, M)
                          /\ Aligned(e, M, o) => Aligned(Append(e, x), M, o)
         /\ x \in M => /\ Marked(Append(e, x), M) = Marked(e, M) \cup {x.ticket}
                       /\ Aligned(e, M, o) /\ Separate(Marked(e, M), {x.ticket}, o) =>
                            Aligned(Append(e, x), M, o)
<1>1. Append(e, x) = e \o <<x>>
  OBVIOUS
<1> DEFINE u == <<x>>
<1>2. /\ u \in Seq(Event) /\ Aligned(u, M, o)
      /\ x \in M => Marked(u, M) = {x.ticket}
      /\ x \notin M => Marked(u, M) = {}
  BY OneEvent
<1> HIDE DEF u
<1>3. /\ e \o u \in Seq(Event) /\ Marked(e \o u, M) = Marked(e, M) \cup Marked(u, M)
      /\ Aligned(e, M, o) /\ Separate(Marked(e, M), Marked(u, M), o) => Aligned(e \o u, M, o)
  BY <1>2, EventsJoin
<1>4. x \notin M => /\ Marked(e \o u, M) = Marked(e, M)
                    /\ Aligned(e, M, o) => Aligned(e \o u, M, o)
  BY <1>2, <1>3 DEF Separate
<1>5. x \in M => /\ Marked(e \o u, M) = Marked(e, M) \cup {x.ticket}
                 /\ Aligned(e, M, o) /\ Separate(Marked(e, M), {x.ticket}, o) => Aligned(e \o u, M, o)
  BY <1>2, <1>3
<1>6. Append(e, x) = e \o u
  BY <1>1 DEF u
<1> QED
  BY <1>3, <1>4, <1>5, <1>6, Zenon

\* The tickets that the owner is given follow those it had.
LEMMA TicketsGiven ==
  ASSUME NEW g \in Seq(Nat), NEW e \in Seq(Event), NEW M, NEW o, Rising(g, o), Aligned(e, M, o),
         Separate(In(g), Marked(e, M), o), NEW t, t = g \o Tickets(e, Places(e, M))
  PROVE  /\ t \in Seq(Nat) /\ Rising(t, o) /\ In(t) = In(g) \cup Marked(e, M)
         /\ Link!IsStart(g, t)
<1> DEFINE u == Tickets(e, Places(e, M))
           n == Len(g)
<1>1. Collected(u, e, Places(e, M), Len(e)) /\ Places(e, M) \cap 1..Len(e) = Places(e, M)
  BY TicketsCollected, EventAt
<1> HIDE DEF u
<1>2. /\ u \in Seq(Nat)
      /\ \A j \in 1..Len(u) : \E i \in Places(e, M) : u[j] = e[i].ticket
      /\ \A i \in Places(e, M) : \E j \in 1..Len(u) : u[j] = e[i].ticket
      /\ \A j1, j2 \in 1..Len(u) : j1 < j2 =>
           \E i1, i2 \in Places(e, M) : i1 < i2 /\ u[j1] = e[i1].ticket /\ u[j2] = e[i2].ticket
  <2> DEFINE C == Places(e, M) \cap 1..Len(e)
  <2>1. /\ u \in Seq(Nat)
        /\ \A j \in 1..Len(u) : \E i \in C : u[j] = e[i].ticket
        /\ \A i \in C : \E j \in 1..Len(u) : u[j] = e[i].ticket
        /\ \A j1, j2 \in 1..Len(u) : j1 < j2 =>
             \E i1, i2 \in C : i1 < i2 /\ u[j1] = e[i1].ticket /\ u[j2] = e[i2].ticket
    BY <1>1 DEF Collected
  <2>2. C = Places(e, M)
    BY <1>1
  <2> HIDE DEF C
  <2> QED
    BY <2>1, <2>2
<1>3. In(u) = Marked(e, M)
  <2>1. In(u) = {u[j] : j \in 1..Len(u)} /\ Marked(e, M) = {e[i].ticket : i \in Places(e, M)}
    BY DEF In, Marked
  <2>2. ASSUME NEW a \in In(u) PROVE a \in Marked(e, M)
    <3>1. PICK j \in 1..Len(u) : a = u[j]
      BY <2>1
    <3> QED
      BY <1>2, <2>1, <3>1
  <2>3. ASSUME NEW a \in Marked(e, M) PROVE a \in In(u)
    <3>1. PICK i \in Places(e, M) : a = e[i].ticket
      BY <2>1
    <3> QED
      BY <1>2, <2>1, <3>1
  <2> QED
    BY <2>2, <2>3
<1>4. \A i, j \in 1..Len(u) : i < j => Precedes(u[i], u[j], o)
  BY <1>2 DEF Aligned
<1>5. t = g \o u
  BY DEF u
<1>6. /\ t \in Seq(Nat) /\ Len(t) = n + Len(u) /\ n \in Nat /\ Len(u) \in Nat
      /\ \A i \in 1..n : t[i] = g[i] /\ i \in 1..Len(t)
      /\ \A i \in 1..Len(u) : t[n + i] = u[i] /\ n + i \in 1..Len(t)
      /\ \A i \in 1..Len(t) : i \in 1..n \/ \E j \in 1..Len(u) : i = n + j
  <2>1. /\ g \o u \in Seq(Nat) /\ Len(g \o u) = Len(g) + Len(u) /\ Len(g) \in Nat /\ Len(u) \in Nat
        /\ \A i \in 1..Len(g) : (g \o u)[i] = g[i] /\ i \in 1..Len(g \o u)
        /\ \A i \in 1..Len(u) : (g \o u)[Len(g) + i] = u[i] /\ Len(g) + i \in 1..Len(g \o u)
        /\ \A i \in 1..Len(g \o u) : i \in 1..Len(g) \/ \E j \in 1..Len(u) : i = Len(g) + j
    <3>1. g \in Seq(Nat) /\ u \in Seq(Nat)
      BY <1>2
    <3>2. Concatenated(Nat, g, u, g \o u)
      BY ONLY <3>1, ConcatenatedIs
    <3> QED
      BY ONLY <3>2 DEF Concatenated
  <2>2. n = Len(g)
    BY DEF n
  <2> HIDE DEF n
  <2> QED
    BY ONLY <1>5, <2>1, <2>2
<1> HIDE DEF n
<1>7. In(t) = In(g) \cup In(u)
  <2>0. In(t) = {t[j] : j \in 1..Len(t)} /\ In(u) = {u[j] : j \in 1..Len(u)} /\ In(g) = {g[j] : j \in 1..n}
    BY DEF In, n
  <2>1. ASSUME NEW a \in In(t) PROVE a \in In(g) \cup In(u)
    <3>1. PICK i \in 1..Len(t) : a = t[i]
      BY <2>0
    <3> QED
      BY <1>6, <2>0, <3>1
  <2>2. ASSUME NEW a \in In(g) PROVE a \in In(t)
    <3>1. PICK i \in 1..n : a = g[i]
      BY <2>0
    <3> QED
      BY <1>6, <2>0, <3>1
  <2>3. ASSUME NEW a \in In(u) PROVE a \in In(t)
    <3>1. PICK i \in 1..Len(u) : a = u[i]
      BY <2>0
    <3> QED
      BY <1>6, <2>0, <3>1
  <2> QED
    BY <2>1, <2>2, <2>3
<1>8. Rising(t, o)
  <2> SUFFICES ASSUME NEW i \in 1..Len(t), NEW j \in 1..Len(t), i < j
               PROVE  Precedes(t[i], t[j], o)
    BY DEF Rising
  <2>1. CASE i \in 1..n /\ j \in 1..n
    BY <1>6, <2>1 DEF Rising, n
  <2>2. CASE i \in 1..n /\ j \notin 1..n
    <3>1. PICK b \in 1..Len(u) : j = n + b
      BY <1>6, <2>2
    <3>2. t[j] = u[b] /\ t[i] = g[i]
      BY <1>6, <2>2, <3>1
    <3>3. u[b] \in Marked(e, M) /\ g[i] \in In(g)
      BY <1>3, <2>2 DEF In, n
    <3> QED
      BY <3>2, <3>3 DEF Separate
  <2>3. CASE i \notin 1..n
    <3>1. PICK a \in 1..Len(u) : i = n + a
      BY <1>6, <2>3
    <3>2. j \notin 1..n
      BY <1>6, <3>1
    <3>3. PICK b \in 1..Len(u) : j = n + b
      BY <1>6, <3>2
    <3>4. a < b
      BY <1>6, <3>1, <3>3
    <3> QED
      BY <1>4, <1>6, <3>1, <3>3, <3>4
  <2> QED
    BY <2>1, <2>2, <2>3
<1>9. Link!IsStart(g, t)
  BY <1>6 DEF Link!IsStart, n
<1> QED
  BY <1>3, <1>6, <1>7, <1>8, <1>9

\* The same tickets, handed over or not, and in order.
Regrouped(g, p, e, h, q, f, M, o) ==
  /\ h \in Seq(Nat) /\ Link!IsStart(g, h)
  /\ Ordered(h, q, f, M, o) /\ Known(h, q, f, M) = Known(g, p, e, M)

\* A history starts with itself.
LEMMA StartsSame == \A g \in Seq(Nat) : Link!IsStart(g, g)
BY DEF Link!IsStart

\* progress hands over a, the first of the pending events ...
LEMMA FrontGiven ==
  ASSUME NEW g \in Seq(Nat), NEW a \in Seq(Event), NEW b \in Seq(Event), NEW M, NEW o,
         Ordered(g, a \o b, <<>>, M, o)
  PROVE  Regrouped(g, a \o b, <<>>, g \o Tickets(a, Places(a, M)), b, <<>>, M, o)
<1>1. /\ Rising(g, o) /\ Aligned(a, M, o) /\ Aligned(b, M, o)
      /\ Separate(Marked(a, M), Marked(b, M), o) /\ Marked(a \o b, M) = Marked(a, M) \cup Marked(b, M)
  BY EventsJoin DEF Ordered
<1>2. Separate(In(g), Marked(a, M) \cup Marked(b, M) \cup {}, o)
  BY <1>1, NoEvents DEF Ordered
<1> DEFINE t == g \o Tickets(a, Places(a, M))
<1>3. t \in Seq(Nat) /\ Rising(t, o) /\ In(t) = In(g) \cup Marked(a, M) /\ Link!IsStart(g, t)
  <2>1. Separate(In(g), Marked(a, M), o)
    BY <1>2 DEF Separate
  <2> QED
    BY <1>1, <2>1, TicketsGiven
<1> HIDE DEF t
<1>4. Separate(In(t), Marked(b, M) \cup Marked(<<>>, M), o)
  BY <1>1, <1>2, <1>3, NoEvents DEF Separate
<1>5. Separate(Marked(b, M), Marked(<<>>, M), o)
  BY NoEvents DEF Separate
<1>6. Ordered(t, b, <<>>, M, o)
  BY <1>1, <1>3, <1>4, <1>5, NoEvents DEF Ordered
<1>7. Known(t, b, <<>>, M) = Known(g, a \o b, <<>>, M)
  BY <1>1, <1>3 DEF Known
<1> QED
  BY <1>3, <1>6, <1>7 DEF Regrouped, t

\* ... or begins its events with them.
LEMMA PendingMoved ==
  ASSUME NEW g \in Seq(Nat), NEW p \in Seq(Event), NEW M, NEW o, Ordered(g, p, <<>>, M, o)
  PROVE  Regrouped(g, p, <<>>, g, <<>>, p, M, o)
<1>1. Separate(Marked(<<>>, M), Marked(p, M), o)
  BY NoEvents DEF Separate
<1>2. Ordered(g, <<>>, p, M, o)
  BY <1>1, NoEvents DEF Ordered
<1> QED
  BY <1>2, StartsSame DEF Regrouped, Known

\* A call hands over its events: arrivals only while none are pending.
LEMMA EventsGiven ==
  ASSUME NEW g \in Seq(Nat), NEW p \in Seq(Event), NEW e \in Seq(Event), NEW M, NEW o,
         Ordered(g, p, e, M, o), Marked(p, M) = {} \/ Marked(e, M) = {} \/ o = FALSE
  PROVE  Regrouped(g, p, e, g \o Tickets(e, Places(e, M)), p, <<>>, M, o)
<1> DEFINE t == g \o Tickets(e, Places(e, M))
<1>1. /\ Rising(g, o) /\ Aligned(p, M, o) /\ Aligned(e, M, o)
      /\ Separate(In(g), Marked(p, M) \cup Marked(e, M), o)
      /\ Separate(Marked(p, M), Marked(e, M), o)
  BY DEF Ordered
<1>2. t \in Seq(Nat) /\ Rising(t, o) /\ In(t) = In(g) \cup Marked(e, M) /\ Link!IsStart(g, t)
  <2>1. Separate(In(g), Marked(e, M), o)
    BY <1>1 DEF Separate
  <2> QED
    BY <1>1, <2>1, TicketsGiven
<1> HIDE DEF t
<1>3. Separate(In(t), Marked(p, M) \cup Marked(<<>>, M), o)
  BY <1>1, <1>2, NoEvents DEF Separate, Precedes
<1>4. Separate(Marked(p, M), Marked(<<>>, M), o)
  BY NoEvents DEF Separate
<1>5. Ordered(t, p, <<>>, M, o)
  BY <1>1, <1>2, <1>3, <1>4, NoEvents DEF Ordered
<1>6. Known(t, p, <<>>, M) = Known(g, p, e, M)
  BY <1>2, NoEvents DEF Known
<1> QED
  BY <1>2, <1>5, <1>6 DEF Regrouped, t

\* flush puts its events behind the pending ones ...
LEMMA EventsKept ==
  ASSUME NEW g \in Seq(Nat), NEW p \in Seq(Event), NEW e \in Seq(Event), NEW M, NEW o,
         Ordered(g, p, e, M, o)
  PROVE  Regrouped(g, p, e, g, p \o e, <<>>, M, o)
<1>1. Marked(p \o e, M) = Marked(p, M) \cup Marked(e, M) /\ Aligned(p \o e, M, o)
  BY EventsJoin DEF Ordered
<1>2. Separate(Marked(p \o e, M), Marked(<<>>, M), o)
  BY NoEvents DEF Separate
<1>3. Ordered(g, p \o e, <<>>, M, o)
  BY <1>1, <1>2, NoEvents DEF Ordered
<1> QED
  BY <1>1, <1>3, StartsSame, NoEvents DEF Regrouped, Known

\* ... and loses them when there are too many.
LEMMA EventsLost ==
  ASSUME NEW g, NEW p, NEW e, NEW M, NEW o, Ordered(g, p, e, M, o)
  PROVE  /\ Ordered(g, p, <<>>, M, o)
         /\ Known(g, p, e, M) = Known(g, p, <<>>, M) \cup Marked(e, M)
         /\ Separate(Known(g, p, <<>>, M), Marked(e, M), o)
BY NoEvents DEF Ordered, Known, Separate

\* drive reports an event that is none of M, or follows all of M, ...
LEMMA OtherReported ==
  ASSUME NEW g, NEW p, NEW e \in Seq(Event), NEW x \in Event, NEW M, NEW o, Ordered(g, p, e, M, o),
         x \notin M
  PROVE  /\ Ordered(g, p, Append(e, x), M, o)
         /\ Known(g, p, Append(e, x), M) = Known(g, p, e, M)
<1> DEFINE f == Append(e, x)
<1> HIDE DEF f
<1>1. Marked(f, M) = Marked(e, M) /\ (Aligned(e, M, o) => Aligned(f, M, o))
  BY EventAppended DEF f
<1>2. Ordered(g, p, f, M, o) /\ Known(g, p, f, M) = Known(g, p, e, M)
  BY <1>1 DEF Ordered, Known
<1> QED
  BY <1>2 DEF f

\* An event with a later ticket joins the events of the call.
LEMMA EventReported ==
  ASSUME NEW g, NEW p, NEW e \in Seq(Event), NEW x \in Event, NEW M, NEW o, Ordered(g, p, e, M, o),
         x \in M, Separate(Known(g, p, e, M), {x.ticket}, o)
  PROVE  /\ Ordered(g, p, Append(e, x), M, o)
         /\ Known(g, p, Append(e, x), M) = Known(g, p, e, M) \cup {x.ticket}
<1> DEFINE f == Append(e, x)
<1> HIDE DEF f
<1>1. /\ Separate(Marked(e, M), {x.ticket}, o) /\ Separate(Marked(p, M), {x.ticket}, o)
      /\ Separate(In(g), {x.ticket}, o)
  BY DEF Separate, Known
<1>2. Marked(f, M) = Marked(e, M) \cup {x.ticket} /\ (Aligned(e, M, o) => Aligned(f, M, o))
  BY <1>1, EventAppended DEF f
<1>3. /\ Separate(In(g), Marked(p, M) \cup Marked(f, M), o)
      /\ Separate(Marked(p, M), Marked(f, M), o)
  BY <1>1, <1>2 DEF Ordered, Separate
<1>4. Ordered(g, p, f, M, o)
  BY <1>2, <1>3 DEF Ordered
<1>5. Known(g, p, f, M) = Known(g, p, e, M) \cup {x.ticket}
  BY <1>2 DEF Known
<1> QED
  BY <1>4, <1>5 DEF f

\* ... or leaves one pending, a completion.
LEMMA OtherPending ==
  ASSUME NEW g, NEW p \in Seq(Event), NEW e, NEW x \in Event, NEW M, NEW o, Ordered(g, p, e, M, o),
         x \notin M
  PROVE  /\ Ordered(g, Append(p, x), e, M, o)
         /\ Known(g, Append(p, x), e, M) = Known(g, p, e, M)
<1> DEFINE f == Append(p, x)
<1> HIDE DEF f
<1>1. Marked(f, M) = Marked(p, M) /\ (Aligned(p, M, o) => Aligned(f, M, o))
  BY EventAppended DEF f
<1>2. Ordered(g, f, e, M, o) /\ Known(g, f, e, M) = Known(g, p, e, M)
  BY <1>1 DEF Ordered, Known
<1> QED
  BY <1>2 DEF f

\* An event with a new ticket joins those that wait for room.
LEMMA EventPending ==
  ASSUME NEW g, NEW p \in Seq(Event), NEW e, NEW x \in Event, NEW M, Ordered(g, p, e, M, FALSE),
         x \in M, x.ticket \notin Known(g, p, e, M)
  PROVE  /\ Ordered(g, Append(p, x), e, M, FALSE)
         /\ Known(g, Append(p, x), e, M) = Known(g, p, e, M) \cup {x.ticket}
<1> DEFINE f == Append(p, x)
<1> HIDE DEF f
<1>1. Separate(Marked(p, M), {x.ticket}, FALSE)
  BY DEF Separate, Known, Precedes
<1>2. Marked(f, M) = Marked(p, M) \cup {x.ticket} /\ (Aligned(p, M, FALSE) => Aligned(f, M, FALSE))
  BY <1>1, EventAppended DEF f
<1>3. /\ Separate(In(g), Marked(f, M) \cup Marked(e, M), FALSE)
      /\ Separate(Marked(f, M), Marked(e, M), FALSE)
  <2>1. /\ Separate(In(g), Marked(p, M) \cup Marked(e, M), FALSE)
        /\ Separate(Marked(p, M), Marked(e, M), FALSE)
    BY DEF Ordered
  <2> QED
    BY <1>2, <2>1 DEF Separate, Known, Precedes
<1>4. Ordered(g, f, e, M, FALSE)
  BY <1>2, <1>3 DEF Ordered
<1>5. Known(g, f, e, M) = Known(g, p, e, M) \cup {x.ticket}
  BY <1>2 DEF Known
<1> QED
  BY <1>4, <1>5 DEF f

-----------------------------------------------------------------------------
(* Sequences of tickets.                                                    *)

\* A sequence that rises, and leaves out nothing of another below its last, is a start of it.
LEMMA WholeStarts ==
  ASSUME NEW g \in Seq(Nat), NEW s \in Seq(Nat), Rising(g, TRUE), Rising(s, TRUE),
         In(g) \subseteq In(s), Whole(In(g), In(s))
  PROVE  Link!IsStart(g, s)
<1> DEFINE bad == {i \in 1..Len(g) : ~(i <= Len(s) /\ g[i] = s[i])}
<1>0. Len(g) \in Nat /\ Len(s) \in Nat /\ bad \subseteq Nat
  OBVIOUS
<1>1. /\ \A i, j \in 1..Len(g) : i < j => g[i] < g[j]
      /\ \A i, j \in 1..Len(s) : i < j => s[i] < s[j]
      /\ \A i \in 1..Len(g) : g[i] \in Nat /\ \E j \in 1..Len(s) : g[i] = s[j]
      /\ \A i \in 1..Len(s) : s[i] \in Nat
      /\ \A j \in 1..Len(s), i \in 1..Len(g) : s[j] < g[i] => \E m \in 1..Len(g) : s[j] = g[m]
  <2>1. /\ \A i, j \in 1..Len(g) : i < j => g[i] < g[j]
        /\ \A i, j \in 1..Len(s) : i < j => s[i] < s[j]
    BY DEF Rising, Precedes
  <2>2. ASSUME NEW i \in 1..Len(g) PROVE g[i] \in Nat /\ \E j \in 1..Len(s) : g[i] = s[j]
    <3>1. g[i] \in In(g)
      BY DEF In
    <3> QED
      BY <3>1 DEF In
  <2>3. \A i \in 1..Len(s) : s[i] \in Nat
    OBVIOUS
  <2>4. ASSUME NEW j \in 1..Len(s), NEW i \in 1..Len(g), s[j] < g[i]
        PROVE  \E m \in 1..Len(g) : s[j] = g[m]
    <3>1. s[j] \in In(s) /\ g[i] \in In(g)
      BY DEF In
    <3>2. s[j] \in In(g)
      BY <2>4, <3>1 DEF Whole
    <3> QED
      BY <3>2 DEF In
  <2> QED
    BY <2>1, <2>2, <2>3, <2>4
<1>2. bad = {}
  <2> SUFFICES ASSUME bad # {} PROVE FALSE
    OBVIOUS
  <2>1. PICK i \in bad : \A j \in bad : i <= j
    <3> HIDE DEF bad
    <3> QED
      BY <1>0, LeastOf
  <2>2. i \in 1..Len(g) /\ ~(i <= Len(s) /\ g[i] = s[i])
    OBVIOUS
  <2>3. \A j \in 1..Len(g) : j < i => j <= Len(s) /\ g[j] = s[j]
    <3> SUFFICES ASSUME NEW j \in 1..Len(g), j < i PROVE j <= Len(s) /\ g[j] = s[j]
      OBVIOUS
    <3>1. ~(i <= j)
      BY <2>2
    <3>2. j \notin bad
      <4> HIDE DEF bad
      <4> QED
        BY <2>1, <3>1
    <3> QED
      BY <3>2
  <2> HIDE DEF bad
  <2>4. PICK j \in 1..Len(s) : g[i] = s[j]
    BY <1>1, <2>2
  <2>5. ~(j < i)
    <3> SUFFICES ASSUME j < i PROVE FALSE
      OBVIOUS
    <3>1. j \in 1..Len(g)
      BY <1>0, <2>2
    <3>2. g[j] = s[j] /\ g[j] < g[i] /\ g[i] \in Nat
      BY <1>1, <2>2, <2>3, <3>1
    <3> QED
      BY <2>4, <3>2
  <2>6. i < j /\ i \in 1..Len(s)
    <3>1. i <= Len(s)
      BY <1>0, <2>2, <2>4, <2>5
    <3> QED
      BY <1>0, <2>2, <2>4, <2>5, <3>1
  <2>7. s[i] < g[i]
    BY <1>1, <2>4, <2>6
  <2>8. PICK m \in 1..Len(g) : s[i] = g[m]
    BY <1>1, <2>2, <2>6, <2>7
  <2>9. m < i
    <3> SUFFICES ASSUME ~(m < i) PROVE FALSE
      OBVIOUS
    <3>1. m = i \/ i < m
      BY <2>2
    <3>2. g[m] \in Nat /\ g[i] \in Nat /\ (m = i \/ g[i] < g[m])
      BY <1>1, <2>2, <3>1
    <3> QED
      BY <2>7, <2>8, <3>2
  <2>10. g[m] = s[m] /\ m \in 1..Len(s)
    BY <1>0, <2>3, <2>8, <2>9
  <2>11. s[m] < s[i] /\ s[i] \in Nat
    BY <1>1, <2>6, <2>9, <2>10
  <2> QED
    BY <2>8, <2>10, <2>11
<1>3. \A i \in 1..Len(g) : i <= Len(s) /\ g[i] = s[i]
  BY <1>2
<1>4. Len(g) <= Len(s)
  <2>1. CASE Len(g) = 0
    BY <1>0, <2>1
  <2>2. CASE Len(g) # 0
    BY <1>0, <1>3, <2>2
  <2> QED
    BY <2>1, <2>2
<1>5. DOMAIN g = 1..Len(g)
  OBVIOUS
<1> HIDE DEF bad
<1> QED
  BY <1>3, <1>4, <1>5 DEF Link!IsStart

-----------------------------------------------------------------------------
(* Sets of tickets.                                                         *)

\* try_send accepts a ticket above all others.
LEMMA TicketAccepted ==
  ASSUME NEW A, NEW S, NEW T, NEW W, NEW shown, NEW reads, NEW writing, NEW t \in Nat,
         Passing(A, S, T, W), Unbroken(A, S, T, W, shown, reads, writing), \A a \in A : a < t
  PROVE  /\ Passing(A \cup {t}, S, T, W \cup {t})
         /\ Unbroken(A \cup {t}, S, T, W \cup {t}, shown, reads, writing)
<1>1. A \subseteq Nat /\ S \cup T \cup W \subseteq A /\ Below(S, T \cup W)
  BY DEF Passing
<1>2. Passing(A \cup {t}, S, T, W \cup {t})
  BY <1>1 DEF Passing, Below
<1>3. ASSUME NEW X, X \subseteq A, Whole(X, A) PROVE Whole(X, A \cup {t})
  <2>1. \A x \in X : ~(t < x)
    BY <1>1, <1>3
  <2> QED
    BY <1>3, <2>1 DEF Whole
<1>4. S \subseteq A /\ S \cup T \subseteq A
  BY <1>1
<1>5. Unbroken(A \cup {t}, S, T, W \cup {t}, shown, reads, writing)
  BY <1>3, <1>4 DEF Unbroken
<1> QED
  BY <1>2, <1>5

\* Units of the first of the waiting parcels are written.
LEMMA TicketWritten ==
  ASSUME NEW A, NEW S, NEW T, NEW W, NEW V, NEW shown, NEW reads, NEW f,
         Passing(A, S, T, W), Unbroken(A, S, T, W, shown, reads, TRUE),
         f \in W, \A z \in W : f <= z, V \subseteq W, W \subseteq V \cup {f}
  PROVE  /\ Passing(A, S, T \cup {f}, V) /\ Unbroken(A, S, T \cup {f}, V, shown, reads, TRUE)
<1>1. A \subseteq Nat /\ S \cup T \cup W \subseteq A /\ Below(S, T \cup W)
  BY DEF Passing
<1>2. Passing(A, S, T \cup {f}, V)
  BY <1>1 DEF Passing, Below
<1>3. ASSUME ~shown, reads
      PROVE  Whole(S \cup (T \cup {f}), A) /\ A \subseteq S \cup (T \cup {f}) \cup V
  <2>1. Whole(S \cup T, A) /\ A \subseteq S \cup T \cup W
    BY <1>3 DEF Unbroken
  <2>2. \A a \in A : a < f => a \in S \cup T
    <3> SUFFICES ASSUME NEW a \in A, a < f PROVE a \notin W
      BY <2>1
    <3>1. a \in Nat /\ f \in Nat
      BY <1>1
    <3>2. a \in W => f <= a
      OBVIOUS
    <3> QED
      BY <3>1, <3>2
  <2> QED
    BY <2>1, <2>2 DEF Whole
<1> QED
  BY <1>2, <1>3 DEF Unbroken

\* The first of the parcels on the way is received.
LEMMA TicketReceived ==
  ASSUME NEW A, NEW S, NEW T, NEW U, NEW W, NEW shown, NEW writing, NEW t,
         Passing(A, S, T, W), Unbroken(A, S, T, W, shown, TRUE, writing),
         t \in T, U \subseteq T, T \subseteq U \cup {t}, \A z \in U \cup W : t < z
  PROVE  /\ Passing(A, S \cup {t}, U, W) /\ Unbroken(A, S \cup {t}, U, W, shown, TRUE, writing)
         /\ \A a \in S : a < t
<1>1. A \subseteq Nat /\ S \cup T \cup W \subseteq A /\ Below(S, T \cup W)
  BY DEF Passing
<1>2. Passing(A, S \cup {t}, U, W)
  BY <1>1 DEF Passing, Below
<1>3. ASSUME ~shown PROVE Whole(S \cup {t}, A)
  <2>1. Whole(S, A) /\ Whole(S \cup T, A)
    BY <1>3 DEF Unbroken
  <2>2. ASSUME NEW a \in A, a < t PROVE a \in S
    <3>1. a \in S \cup T
      BY <2>1, <2>2 DEF Whole
    <3>2. a \in Nat /\ t \in Nat
      BY <1>1
    <3>3. a \in T => a = t \/ t < a
      OBVIOUS
    <3>4. a \notin T
      BY <2>2, <3>2, <3>3
    <3> QED
      BY <3>1, <3>4
  <2> QED
    BY <2>1, <2>2 DEF Whole
<1>4. (S \cup {t}) \cup U = S \cup T
  OBVIOUS
<1> QED
  BY <1>1, <1>2, <1>3, <1>4 DEF Unbroken, Below

\* Nothing is added: a reader and a writer that go on have what they had, unless the
\* reader's owner is shown an error.
Fewer(S, T, W, shown, reads, writing, R, U, V, shown2, reads2, writing2) ==
  /\ R \subseteq S /\ U \subseteq T /\ V \subseteq W /\ Separate(R, S \ R, TRUE)
  /\ shown => shown2
  /\ reads2 => reads /\ (shown2 \/ R = S) /\ U = T
  /\ reads2 /\ writing2 => writing /\ V = W

\* Fewer tickets are seen, on the way or waiting, and every one that is lost has its reason.
LEMMA TicketsFewer ==
  ASSUME NEW A, NEW S, NEW T, NEW W, NEW shown, NEW reads, NEW writing,
         NEW R, NEW U, NEW V, NEW shown2, NEW reads2, NEW writing2,
         Passing(A, S, T, W), Unbroken(A, S, T, W, shown, reads, writing),
         Fewer(S, T, W, shown, reads, writing, R, U, V, shown2, reads2, writing2)
  PROVE  Passing(A, R, U, V) /\ Unbroken(A, R, U, V, shown2, reads2, writing2)
<1>0. /\ R \subseteq S /\ U \subseteq T /\ V \subseteq W /\ Separate(R, S \ R, TRUE)
      /\ shown => shown2
      /\ reads2 => reads /\ (shown2 \/ R = S) /\ U = T
      /\ reads2 /\ writing2 => writing /\ V = W
  BY DEF Fewer
<1>1. A \subseteq Nat /\ S \cup T \cup W \subseteq A /\ Below(S, T \cup W)
  BY DEF Passing
<1>2. Passing(A, R, U, V)
  BY <1>0, <1>1 DEF Passing, Below
<1>3. ASSUME ~shown2 PROVE Whole(R, A)
  <2>1. Whole(S, A)
    BY <1>0, <1>3 DEF Unbroken
  <2>2. ASSUME NEW a \in A, NEW x \in R, a < x PROVE a \in R
    <3>1. a \in S
      BY <1>0, <2>1, <2>2 DEF Whole
    <3>2. a \in S \ R => x < a
      BY <1>0 DEF Separate, Precedes
    <3>3. a \in Nat /\ x \in Nat
      BY <1>0, <1>1
    <3> QED
      BY <2>2, <3>1, <3>2, <3>3
  <2> QED
    BY <2>2 DEF Whole
<1>4. ASSUME ~shown2, reads2
      PROVE  Whole(R \cup U, A) /\ (writing2 => A \subseteq R \cup U \cup V)
  BY <1>0, <1>4 DEF Unbroken
<1> QED
  BY <1>2, <1>3, <1>4 DEF Unbroken

-----------------------------------------------------------------------------
(* Frames that wait and units on their way.                                 *)

\* The first frame comes before all others.
LEMMA FirstWaits ==
  ASSUME NEW w \in Seq(Frame), NEW q \in Seq(Frame), Upstream(w, q), w # <<>>
  PROVE  /\ w[1].ticket \in TicketsIn(w)
         /\ \A z \in TicketsIn(w) \cup TicketsIn(q) : w[1].ticket <= z /\ w[1].ticket \in Nat
<1>1. \A f \in Frame : f.ticket \in Nat
  BY DEF Frame
<1>2. 1 \in 1..Len(w) /\ w[1].ticket \in Nat
  BY <1>1
<1>3. w[1].ticket \in TicketsIn(w)
  BY <1>2 DEF TicketsIn
<1>4. ASSUME NEW i \in 1..Len(w) PROVE w[1].ticket <= w[i].ticket
  <2>1. w[i].ticket \in Nat /\ (i = 1 \/ 1 < i)
    BY <1>1
  <2>2. 1 < i => w[1].ticket < w[i].ticket
    BY <1>2 DEF Upstream, InOrder
  <2> QED
    BY <1>2, <2>1, <2>2
<1>5. ASSUME NEW i \in 1..Len(q) PROVE w[1].ticket <= q[i].ticket
  <2>1. q[i].ticket \in Nat /\ q[i].ticket \in TicketsIn(q)
    BY <1>1 DEF TicketsIn
  <2> QED
    BY <1>2, <1>3, <2>1 DEF Upstream, Below
<1> QED
  BY <1>2, <1>3, <1>4, <1>5 DEF TicketsIn

\* A submission of a later ticket.
LEMMA LaterWaits ==
  ASSUME NEW w \in Seq(Frame), NEW q \in Seq(Frame), NEW f \in Frame, Upstream(w, q),
         \A z \in TicketsIn(w) \cup TicketsIn(q) : z < f.ticket
  PROVE  /\ Upstream(w, Append(q, f)) /\ TicketsIn(Append(q, f)) = TicketsIn(q) \cup {f.ticket}
<1> DEFINE s == Append(q, f)
<1>1. /\ s \in Seq(Frame) /\ Len(s) = Len(q) + 1 /\ Len(q) \in Nat
      /\ s[Len(q) + 1] = f /\ \A i \in 1..Len(q) : s[i] = q[i]
  BY AppendAt
<1> HIDE DEF s
<1>2. /\ \A i \in 1..Len(s) : i = Len(q) + 1 \/ i \in 1..Len(q)
      /\ Len(q) + 1 \in 1..Len(s) /\ \A i \in 1..Len(q) : i \in 1..Len(s)
  BY <1>1
<1>3. TicketsIn(s) = TicketsIn(q) \cup {f.ticket}
  <2>1. ASSUME NEW a \in TicketsIn(s) PROVE a \in TicketsIn(q) \cup {f.ticket}
    <3>1. PICK i \in 1..Len(s) : a = s[i].ticket
      BY DEF TicketsIn
    <3> QED
      BY <1>1, <1>2, <3>1 DEF TicketsIn
  <2>2. ASSUME NEW a \in TicketsIn(q) \cup {f.ticket} PROVE a \in TicketsIn(s)
    <3>1. CASE a = f.ticket
      BY <1>1, <1>2, <3>1 DEF TicketsIn
    <3>2. CASE a \in TicketsIn(q)
      <4>1. PICK i \in 1..Len(q) : a = q[i].ticket
        BY <3>2 DEF TicketsIn
      <4> QED
        BY <1>1, <1>2, <4>1 DEF TicketsIn
    <3> QED
      BY <2>2, <3>1, <3>2
  <2> QED
    BY <2>1, <2>2
<1>4. InOrder(s)
  <2> SUFFICES ASSUME NEW i \in 1..Len(s), NEW j \in 1..Len(s), i < j PROVE s[i].ticket < s[j].ticket
    BY DEF InOrder
  <2>1. i \in 1..Len(q)
    BY <1>1
  <2>2. CASE j \in 1..Len(q)
    BY <1>1, <2>1, <2>2 DEF Upstream, InOrder
  <2>3. CASE j = Len(q) + 1
    BY <1>1, <2>1, <2>3 DEF TicketsIn
  <2> QED
    BY <1>2, <2>2, <2>3
<1> QED
  BY <1>3, <1>4 DEF Upstream, Below, s

\* The elements of a sequence without its first.
LEMMA TailAt ==
  ASSUME NEW S, NEW s \in Seq(S), s # <<>>
  PROVE  /\ Head(s) = s[1] /\ Head(s) \in S /\ Tail(s) \in Seq(S) /\ Len(s) \in Nat /\ Len(s) >= 1
         /\ Len(Tail(s)) = Len(s) - 1 /\ \A i \in 1..Len(Tail(s)) : Tail(s)[i] = s[i + 1] /\ i + 1 \in 1..Len(s)
OBVIOUS

\* The first one leaves.
LEMMA RestWaits ==
  ASSUME NEW s \in Seq(Frame), InOrder(s), s # <<>>
  PROVE  /\ InOrder(Tail(s)) /\ TicketsIn(s) = TicketsIn(Tail(s)) \cup {s[1].ticket}
         /\ \A z \in TicketsIn(Tail(s)) : s[1].ticket < z
<1> DEFINE t == Tail(s)
<1>1. /\ t \in Seq(Frame) /\ Len(s) \in Nat /\ Len(s) >= 1 /\ Len(t) = Len(s) - 1
      /\ \A i \in 1..Len(t) : t[i] = s[i + 1] /\ i + 1 \in 1..Len(s)
  BY TailAt
<1> HIDE DEF t
<1>2. InOrder(t)
  BY <1>1 DEF InOrder
<1>3. 1 \in 1..Len(s)
  BY <1>1
<1>4. ASSUME NEW i \in 1..Len(s) PROVE i = 1 \/ \E j \in 1..Len(t) : i = j + 1
  <2>1. i # 1 => i - 1 \in 1..Len(t) /\ i = (i - 1) + 1
    BY <1>1
  <2> QED
    BY <2>1
<1>5. TicketsIn(s) = TicketsIn(t) \cup {s[1].ticket}
  <2>1. ASSUME NEW a \in TicketsIn(s) PROVE a \in TicketsIn(t) \cup {s[1].ticket}
    <3>1. PICK i \in 1..Len(s) : a = s[i].ticket
      BY DEF TicketsIn
    <3>2. i = 1 \/ \E j \in 1..Len(t) : i = j + 1
      BY <1>4
    <3> QED
      BY <1>1, <3>1, <3>2 DEF TicketsIn
  <2>2. s[1].ticket \in TicketsIn(s)
    BY <1>3 DEF TicketsIn
  <2>3. ASSUME NEW a \in TicketsIn(t) PROVE a \in TicketsIn(s)
    <3>1. PICK i \in 1..Len(t) : a = t[i].ticket
      BY DEF TicketsIn
    <3> QED
      BY <1>1, <3>1 DEF TicketsIn
  <2> QED
    BY <2>1, <2>2, <2>3
<1>6. ASSUME NEW z \in TicketsIn(t) PROVE s[1].ticket < z
  <2>1. PICK i \in 1..Len(t) : z = t[i].ticket
    BY DEF TicketsIn
  <2>2. i + 1 \in 1..Len(s) /\ 1 < i + 1 /\ z = s[i + 1].ticket
    BY <1>1, <2>1
  <2> QED
    BY <1>3, <2>2 DEF InOrder
<1> QED
  BY <1>2, <1>5, <1>6 DEF t

\* The first submission becomes the last frame.
LEMMA MovedWaits ==
  ASSUME NEW w \in Seq(Frame), NEW q \in Seq(Frame), Upstream(w, q), q # <<>>
  PROVE  /\ Upstream(Append(w, Head(q)), Tail(q))
         /\ TicketsIn(Append(w, Head(q))) \cup TicketsIn(Tail(q)) = TicketsIn(w) \cup TicketsIn(q)
<1> DEFINE h == Head(q)
<1>1. h \in Frame /\ h = q[1] /\ Tail(q) \in Seq(Frame) /\ 1 \in 1..Len(q)
  BY TailAt
<1>2. InOrder(q) /\ InOrder(w) /\ Below(TicketsIn(w), TicketsIn(q))
  BY DEF Upstream
<1>3. /\ InOrder(Tail(q)) /\ TicketsIn(q) = TicketsIn(Tail(q)) \cup {q[1].ticket}
      /\ \A z \in TicketsIn(Tail(q)) : q[1].ticket < z
  BY <1>2, RestWaits
<1>4. Upstream(w, <<>>)
  BY <1>2 DEF Upstream, InOrder, Below, TicketsIn
<1>5. \A z \in TicketsIn(w) : z < h.ticket
  BY <1>1, <1>2, <1>3 DEF Below
<1> HIDE DEF h
<1>6. InOrder(Append(w, h)) /\ TicketsIn(Append(w, h)) = TicketsIn(w) \cup {h.ticket}
  <2>1. Upstream(<<>>, w)
    BY <1>2 DEF Upstream, InOrder, Below, TicketsIn
  <2>2. <<>> \in Seq(Frame) /\ TicketsIn(<<>>) = {}
    BY DEF TicketsIn
  <2>3. \A z \in TicketsIn(<<>>) \cup TicketsIn(w) : z < h.ticket
    BY <1>5, <2>2
  <2>4. Upstream(<<>>, Append(w, h)) /\ TicketsIn(Append(w, h)) = TicketsIn(w) \cup {h.ticket}
    BY <1>1, <2>1, <2>2, <2>3, LaterWaits
  <2> QED
    BY <2>4 DEF Upstream
<1>7. Below(TicketsIn(Append(w, h)), TicketsIn(Tail(q)))
  BY <1>1, <1>2, <1>3, <1>6 DEF Below
<1> QED
  BY <1>1, <1>3, <1>6, <1>7 DEF Upstream, h

\* The first frame has been written in part.
LEMMA PartWaits ==
  ASSUME NEW w \in Seq(Frame), w # <<>>, NEW q, Upstream(w, q), NEW f \in Frame, f.ticket = w[1].ticket
  PROVE  /\ Upstream(<<f>> \o Tail(w), q) /\ TicketsIn(<<f>> \o Tail(w)) = TicketsIn(w)
<1> DEFINE v == <<f>> \o Tail(w)
<1>1. /\ Tail(w) \in Seq(Frame) /\ Len(w) \in Nat /\ Len(w) >= 1 /\ Len(Tail(w)) = Len(w) - 1
      /\ \A i \in 1..Len(Tail(w)) : Tail(w)[i] = w[i + 1] /\ i + 1 \in 1..Len(w)
  BY TailAt
<1>2. Len(v) = Len(w) /\ v[1] = f /\ \A i \in 1..Len(v) : i = 1 \/ v[i] = w[i]
  BY <1>1
<1> HIDE DEF v
<1>3. \A i \in 1..Len(w) : v[i].ticket = w[i].ticket
  BY <1>2
<1>4. InOrder(v)
  BY <1>2, <1>3 DEF Upstream, InOrder
<1>5. TicketsIn(v) = TicketsIn(w)
  <2>1. TicketsIn(v) = {v[i].ticket : i \in 1..Len(w)}
    BY <1>2 DEF TicketsIn
  <2>2. TicketsIn(w) = {w[i].ticket : i \in 1..Len(w)}
    BY DEF TicketsIn
  <2> QED
    BY <1>3, <2>1, <2>2
<1> QED
  BY <1>4, <1>5 DEF Upstream, v

\* Fewer tickets wait.
LEMMA RowFewer ==
  ASSUME NEW s, NEW W, NEW V, NEW k, Row(s, W, k), V \subseteq W
  PROVE  Row(s, V, k)
BY DEF Row

\* Units leave the front.
LEMMA RowRest ==
  ASSUME NEW s \in Seq(Unit), NEW t \in Seq(Unit), NEW n \in Nat, NEW W, NEW V, NEW k, Row(s, W, k),
         V \subseteq W, Len(s) = n + Len(t), \A i \in 1..Len(t) : t[i] = s[i + n]
  PROVE  Row(t, V, k) /\ TicketsIn(t) \subseteq TicketsIn(s)
<1>1. Len(t) \in Nat /\ Len(s) \in Nat
  OBVIOUS
<1>2. \A i \in 1..Len(t) : i + n \in 1..Len(s)
  BY <1>1
<1>3. ASSUME NEW i \in 1..Len(t), NEW j \in 1..Len(t), i < j
      PROVE  t[i].ticket <= t[j].ticket /\ (Ends(t[i], k) => t[i].ticket < t[j].ticket)
  <2>1. PICK a \in 1..Len(s) : a = i + n /\ t[i] = s[a]
    BY <1>2
  <2>2. PICK b \in 1..Len(s) : b = j + n /\ t[j] = s[b]
    BY <1>2
  <2>3. a < b
    BY <1>1, <1>3, <2>1, <2>2
  <2> QED
    BY <2>1, <2>2, <2>3 DEF Row
<1>4. ASSUME NEW i \in 1..Len(t), NEW z \in V
      PROVE  t[i].ticket <= z /\ (Ends(t[i], k) => t[i].ticket < z)
  <2>1. PICK a \in 1..Len(s) : a = i + n /\ t[i] = s[a]
    BY <1>2
  <2> QED
    BY <2>1 DEF Row
<1>5. TicketsIn(t) \subseteq TicketsIn(s)
  <2> SUFFICES ASSUME NEW a \in TicketsIn(t) PROVE a \in TicketsIn(s)
    OBVIOUS
  <2>1. PICK i \in 1..Len(t) : a = t[i].ticket
    BY DEF TicketsIn
  <2>2. i + n \in 1..Len(s) /\ t[i] = s[i + n]
    BY <1>2
  <2> QED
    BY <2>1, <2>2 DEF TicketsIn
<1> QED
  BY <1>3, <1>4, <1>5 DEF Row

\* A later ticket waits.
LEMMA RowLater ==
  ASSUME NEW s, NEW W, NEW k, NEW t, Row(s, W, k), \A a \in TicketsIn(s) : a \in Nat /\ a < t, t \in Nat
  PROVE  Row(s, W \cup {t}, k)
<1>1. \A i \in 1..Len(s) : s[i].ticket \in Nat /\ s[i].ticket < t
  BY DEF TicketsIn
<1> QED
  BY <1>1 DEF Row

\* The m units u of the first of the waiting frames, f, follow those that are on their
\* way: the last of them can only end it if f waits no more.
Behind(u, f, m, W, V, k) ==
  /\ m \in Nat /\ m >= 1 /\ u \in Seq(Unit) /\ Len(u) = m /\ \A i \in 1..m : u[i].ticket = f
  /\ \A i \in 1..m : i < m => ~Ends(u[i], k)
  /\ f \in Nat /\ f \in W /\ V \subseteq W /\ \A z \in V : z \in Nat /\ f <= z
  /\ Ends(u[m], k) => \A z \in V : f < z

\* Units of the first waiting parcel are written behind what is on the way.
LEMMA RowMore ==
  ASSUME NEW s \in Seq(Unit), NEW W, NEW V, NEW k, NEW f, NEW m, NEW u,
         Row(s, W, k), Behind(u, f, m, W, V, k)
  PROVE  Row(s \o u, V, k) /\ TicketsIn(s \o u) = TicketsIn(s) \cup {f}
<1> DEFINE t == s \o u
           n == Len(s)
<1>0. /\ m \in Nat /\ m >= 1 /\ u \in Seq(Unit) /\ Len(u) = m /\ \A i \in 1..m : u[i].ticket = f
      /\ \A i \in 1..m : i < m => ~Ends(u[i], k)
      /\ f \in Nat /\ f \in W /\ V \subseteq W /\ \A z \in V : z \in Nat /\ f <= z
      /\ Ends(u[m], k) => \A z \in V : f < z
  BY DEF Behind
<1>1. /\ t \in Seq(Unit) /\ Len(t) = n + m /\ n \in Nat
      /\ \A i \in 1..n : t[i] = s[i] /\ i \in 1..Len(t)
      /\ \A i \in 1..m : t[n + i] = u[i] /\ n + i \in 1..Len(t)
      /\ \A i \in 1..Len(t) : i \in 1..n \/ \E j \in 1..m : i = n + j
  <2>1. /\ s \o u \in Seq(Unit) /\ Len(s \o u) = Len(s) + Len(u) /\ Len(s) \in Nat /\ Len(u) \in Nat
        /\ \A i \in 1..Len(s) : (s \o u)[i] = s[i] /\ i \in 1..Len(s \o u)
        /\ \A i \in 1..Len(u) : (s \o u)[Len(s) + i] = u[i] /\ Len(s) + i \in 1..Len(s \o u)
        /\ \A i \in 1..Len(s \o u) : i \in 1..Len(s) \/ \E j \in 1..Len(u) : i = Len(s) + j
    <3>1. s \in Seq(Unit) /\ u \in Seq(Unit)
      BY <1>0
    <3>2. Concatenated(Unit, s, u, s \o u)
      BY ONLY <3>1, ConcatenatedIs
    <3> QED
      BY ONLY <3>2 DEF Concatenated
  <2> QED
    BY <1>0, <2>1
<1>2. /\ \A i \in 1..n : s[i].ticket <= f /\ (Ends(s[i], k) => s[i].ticket < f)
      /\ \A i, j \in 1..n : i < j =>
           s[i].ticket <= s[j].ticket /\ (Ends(s[i], k) => s[i].ticket < s[j].ticket)
      /\ \A i \in 1..n : \A z \in V : s[i].ticket <= z /\ (Ends(s[i], k) => s[i].ticket < z)
  BY <1>0 DEF Row
<1> HIDE DEF t, n
<1>3. ASSUME NEW i \in 1..Len(t), NEW j \in 1..Len(t), i < j
      PROVE  t[i].ticket <= t[j].ticket /\ (Ends(t[i], k) => t[i].ticket < t[j].ticket)
  <2>1. CASE i \in 1..n /\ j \in 1..n
    BY <1>1, <1>2, <1>3, <2>1
  <2>2. CASE i \in 1..n /\ j \notin 1..n
    <3>1. PICK b \in 1..m : j = n + b
      BY <1>1, <2>2
    <3>2. t[j].ticket = f /\ t[i] = s[i]
      BY <1>0, <1>1, <2>2, <3>1
    <3> QED
      BY <1>2, <2>2, <3>2
  <2>3. CASE i \notin 1..n
    <3>1. PICK a \in 1..m : i = n + a
      BY <1>1, <2>3
    <3>2. j \notin 1..n
      BY <1>1, <1>3, <3>1
    <3>3. PICK b \in 1..m : j = n + b
      BY <1>1, <3>2
    <3>4. a < m
      BY <1>0, <1>1, <1>3, <3>1, <3>3
    <3>5. t[i] = u[a] /\ t[j] = u[b]
      BY <1>1, <3>1, <3>3
    <3> QED
      BY <1>0, <3>4, <3>5
  <2> QED
    BY <2>1, <2>2, <2>3
<1>4. ASSUME NEW i \in 1..Len(t), NEW z \in V
      PROVE  t[i].ticket <= z /\ (Ends(t[i], k) => t[i].ticket < z)
  <2>1. CASE i \in 1..n
    BY <1>1, <1>2, <2>1
  <2>2. CASE i \notin 1..n
    <3>1. PICK a \in 1..m : i = n + a
      BY <1>1, <2>2
    <3>2. t[i] = u[a] /\ u[a].ticket = f
      BY <1>0, <1>1, <3>1
    <3>3. Ends(u[a], k) => a = m
      BY <1>0
    <3> QED
      BY <1>0, <3>2, <3>3
  <2> QED
    BY <2>1, <2>2
<1>5. TicketsIn(t) = TicketsIn(s) \cup {f}
  <2>1. ASSUME NEW a \in TicketsIn(t) PROVE a \in TicketsIn(s) \cup {f}
    <3>1. PICK i \in 1..Len(t) : a = t[i].ticket
      BY DEF TicketsIn
    <3>2. CASE i \in 1..n
      BY <1>1, <3>1, <3>2 DEF TicketsIn, n
    <3>3. CASE i \notin 1..n
      <4>1. PICK b \in 1..m : i = n + b
        BY <1>1, <3>3
      <4> QED
        BY <1>0, <1>1, <3>1, <4>1
    <3> QED
      BY <3>2, <3>3
  <2>2. ASSUME NEW a \in TicketsIn(s) PROVE a \in TicketsIn(t)
    <3>1. PICK i \in 1..n : a = s[i].ticket
      BY DEF TicketsIn, n
    <3> QED
      BY <1>1, <3>1 DEF TicketsIn
  <2>3. f \in TicketsIn(t)
    <3>1. 1 \in 1..m
      BY <1>0
    <3>2. n + 1 \in 1..Len(t) /\ t[n + 1].ticket = f
      BY <1>0, <1>1, <3>1
    <3> QED
      BY <3>2 DEF TicketsIn
  <2> QED
    BY <2>1, <2>2, <2>3
<1> QED
  BY <1>3, <1>4, <1>5 DEF Row, t

\* The units of the first parcel leave the row: its ticket is behind it then.
LEMMA RowReceived ==
  ASSUME NEW s \in Seq(Unit), NEW t \in Seq(Unit), NEW n \in Nat, n >= 1, NEW W, NEW k, Row(s, W, k),
         Len(s) = n + Len(t), \A i \in 1..Len(t) : t[i] = s[i + n],
         Ends(s[n], k), \A i \in 1..n : s[i].ticket = s[n].ticket
  PROVE  /\ Row(t, W, k) /\ s[n].ticket \in TicketsIn(s) /\ TicketsIn(t) \subseteq TicketsIn(s)
         /\ TicketsIn(s) \subseteq TicketsIn(t) \cup {s[n].ticket}
         /\ \A z \in TicketsIn(t) \cup W : s[n].ticket < z
<1>1. Len(t) \in Nat /\ Len(s) \in Nat /\ n \in 1..Len(s)
  OBVIOUS
<1>2. Row(t, W, k) /\ TicketsIn(t) \subseteq TicketsIn(s)
  BY RowRest
<1>3. s[n].ticket \in TicketsIn(s)
  BY <1>1 DEF TicketsIn
<1>4. ASSUME NEW a \in TicketsIn(s) PROVE a \in TicketsIn(t) \cup {s[n].ticket}
  <2>1. PICK i \in 1..Len(s) : a = s[i].ticket
    BY DEF TicketsIn
  <2>2. CASE i <= n
    BY <1>1, <2>1, <2>2
  <2>3. CASE ~(i <= n)
    <3>1. PICK j \in 1..Len(t) : i = j + n
      <4>1. i - n \in 1..Len(t) /\ i = (i - n) + n
        BY <1>1, <2>3
      <4> QED
        BY <4>1
    <3> QED
      BY <2>1, <3>1 DEF TicketsIn
  <2> QED
    BY <2>2, <2>3
<1>5. ASSUME NEW z \in TicketsIn(t) PROVE s[n].ticket < z
  <2>1. PICK i \in 1..Len(t) : z = t[i].ticket
    BY DEF TicketsIn
  <2>2. i + n \in 1..Len(s) /\ n < i + n /\ z = s[i + n].ticket
    BY <1>1, <2>1
  <2> QED
    BY <1>1, <2>2 DEF Row
<1>6. \A z \in W : s[n].ticket < z
  BY <1>1 DEF Row
<1> QED
  BY <1>2, <1>3, <1>4, <1>5, <1>6

-----------------------------------------------------------------------------
(* Steps of an owner.                                                       *)

\* Sequence t is what is left of s when units leave its front.
Rests(s, t) ==
  \E n \in Nat : Len(s) = n + Len(t) /\ \A i \in 1..Len(t) : t[i] = s[i + n]

\* What a step does to what is on its way, to what its receiver's owner sees, and to
\* what waits: nothing is added, and a driver that works loses nothing.
Reads(l) ==
  /\ read'[l] \in Seq(Unit) /\ wire'[l] \in Seq(Unit)
  /\ Rests(read[l] \o wire[l], read'[l] \o wire'[l])
  /\ Works(Destination(l))' =>
       TicketsIn(read'[l] \o wire'[l]) = TicketsIn(read[l] \o wire[l])
SeenBy(l) == Known(got'[l], pending'[Destination(l)], drv'[Destination(l)].events, ArrivalOn(l))
Sees(l) ==
  /\ Ordered(got'[l], pending'[Destination(l)], drv'[Destination(l)].events, ArrivalOn(l), TRUE)
  /\ SeenBy(l) \subseteq Seen(l) /\ Separate(SeenBy(l), Seen(l) \ SeenBy(l), TRUE)
  /\ visible[Destination(l)] => visible'[Destination(l)]
  /\ Works(Destination(l))' => SeenBy(l) = Seen(l) \/ visible'[Destination(l)]
StillWaiting(l) == TicketsIn(writes'[l]) \cup TicketsIn(receivers'[l])
Waits(l) ==
  /\ Upstream(writes'[l], receivers'[l])
  /\ StillWaiting(l) \subseteq Waiting(l)
  /\ Works(Source(l))' /\ Works(Destination(l))' => StillWaiting(l) = Waiting(l)

\* The parts of a lane after a step.
LEMMA LanePrimed ==
  ASSUME NEW l \in Lane, backend' = backend,
         Numbered(sent'[l], next_ticket'[Source(l)]),
         Upstream(writes'[l], receivers'[l]), Row(read'[l] \o wire'[l], StillWaiting(l), Prefix),
         Ordered(got'[l], pending'[Destination(l)], drv'[Destination(l)].events, ArrivalOn(l), TRUE),
         Passing(In(sent'[l]), SeenBy(l), TicketsIn(read'[l] \o wire'[l]), StillWaiting(l)),
         Unbroken(In(sent'[l]), SeenBy(l), TicketsIn(read'[l] \o wire'[l]), StillWaiting(l),
                  visible'[Destination(l)], Works(Destination(l))', Works(Source(l))')
  PROVE  LaneInv(l)'
<1>1. Prefix' = Prefix
  BY DEF Prefix
<1>2. Source(l)' = Source(l) /\ Destination(l)' = Destination(l) /\ ArrivalOn(l)' = ArrivalOn(l)
  BY DEF Source, Destination, ArrivalOn, Event, Lane, Member
<1>3. /\ Accepted(l)' = In(sent'[l]) /\ Seen(l)' = SeenBy(l) /\ Way(l)' = read'[l] \o wire'[l]
      /\ Waiting(l)' = StillWaiting(l)
  BY <1>2 DEF Accepted, Seen, SeenBy, Way, Waiting, StillWaiting
<1> QED
  BY <1>1, <1>2, <1>3 DEF LaneInv

\* A lane to which a step adds nothing.
LEMMA LaneKept ==
  ASSUME Types, Kinds, Fades, backend' = backend, sent' = sent, next_ticket' = next_ticket,
         NEW l \in Lane, LaneInv(l), Reads(l), Sees(l), Waits(l)
  PROVE  LaneInv(l)'
<1> DEFINE s == read[l] \o wire[l]
           t == read'[l] \o wire'[l]
           d == Destination(l)
<1>1. /\ Numbered(sent[l], next_ticket[Source(l)])
      /\ Row(s, Waiting(l), Prefix)
      /\ Passing(Accepted(l), Seen(l), TicketsIn(s), Waiting(l))
      /\ Unbroken(Accepted(l), Seen(l), TicketsIn(s), Waiting(l), visible[d], Works(d), Works(Source(l)))
  BY DEF LaneInv, Way
<1>2. s \in Seq(Unit) /\ t \in Seq(Unit)
  BY DEF Kinds, Reads
<1>3. PICK n \in Nat : Len(s) = n + Len(t) /\ \A i \in 1..Len(t) : t[i] = s[i + n]
  BY DEF Reads, Rests
<1>4. Works(d)' => TicketsIn(t) = TicketsIn(s)
  BY DEF Reads
<1>a. (Works(d)' => Works(d)) /\ (Works(Source(l))' => Works(Source(l)))
  BY LaneFacts DEF Fades
<1>b. StillWaiting(l) \subseteq Waiting(l) /\ (Works(Source(l))' /\ Works(d)' => StillWaiting(l) = Waiting(l))
      /\ Upstream(writes'[l], receivers'[l])
  BY DEF Waits
<1>c. /\ SeenBy(l) \subseteq Seen(l) /\ Separate(SeenBy(l), Seen(l) \ SeenBy(l), TRUE)
      /\ visible[d] => visible'[d]
      /\ Works(d)' => SeenBy(l) = Seen(l) \/ visible'[d]
  BY DEF Sees
<1> HIDE DEF s, t, d
<1>5. Row(t, StillWaiting(l), Prefix) /\ TicketsIn(t) \subseteq TicketsIn(s)
  BY <1>1, <1>2, <1>3, <1>b, RowRest
<1>6. /\ Passing(Accepted(l), SeenBy(l), TicketsIn(t), StillWaiting(l))
      /\ Unbroken(Accepted(l), SeenBy(l), TicketsIn(t), StillWaiting(l), visible'[d],
                  Works(d)', Works(Source(l))')
  <2>1. PICK b1 \in BOOLEAN, b2 \in BOOLEAN, b3 \in BOOLEAN :
          (b1 <=> visible[d]) /\ (b2 <=> Works(d)) /\ (b3 <=> Works(Source(l)))
    OBVIOUS
  <2>2. PICK c1 \in BOOLEAN, c2 \in BOOLEAN, c3 \in BOOLEAN :
          (c1 <=> visible'[d]) /\ (c2 <=> Works(d)') /\ (c3 <=> Works(Source(l))')
    OBVIOUS
  <2>3. Unbroken(Accepted(l), Seen(l), TicketsIn(s), Waiting(l), b1, b2, b3)
    BY <1>1, <2>1 DEF Unbroken
  <2>4. /\ (b1 => c1) /\ (c2 => b2 /\ (c1 \/ SeenBy(l) = Seen(l)) /\ TicketsIn(t) = TicketsIn(s))
        /\ (c2 /\ c3 => b3 /\ StillWaiting(l) = Waiting(l))
    BY <1>4, <1>a, <1>b, <1>c, <2>1, <2>2
  <2>5. PICK A, S, T, W, R, U, V : /\ A = Accepted(l) /\ S = Seen(l) /\ T = TicketsIn(s) /\ W = Waiting(l)
                                    /\ R = SeenBy(l) /\ U = TicketsIn(t) /\ V = StillWaiting(l)
    OBVIOUS
  <2>6. /\ Passing(A, S, T, W) /\ Unbroken(A, S, T, W, b1, b2, b3)
        /\ R \subseteq S /\ U \subseteq T /\ V \subseteq W /\ Separate(R, S \ R, TRUE)
        /\ (b1 => c1) /\ (c2 => b2 /\ (c1 \/ R = S) /\ U = T) /\ (c2 /\ c3 => b3 /\ V = W)
    BY <1>1, <1>5, <1>b, <1>c, <2>3, <2>4, <2>5
  <2>7. Fewer(S, T, W, b1, b2, b3, R, U, V, c1, c2, c3)
    BY <2>6 DEF Fewer
  <2>8. Passing(A, R, U, V) /\ Unbroken(A, R, U, V, c1, c2, c3)
    <3>1. Passing(A, S, T, W) /\ Unbroken(A, S, T, W, b1, b2, b3)
      BY <2>6
    <3> HIDE <2>1, <2>2, <2>5
    <3>2. Passing(A, R, U, V)
      BY ONLY <3>1, <2>7, TicketsFewer, SMTT(60)
    <3>3. Unbroken(A, R, U, V, c1, c2, c3)
      BY ONLY <3>1, <2>7, TicketsFewer, SMTT(60)
    <3> QED
      BY <3>2, <3>3
  <2> QED
    BY <2>2, <2>5, <2>8 DEF Unbroken
<1>7. Numbered(sent'[l], next_ticket'[Source(l)]) /\ Accepted(l) = In(sent'[l])
  BY <1>1 DEF Accepted
<1> QED
  BY <1>5, <1>6, <1>7, <1>b, LanePrimed DEF Sees, s, t, d

\* A lane's receiver is shown what it was, ...
LEMMA SeesSame ==
  ASSUME CInv, NEW l \in Lane, got'[l] = got[l],
         pending'[Destination(l)] = pending[Destination(l)],
         drv'[Destination(l)].events = drv[Destination(l)].events,
         visible[Destination(l)] => visible'[Destination(l)]
  PROVE  Sees(l)
<1>1. Ordered(got[l], pending[Destination(l)], drv[Destination(l)].events, ArrivalOn(l), TRUE)
  BY DEF CInv, LaneInv
<1>2. SeenBy(l) = Seen(l)
  BY DEF SeenBy, Seen
<1>3. Separate(SeenBy(l), Seen(l) \ SeenBy(l), TRUE)
  BY <1>2 DEF Separate
<1> QED
  BY <1>1, <1>2, <1>3 DEF Sees

\* ... or the same in other places, ...
LEMMA SeesRegrouped ==
  ASSUME NEW l \in Lane,
         Regrouped(got[l], pending[Destination(l)], drv[Destination(l)].events,
                   got'[l], pending'[Destination(l)], drv'[Destination(l)].events, ArrivalOn(l), TRUE),
         visible[Destination(l)] => visible'[Destination(l)]
  PROVE  Sees(l)
<1>1. SeenBy(l) = Seen(l)
  BY DEF SeenBy, Seen, Regrouped
<1>2. Separate(SeenBy(l), Seen(l) \ SeenBy(l), TRUE)
  BY <1>1 DEF Separate
<1> QED
  BY <1>1, <1>2 DEF Sees, Regrouped

\* ... or loses its events when its driver stops, or with an error.
LEMMA SeesLost ==
  ASSUME CInv, NEW l \in Lane, got'[l] = got[l],
         pending'[Destination(l)] = pending[Destination(l)],
         drv'[Destination(l)].events = <<>>,
         visible[Destination(l)] => visible'[Destination(l)],
         Works(Destination(l))' => visible'[Destination(l)]
  PROVE  Sees(l)
<1> DEFINE g == got[l]
           p == pending[Destination(l)]
           e == drv[Destination(l)].events
<1>1. Ordered(g, p, e, ArrivalOn(l), TRUE) /\ Seen(l) = Known(g, p, e, ArrivalOn(l))
  BY DEF CInv, LaneInv, Seen
<1>2. SeenBy(l) = Known(g, p, <<>>, ArrivalOn(l))
  BY DEF SeenBy
<1> HIDE DEF g, p, e
<1>3. /\ Ordered(g, p, <<>>, ArrivalOn(l), TRUE)
      /\ Seen(l) = SeenBy(l) \cup Marked(e, ArrivalOn(l))
      /\ Separate(SeenBy(l), Marked(e, ArrivalOn(l)), TRUE)
  <2>1. /\ Ordered(g, p, <<>>, ArrivalOn(l), TRUE)
        /\ Known(g, p, e, ArrivalOn(l)) = Known(g, p, <<>>, ArrivalOn(l)) \cup Marked(e, ArrivalOn(l))
        /\ Separate(Known(g, p, <<>>, ArrivalOn(l)), Marked(e, ArrivalOn(l)), TRUE)
    BY ONLY <1>1, EventsLost
  <2> QED
    BY <1>1, <1>2, <2>1
<1>4. Separate(SeenBy(l), Seen(l) \ SeenBy(l), TRUE)
  BY <1>3 DEF Separate
<1>5. Ordered(got'[l], pending'[Destination(l)], drv'[Destination(l)].events, ArrivalOn(l), TRUE)
  BY <1>3 DEF g, p
<1> QED
  BY <1>3, <1>4, <1>5 DEF Sees

\* What is on its way stays, or is only read, ...
LEMMA ReadsSame ==
  ASSUME Kinds, NEW l \in Lane, read'[l] \in Seq(Unit), wire'[l] \in Seq(Unit),
         Len(read'[l] \o wire'[l]) = Len(read[l] \o wire[l]),
         \A i \in 1..Len(read'[l] \o wire'[l]) : (read'[l] \o wire'[l])[i] = (read[l] \o wire[l])[i]
  PROVE  Reads(l)
<1> DEFINE s == read[l] \o wire[l]
           t == read'[l] \o wire'[l]
<1>1. t \in Seq(Unit) /\ s \in Seq(Unit)
  BY DEF Kinds
<1>2. Len(t) = Len(s) /\ \A i \in 1..Len(t) : t[i] = s[i]
  OBVIOUS
<1> HIDE DEF s, t
<1>3. TicketsIn(t) = TicketsIn(s)
  BY <1>2 DEF TicketsIn
<1>4. Rests(s, t)
  <2>1. 0 \in Nat /\ Len(s) = 0 + Len(t) /\ \A i \in 1..Len(t) : t[i] = s[i + 0]
    BY <1>1, <1>2
  <2> QED
    BY <2>1 DEF Rests
<1> QED
  BY <1>3, <1>4 DEF Reads, s, t

\* Nothing on the way changes.
LEMMA ReadsStay ==
  ASSUME Kinds, NEW l \in Lane, read'[l] = read[l], wire'[l] = wire[l]
  PROVE  Reads(l)
<1>1. read'[l] \in Seq(Unit) /\ wire'[l] \in Seq(Unit)
  BY DEF Kinds
<1>2. read'[l] \o wire'[l] = read[l] \o wire[l]
  OBVIOUS
<1> QED
  BY <1>1, <1>2, ReadsSame

\* ... or is dropped where the reader's driver stops.
LEMMA ReadsDropped ==
  ASSUME Kinds, NEW l \in Lane, read'[l] = <<>>,
         wire'[l] = wire[l] \/ (wire[l] # <<>> /\ wire'[l] = Tail(wire[l])) \/ wire'[l] = <<>>,
         ~Works(Destination(l))'
  PROVE  Reads(l)
<1> DEFINE r == read[l]
           x == wire[l]
           y == wire'[l]
<1>1. r \in Seq(Unit) /\ x \in Seq(Unit) /\ Len(r) \in Nat /\ Len(x) \in Nat
  BY DEF Kinds
<1>2. y \in Seq(Unit) /\ \E m \in Nat : Len(x) = m + Len(y) /\ \A i \in 1..Len(y) : y[i] = x[i + m]
  <2>1. CASE y = x
    <3>1. 0 \in Nat /\ Len(x) = 0 + Len(x) /\ \A i \in 1..Len(x) : x[i] = x[i + 0]
      BY <1>1
    <3> QED
      BY <1>1, <2>1, <3>1
  <2>2. CASE x # <<>> /\ y = Tail(x)
    <3>1. 1 \in Nat /\ Len(x) = 1 + Len(Tail(x)) /\ \A i \in 1..Len(Tail(x)) : Tail(x)[i] = x[i + 1]
      BY <1>1, <2>2
    <3>2. Tail(x) \in Seq(Unit)
      BY <1>1, <2>2
    <3> QED
      BY <2>2, <3>1, <3>2
  <2>3. CASE y = <<>>
    <3>1. <<>> \in Seq(Unit) /\ Len(x) = Len(x) + Len(<<>>) /\ \A i \in 1..Len(<<>>) : <<>>[i] = x[i + Len(x)]
      BY <1>1
    <3> QED
      BY <1>1, <2>3, <3>1
  <2> QED
    BY <2>1, <2>2, <2>3
<1>3. PICK m \in Nat : Len(x) = m + Len(y) /\ \A i \in 1..Len(y) : y[i] = x[i + m]
  BY <1>2
<1> HIDE DEF r, x, y
<1>4. PICK n \in Nat : n = Len(r) + m
  BY <1>1
<1>5. <<>> \o y = y
  BY <1>2
<1>6. /\ Len(r \o x) = Len(r) + Len(x)
      /\ \A i \in 1..Len(x) : (r \o x)[Len(r) + i] = x[i]
  BY <1>1
<1>7. Len(r \o x) = n + Len(y)
  BY <1>1, <1>2, <1>3, <1>4, <1>6
<1>8. ASSUME NEW i \in 1..Len(y) PROVE y[i] = (r \o x)[i + n]
  <2>1. PICK j \in 1..Len(x) : j = i + m
    BY <1>2, <1>3
  <2>2. Len(r) + j = i + n
    BY <1>1, <1>4, <2>1
  <2> QED
    BY <1>3, <1>6, <2>1, <2>2
<1>9. Rests(r \o x, <<>> \o y)
  BY <1>5, <1>7, <1>8 DEF Rests
<1>10. <<>> \in Seq(Unit)
  OBVIOUS
<1> QED
  BY <1>2, <1>9, <1>10 DEF Reads, r, x, y

\* What waits stays, ...
LEMMA WaitsSame ==
  ASSUME CInv, NEW l \in Lane, writes'[l] = writes[l], receivers'[l] = receivers[l]
  PROVE  Waits(l)
BY DEF CInv, LaneInv, Waits, Waiting, StillWaiting

\* ... or is dropped where the writer's driver stops.
LEMMA WaitsDropped ==
  ASSUME NEW l \in Lane, writes'[l] = <<>>, receivers'[l] = <<>>, ~Works(Source(l))'
  PROVE  Waits(l)
<1>1. TicketsIn(<<>>) = {} /\ InOrder(<<>>)
  BY DEF TicketsIn, InOrder
<1> QED
  BY <1>1 DEF Waits, StillWaiting, Upstream, Below

\* What an owner's driver reports complete.
Reports(n) ==
  /\ Ordered(done'[n], pending'[n], drv'[n].events, Completion, FALSE)
  /\ Known(done'[n], pending'[n], drv'[n].events, Completion)
       \subseteq Known(done[n], pending[n], drv[n].events, Completion)

\* Completions stay distinct and of parcels that no longer wait, if their owner keeps them so.
LEMMA CompletesPrimed ==
  ASSUME NEW n \in Member, sent' = sent, \A l \in From(n) : StillWaiting(l) \subseteq Waiting(l),
         Ordered(done'[n], pending'[n], drv'[n].events, Completion, FALSE),
         \A t \in Known(done'[n], pending'[n], drv'[n].events, Completion) :
           t \in Settled(n) \/ \E l \in From(n) : t \in Accepted(l) \ StillWaiting(l)
  PROVE  Completes(n)'
<1>1. Completion' = Completion
  BY DEF Completion, Event, Lane, Member
<1>2. Settled(n)' = UNION {In(sent'[l]) \ StillWaiting(l) : l \in From(n)}
  BY DEF Settled, Accepted, Waiting, StillWaiting, From, Source, Lane, Member
<1>3. \A l : In(sent'[l]) = Accepted(l)
  BY DEF Accepted
<1>4. Known(done'[n], pending'[n], drv'[n].events, Completion) \subseteq Settled(n)'
  <2> SUFFICES ASSUME NEW t \in Known(done'[n], pending'[n], drv'[n].events, Completion)
               PROVE  t \in Settled(n)'
    OBVIOUS
  <2>1. CASE t \in Settled(n)
    <3>1. PICK l \in From(n) : t \in Accepted(l) \ Waiting(l)
      BY <2>1 DEF Settled
    <3> QED
      BY <1>2, <1>3, <3>1
  <2>2. CASE \E l \in From(n) : t \in Accepted(l) \ StillWaiting(l)
    BY <1>2, <1>3, <2>2
  <2> QED
    BY <2>1, <2>2
<1> QED
  BY <1>1, <1>4 DEF Completes

\* They do if the owner reports no new one.
LEMMA CompletesKept ==
  ASSUME NEW n \in Member, Completes(n), sent' = sent,
         \A l \in From(n) : StillWaiting(l) \subseteq Waiting(l), Reports(n)
  PROVE  Completes(n)'
<1>1. \A t \in Known(done'[n], pending'[n], drv'[n].events, Completion) : t \in Settled(n)
  BY DEF Reports, Completes
<1> QED
  BY <1>1, CompletesPrimed DEF Reports

\* An owner with the same events reports the same completions.
LEMMA ReportsSame ==
  ASSUME NEW n \in Member, Completes(n), done'[n] = done[n], pending'[n] = pending[n],
         drv'[n].events = drv[n].events
  PROVE  Reports(n)
BY DEF Completes, Reports

\* So does one that hands some of them over.
LEMMA ReportsRegrouped ==
  ASSUME NEW n \in Member,
         Regrouped(done[n], pending[n], drv[n].events, done'[n], pending'[n], drv'[n].events,
                   Completion, FALSE)
  PROVE  Reports(n)
BY DEF Regrouped, Reports

\* One whose call loses its events reports no new completion.
LEMMA ReportsLost ==
  ASSUME NEW n \in Member, Completes(n), done'[n] = done[n], pending'[n] = pending[n],
         drv'[n].events = <<>>
  PROVE  Reports(n)
<1>1. Ordered(done[n], pending[n], drv[n].events, Completion, FALSE)
  BY DEF Completes
<1>2. Ordered(done[n], pending[n], <<>>, Completion, FALSE)
  BY ONLY <1>1, EventsLost
<1>3. Known(done[n], pending[n], <<>>, Completion)
        \subseteq Known(done[n], pending[n], drv[n].events, Completion)
  BY NoEvents DEF Known
<1> QED
  BY <1>2, <1>3 DEF Reports

\* A step of the owner of n: it accepts nothing, and leaves alone what others drive.
Own(n) ==
  /\ backend' = backend /\ sent' = sent /\ next_ticket' = next_ticket /\ Fades
  /\ visible' = visible \/ visible' = [visible EXCEPT ![n] = TRUE]
  /\ \A m \in Member \ {n} : drv'[m] = drv[m] /\ pending'[m] = pending[m] /\ done'[m] = done[m]
  /\ \A l \in Lane : Destination(l) # n => got'[l] = got[l]
  /\ got' \in [Lane -> Seq(Nat)] /\ done' \in [Member -> Seq(Nat)]
  /\ pending'[n] \in Seq(Event) /\ drv'[n].events \in Seq(Event)
\* What can be read is a sequence of units.
Readable == \A l \in Lane : read'[l] \in Seq(Unit) /\ wire'[l] \in Seq(Unit)

\* An owner is shown errors for good.
LEMMA ShownStays ==
  ASSUME CInv, NEW n \in Member, Own(n), NEW m \in Member, visible[m]
  PROVE  visible'[m]
BY DEF CInv, Kinds, Own

\* A step of an owner keeps the invariant if it keeps every lane, its reports, and the
\* places of its events.
LEMMA OwnStep ==
  ASSUME IInv, IInv', Framing', CInv, NEW n \in Member, Own(n), Readable,
         \A l \in Lane : (Reads(l) /\ Sees(l) /\ Waits(l)) \/ LaneInv(l)',
         \A l \in Lane : StillWaiting(l) \subseteq Waiting(l),
         Completes(n)', Placed(n)'
  PROVE  CInv'
<1>1. Types /\ Kinds /\ Apart /\ \A l \in Lane : LaneInv(l)
  BY DEF IInv, CInv
<1>2. Kinds'
  <2>1. /\ read' = [l \in Lane |-> read'[l]] /\ wire' = [l \in Lane |-> wire'[l]]
        /\ pending' = [m \in Member |-> pending'[m]]
    BY DEF IInv, Types, Framing
  <2>2. read' \in [Lane -> Seq(Unit)] /\ wire' \in [Lane -> Seq(Unit)]
    BY <2>1 DEF Readable
  <2>3. \A m \in Member : pending'[m] \in Seq(Event) /\ drv'[m].events \in Seq(Event)
    BY <1>1 DEF Own, Kinds
  <2>4. visible' \in [Member -> BOOLEAN] /\ sent' \in [Lane -> Seq(Nat)] /\ \A m \in Member : next_ticket'[m] >= 1
    BY <1>1 DEF Own, Kinds
  <2> QED
    BY <2>1, <2>2, <2>3, <2>4 DEF Own, Kinds
<1>3. Apart'
  BY <1>1 DEF Own, Apart, Accepted, Source
<1>4. ASSUME NEW l \in Lane PROVE LaneInv(l)'
  BY <1>1, LaneKept DEF Own
<1>5. ASSUME NEW m \in Member, m # n PROVE Completes(m)' /\ Placed(m)'
  <2>1. Completes(m) /\ Placed(m)
    BY DEF CInv
  <2>2. drv'[m] = drv[m] /\ pending'[m] = pending[m] /\ done'[m] = done[m] /\ sent' = sent
    BY <1>5 DEF Own
  <2>3. Reports(m)
    BY <2>1, <2>2, ReportsSame
  <2>4. Completes(m)'
    BY <2>1, <2>2, <2>3, CompletesKept DEF From
  <2>5. \A l : ArrivalOn(l)' = ArrivalOn(l)
    BY DEF ArrivalOn, Event, Lane, Member
  <2>6. To(m)' = To(m)
    BY DEF To, Destination, Lane, Member
  <2>7. Placed(m)'
    BY <2>1, <2>2, <2>5, <2>6 DEF Placed
  <2> QED
    BY <2>4, <2>7
<1>6. \A m \in Member : Completes(m)' /\ Placed(m)'
  BY <1>5
<1> QED
  BY <1>2, <1>3, <1>4, <1>6 DEF CInv, Lane, Member

\* Where n's events are after a step.
LEMMA PlacedPrimed ==
  ASSUME NEW n \in Member,
         drv'[n].op \in {"idle", "closing", "dead"} => drv'[n].events = <<>>,
         drv'[n].op = "progress" \/ (drv'[n].op = "failing" /\ drv'[n].events # <<>>) =>
           \A l \in To(n) : Marked(pending'[n], ArrivalOn(l)) = {}
  PROVE  Placed(n)'
<1>1. \A l : ArrivalOn(l)' = ArrivalOn(l)
  BY DEF ArrivalOn, Event, Lane, Member
<1>2. To(n)' = To(n)
  BY DEF To, Destination, Lane, Member
<1> QED
  BY <1>1, <1>2 DEF Placed

\* The events of n that its owner is given or keeps, and how.
Hands(n) ==
  /\ \A l \in To(n) : Regrouped(got[l], pending[n], drv[n].events, got'[l], pending'[n], drv'[n].events,
                                ArrivalOn(l), TRUE)
  /\ Regrouped(done[n], pending[n], drv[n].events, done'[n], pending'[n], drv'[n].events,
               Completion, FALSE)

\* What a lane's receiver sees when another owner makes a step.
LEMMA SeesOther ==
  ASSUME CInv, NEW n \in Member, Own(n), NEW l \in Lane, Destination(l) # n
  PROVE  Sees(l)
<1>1. Destination(l) \in Member \ {n}
  BY LaneFacts
<1> QED
  BY <1>1, SeesSame, ShownStays DEF Own

\* What the receiver sees is kept when it is handed over.
LEMMA SeesHanded ==
  ASSUME CInv, NEW n \in Member, Own(n), Hands(n), NEW l \in Lane
  PROVE  Sees(l)
<1>1. CASE Destination(l) = n
  <2>1. l \in To(n)
    BY <1>1 DEF To
  <2> QED
    BY <1>1, <2>1, ShownStays, SeesRegrouped DEF Hands
<1>2. CASE Destination(l) # n
  BY <1>2, SeesOther
<1> QED
  BY <1>1, <1>2

\* A call that hands over events or keeps them.
LEMMA HandsStep ==
  ASSUME IInv, IInv', Framing', CInv, NEW n \in Member, Own(n), Hands(n),
         \A l \in Lane : Reads(l) /\ Waits(l), Placed(n)'
  PROVE  CInv'
<1>1. \A l \in Lane : Sees(l)
  BY SeesHanded
<1>2. Readable /\ \A l \in Lane : StillWaiting(l) \subseteq Waiting(l)
  BY DEF Reads, Waits, Readable
<1>3. Completes(n)'
  <2>1. Completes(n) /\ Reports(n) /\ sent' = sent
    BY ReportsRegrouped DEF CInv, Hands, Own
  <2> QED
    BY <1>2, <2>1, CompletesKept DEF From
<1> QED
  BY <1>1, <1>2, <1>3, OwnStep

\* A call that loses the events of its driver.
LEMMA LosesStep ==
  ASSUME IInv, IInv', Framing', CInv, NEW n \in Member, Own(n), got' = got, done' = done,
         pending' = pending, drv'[n].events = <<>>, Works(n)' => visible'[n],
         \A l \in Lane : Reads(l) /\ Waits(l), Placed(n)'
  PROVE  CInv'
<1>1. \A l \in Lane : Sees(l)
  <2> SUFFICES ASSUME NEW l \in Lane PROVE Sees(l)
    OBVIOUS
  <2>1. CASE Destination(l) = n
    BY <2>1, SeesLost, ShownStays
  <2>2. CASE Destination(l) # n
    BY <2>2, SeesOther
  <2> QED
    BY <2>1, <2>2
<1>2. Readable /\ \A l \in Lane : StillWaiting(l) \subseteq Waiting(l)
  BY DEF Reads, Waits, Readable
<1>3. Completes(n)'
  <2>1. Completes(n) /\ Reports(n) /\ sent' = sent
    BY ReportsLost DEF CInv, Own
  <2> QED
    BY <1>2, <2>1, CompletesKept DEF From
<1> QED
  BY <1>1, <1>2, <1>3, OwnStep

\* A call that keeps its events where they are.
LEMMA SameStep ==
  ASSUME IInv, IInv', Framing', CInv, NEW n \in Member, Own(n), got' = got, done' = done,
         pending' = pending, drv'[n].events = drv[n].events,
         \A l \in Lane : Reads(l) /\ Waits(l), Placed(n)'
  PROVE  CInv'
<1>1. \A l \in Lane : Sees(l)
  <2> SUFFICES ASSUME NEW l \in Lane PROVE Sees(l)
    OBVIOUS
  <2>1. CASE Destination(l) = n
    BY <2>1, SeesSame, ShownStays
  <2>2. CASE Destination(l) # n
    BY <2>2, SeesOther
  <2> QED
    BY <2>1, <2>2
<1>2. Readable /\ \A l \in Lane : StillWaiting(l) \subseteq Waiting(l)
  BY DEF Reads, Waits, Readable
<1>3. Completes(n)'
  <2>1. Completes(n) /\ Reports(n) /\ sent' = sent
    BY ReportsSame DEF CInv, Own
  <2> QED
    BY <1>2, <2>1, CompletesKept DEF From
<1> QED
  BY <1>1, <1>2, <1>3, OwnStep

-----------------------------------------------------------------------------
(* The calls of the owner.                                                  *)

\* events.extend.
LEMMA GiveFacts ==
  ASSUME Kinds, NEW n \in Member, NEW es \in Seq(Event), Give(n, es)
  PROVE  /\ got' \in [Lane -> Seq(Nat)] /\ done' \in [Member -> Seq(Nat)]
         /\ \A l \in To(n) : got'[l] = got[l] \o Tickets(es, Places(es, ArrivalOn(l)))
         /\ \A l \in Lane : Destination(l) # n => got'[l] = got[l]
         /\ done'[n] = done[n] \o Tickets(es, Places(es, Completion))
         /\ \A m \in Member \ {n} : done'[m] = done[m]
<1>1. \A M : Tickets(es, Places(es, M)) \in Seq(Nat)
  BY TicketsCollected DEF Collected
<1>2. /\ \A l : Arrivals(es, l) = Places(es, ArrivalOn(l))
      /\ Completions(es) = Places(es, Completion)
  BY GivenPlaces
<1>3. got' = [l \in Lane |-> IF Destination(l) = n
                             THEN got[l] \o Tickets(es, Places(es, ArrivalOn(l))) ELSE got[l]]
  BY <1>2 DEF Give
<1>4. done' = [done EXCEPT ![n] = done[n] \o Tickets(es, Places(es, Completion))]
  BY <1>2 DEF Give, Kinds
<1>5. done[n] \o Tickets(es, Places(es, Completion)) \in Seq(Nat)
  <2>1. done[n] \in Seq(Nat) /\ Tickets(es, Places(es, Completion)) \in Seq(Nat)
    BY <1>1 DEF Kinds
  <2> QED
    BY <2>1
<1>6. done' \in [Member -> Seq(Nat)] /\ \A m \in Member \ {n} : done'[m] = done[m]
  BY <1>4, <1>5 DEF Kinds
<1>7. done'[n] = done[n] \o Tickets(es, Places(es, Completion))
  BY <1>4 DEF Kinds
<1>8. ASSUME NEW l \in Lane PROVE got[l] \o Tickets(es, Places(es, ArrivalOn(l))) \in Seq(Nat)
  <2>1. got[l] \in Seq(Nat) /\ Tickets(es, Places(es, ArrivalOn(l))) \in Seq(Nat)
    BY <1>1 DEF Kinds
  <2> QED
    BY <2>1
<1>9. got' \in [Lane -> Seq(Nat)]
  BY <1>3, <1>8 DEF Kinds
<1> QED
  BY <1>3, <1>6, <1>7, <1>9 DEF To

\* Events are in order: those of every lane, and completions.
LEMMA HandsWhere ==
  ASSUME CInv, NEW n \in Member
  PROVE  /\ \A l \in To(n) : got[l] \in Seq(Nat)
                             /\ Ordered(got[l], pending[n], drv[n].events, ArrivalOn(l), TRUE)
         /\ done[n] \in Seq(Nat) /\ Ordered(done[n], pending[n], drv[n].events, Completion, FALSE)
BY DEF CInv, Kinds, LaneInv, Completes, To

\* A call that touches no lane.
LEMMA CallFlow ==
  ASSUME CInv, receivers' = receivers, writes' = writes, read' = read, wire' = wire
  PROVE  \A l \in Lane : Reads(l) /\ Waits(l)
<1> SUFFICES ASSUME NEW l \in Lane PROVE Reads(l) /\ Waits(l)
  OBVIOUS
<1>1. Waits(l)
  BY WaitsSame
<1>2. read'[l] \in Seq(Unit) /\ wire'[l] \in Seq(Unit) /\ Kinds
  BY DEF CInv, Kinds
<1> QED
  BY <1>1, <1>2, ReadsSame

\* A call that sets its driver.
LEMMA CallFades ==
  ASSUME IInv, NEW n \in Member, drv' = drv \/ \E r : drv' = [drv EXCEPT ![n] = r],
         \A m \in Member : (failed[m] => failed'[m]) /\ (shutdown[m] => shutdown'[m]),
         drv[n].op \notin {"failing", "dead"} \/ failed'[n] \/ drv'[n].op \in {"failing", "dead"}
  PROVE  Fades /\ \A m \in Member \ {n} : drv'[m] = drv[m]
<1>1. Types
  BY DEF IInv
<1>2. \A m \in Member : m # n => drv'[m] = drv[m]
  BY <1>1 DEF Types
<1> QED
  BY <1>2 DEF Fades, Works

\* The first k events, and the others.
LEMMA Split ==
  ASSUME NEW S, NEW p \in Seq(S), NEW k \in 0..Len(p)
  PROVE  /\ SubSeq(p, 1, k) \in Seq(S) /\ SubSeq(p, k + 1, Len(p)) \in Seq(S)
         /\ p = SubSeq(p, 1, k) \o SubSeq(p, k + 1, Len(p))
         /\ k = Len(p) => SubSeq(p, 1, k) = p /\ SubSeq(p, k + 1, Len(p)) = <<>>
<1>0. Len(p) \in Nat
  OBVIOUS
<1>1. SubSeq(p, 1, k) \in Seq(S) /\ SubSeq(p, k + 1, Len(p)) \in Seq(S)
  <2>1. \A i \in 1..k : p[i] \in S
    BY <1>0
  <2>2. \A i \in (k + 1)..Len(p) : p[i] \in S
    BY <1>0
  <2> QED
    BY <1>0, <2>1, <2>2, SubSeqProperties
<1>2. SubSeq(p, 1, k) \o SubSeq(p, k + 1, Len(p)) = SubSeq(p, 1, Len(p))
  <2>1. 1 \in 1..(Len(p) + 1) /\ k \in (1 - 1)..Len(p) /\ Len(p) \in k..Len(p)
    BY <1>0
  <2> QED
    BY <2>1, ConcatAdjacentSubSeq
<1>3. SubSeq(p, 1, Len(p)) = p
  BY SubSeqFull
<1>4. k = Len(p) => SubSeq(p, k + 1, Len(p)) = <<>>
  BY <1>0, SubSeqEmpty
<1> QED
  BY <1>1, <1>2, <1>3, <1>4

\* The state that a driver is set to.
LEMMA DrvSetTo ==
  ASSUME IInv, NEW n \in Member, NEW r, drv' = [drv EXCEPT ![n] = r]
  PROVE  drv'[n] = r
BY DEF IInv, Types

\* drive's events, after progress has taken all pending ones or filled its limit.
LEMMA ProgressKeeps ==
  ASSUME IInv, IInv', Framing', CInv, NEW n \in Member, Progress(n)
  PROVE  CInv' /\ Hands(n) /\ Own(n)
<1> DEFINE k == IF Len(pending[n]) < MaxEvents THEN Len(pending[n]) ELSE MaxEvents
           p == pending[n]
           a == SubSeq(p, 1, k)
           b == SubSeq(p, k + 1, Len(p))
<1>0. Types /\ Kinds /\ Placed(n)
  BY DEF IInv, CInv
<1>1. p \in Seq(Event) /\ Len(p) \in Nat /\ k \in 0..Len(p) /\ (k < MaxEvents => k = Len(p))
  <2>1. p \in Seq(Event) /\ MaxEvents \in Nat
    BY <1>0, TransportAssumption DEF Kinds
  <2> QED
    BY <2>1
<1>2. a \in Seq(Event) /\ b \in Seq(Event) /\ p = a \o b /\ (k = Len(p) => a = p /\ b = <<>>)
  <2>1. p \in Seq(Event) /\ k \in 0..Len(p)
    BY <1>1
  <2> HIDE DEF k, p
  <2>2. SubSeq(p, 1, k) \in Seq(Event) /\ SubSeq(p, k + 1, Len(p)) \in Seq(Event)
    BY ONLY <2>1, Split
  <2>3. p = SubSeq(p, 1, k) \o SubSeq(p, k + 1, Len(p))
    BY ONLY <2>1, Split
  <2>4. k = Len(p) => SubSeq(p, 1, k) = p /\ SubSeq(p, k + 1, Len(p)) = <<>>
    BY ONLY <2>1, Split
  <2> QED
    BY ONLY <2>2, <2>3, <2>4, Zenon DEF a, b
<1>3. /\ drv[n].op = "idle" /\ ~failed[n] /\ ~shutdown[n]
      /\ backend' = backend /\ receivers' = receivers /\ writes' = writes /\ read' = read /\ wire' = wire
      /\ next_ticket' = next_ticket /\ failed' = failed /\ shutdown' = shutdown /\ sent' = sent
      /\ visible' = visible
  BY DEF Progress, flow
<1>4. drv[n].events = <<>>
  BY <1>0, <1>3 DEF Placed
<1>5. pending'[n] = b /\ \A m \in Member \ {n} : pending'[m] = pending[m]
  BY <1>0 DEF Progress, Types
<1>6. drv' = drv \/ \E r : drv' = [drv EXCEPT ![n] = r]
  BY DEF Progress
<1>7. Fades /\ \A m \in Member \ {n} : drv'[m] = drv[m]
  BY <1>3, <1>6, CallFades
<1>8. \A l \in Lane : Reads(l) /\ Waits(l)
  BY <1>3, CallFlow
<1>9. /\ \A l \in To(n) : got[l] \in Seq(Nat) /\ Ordered(got[l], p, <<>>, ArrivalOn(l), TRUE)
      /\ done[n] \in Seq(Nat) /\ Ordered(done[n], p, <<>>, Completion, FALSE)
  BY <1>4, HandsWhere
<1>10. CASE k < MaxEvents
  <2>1. drv' = [drv EXCEPT ![n] = [op |-> "progress", at |-> 1, events |-> a]] /\ got' = got /\ done' = done
    BY <1>10 DEF Progress
  <2>2. drv'[n].events = p /\ drv'[n].op = "progress" /\ pending'[n] = <<>>
    BY <1>0, <1>1, <1>2, <1>5, <1>10, <2>1 DEF Types
  <2> HIDE DEF k, p, a, b
  <2>3. /\ \A l \in To(n) : Regrouped(got[l], p, <<>>, got[l], <<>>, p, ArrivalOn(l), TRUE)
        /\ Regrouped(done[n], p, <<>>, done[n], <<>>, p, Completion, FALSE)
    BY <1>1, <1>9, PendingMoved
  <2>4. Hands(n)
    BY <1>4, <2>1, <2>2, <2>3 DEF Hands, p
  <2>5. Own(n)
    <3>1. <<>> \in Seq(Event) /\ got' \in [Lane -> Seq(Nat)] /\ done' \in [Member -> Seq(Nat)]
      BY <1>0, <2>1 DEF Kinds
    <3> QED
      BY <1>1, <1>3, <1>5, <1>7, <2>1, <2>2, <3>1 DEF Own
  <2>6. Placed(n)'
    BY <2>2, NoEvents, PlacedPrimed
  <2> QED
    BY <1>8, <2>4, <2>5, <2>6, HandsStep
<1>11. CASE ~(k < MaxEvents)
  <2>1. drv' = drv /\ Give(n, a)
    BY <1>11 DEF Progress
  <2> HIDE DEF k, p, a, b
  <2>2. /\ got' \in [Lane -> Seq(Nat)] /\ done' \in [Member -> Seq(Nat)]
        /\ \A l \in To(n) : got'[l] = got[l] \o Tickets(a, Places(a, ArrivalOn(l)))
        /\ \A l \in Lane : Destination(l) # n => got'[l] = got[l]
        /\ done'[n] = done[n] \o Tickets(a, Places(a, Completion))
        /\ \A m \in Member \ {n} : done'[m] = done[m]
    BY <1>0, <1>2, <2>1, GiveFacts
  <2>3. ASSUME NEW l \in To(n)
        PROVE  Regrouped(got[l], p, <<>>, got'[l], b, <<>>, ArrivalOn(l), TRUE)
    <3>1. got[l] \in Seq(Nat) /\ Ordered(got[l], a \o b, <<>>, ArrivalOn(l), TRUE)
      BY <1>2, <1>9
    <3> QED
      BY <1>2, <2>2, <3>1, FrontGiven
  <2>4. Regrouped(done[n], p, <<>>, done'[n], b, <<>>, Completion, FALSE)
    <3>1. done[n] \in Seq(Nat) /\ Ordered(done[n], a \o b, <<>>, Completion, FALSE)
      BY <1>2, <1>9
    <3> QED
      BY <1>2, <2>2, <3>1, FrontGiven
  <2>5. Hands(n)
    BY <1>4, <1>5, <2>1, <2>3, <2>4 DEF Hands, p
  <2>6. Own(n)
    <3>1. drv'[n].events \in Seq(Event)
      BY <1>0, <2>1 DEF Kinds
    <3> QED
      BY <1>2, <1>3, <1>5, <1>7, <2>2, <3>1 DEF Own
  <2>7. Placed(n)'
    BY <1>3, <1>4, <2>1, PlacedPrimed
  <2> QED
    BY <1>8, <2>5, <2>6, <2>7, HandsStep
<1> QED
  BY <1>10, <1>11

\* How a call begins and returns: it has no events then.
LEMMA NewCall ==
  /\ Idle.op = "idle" /\ Idle.events = <<>>
  /\ \A op : /\ Flushed(op).op \in {"idle", "closing"} /\ Flushed(op).events = <<>>
             /\ Driven(op).op = op /\ Driven(op).events = <<>>
BY DEF Idle, Flushed, Driven

\* A call returns its events to its caller.
LEMMA ReturnKeeps ==
  ASSUME IInv, IInv', Framing', CInv, NEW n \in Member, drv[n].op \in {"progress", "failing"},
         Give(n, drv[n].events), drv' = [drv EXCEPT ![n] = Idle], pending' = pending, Fades,
         receivers' = receivers, writes' = writes, read' = read, wire' = wire,
         backend' = backend, sent' = sent, next_ticket' = next_ticket,
         visible' = visible \/ visible' = [visible EXCEPT ![n] = TRUE]
  PROVE  CInv' /\ Hands(n) /\ Own(n)
<1> DEFINE p == pending[n]
           e == drv[n].events
<1>0. Types /\ Kinds /\ Placed(n)
  BY DEF IInv, CInv
<1>1. p \in Seq(Event) /\ e \in Seq(Event)
  BY <1>0 DEF Kinds
<1>2. drv'[n] = Idle /\ \A m \in Member \ {n} : drv'[m] = drv[m]
  BY <1>0 DEF Types
<1>3. drv'[n].op = "idle" /\ drv'[n].events = <<>> /\ <<>> \in Seq(Event)
  BY <1>2, NewCall
<1>4. \A l \in Lane : Reads(l) /\ Waits(l)
  BY CallFlow
<1>5. /\ got' \in [Lane -> Seq(Nat)] /\ done' \in [Member -> Seq(Nat)]
      /\ \A l \in To(n) : got'[l] = got[l] \o Tickets(e, Places(e, ArrivalOn(l)))
      /\ \A l \in Lane : Destination(l) # n => got'[l] = got[l]
      /\ done'[n] = done[n] \o Tickets(e, Places(e, Completion))
      /\ \A m \in Member \ {n} : done'[m] = done[m]
  BY <1>0, <1>1, GiveFacts
<1>6. /\ \A l \in To(n) : got[l] \in Seq(Nat) /\ Ordered(got[l], p, e, ArrivalOn(l), TRUE)
      /\ done[n] \in Seq(Nat) /\ Ordered(done[n], p, e, Completion, FALSE)
  BY HandsWhere
<1>7. \A l \in To(n) : Marked(p, ArrivalOn(l)) = {} \/ Marked(e, ArrivalOn(l)) = {}
  BY <1>0, NoEvents DEF Placed
<1> HIDE DEF p, e
<1>8. ASSUME NEW l \in To(n)
      PROVE  Regrouped(got[l], p, e, got'[l], p, <<>>, ArrivalOn(l), TRUE)
  <2>1. /\ got[l] \in Seq(Nat) /\ Ordered(got[l], p, e, ArrivalOn(l), TRUE)
        /\ Marked(p, ArrivalOn(l)) = {} \/ Marked(e, ArrivalOn(l)) = {} \/ TRUE = FALSE
    BY <1>6, <1>7
  <2>2. Regrouped(got[l], p, e, got[l] \o Tickets(e, Places(e, ArrivalOn(l))), p, <<>>, ArrivalOn(l), TRUE)
    BY <1>1, <2>1, EventsGiven
  <2> QED
    BY <1>5, <2>2
<1>9. Regrouped(done[n], p, e, done'[n], p, <<>>, Completion, FALSE)
  <2>1. /\ done[n] \in Seq(Nat) /\ Ordered(done[n], p, e, Completion, FALSE)
        /\ Marked(p, Completion) = {} \/ Marked(e, Completion) = {} \/ FALSE = FALSE
    BY <1>6
  <2>2. Regrouped(done[n], p, e, done[n] \o Tickets(e, Places(e, Completion)), p, <<>>, Completion, FALSE)
    BY <1>1, <2>1, EventsGiven
  <2> QED
    BY <1>5, <2>2
<1>10. Hands(n)
  BY <1>3, <1>8, <1>9 DEF Hands, p, e
<1>11. Own(n)
  BY <1>1, <1>2, <1>3, <1>5 DEF Own, p
<1>12. Placed(n)'
  BY <1>3, PlacedPrimed
<1> QED
  BY <1>4, <1>10, <1>11, <1>12, HandsStep

\* progress returns the events it has collected.
LEMMA ProgressDoneKeeps ==
  ASSUME IInv, IInv', Framing', CInv, NEW n \in Member, ProgressDone(n)
  PROVE  CInv' /\ Hands(n) /\ Own(n)
<1>1. /\ drv[n].op = "progress" /\ Give(n, drv[n].events) /\ drv' = [drv EXCEPT ![n] = Idle]
      /\ receivers' = receivers /\ writes' = writes /\ read' = read /\ wire' = wire
      /\ backend' = backend /\ sent' = sent /\ next_ticket' = next_ticket /\ pending' = pending
      /\ failed' = failed /\ shutdown' = shutdown /\ visible' = visible
  BY DEF ProgressDone, flow
<1>2. Fades
  BY <1>1, CallFades
<1> QED
  BY <1>1, <1>2, ReturnKeeps

\* A failing call returns the events it has collected, with its error.
LEMMA FailCloseKeeps ==
  ASSUME IInv, IInv', Framing', CInv, NEW n \in Member, FailClose(n)
  PROVE  CInv' /\ Hands(n) /\ Own(n)
<1>1. /\ drv[n].op = "failing" /\ Give(n, drv[n].events) /\ drv' = [drv EXCEPT ![n] = Idle]
      /\ receivers' = receivers /\ writes' = writes /\ read' = read /\ wire' = wire
      /\ backend' = backend /\ sent' = sent /\ next_ticket' = next_ticket /\ pending' = pending
      /\ failed' = [failed EXCEPT ![n] = TRUE] /\ shutdown' = shutdown
      /\ visible' = [visible EXCEPT ![n] = TRUE]
  BY DEF FailClose, flow, Show
<1>2. failed'[n] /\ \A m \in Member : failed[m] => failed'[m]
  BY <1>1 DEF IInv, Types
<1>3. Fades
  BY <1>1, <1>2, CallFades
<1> QED
  BY <1>1, <1>3, ReturnKeeps

\* The beginning of flush and of shutdown.
LEMMA BeginKeeps ==
  ASSUME IInv, IInv', Framing', CInv, NEW n \in Member, Flush(n) \/ Shutdown(n)
  PROVE  CInv' /\ UNCHANGED <<sent, got, done, visible>>
<1>0. Types /\ Kinds /\ Placed(n)
  BY DEF IInv, CInv
<1>1. /\ drv[n].op = "idle"
      /\ receivers' = receivers /\ writes' = writes /\ read' = read /\ wire' = wire
      /\ backend' = backend /\ sent' = sent /\ next_ticket' = next_ticket /\ pending' = pending
      /\ failed' = failed /\ shutdown' = shutdown /\ visible' = visible /\ got' = got /\ done' = done
  BY DEF Flush, Shutdown, flow, history
<1>2. PICK r : /\ drv' = [drv EXCEPT ![n] = r]
               /\ r = Driven("flush") \/ r = Driven("shutdown") \/ r = Flushed("shutdown")
  BY DEF Flush, Shutdown
<1>3. drv'[n] = r /\ r.events = <<>> /\ r.op \in {"flush", "shutdown", "idle", "closing"}
  BY <1>2, NewCall, DrvSetTo
<1>4. drv[n].events = <<>> /\ <<>> \in Seq(Event)
  BY <1>0, <1>1 DEF Placed
<1>5. Fades /\ \A m \in Member \ {n} : drv'[m] = drv[m]
  BY <1>1, <1>2, CallFades
<1>6. \A l \in Lane : Reads(l) /\ Waits(l)
  BY <1>1, CallFlow
<1>7. Own(n)
  BY <1>0, <1>1, <1>3, <1>4, <1>5 DEF Own, Kinds
<1>8. Placed(n)'
  BY <1>3, PlacedPrimed
<1> QED
  BY <1>1, <1>3, <1>4, <1>6, <1>7, <1>8, SameStep

\* The end of a drive of flush.
LEMMA FlushEndIs ==
  ASSUME NEW n \in Member, NEW fits \in BOOLEAN, FlushEnd(n, fits)
  PROVE  /\ drv[n].op \in {"flush", "shutdown"}
         /\ receivers' = receivers /\ writes' = writes /\ read' = read /\ wire' = wire
         /\ backend' = backend /\ sent' = sent /\ next_ticket' = next_ticket
         /\ failed' = failed /\ shutdown' = shutdown /\ got' = got /\ done' = done
BY DEF FlushEnd, flow

\* flush has no room for an event: it loses those of its call and shows the error.
LEMMA FlushOverflowKeeps ==
  ASSUME IInv, IInv', Framing', CInv, NEW n \in Member, FlushOverflow(n)
  PROVE  CInv' /\ Own(n) /\ got' = got /\ done' = done
<1>0. Types /\ Kinds
  BY DEF IInv, CInv
<1>1. /\ drv[n].op \in {"flush", "shutdown"}
      /\ receivers' = receivers /\ writes' = writes /\ read' = read /\ wire' = wire
      /\ backend' = backend /\ sent' = sent /\ next_ticket' = next_ticket
      /\ failed' = failed /\ shutdown' = shutdown /\ got' = got /\ done' = done
  BY FlushEndIs DEF FlushOverflow
<1>2. /\ drv' = [drv EXCEPT ![n] = Idle] /\ pending' = pending
      /\ visible' = [visible EXCEPT ![n] = TRUE]
  BY DEF FlushOverflow, Show
<1>3. drv'[n].op = "idle" /\ drv'[n].events = <<>> /\ <<>> \in Seq(Event)
  <2>1. drv'[n] = Idle
    BY <1>2, DrvSetTo
  <2> QED
    BY <2>1, NewCall
<1>4. Fades /\ \A m \in Member \ {n} : drv'[m] = drv[m]
  BY <1>1, <1>2, CallFades
<1>5. \A l \in Lane : Reads(l) /\ Waits(l)
  BY <1>1, CallFlow
<1>6. Own(n)
  BY <1>0, <1>1, <1>2, <1>3, <1>4 DEF Own, Kinds
<1>7. Placed(n)'
  BY <1>3, PlacedPrimed
<1>8. visible'[n]
  BY <1>0, <1>2 DEF Kinds
<1> QED
  BY <1>1, <1>2, <1>3, <1>5, <1>6, <1>7, <1>8, LosesStep

\* flush adds the events of its drive to the pending ones.
LEMMA FlushKeepsEvents ==
  ASSUME IInv, IInv', Framing', CInv, NEW n \in Member, FlushTimeout(n) \/ FlushAgain(n)
  PROVE  CInv' /\ UNCHANGED <<sent, got, done, visible>>
<1> DEFINE p == pending[n]
           e == drv[n].events
<1>0. Types /\ Kinds
  BY DEF IInv, CInv
<1>1. /\ drv[n].op \in {"flush", "shutdown"}
      /\ receivers' = receivers /\ writes' = writes /\ read' = read /\ wire' = wire
      /\ backend' = backend /\ sent' = sent /\ next_ticket' = next_ticket
      /\ failed' = failed /\ shutdown' = shutdown /\ got' = got /\ done' = done
  BY FlushEndIs DEF FlushTimeout, FlushAgain
<1>2. /\ pending' = [pending EXCEPT ![n] = p \o e] /\ visible' = visible
  BY <1>0 DEF FlushTimeout, FlushAgain, Types
<1>3. PICK r : /\ drv' = [drv EXCEPT ![n] = r]
               /\ r = Idle \/ r = Flushed(drv[n].op) \/ r = Driven(drv[n].op)
  BY <1>0 DEF FlushTimeout, FlushAgain, Types
<1>4. drv'[n] = r /\ r.events = <<>> /\ r.op \in {"flush", "shutdown", "idle", "closing"}
  <2>1. drv'[n] = r
    BY <1>3, DrvSetTo
  <2> QED
    BY <1>1, <1>3, <2>1, NewCall
<1>5. Fades /\ \A m \in Member \ {n} : drv'[m] = drv[m]
  BY <1>1, <1>3, CallFades
<1>6. \A l \in Lane : Reads(l) /\ Waits(l)
  BY <1>1, CallFlow
<1>7. p \in Seq(Event) /\ e \in Seq(Event) /\ p \o e \in Seq(Event) /\ <<>> \in Seq(Event)
  <2>1. p \in Seq(Event) /\ e \in Seq(Event)
    BY <1>0 DEF Kinds
  <2> HIDE DEF p, e
  <2> QED
    BY <2>1
<1>8. pending'[n] = p \o e /\ \A m \in Member \ {n} : pending'[m] = pending[m]
  BY <1>0, <1>2 DEF Types
<1>9. /\ \A l \in To(n) : got[l] \in Seq(Nat) /\ Ordered(got[l], p, e, ArrivalOn(l), TRUE)
      /\ done[n] \in Seq(Nat) /\ Ordered(done[n], p, e, Completion, FALSE)
  BY HandsWhere
<1> HIDE DEF p, e
<1>10. ASSUME NEW l \in To(n)
       PROVE  Regrouped(got[l], p, e, got[l], p \o e, <<>>, ArrivalOn(l), TRUE)
  BY <1>7, <1>9, EventsKept
<1>11. Regrouped(done[n], p, e, done[n], p \o e, <<>>, Completion, FALSE)
  BY <1>7, <1>9, EventsKept
<1>12. Hands(n)
  BY <1>1, <1>4, <1>8, <1>10, <1>11 DEF Hands, p, e
<1>13. Own(n)
  BY <1>0, <1>1, <1>2, <1>4, <1>5, <1>7, <1>8 DEF Own, Kinds
<1>14. Placed(n)'
  BY <1>4, PlacedPrimed
<1> QED
  BY <1>1, <1>2, <1>6, <1>12, <1>13, <1>14, HandsStep

\* A process dies, and what its call had read with it.
LEMMA CrashKeeps ==
  ASSUME IInv, IInv', Framing', CInv, NEW n \in Member, Crash(n)
  PROVE  CInv' /\ UNCHANGED <<sent, got, done, visible>>
<1> DEFINE r == [Idle EXCEPT !.op = "dead"]
<1>0. Types /\ Kinds
  BY DEF IInv, CInv
<1>1. /\ drv' = [drv EXCEPT ![n] = r]
      /\ receivers' = receivers /\ writes' = writes /\ read' = read /\ wire' = wire
      /\ backend' = backend /\ sent' = sent /\ next_ticket' = next_ticket /\ pending' = pending
      /\ failed' = failed /\ shutdown' = shutdown /\ visible' = visible /\ got' = got /\ done' = done
  BY DEF Crash, flow, history
<1>2. r.op = "dead" /\ r.events = <<>> /\ <<>> \in Seq(Event)
  BY DEF Idle
<1> HIDE DEF r
<1>3. drv'[n] = r
  BY <1>1, DrvSetTo
<1>4. Fades /\ \A m \in Member \ {n} : drv'[m] = drv[m]
  BY <1>1, <1>2, <1>3, CallFades
<1>5. \A l \in Lane : Reads(l) /\ Waits(l)
  BY <1>1, CallFlow
<1>6. Own(n)
  BY <1>0, <1>1, <1>2, <1>3, <1>4 DEF Own, Kinds
<1>7. Placed(n)'
  BY <1>2, <1>3, PlacedPrimed
<1>8. ~Works(n)'
  BY <1>2, <1>3 DEF Works
<1> QED
  BY <1>1, <1>2, <1>3, <1>5, <1>6, <1>7, <1>8, LosesStep

\* The end of shutdown.
LEMMA ShutdownDoneKeeps ==
  ASSUME IInv, IInv', Framing', CInv, NEW n \in Member, ShutdownDone(n)
  PROVE  CInv' /\ Hands(n) /\ Own(n)
<1> DEFINE p == pending[n]
<1>0. Types /\ Kinds /\ Placed(n)
  BY DEF IInv, CInv
<1>1. /\ backend' = backend /\ receivers' = receivers /\ wire' = wire /\ sent' = sent
      /\ next_ticket' = next_ticket /\ drv' = [drv EXCEPT ![n] = Idle] /\ drv[n].op = "closing"
      /\ shutdown' = [shutdown EXCEPT ![n] = TRUE] /\ pending' = [pending EXCEPT ![n] = <<>>]
      /\ failed' = [failed EXCEPT ![n] = failed[n] \/ Partial(n)] /\ Give(n, p)
  BY <1>0 DEF ShutdownDone, Types
<1>2. writes' = writes
  BY ShutdownKeepsWrites
<1>3. visible' = visible \/ visible' = [visible EXCEPT ![n] = TRUE]
  <2>1. visible' = [visible EXCEPT ![n] = visible[n] \/ Partial(n)] /\ visible \in [Member -> BOOLEAN]
    BY <1>0 DEF ShutdownDone, Kinds
  <2>2. CASE Partial(n)
    BY <2>1, <2>2
  <2>3. CASE ~Partial(n)
    BY <2>1, <2>3
  <2> QED
    BY <2>2, <2>3
<1>4. drv'[n].op = "idle" /\ drv'[n].events = <<>> /\ drv[n].events = <<>> /\ <<>> \in Seq(Event)
  <2>1. drv'[n] = Idle
    BY <1>1, DrvSetTo
  <2> QED
    BY <1>0, <1>1, <2>1, NewCall DEF Placed
<1>5. shutdown'[n] /\ \A m \in Member : (shutdown[m] => shutdown'[m]) /\ (failed[m] => failed'[m])
  BY <1>0, <1>1 DEF Types
<1>6. Fades /\ \A m \in Member \ {n} : drv'[m] = drv[m]
  BY <1>1, <1>5, CallFades
<1>7. ~Works(n)'
  BY <1>5 DEF Works
<1>8. ASSUME NEW l \in Lane PROVE Reads(l) /\ Waits(l)
  <2>1. Waits(l)
    BY <1>1, <1>2, WaitsSame
  <2>2. read' = [k \in Lane |-> IF Destination(k) = n THEN <<>> ELSE read[k]]
    BY DEF ShutdownDone
  <2>3. CASE Destination(l) = n
    <3>1. read'[l] = <<>> /\ wire'[l] = wire[l] /\ ~Works(Destination(l))'
      <4>1. Destination(l)' = n
        BY <2>3 DEF Destination
      <4> QED
        BY <1>1, <1>7, <2>2, <2>3, <4>1
    <3> QED
      BY <1>0, <2>1, <3>1, ReadsDropped
  <2>4. CASE Destination(l) # n
    <3>1. read'[l] = read[l] /\ wire'[l] = wire[l] /\ read[l] \in Seq(Unit) /\ wire[l] \in Seq(Unit)
      BY <1>0, <1>1, <2>2, <2>4 DEF Kinds
    <3> QED
      BY <1>0, <2>1, <3>1, ReadsStay
  <2> QED
    BY <2>1, <2>3, <2>4
<1>9. p \in Seq(Event) /\ p = p \o <<>>
  <2>1. p \in Seq(Event)
    BY <1>0 DEF Kinds
  <2> HIDE DEF p
  <2> QED
    BY <2>1
<1>10. pending'[n] = <<>> /\ \A m \in Member \ {n} : pending'[m] = pending[m]
  BY <1>0, <1>1 DEF Types
<1>11. /\ got' \in [Lane -> Seq(Nat)] /\ done' \in [Member -> Seq(Nat)]
       /\ \A l \in To(n) : got'[l] = got[l] \o Tickets(p, Places(p, ArrivalOn(l)))
       /\ \A l \in Lane : Destination(l) # n => got'[l] = got[l]
       /\ done'[n] = done[n] \o Tickets(p, Places(p, Completion))
       /\ \A m \in Member \ {n} : done'[m] = done[m]
  BY <1>0, <1>1, <1>9, GiveFacts
<1>12. /\ \A l \in To(n) : got[l] \in Seq(Nat) /\ Ordered(got[l], p, <<>>, ArrivalOn(l), TRUE)
       /\ done[n] \in Seq(Nat) /\ Ordered(done[n], p, <<>>, Completion, FALSE)
  BY <1>4, HandsWhere
<1> HIDE DEF p
<1>13. ASSUME NEW l \in To(n)
       PROVE  Regrouped(got[l], p, <<>>, got'[l], <<>>, <<>>, ArrivalOn(l), TRUE)
  <2>1. Ordered(got[l], p \o <<>>, <<>>, ArrivalOn(l), TRUE) /\ got[l] \in Seq(Nat)
    BY <1>9, <1>12
  <2>2. Regrouped(got[l], p \o <<>>, <<>>, got[l] \o Tickets(p, Places(p, ArrivalOn(l))), <<>>, <<>>,
                  ArrivalOn(l), TRUE)
    BY <1>4, <1>9, <2>1, FrontGiven
  <2> QED
    BY <1>9, <1>11, <2>2
<1>14. Regrouped(done[n], p, <<>>, done'[n], <<>>, <<>>, Completion, FALSE)
  <2>1. Ordered(done[n], p \o <<>>, <<>>, Completion, FALSE) /\ done[n] \in Seq(Nat)
    BY <1>9, <1>12
  <2>2. Regrouped(done[n], p \o <<>>, <<>>, done[n] \o Tickets(p, Places(p, Completion)), <<>>, <<>>,
                  Completion, FALSE)
    BY <1>4, <1>9, <2>1, FrontGiven
  <2> QED
    BY <1>9, <1>11, <2>2
<1>15. Hands(n)
  BY <1>4, <1>10, <1>13, <1>14 DEF Hands, p
<1>16. Own(n)
  BY <1>1, <1>3, <1>4, <1>6, <1>10, <1>11 DEF Own
<1>17. Placed(n)'
  BY <1>4, PlacedPrimed
<1> QED
  BY <1>8, <1>15, <1>16, <1>17, HandsStep

-----------------------------------------------------------------------------
(* The stops of drive.                                                      *)

\* drive moves on with these events, or stays at its stop with them.
LEMMA AdvanceEvents ==
  ASSUME IInv, NEW n \in Member, NEW events, Advance(n, events)
  PROVE  drv'[n].events = events
<1>1. drv = [m \in Member |-> drv[m]] /\ Shape(drv[n])
  BY DEF IInv, Types
<1>2. drv' = [drv EXCEPT ![n] = [[drv[n] EXCEPT !.at = drv[n].at + 1] EXCEPT !.events = events]]
  BY <1>1 DEF Advance
<1>3. drv'[n] = [[drv[n] EXCEPT !.at = drv[n].at + 1] EXCEPT !.events = events]
  BY <1>1, <1>2
<1>4. PICK op, at : drv[n] = [op |-> op, at |-> at, events |-> drv[n].events]
  BY <1>1 DEF Shape
<1>5. [[drv[n] EXCEPT !.at = drv[n].at + 1] EXCEPT !.events = events].events = events
  BY <1>4
<1> QED
  BY <1>3, <1>5

\* The events that a driver is set to.
LEMMA StayEvents ==
  ASSUME IInv, NEW n \in Member, NEW events, drv' = [drv EXCEPT ![n].events = events]
  PROVE  drv'[n].events = events
<1>1. drv = [m \in Member |-> drv[m]] /\ Shape(drv[n])
  BY DEF IInv, Types
<1>2. drv'[n] = [drv[n] EXCEPT !.events = events]
  BY <1>1
<1>3. PICK op, at : drv[n] = [op |-> op, at |-> at, events |-> drv[n].events]
  BY <1>1 DEF Shape
<1>4. [drv[n] EXCEPT !.events = events].events = events
  BY <1>3
<1> QED
  BY <1>2, <1>4

\* A stop hands over nothing and is not the end of the call.
Drives(n) ==
  /\ DrvKeeps(n) /\ backend' = backend /\ sent' = sent /\ next_ticket' = next_ticket
  /\ failed' = failed /\ shutdown' = shutdown
  /\ got' = got /\ done' = done /\ visible' = visible

\* A step of drive changes the state of its own driver alone.
LEMMA DriveOwn ==
  ASSUME IInv, CInv, NEW n \in Member, Driving(n), Drives(n),
         \A m \in Member \ {n} : pending'[m] = pending[m],
         pending'[n] \in Seq(Event), drv'[n].events \in Seq(Event),
         \A l \in To(n) : Marked(pending'[n], ArrivalOn(l)) = Marked(pending[n], ArrivalOn(l))
  PROVE  Own(n) /\ Placed(n)'
<1>1. Kinds /\ Placed(n)
  BY DEF CInv
<1>2. Fades
  BY DriveFades DEF Drives
<1>3. Own(n)
  BY <1>1, <1>2 DEF Own, Drives, DrvKeeps, Kinds
<1>4. drv'[n].op = drv[n].op /\ drv[n].op \in {"progress", "flush", "shutdown"}
  BY DEF Drives, DrvKeeps, Driving
<1>5. drv'[n].op = "progress" => \A l \in To(n) : Marked(pending'[n], ArrivalOn(l)) = {}
  BY <1>1, <1>4 DEF Placed
<1>6. Placed(n)'
  BY <1>4, <1>5, PlacedPrimed
<1> QED
  BY <1>3, <1>6

\* A stop that reports nothing.
LEMMA QuietDrive ==
  ASSUME IInv, IInv', Framing', CInv, NEW n \in Member, Driving(n), Drives(n), pending' = pending,
         drv'[n].events = drv[n].events, \A l \in Lane : Reads(l) /\ Waits(l)
  PROVE  CInv'
<1>1. Kinds
  BY DEF CInv
<1>2. Own(n) /\ Placed(n)'
  BY <1>1, DriveOwn DEF Kinds
<1> QED
  BY <1>2, SameStep DEF Drives

\* The first half of fail.
LEMMA DrainKeeps ==
  ASSUME IInv, IInv', Framing', CInv, NEW n \in Member, Driving(n), FailDrain(n),
         backend' = backend, sent' = sent, next_ticket' = next_ticket,
         failed' = failed, shutdown' = shutdown, got' = got, done' = done, visible' = visible,
         pending' = pending,
         \A l \in Lane : Destination(l) # n => wire'[l] = wire[l],
         \A l \in To(n) : \/ wire'[l] = wire[l] \/ (wire[l] # <<>> /\ wire'[l] = Tail(wire[l]))
                          \/ wire'[l] = <<>>
  PROVE  CInv'
<1> DEFINE r == [op |-> "failing", at |-> 0,
                 events |-> IF drv[n].op = "progress" THEN drv[n].events ELSE <<>>]
<1>0. Types /\ Kinds /\ Placed(n)
  BY DEF IInv, CInv
<1>1. /\ drv' = [drv EXCEPT ![n] = r]
      /\ receivers' = [l \in Lane |-> IF Source(l) = n THEN <<>> ELSE receivers[l]]
      /\ writes' = [l \in Lane |-> IF Source(l) = n THEN <<>> ELSE writes[l]]
      /\ read' = [l \in Lane |-> IF Destination(l) = n THEN <<>> ELSE read[l]]
  BY <1>0 DEF FailDrain, Types
<1>2. /\ r.op = "failing" /\ <<>> \in Seq(Event)
      /\ drv[n].op = "progress" => r.events = drv[n].events
      /\ drv[n].op # "progress" => r.events = <<>>
  OBVIOUS
<1> HIDE DEF r
<1>3. drv'[n] = r
  BY <1>1, DrvSetTo
<1>4. Fades /\ \A m \in Member \ {n} : drv'[m] = drv[m]
  BY <1>1, <1>2, <1>3, CallFades
<1>5. ~Works(n)'
  BY <1>2, <1>3 DEF Works
<1>6. ASSUME NEW l \in Lane PROVE Reads(l) /\ Waits(l)
  <2>1. Destination(l)' = Destination(l) /\ Source(l)' = Source(l)
    BY DEF Destination, Source
  <2>2. Reads(l)
    <3>1. CASE Destination(l) = n
      <4>1. read'[l] = <<>> /\ ~Works(Destination(l))' /\ l \in To(n)
        BY <1>1, <1>5, <2>1, <3>1 DEF To
      <4> QED
        BY <1>0, <4>1, ReadsDropped
    <3>2. CASE Destination(l) # n
      BY <1>0, <1>1, <3>2, ReadsStay
    <3> QED
      BY <3>1, <3>2
  <2>3. Waits(l)
    <3>1. CASE Source(l) = n
      <4>1. writes'[l] = <<>> /\ receivers'[l] = <<>> /\ ~Works(Source(l))'
        BY <1>1, <1>5, <2>1, <3>1
      <4> QED
        BY <4>1, WaitsDropped
    <3>2. CASE Source(l) # n
      BY <1>1, <3>2, WaitsSame
    <3> QED
      BY <3>1, <3>2
  <2> QED
    BY <2>2, <2>3
<1>7. drv'[n].events \in Seq(Event)
  BY <1>0, <1>2, <1>3 DEF Kinds
<1>8. Own(n)
  BY <1>0, <1>4, <1>7 DEF Own, Kinds
<1>9. CASE drv[n].op = "progress"
  <2>1. \A l \in To(n) : Marked(pending'[n], ArrivalOn(l)) = {}
    BY <1>0, <1>9 DEF Placed
  <2>2. Placed(n)'
    BY <1>2, <1>3, <2>1, PlacedPrimed
  <2>3. drv'[n].events = drv[n].events
    BY <1>2, <1>3, <1>9
  <2> QED
    BY <1>6, <1>8, <2>2, <2>3, SameStep
<1>10. CASE drv[n].op # "progress"
  <2>1. drv'[n].events = <<>> /\ drv'[n].op = "failing"
    BY <1>2, <1>3, <1>10
  <2>2. Placed(n)'
    BY <2>1, PlacedPrimed
  <2> QED
    BY <1>5, <1>6, <1>8, <2>1, <2>2, LosesStep
<1> QED
  BY <1>9, <1>10

\* A read takes all that is on its way ...
LEMMA TcpReadKeeps ==
  ASSUME IInv, IInv', Framing, Framing', CInv, NEW n \in Member, NEW p \in Member \ {n}, TcpRead(n, p)
  PROVE  CInv' /\ UNCHANGED <<sent, got, done, visible>>
<1> DEFINE l == <<p, n, Turn(n)>>
<1>0. Types /\ Kinds /\ p \in Member /\ p # n
  BY DEF IInv, CInv
<1>1. Driving(n) /\ Turn(n) \in Channel
  BY <1>0, AtStopFacts DEF TcpRead
<1>2. l \in Lane /\ n = Destination(l)
  BY <1>0, <1>1, LaneFacts
<1>3. /\ backend' = backend /\ sent' = sent /\ next_ticket' = next_ticket /\ pending' = pending
      /\ failed' = failed /\ shutdown' = shutdown /\ got' = got /\ done' = done /\ visible' = visible
  BY DEF TcpRead, history
<1>4. wire = [k \in Lane |-> wire[k]] /\ read = [k \in Lane |-> read[k]]
  BY <1>0 DEF Framing, Types
<1>5. ASSUME Advance(n, drv[n].events), \A k \in Lane : Reads(k), receivers' = receivers, writes' = writes
      PROVE  CInv'
  <2>1. Drives(n)
    BY <1>1, <1>3, <1>5, AdvanceKeeps DEF Drives
  <2>2. drv'[n].events = drv[n].events
    BY <1>5, AdvanceEvents
  <2>3. \A k \in Lane : Waits(k)
    BY <1>5, WaitsSame
  <2> QED
    BY <1>1, <1>3, <1>5, <2>1, <2>2, <2>3, QuietDrive
<1>6. CASE Advance(n, drv[n].events) /\ UNCHANGED <<credit, flow>>
  <2>1. receivers' = receivers /\ writes' = writes /\ read' = read /\ wire' = wire
    BY <1>6 DEF flow
  <2>2. \A k \in Lane : Reads(k)
    BY <2>1, CallFlow
  <2>3. CInv'
    BY <1>5, <1>6, <2>1, <2>2
  <2> QED
    BY <1>3, <2>3
<1>7. CASE /\ read' = [read EXCEPT ![l] = read[l] \o wire[l]] /\ wire' = [wire EXCEPT ![l] = <<>>]
           /\ Advance(n, drv[n].events) /\ UNCHANGED <<credit, receivers, writes>>
  <2>1. ASSUME NEW k \in Lane PROVE Reads(k)
    <3>1. CASE k # l
      <4>1. read'[k] = read[k] /\ wire'[k] = wire[k]
        <5> HIDE DEF l
        <5> QED
          BY <1>2, <1>4, <1>7, <3>1
      <4> QED
        BY <1>0, <4>1, ReadsStay
    <3>2. CASE k = l
      <4> HIDE DEF l
      <4>1. read'[k] = read[k] \o wire[k] /\ wire'[k] = <<>>
        BY <1>2, <1>4, <1>7, <3>2
      <4>2. read[k] \in Seq(Unit) /\ wire[k] \in Seq(Unit)
        BY <1>0 DEF Kinds
      <4>3. PICK a \in Seq(Unit) : a = read[k] \o wire[k]
        BY <4>2, JoinAt
      <4>4. <<>> \in Seq(Unit) /\ a \o <<>> = a
        OBVIOUS
      <4>5. read'[k] \in Seq(Unit) /\ wire'[k] \in Seq(Unit) /\ read'[k] \o wire'[k] = read[k] \o wire[k]
        BY <4>1, <4>3, <4>4
      <4> QED
        BY <1>0, <4>5, ReadsSame
    <3> QED
      BY <3>1, <3>2
  <2>2. CInv'
    BY <1>5, <1>7, <2>1
  <2> QED
    BY <1>3, <2>2
<1>8. CASE FailDrain(n) /\ wire' = [wire EXCEPT ![l] = <<>>]
  <2> HIDE DEF l
  <2>1. \A k \in Lane : wire'[k] = wire[k] \/ (k = l /\ wire'[k] = <<>>)
    BY <1>2, <1>4, <1>8
  <2> QED
    BY <1>1, <1>2, <1>3, <1>8, <2>1, DrainKeeps DEF To
<1>9. /\ [read EXCEPT ![l] = @ \o wire[l]] = [read EXCEPT ![l] = read[l] \o wire[l]]
  BY <1>2, <1>4
<1> QED
  BY <1>3, <1>6, <1>7, <1>8, <1>9 DEF TcpRead

\* The end of a receive loop.
LEMMA MpiReceivedKeeps ==
  ASSUME IInv, IInv', Framing', CInv, NEW n \in Member, MpiReceived(n)
  PROVE  CInv' /\ UNCHANGED <<sent, got, done, visible>>
<1>1. Driving(n)
  BY DEF MpiReceived, AtStop
<1>2. /\ backend' = backend /\ sent' = sent /\ next_ticket' = next_ticket /\ pending' = pending
      /\ failed' = failed /\ shutdown' = shutdown /\ got' = got /\ done' = done /\ visible' = visible
      /\ receivers' = receivers /\ writes' = writes /\ read' = read /\ wire' = wire
      /\ Advance(n, drv[n].events)
  BY DEF MpiReceived, flow, history
<1>3. Drives(n)
  BY <1>1, <1>2, AdvanceKeeps DEF Drives
<1>4. drv'[n].events = drv[n].events
  BY <1>2, AdvanceEvents
<1>5. \A l \in Lane : Reads(l) /\ Waits(l)
  BY <1>2, CallFlow
<1> QED
  BY <1>1, <1>2, <1>3, <1>4, <1>5, QuietDrive

\* An event is an arrival on one lane, or a completion.
LEMMA EventKinds ==
  ASSUME NEW l \in Lane, NEW t \in Nat
  PROVE  /\ Incoming(l, t) \in Event /\ Incoming(l, t).ticket = t
         /\ Incoming(l, t) \in ArrivalOn(l) /\ Incoming(l, t) \notin Completion
         /\ \A k \in Lane : k # l => Incoming(l, t) \notin ArrivalOn(k)
         /\ LocalSendComplete(l, t) \in Event /\ LocalSendComplete(l, t).ticket = t
         /\ LocalSendComplete(l, t) \in Completion
         /\ \A k \in Lane : LocalSendComplete(l, t) \notin ArrivalOn(k)
<1>1. /\ Incoming(l, t) = [kind |-> "Incoming", lane |-> l, ticket |-> t]
      /\ LocalSendComplete(l, t) = [kind |-> "LocalSendComplete", lane |-> l, ticket |-> t]
  BY DEF Incoming, LocalSendComplete
<1>2. /\ [kind |-> "Incoming", lane |-> l, ticket |-> t] \in Event
      /\ [kind |-> "LocalSendComplete", lane |-> l, ticket |-> t] \in Event
  BY DEF Event
<1> QED
  BY <1>1, <1>2 DEF ArrivalOn, Completion

\* What an owner has seen of the lanes of other drivers' events, when its driver reports one
\* that is none of theirs.
LEMMA SeesReported ==
  ASSUME CInv, NEW l \in Lane, NEW x \in Event, x \notin ArrivalOn(l), got'[l] = got[l],
         pending'[Destination(l)] = pending[Destination(l)],
         drv'[Destination(l)].events = Append(drv[Destination(l)].events, x),
         visible'[Destination(l)] = visible[Destination(l)]
  PROVE  Sees(l)
<1> DEFINE g == got[l]
           p == pending[Destination(l)]
           e == drv[Destination(l)].events
<1>1. Ordered(g, p, e, ArrivalOn(l), TRUE) /\ g \in Seq(Nat) /\ e \in Seq(Event)
  BY LaneFacts DEF CInv, LaneInv, Kinds
<1> HIDE DEF g, p, e
<1>2. /\ Ordered(g, p, Append(e, x), ArrivalOn(l), TRUE)
      /\ Known(g, p, Append(e, x), ArrivalOn(l)) = Known(g, p, e, ArrivalOn(l))
  BY <1>1, OtherReported
<1>3. Regrouped(g, p, e, g, p, Append(e, x), ArrivalOn(l), TRUE)
  BY <1>1, <1>2, StartsSame DEF Regrouped
<1> QED
  BY <1>3, SeesRegrouped DEF g, p, e

\* A lane whose first m units are a parcel that the reader takes and reports.
Received(l, m, t) ==
  /\ m \in Nat /\ m >= 1 /\ t \in Nat
  /\ read'[l] \in Seq(Unit) /\ wire'[l] \in Seq(Unit)
  /\ Len(read[l] \o wire[l]) = m + Len(read'[l] \o wire'[l])
  /\ \A i \in 1..Len(read'[l] \o wire'[l]) : (read'[l] \o wire'[l])[i] = (read[l] \o wire[l])[i + m]
  /\ Ends((read[l] \o wire[l])[m], Prefix)
  /\ \A i \in 1..m : (read[l] \o wire[l])[i].ticket = t
  /\ drv'[Destination(l)].events = Append(drv[Destination(l)].events, Incoming(l, t))

\* The first parcel on the way of a lane becomes an event of its receiver.
LEMMA LaneReceived ==
  ASSUME IInv, CInv, NEW n \in Member, NEW l \in To(n), Driving(n), Drives(n), pending' = pending,
         receivers' = receivers, writes' = writes, NEW m, NEW t, Received(l, m, t)
  PROVE  LaneInv(l)'
<1> DEFINE s == read[l] \o wire[l]
           r == read'[l] \o wire'[l]
           g == got[l]
           p == pending[n]
           e == drv[n].events
           x == Incoming(l, t)
<1>0. l \in Lane /\ Destination(l) = n /\ Works(n) /\ Kinds
  BY DrivingWorks DEF To, CInv
<1>1. /\ Numbered(sent[l], next_ticket[Source(l)]) /\ Upstream(writes[l], receivers[l])
      /\ Row(s, Waiting(l), Prefix)
      /\ Ordered(g, p, e, ArrivalOn(l), TRUE)
      /\ Passing(Accepted(l), Seen(l), TicketsIn(s), Waiting(l))
      /\ Unbroken(Accepted(l), Seen(l), TicketsIn(s), Waiting(l), visible[n], Works(n), Works(Source(l)))
  BY <1>0 DEF CInv, LaneInv, Way
<1>2. Seen(l) = Known(g, p, e, ArrivalOn(l)) /\ e \in Seq(Event)
  BY <1>0 DEF Seen, Kinds
<1>3a. read[l] \in Seq(Unit) /\ wire[l] \in Seq(Unit) /\ read'[l] \in Seq(Unit) /\ wire'[l] \in Seq(Unit)
  BY <1>0 DEF Received, Kinds
<1>3. /\ m \in Nat /\ m >= 1 /\ t \in Nat /\ s \in Seq(Unit) /\ r \in Seq(Unit)
      /\ Len(s) = m + Len(r) /\ \A i \in 1..Len(r) : r[i] = s[i + m]
      /\ Ends(s[m], Prefix) /\ \A i \in 1..m : s[i].ticket = t
      /\ drv'[n].events = Append(e, x)
  BY <1>0, <1>3a, JoinAt DEF Received
<1>4. /\ backend' = backend /\ sent' = sent /\ next_ticket' = next_ticket /\ got' = got
      /\ visible' = visible
  BY DEF Drives
<1>5. StillWaiting(l) = Waiting(l)
  BY DEF StillWaiting, Waiting
<1>6. x \in Event /\ x.ticket = t /\ x \in ArrivalOn(l)
  BY <1>0, <1>3, EventKinds
<1> HIDE DEF s, r, g, p, e, x
<1>7. /\ Row(r, Waiting(l), Prefix) /\ t \in TicketsIn(s) /\ TicketsIn(r) \subseteq TicketsIn(s)
      /\ TicketsIn(s) \subseteq TicketsIn(r) \cup {t}
      /\ \A z \in TicketsIn(r) \cup Waiting(l) : t < z
  <2>1. s[m].ticket = t /\ \A i \in 1..m : s[i].ticket = s[m].ticket
    BY <1>3
  <2>2. /\ Row(r, Waiting(l), Prefix) /\ s[m].ticket \in TicketsIn(s) /\ TicketsIn(r) \subseteq TicketsIn(s)
        /\ TicketsIn(s) \subseteq TicketsIn(r) \cup {s[m].ticket}
        /\ \A z \in TicketsIn(r) \cup Waiting(l) : s[m].ticket < z
    BY <1>1, <1>3, <2>1, RowReceived
  <2> QED
    BY <2>1, <2>2
<1>8. PICK shown \in BOOLEAN, writing \in BOOLEAN : (shown <=> visible[n]) /\ (writing <=> Works(Source(l)))
  OBVIOUS
<1>9. Unbroken(Accepted(l), Seen(l), TicketsIn(s), Waiting(l), shown, TRUE, writing)
  BY <1>0, <1>1, <1>8 DEF Unbroken
<1>10. /\ Passing(Accepted(l), Seen(l) \cup {t}, TicketsIn(r), Waiting(l))
       /\ Unbroken(Accepted(l), Seen(l) \cup {t}, TicketsIn(r), Waiting(l), shown, TRUE, writing)
       /\ \A a \in Seen(l) : a < t
  BY <1>1, <1>7, <1>9, TicketReceived
<1>11. /\ Ordered(g, p, Append(e, x), ArrivalOn(l), TRUE)
       /\ Known(g, p, Append(e, x), ArrivalOn(l)) = Seen(l) \cup {t}
  <2>1. Separate(Known(g, p, e, ArrivalOn(l)), {x.ticket}, TRUE)
    BY <1>2, <1>6, <1>10 DEF Separate, Precedes
  <2>2. /\ Ordered(g, p, Append(e, x), ArrivalOn(l), TRUE)
        /\ Known(g, p, Append(e, x), ArrivalOn(l)) = Known(g, p, e, ArrivalOn(l)) \cup {x.ticket}
    <3>1. e \in Seq(Event) /\ x \in Event /\ Ordered(g, p, e, ArrivalOn(l), TRUE) /\ x \in ArrivalOn(l)
      BY <1>1, <1>2, <1>6
    <3>2. Ordered(g, p, Append(e, x), ArrivalOn(l), TRUE)
      BY ONLY <3>1, <2>1, EventReported
    <3>3. Known(g, p, Append(e, x), ArrivalOn(l)) = Known(g, p, e, ArrivalOn(l)) \cup {x.ticket}
      <4>1. Marked(Append(e, x), ArrivalOn(l)) = Marked(e, ArrivalOn(l)) \cup {x.ticket}
        BY <3>1, EventAppended
      <4> QED
        BY <4>1 DEF Known
    <3> QED
      BY <3>2, <3>3
  <2> QED
    BY <1>2, <1>6, <2>2
<1>12. /\ Ordered(got'[l], pending'[Destination(l)], drv'[Destination(l)].events, ArrivalOn(l), TRUE)
       /\ SeenBy(l) = Seen(l) \cup {t}
  BY <1>0, <1>3, <1>4, <1>11 DEF SeenBy, g, p
<1>13. Works(Source(l))' => Works(Source(l))
  <2>1. Fades
    BY DriveFades DEF Drives
  <2> QED
    BY <1>0, <2>1, LaneFacts DEF Fades
<1>14. Unbroken(In(sent'[l]), SeenBy(l), TicketsIn(r), StillWaiting(l),
                visible'[Destination(l)], Works(Destination(l))', Works(Source(l))')
  <2>1. Accepted(l) = In(sent'[l]) /\ visible'[Destination(l)] = visible[n]
    BY <1>0, <1>4 DEF Accepted
  <2>2. PICK w \in BOOLEAN, d \in BOOLEAN : (w <=> Works(Source(l))') /\ (d <=> Works(Destination(l))')
    OBVIOUS
  <2>3. w => writing
    BY <1>8, <1>13, <2>2
  <2>4. Unbroken(Accepted(l), Seen(l) \cup {t}, TicketsIn(r), Waiting(l), shown, d, w)
    BY <1>10, <2>3 DEF Unbroken
  <2> QED
    BY <1>5, <1>8, <1>12, <2>1, <2>2, <2>4 DEF Unbroken
<1>15. /\ Numbered(sent'[l], next_ticket'[Source(l)]) /\ Upstream(writes'[l], receivers'[l])
       /\ Row(r, StillWaiting(l), Prefix)
       /\ Passing(In(sent'[l]), SeenBy(l), TicketsIn(r), StillWaiting(l))
  BY <1>1, <1>4, <1>5, <1>7, <1>10, <1>12 DEF Accepted
<1> QED
  BY <1>0, <1>4, <1>12, <1>14, <1>15, LanePrimed DEF r

\* drive reads a parcel and reports it.
LEMMA ReceivedKeeps ==
  ASSUME IInv, IInv', Framing', CInv, NEW n \in Member, NEW l \in To(n), Driving(n), Drives(n),
         pending' = pending, receivers' = receivers, writes' = writes,
         \A k \in Lane : k # l => read'[k] = read[k] /\ wire'[k] = wire[k],
         NEW m, NEW t, Received(l, m, t)
  PROVE  CInv'
<1> DEFINE x == Incoming(l, t)
           e == drv[n].events
<1>0. l \in Lane /\ Destination(l) = n /\ Kinds /\ t \in Nat /\ drv'[n].events = Append(e, x)
  BY DEF To, CInv, Received
<1>1. /\ x \in Event /\ x \notin Completion /\ \A k \in Lane : k # l => x \notin ArrivalOn(k)
  BY <1>0, EventKinds
<1>2. e \in Seq(Event) /\ pending[n] \in Seq(Event)
  BY <1>0 DEF Kinds
<1> HIDE DEF x, e
<1>3. Own(n) /\ Placed(n)'
  <2>1. drv'[n].events \in Seq(Event)
    BY <1>0, <1>1, <1>2
  <2> QED
    BY <1>2, <2>1, DriveOwn
<1>4. LaneInv(l)'
  BY LaneReceived
<1>5. ASSUME NEW k \in Lane, k # l PROVE Reads(k) /\ Sees(k)
  <2>1. Reads(k)
    BY <1>0, <1>5, ReadsStay
  <2>2. CASE Destination(k) = n
    <3>1. /\ got'[k] = got[k] /\ pending'[Destination(k)] = pending[Destination(k)]
          /\ drv'[Destination(k)].events = Append(drv[Destination(k)].events, x)
          /\ visible'[Destination(k)] = visible[Destination(k)]
      BY <1>0, <2>2 DEF Drives, e
    <3> QED
      BY <1>1, <1>5, <2>1, <3>1, SeesReported
  <2>3. CASE Destination(k) # n
    BY <1>3, <2>1, <2>3, SeesOther
  <2> QED
    BY <2>2, <2>3
<1>6. \A k \in Lane : Waits(k)
  BY WaitsSame
<1>7. Readable
  BY <1>5 DEF Readable, Reads, Received
<1>8. Completes(n)'
  <2>1. Completes(n) /\ Ordered(done[n], pending[n], e, Completion, FALSE) /\ sent' = sent /\ done' = done
    BY DEF CInv, Completes, Drives, e
  <2>2. /\ Ordered(done[n], pending[n], Append(e, x), Completion, FALSE)
        /\ Known(done[n], pending[n], Append(e, x), Completion) = Known(done[n], pending[n], e, Completion)
    BY ONLY <1>1, <1>2, <2>1, OtherReported
  <2>3. Reports(n)
    BY <1>0, <2>1, <2>2 DEF Reports, e
  <2> QED
    BY <1>6, <2>1, <2>3, CompletesKept DEF Waits, From
<1>9. \A k \in Lane : StillWaiting(k) \subseteq Waiting(k)
  BY <1>6 DEF Waits
<1> QED
  BY <1>3, <1>4, <1>5, <1>6, <1>7, <1>8, <1>9, OwnStep

\* What a stop of drive leaves alone.
LEMMA StopFacts ==
  ASSUME NEW n \in Member,
         \/ \E p \in Member : TcpWrite(n, p) \/ TcpDecode(n, p) \/ MpiWrite(n, p)
         \/ MpiReceive(n)
  PROVE  /\ backend' = backend /\ sent' = sent /\ next_ticket' = next_ticket
         /\ failed' = failed /\ shutdown' = shutdown
         /\ got' = got /\ done' = done /\ visible' = visible
BY DEF TcpWrite, TcpDecode, MpiWrite, MpiReceive, history

\* The first m units of what was read are a parcel, of which s is the rest.
Parses(r, x, m, s) ==
  /\ r \in Seq(Unit) /\ x \in Seq(Unit) /\ Stream(r \o x, 1) /\ r # <<>>
  /\ m \in Nat /\ m = Head(r).total + 1 /\ m <= Len(r) /\ s = SubSeq(r, m + 1, Len(r))

\* They are of one ticket, and what follows is left.
Parsed(r, x, m, s) ==
  /\ m >= 1 /\ Head(r).ticket \in Nat /\ s \in Seq(Unit) /\ Len(r \o x) = m + Len(s \o x)
  /\ \A i \in 1..Len(s \o x) : (s \o x)[i] = (r \o x)[i + m]
  /\ Ends((r \o x)[m], 1) /\ \A i \in 1..m : (r \o x)[i].ticket = Head(r).ticket

\* The decoding of a TCP stream: a complete parcel leaves the front of what was read.
LEMMA Decoded ==
  ASSUME NEW r, NEW x, NEW m, NEW s, Parses(r, x, m, s)
  PROVE  Parsed(r, x, m, s)
<1>0. /\ r \in Seq(Unit) /\ x \in Seq(Unit) /\ Stream(r \o x, 1) /\ r # <<>>
      /\ m \in Nat /\ m = Head(r).total + 1 /\ m <= Len(r) /\ s = SubSeq(r, m + 1, Len(r))
  BY DEF Parses
<1> DEFINE a == r \o x
<1>1. /\ a \in Seq(Unit) /\ Len(a) \in Nat /\ Len(r) \in Nat /\ Len(r) <= Len(a) /\ Len(r) >= 1
      /\ a[1] = r[1] /\ Head(r) = r[1] /\ Head(r) \in Unit
  <2>1. Len(r) \in Nat /\ Len(x) \in Nat /\ Len(r) >= 1 /\ Head(r) = r[1] /\ Head(r) \in Unit
    BY <1>0
  <2>2. a \in Seq(Unit) /\ Len(a) = Len(r) + Len(x) /\ \A i \in 1..Len(r) : a[i] = r[i]
    BY <1>0, InARow
  <2>3. 1 \in 1..Len(r)
    BY <2>1
  <2> QED
    BY <2>1, <2>2, <2>3
<1>2. /\ s \in Seq(Unit) /\ Len(a) = m + Len(s \o x)
      /\ \A i \in 1..Len(s \o x) : (s \o x)[i] = a[i + m]
  <2>1. /\ SubSeq(r, m + 1, Len(r)) \in Seq(Unit)
        /\ Len(r \o x) = m + Len(SubSeq(r, m + 1, Len(r)) \o x)
        /\ \A i \in 1..Len(SubSeq(r, m + 1, Len(r)) \o x) :
             (SubSeq(r, m + 1, Len(r)) \o x)[i] = (r \o x)[i + m]
    BY <1>0, Dropped
  <2> QED
    BY <1>0, <2>1
<1> HIDE DEF a
<1>3. Stream(a, 1) /\ 1 \in {0, 1}
  BY <1>0 DEF a
<1>4. m >= 1 /\ Ends(a[m], 1) /\ a[m].index = m - 1
  <2>1. m = a[1].total + 1 /\ m <= Len(a) /\ Len(a) > 0
    BY <1>0, <1>1
  <2> QED
    BY <1>0, <1>3, <2>1, FirstParcel
<1>5. m \in 1..Len(a) /\ 1 \in 1..m
  BY <1>0, <1>1, <1>4
<1>6. \A i \in 1..m : a[i].ticket = a[m].ticket
  BY <1>3, <1>4, <1>5, OneParcel
<1>7. Head(r).ticket \in Nat /\ a[m].ticket = Head(r).ticket
  BY <1>0, <1>1, <1>5, <1>6 DEF Unit
<1> QED
  BY <1>2, <1>4, <1>6, <1>7 DEF a, Parsed

\* decode takes a whole frame off the bytes read.
LEMMA TcpDecodeKeeps ==
  ASSUME IInv, IInv', Framing, Framing', CInv, NEW n \in Member, NEW p \in Member \ {n}, TcpDecode(n, p)
  PROVE  CInv' /\ UNCHANGED <<sent, got, done, visible>>
<1> DEFINE l == <<p, n, Turn(n)>>
           length == Head(read[l]).total
<1>0. Types /\ Kinds /\ p \in Member /\ p # n
  BY DEF IInv, CInv
<1>1. Driving(n) /\ Turn(n) \in Channel
  BY <1>0, AtStopFacts DEF TcpDecode
<1>2. l \in Lane /\ n = Destination(l) /\ l \in To(n)
  BY <1>0, <1>1, LaneFacts DEF To
<1>3. /\ backend' = backend /\ sent' = sent /\ next_ticket' = next_ticket /\ pending' = pending
      /\ failed' = failed /\ shutdown' = shutdown /\ got' = got /\ done' = done /\ visible' = visible
      /\ wire' = wire /\ backend = "tcp"
  BY <1>0, StopFacts DEF TcpDecode
<1>4. read = [k \in Lane |-> read[k]] /\ drv = [m \in Member |-> drv[m]]
  BY <1>0 DEF Types
<1>5. CASE Advance(n, drv[n].events) /\ UNCHANGED <<credit, receivers, writes, read>>
  <2>1. Drives(n) /\ drv'[n].events = drv[n].events
    BY <1>1, <1>3, <1>5, AdvanceKeeps, AdvanceEvents DEF Drives
  <2>2. \A k \in Lane : Reads(k) /\ Waits(k)
    BY <1>3, <1>5, CallFlow
  <2>3. CInv'
    BY <1>1, <1>3, <2>1, <2>2, QuietDrive
  <2> QED
    BY <1>3, <2>3
<1>6. CASE /\ read[l] # <<>> /\ Len(read[l]) >= LENGTH + length
           /\ read' = [read EXCEPT ![l] = SubSeq(read[l], LENGTH + length + 1, Len(read[l]))]
           /\ drv' = [drv EXCEPT ![n].events = Append(drv[n].events, Incoming(l, Head(read[l]).ticket))]
           /\ UNCHANGED <<credit, receivers, writes>>
  <2>1. /\ drv'[n].events = Append(drv[n].events, Incoming(l, Head(read[l]).ticket))
        /\ Drives(n)
    <3> HIDE DEF l, length
    <3> QED
      BY <1>1, <1>3, <1>6, EventsKeep, StayEvents DEF Drives
  <2>2. read[l] \in Seq(Unit) /\ wire[l] \in Seq(Unit) /\ read[l] # <<>>
    <3> HIDE DEF l
    <3> QED
      BY <1>0, <1>2, <1>6 DEF Kinds
  <2>3. length \in Nat
    <3>1. Head(read[l]) \in Unit
      BY <2>2
    <3> QED
      BY <3>1 DEF Unit
  <2>4. PICK m \in Nat : m = length + 1 /\ LENGTH + length = m
    BY <2>3 DEF LENGTH
  <2>5. Stream(read[l] \o wire[l], 1)
    <3>1. LaneRead(l)
      <4> HIDE DEF l
      <4> QED
        BY <1>1, <1>2, DrivingWorks DEF Framing
    <3> QED
      BY <1>3, <3>1, PrefixUnits DEF LaneRead, Line
  <2>6. m = Head(read[l]).total + 1 /\ m <= Len(read[l])
    <3>1. Len(read[l]) \in Nat
      BY <2>2
    <3> QED
      BY <1>6, <2>3, <2>4, <3>1
  <2>7. /\ read'[l] = SubSeq(read[l], m + 1, Len(read[l]))
        /\ \A k \in Lane : k # l => read'[k] = read[k] /\ wire'[k] = wire[k]
        /\ wire'[l] = wire[l]
    <3> HIDE DEF l, length
    <3> QED
      BY <1>2, <1>3, <1>4, <1>6, <2>4
  <2> HIDE DEF l, length
  <2>8. PICK s : s = SubSeq(read[l], m + 1, Len(read[l]))
    OBVIOUS
  <2>9. /\ m >= 1 /\ Head(read[l]).ticket \in Nat /\ s \in Seq(Unit)
        /\ Len(read[l] \o wire[l]) = m + Len(s \o wire[l])
        /\ \A i \in 1..Len(s \o wire[l]) : (s \o wire[l])[i] = (read[l] \o wire[l])[i + m]
        /\ Ends((read[l] \o wire[l])[m], 1)
        /\ \A i \in 1..m : (read[l] \o wire[l])[i].ticket = Head(read[l]).ticket
    <3>1. Parses(read[l], wire[l], m, s)
      BY <2>2, <2>5, <2>6, <2>8 DEF Parses
    <3>2. Parsed(read[l], wire[l], m, s)
      BY ONLY <3>1, Decoded
    <3> QED
      BY ONLY <3>2 DEF Parsed
  <2>10. Prefix = 1
    BY <1>3, PrefixUnits
  <2>11. Received(l, m, Head(read[l]).ticket)
    BY <1>2, <2>1, <2>2, <2>7, <2>8, <2>9, <2>10 DEF Received
  <2>12. CInv'
    <3>1. receivers' = receivers /\ writes' = writes /\ pending' = pending
      BY <1>3, <1>6
    <3> QED
      BY <1>1, <1>2, <2>1, <2>7, <2>11, <3>1, ReceivedKeeps
  <2> QED
    BY <1>3, <2>12
<1>7. CASE FailDrain(n)
  <2>1. CInv'
    BY <1>1, <1>3, <1>7, DrainKeeps
  <2> QED
    BY <1>3, <2>1
<1>8. \A a : [read EXCEPT ![l] = SubSeq(@, a, Len(@))]
              = [read EXCEPT ![l] = SubSeq(read[l], a, Len(read[l]))]
  BY <1>2, <1>4
<1>9. \A e : [drv EXCEPT ![n].events = Append(@, e)] = [drv EXCEPT ![n].events = Append(drv[n].events, e)]
  BY <1>0, <1>4 DEF Types, Shape
<1> QED
  BY <1>5, <1>6, <1>7, <1>8, <1>9 DEF TcpDecode

\* The chunk that arrives is the last one of the parcel under reassembly.
Fills(r, x, m) ==
  /\ r \in Seq(Unit) /\ x \in Seq(Unit) /\ x # <<>> /\ Head(x).index = Len(r)
  /\ Len(r) + 1 = Head(x).total /\ m = Len(r) + 1

\* A parcel reassembled by MPI leaves the slot empty.
LEMMA Filled ==
  ASSUME NEW r, NEW x, NEW m, Fills(r, x, m)
  PROVE  /\ m \in Nat /\ m >= 1 /\ Tail(x) \in Seq(Unit)
         /\ Len(r \o x) = m + Len(<<>> \o Tail(x))
         /\ \A i \in 1..Len(<<>> \o Tail(x)) : (<<>> \o Tail(x))[i] = (r \o x)[i + m]
         /\ (r \o x)[m] = Head(x) /\ Ends((r \o x)[m], 0)
BY LastChunk DEF Fills

\* The receive loop of the MPI driver.
LEMMA MpiReceiveKeeps ==
  ASSUME IInv, IInv', Framing, Framing', CInv, NEW n \in Member, MpiReceive(n)
  PROVE  CInv' /\ UNCHANGED <<sent, got, done, visible>>
<1>0. Types /\ Kinds
  BY DEF IInv, CInv
<1>1. Driving(n)
  BY DEF MpiReceive, AtStop
<1>3. /\ backend' = backend /\ sent' = sent /\ next_ticket' = next_ticket /\ pending' = pending
      /\ failed' = failed /\ shutdown' = shutdown /\ got' = got /\ done' = done /\ visible' = visible
      /\ backend = "mpi"
  BY StopFacts DEF MpiReceive
<1>a. PICK l \in To(n) :
        /\ wire[l] # <<>> /\ wire' = [wire EXCEPT ![l] = Tail(@)]
        /\ LET unit == Head(wire[l])
               slot == Append(read[l], unit)
           IN  IF ~ InSequence(read[l], unit)
               THEN FailDrain(n)
               ELSE /\ IF Len(slot) = unit.total
                       THEN /\ read' = [read EXCEPT ![l] = <<>>]
                            /\ drv' = [drv EXCEPT ![n].events = Append(@, Incoming(l, unit.ticket))]
                       ELSE read' = [read EXCEPT ![l] = slot] /\ UNCHANGED drv
                    /\ UNCHANGED <<credit, receivers, writes>>
  BY DEF MpiReceive
<1> DEFINE unit == Head(wire[l])
           slot == Append(read[l], unit)
<1>2. l \in Lane /\ n = Destination(l)
  BY DEF To
<1>4. /\ wire = [k \in Lane |-> wire[k]] /\ read = [k \in Lane |-> read[k]]
      /\ drv = [m \in Member |-> drv[m]] /\ Shape(drv[n])
  BY <1>0 DEF Framing, Types
<1>5. /\ wire'[l] = Tail(wire[l]) /\ wire[l] # <<>>
      /\ \A k \in Lane : k # l => wire'[k] = wire[k]
  BY <1>2, <1>4, <1>a
<1>6. read[l] \in Seq(Unit) /\ wire[l] \in Seq(Unit) /\ Head(wire[l]) \in Unit
  <2>1. read[l] \in Seq(Unit) /\ wire[l] \in Seq(Unit)
    BY <1>0, <1>2 DEF Kinds
  <2> QED
    BY <1>5, <2>1
<1>7. CASE FailDrain(n)
  <2>1. \A k \in Lane : Destination(k) # n => wire'[k] = wire[k]
    BY <1>2, <1>5
  <2>2. \A k \in To(n) : wire'[k] = wire[k] \/ (wire[k] # <<>> /\ wire'[k] = Tail(wire[k]))
    BY <1>5 DEF To
  <2>3. CInv'
    BY <1>1, <1>3, <1>7, <2>1, <2>2, DrainKeeps
  <2> QED
    BY <1>3, <2>3
<1>8. CASE /\ InSequence(read[l], unit) /\ Len(slot) = unit.total
           /\ read' = [read EXCEPT ![l] = <<>>]
           /\ drv' = [drv EXCEPT ![n].events = Append(@, Incoming(l, unit.ticket))]
           /\ UNCHANGED <<credit, receivers, writes>>
  <2>1. \A e : [drv EXCEPT ![n].events = Append(@, e)] = [drv EXCEPT ![n].events = Append(drv[n].events, e)]
    BY <1>4 DEF Shape
  <2>2. /\ Drives(n)
        /\ drv'[n].events = Append(drv[n].events, Incoming(l, Head(wire[l]).ticket))
    BY <1>1, <1>3, <1>8, <2>1, EventsKeep, StayEvents DEF Drives
  <2>3. /\ receivers' = receivers /\ writes' = writes
        /\ read'[l] = <<>> /\ \A k \in Lane : k # l => read'[k] = read[k]
    BY <1>2, <1>4, <1>8
  <2>4. Stream(read[l] \o wire[l], 0)
    <3>1. LaneRead(l)
      BY <1>1, <1>2, DrivingWorks DEF Framing
    <3> QED
      BY <1>3, <3>1, PrefixUnits DEF LaneRead, Line
  <2>5. Head(wire[l]).index = Len(read[l]) /\ Len(read[l]) + 1 = Head(wire[l]).total
    <3>1. Len(slot) = Len(read[l]) + 1 /\ Len(<<>>) = 0
      BY <1>6
    <3> QED
      BY <1>8, <3>1 DEF InSequence
  <2>6. PICK m : m = Len(read[l]) + 1
    OBVIOUS
  <2>7. /\ m \in Nat /\ m >= 1 /\ Tail(wire[l]) \in Seq(Unit)
        /\ Len(read[l] \o wire[l]) = m + Len(<<>> \o Tail(wire[l]))
        /\ \A i \in 1..Len(<<>> \o Tail(wire[l])) :
             (<<>> \o Tail(wire[l]))[i] = (read[l] \o wire[l])[i + m]
        /\ (read[l] \o wire[l])[m] = Head(wire[l]) /\ Ends((read[l] \o wire[l])[m], 0)
    <3>1. Fills(read[l], wire[l], m)
      BY <1>5, <1>6, <2>5, <2>6 DEF Fills
    <3> QED
      BY ONLY <3>1, Filled
  <2>8. \A i \in 1..m : (read[l] \o wire[l])[i].ticket = Head(wire[l]).ticket
    <3>1. Len(read[l]) \in Nat /\ Len(wire[l]) \in Nat /\ Len(wire[l]) >= 1
          /\ Len(read[l] \o wire[l]) = Len(read[l]) + Len(wire[l])
      BY <1>5, <1>6
    <3>2. m \in 1..Len(read[l] \o wire[l]) /\ Head(wire[l]).index = m - 1 /\ 0 \in {0, 1}
      <4>1. /\ m = Len(read[l]) + 1 /\ Head(wire[l]).index = Len(read[l])
            /\ Len(read[l]) \in Nat /\ Len(wire[l]) \in Nat /\ Len(wire[l]) >= 1
            /\ Len(read[l] \o wire[l]) = Len(read[l]) + Len(wire[l])
        BY <2>5, <2>6, <3>1
      <4>2. PICK a \in Nat : a = Len(read[l])
        BY <4>1
      <4>5. PICK c \in Nat : c = Len(wire[l])
        BY <4>1
      <4>6. Len(read[l] \o wire[l]) = a + c /\ c >= 1
        BY <4>1, <4>2, <4>5
      <4>3. PICK b \in Nat : b = Len(read[l] \o wire[l]) /\ b >= a + 1
        BY <4>6
      <4>4. m = a + 1 /\ Head(wire[l]).index = a
        BY <4>1, <4>2
      <4> QED
        <5>2. a \in Nat /\ b \in Nat /\ b >= a + 1 /\ m = a + 1
          BY <4>3, <4>4
        <5>1. m \in 1..b /\ m - 1 = a
          BY ONLY <5>2
        <5> QED
          BY <4>3, <4>4, <5>1
    <3>3. (read[l] \o wire[l])[m].index = m - 1
      BY <2>7, <3>2
    <3>4. \A i \in 1..m : (read[l] \o wire[l])[i].ticket = (read[l] \o wire[l])[m].ticket
      BY <2>4, <3>2, <3>3, OneParcel
    <3> QED
      BY <2>7, <3>4
  <2>9. Prefix = 0 /\ Head(wire[l]).ticket \in Nat /\ <<>> \in Seq(Unit)
    BY <1>3, <1>6, PrefixUnits DEF Unit
  <2>10. Received(l, m, Head(wire[l]).ticket)
    BY <1>2, <1>5, <2>2, <2>3, <2>7, <2>8, <2>9 DEF Received
  <2>11. CInv'
    BY <1>1, <1>3, <1>5, <2>2, <2>3, <2>10, ReceivedKeeps
  <2> QED
    BY <1>3, <2>11
<1>9. CASE /\ InSequence(read[l], unit)
           /\ read' = [read EXCEPT ![l] = slot] /\ UNCHANGED drv
           /\ UNCHANGED <<credit, receivers, writes>>
  <2>1. Drives(n) /\ drv'[n].events = drv[n].events
    BY <1>1, <1>3, <1>9, SameKeeps DEF Drives
  <2>2. /\ receivers' = receivers /\ writes' = writes
        /\ read'[l] = slot /\ \A k \in Lane : k # l => read'[k] = read[k]
    <3> HIDE DEF slot
    <3> QED
      BY <1>2, <1>4, <1>9
  <2>3. ASSUME NEW k \in Lane PROVE Reads(k)
    <3>1. CASE k # l
      BY <1>0, <1>5, <2>2, <3>1, ReadsStay
    <3>2. CASE k = l
      <4>1. /\ slot \in Seq(Unit) /\ Tail(wire[l]) \in Seq(Unit)
            /\ Len(slot \o Tail(wire[l])) = Len(read[l] \o wire[l])
            /\ \A i \in 1..Len(slot \o Tail(wire[l])) :
                 (slot \o Tail(wire[l]))[i] = (read[l] \o wire[l])[i]
        BY <1>5, <1>6, ChunkMoves
      <4> HIDE DEF slot
      <4>2. read'[l] = slot /\ wire'[l] = Tail(wire[l])
        BY <1>5, <2>2
      <4>3. /\ read'[l] \in Seq(Unit) /\ wire'[l] \in Seq(Unit)
            /\ Len(read'[l] \o wire'[l]) = Len(read[l] \o wire[l])
            /\ \A i \in 1..Len(read'[l] \o wire'[l]) :
                 (read'[l] \o wire'[l])[i] = (read[l] \o wire[l])[i]
        BY <4>1, <4>2
      <4>4. Reads(l)
        BY <1>0, <1>2, <4>3, ReadsSame
      <4> QED
        BY <3>2, <4>4
    <3> QED
      BY <3>1, <3>2
  <2>4. \A k \in Lane : Waits(k)
    BY <2>2, WaitsSame
  <2>5. CInv'
    BY <1>1, <1>3, <2>1, <2>3, <2>4, QuietDrive
  <2> QED
    BY <1>3, <2>5
<1> QED
  BY <1>7, <1>8, <1>9, <1>a

\* What a lane holds after the stop has taken one submission waits as before.
LEMMA TakenWaits ==
  ASSUME Types, NEW l \in Lane, Upstream(writes[l], receivers[l])
  PROVE  /\ Upstream(Taken(l).writes, Taken(l).receivers)
         /\ TicketsIn(Taken(l).writes) \cup TicketsIn(Taken(l).receivers) = Waiting(l)
<1> DEFINE q == receivers[l]
           w == writes[l]
           takes == q # <<>> /\ Len(w) < IF backend = "tcp" THEN MaxQueued ELSE 1
<1>1. q \in Seq(Frame) /\ w \in Seq(Frame) /\ Upstream(w, q)
  BY DEF Types
<1>2. /\ takes => Taken(l).receivers = Tail(q) /\ Taken(l).writes = Append(w, Head(q))
      /\ ~takes => Taken(l).receivers = q /\ Taken(l).writes = w
  BY DEF Taken
<1>3. takes => q # <<>>
  OBVIOUS
<1>4. Waiting(l) = TicketsIn(w) \cup TicketsIn(q)
  BY DEF Waiting
<1> HIDE DEF q, w, takes
<1>5. CASE takes
  <2>1. /\ Upstream(Append(w, Head(q)), Tail(q))
        /\ TicketsIn(Append(w, Head(q))) \cup TicketsIn(Tail(q)) = TicketsIn(w) \cup TicketsIn(q)
    BY <1>1, <1>3, <1>5, MovedWaits
  <2> QED
    BY <1>2, <1>4, <1>5, <2>1
<1>6. CASE ~takes
  BY <1>1, <1>2, <1>4, <1>6
<1> QED
  BY <1>5, <1>6

\* A stop that takes a submission, and writes nothing.
LEMMA TakenKeeps ==
  ASSUME IInv, IInv', Framing', CInv, NEW n \in Member, NEW l \in Lane, Driving(n), Drives(n),
         pending' = pending, drv'[n].events = drv[n].events, read' = read, wire' = wire,
         receivers'[l] = Taken(l).receivers, writes'[l] = Taken(l).writes,
         \A k \in Lane : k # l => receivers'[k] = receivers[k] /\ writes'[k] = writes[k]
  PROVE  CInv'
<1>0. Types /\ Kinds
  BY DEF IInv, CInv
<1>1. \A k \in Lane : Reads(k)
  BY <1>0, ReadsStay
<1>2. Upstream(writes[l], receivers[l])
  BY DEF CInv, LaneInv
<1>3. Waits(l)
  <2>1. /\ Upstream(Taken(l).writes, Taken(l).receivers)
        /\ TicketsIn(Taken(l).writes) \cup TicketsIn(Taken(l).receivers) = Waiting(l)
    BY <1>0, <1>2, TakenWaits
  <2> QED
    BY <2>1 DEF Waits, StillWaiting
<1>4. \A k \in Lane : k # l => Waits(k)
  BY WaitsSame
<1> QED
  BY <1>1, <1>3, <1>4, QuietDrive

\* m units of the first frame of w are written, and v is left.
FrontCut(w, q, v, k, m) ==
  /\ w \in Seq(Frame) /\ q \in Seq(Frame) /\ w # <<>> /\ m \in Nat /\ m >= 1 /\ k \in {0, 1}
  /\ m = 1 \/ w[1].offset + m <= w[1].length + k
  /\ IF w[1].offset + m = w[1].length + k
     THEN v = Tail(w)
     ELSE \E g \in Frame : g.ticket = w[1].ticket /\ v = <<g>> \o Tail(w)

\* No unit before the last one ends the parcel.
LEMMA InnerUnits ==
  ASSUME NEW f \in Frame, NEW m \in Nat, m >= 1, NEW k \in {0, 1}, m = 1 \/ f.offset + m <= f.length + k
  PROVE  /\ \A i \in 1..m : Units(f, m)[i].ticket = f.ticket
         /\ \A i \in 1..m : i < m => ~Ends(Units(f, m)[i], k)
         /\ Ends(Units(f, m)[m], k) => f.offset + m = f.length + k
<1>1. PICK a \in Nat : a = f.offset
  BY DEF Frame
<1>2. PICK b \in Nat : b = f.length
  BY DEF Frame
<1>3. \A i \in 1..m : IsUnit(Units(f, m)[i], f, i)
  BY UnitsFacts
<1>4. \A i \in 1..m : Units(f, m)[i].ticket = f.ticket
  BY <1>3 DEF IsUnit
<1>5. ASSUME NEW i \in 1..m PROVE Ends(Units(f, m)[i], k) <=> a + i = b + k
  <2>1. Units(f, m)[i].index = (a + i) - 1 /\ Units(f, m)[i].total = b
    BY <1>1, <1>2, <1>3 DEF IsUnit
  <2>2. ((a + i) - 1) + 1 = a + i
    OBVIOUS
  <2> QED
    BY <2>1, <2>2 DEF Ends
<1>6. ASSUME NEW i \in 1..m, i < m PROVE ~Ends(Units(f, m)[i], k)
  <2>1. a + m <= b + k
    BY <1>1, <1>2, <1>6
  <2>2. a + i # b + k
    BY <1>6, <2>1
  <2> QED
    BY <1>5, <2>2
<1>7. m \in 1..m
  OBVIOUS
<1> QED
  BY <1>1, <1>2, <1>4, <1>5, <1>6, <1>7

\* The frames after a write.
LEMMA FrontWaits ==
  ASSUME NEW w, NEW q, NEW v, NEW k, NEW m, FrontCut(w, q, v, k, m), Upstream(w, q)
  PROVE  /\ Upstream(v, q) /\ TicketsIn(v) \subseteq TicketsIn(w)
         /\ TicketsIn(w) \subseteq TicketsIn(v) \cup {w[1].ticket}
         /\ w[1] \in Frame /\ w[1].ticket \in TicketsIn(w)
         /\ \A z \in TicketsIn(w) \cup TicketsIn(q) : z \in Nat /\ w[1].ticket <= z
         /\ w[1].offset + m = w[1].length + k =>
              \A z \in TicketsIn(v) \cup TicketsIn(q) : w[1].ticket < z
<1>1. w \in Seq(Frame) /\ q \in Seq(Frame) /\ w # <<>>
  BY DEF FrontCut
<1>2. InOrder(w) /\ InOrder(q) /\ Below(TicketsIn(w), TicketsIn(q))
  BY DEF Upstream
<1>3. w[1] \in Frame
  BY <1>1
<1>4. /\ w[1].ticket \in TicketsIn(w)
      /\ \A z \in TicketsIn(w) \cup TicketsIn(q) : w[1].ticket <= z
  BY <1>1, FirstWaits
<1>5. \A z \in TicketsIn(w) \cup TicketsIn(q) : z \in Nat
  <2>1. \A s \in Seq(Frame) : \A i \in 1..Len(s) : s[i] \in Frame
    OBVIOUS
  <2> QED
    BY <1>1, <2>1 DEF TicketsIn, Frame
<1>6. /\ InOrder(Tail(w)) /\ TicketsIn(w) = TicketsIn(Tail(w)) \cup {w[1].ticket}
      /\ \A z \in TicketsIn(Tail(w)) : w[1].ticket < z
  BY <1>1, <1>2, RestWaits
<1>7. CASE w[1].offset + m = w[1].length + k
  <2>1. v = Tail(w)
    BY <1>7 DEF FrontCut
  <2>2. Upstream(v, q)
    BY <1>2, <1>6, <2>1 DEF Upstream, Below
  <2>3. \A z \in TicketsIn(q) : w[1].ticket < z
    BY <1>2, <1>4 DEF Below
  <2> QED
    BY <1>3, <1>4, <1>5, <1>6, <2>1, <2>2, <2>3
<1>8. CASE w[1].offset + m # w[1].length + k
  <2>1. PICK g \in Frame : g.ticket = w[1].ticket /\ v = <<g>> \o Tail(w)
    BY <1>8 DEF FrontCut
  <2>2. Upstream(v, q) /\ TicketsIn(v) = TicketsIn(w)
    BY <1>1, <2>1, PartWaits
  <2> QED
    BY <1>3, <1>4, <1>5, <1>8, <2>2
<1> QED
  BY <1>7, <1>8

\* The units are behind what is on its way.
LEMMA FrontBehind ==
  ASSUME NEW w, NEW q, NEW v, NEW k, NEW m, FrontCut(w, q, v, k, m), Upstream(w, q)
  PROVE  Behind(Units(w[1], m), w[1].ticket, m, TicketsIn(w) \cup TicketsIn(q),
                TicketsIn(v) \cup TicketsIn(q), k)
<1> DEFINE f == w[1]
           u == Units(f, m)
<1>1. /\ m \in Nat /\ m >= 1 /\ k \in {0, 1}
      /\ m = 1 \/ f.offset + m <= f.length + k
  BY DEF FrontCut
<1>2. /\ TicketsIn(v) \subseteq TicketsIn(w) /\ f \in Frame /\ f.ticket \in TicketsIn(w)
      /\ \A z \in TicketsIn(w) \cup TicketsIn(q) : z \in Nat /\ f.ticket <= z
      /\ f.offset + m = f.length + k => \A z \in TicketsIn(v) \cup TicketsIn(q) : f.ticket < z
  BY FrontWaits
<1> HIDE DEF f
<1>3. u \in Seq(Unit) /\ Len(u) = m
  BY <1>1, <1>2, UnitsFacts
<1>4. /\ \A i \in 1..m : u[i].ticket = f.ticket
      /\ \A i \in 1..m : i < m => ~Ends(u[i], k)
      /\ Ends(u[m], k) => f.offset + m = f.length + k
  BY <1>1, <1>2, InnerUnits
<1> HIDE DEF u
<1>5. Behind(u, f.ticket, m, TicketsIn(w) \cup TicketsIn(q), TicketsIn(v) \cup TicketsIn(q), k)
  BY <1>1, <1>2, <1>3, <1>4 DEF Behind
<1> QED
  BY <1>5 DEF u, f

\* m units of a lane's first frame go on their way.
LaneCut(l, m) ==
  /\ FrontCut(Taken(l).writes, Taken(l).receivers, writes'[l], Prefix, m)
  /\ receivers'[l] = Taken(l).receivers
  /\ read'[l] = read[l] /\ wire'[l] = wire[l] \o Units(Taken(l).writes[1], m)

\* What waits after a write.
LEMMA CutWaits ==
  ASSUME IInv, CInv, NEW l \in Lane, NEW m, LaneCut(l, m), NEW f, f = Taken(l).writes[1]
  PROVE  /\ Upstream(writes'[l], receivers'[l]) /\ StillWaiting(l) \subseteq Waiting(l)
         /\ Waiting(l) \subseteq StillWaiting(l) \cup {f.ticket}
         /\ f \in Frame /\ f.ticket \in Waiting(l) /\ \A z \in Waiting(l) : f.ticket <= z
         /\ f.offset + m = f.length + Prefix => f.ticket \notin StillWaiting(l)
         /\ Behind(Units(f, m), f.ticket, m, Waiting(l), StillWaiting(l), Prefix)
<1> DEFINE w == Taken(l).writes
           q == Taken(l).receivers
           v == writes'[l]
<1>0. Types /\ Upstream(writes[l], receivers[l])
  BY DEF IInv, CInv, LaneInv
<1>1. Upstream(w, q) /\ TicketsIn(w) \cup TicketsIn(q) = Waiting(l)
  BY <1>0, TakenWaits
<1>2. FrontCut(w, q, v, Prefix, m) /\ receivers'[l] = q
  BY DEF LaneCut
<1>3. StillWaiting(l) = TicketsIn(v) \cup TicketsIn(q)
  BY <1>2 DEF StillWaiting
<1> HIDE DEF w, q, v
<1>4. /\ Upstream(v, q) /\ TicketsIn(v) \subseteq TicketsIn(w)
      /\ TicketsIn(w) \subseteq TicketsIn(v) \cup {w[1].ticket}
      /\ w[1] \in Frame /\ w[1].ticket \in TicketsIn(w)
      /\ \A z \in TicketsIn(w) \cup TicketsIn(q) : z \in Nat /\ w[1].ticket <= z
      /\ w[1].offset + m = w[1].length + Prefix =>
           \A z \in TicketsIn(v) \cup TicketsIn(q) : w[1].ticket < z
  BY <1>1, <1>2, FrontWaits
<1>5. Behind(Units(w[1], m), w[1].ticket, m, Waiting(l), StillWaiting(l), Prefix)
  <2>1. Behind(Units(w[1], m), w[1].ticket, m, TicketsIn(w) \cup TicketsIn(q),
               TicketsIn(v) \cup TicketsIn(q), Prefix)
    BY <1>1, <1>2, FrontBehind
  <2> QED
    BY <1>1, <1>3, <2>1
<1>6. f = w[1]
  BY DEF w
<1>7. Upstream(writes'[l], receivers'[l])
  BY <1>2, <1>4 DEF v
<1>8. f.offset + m = f.length + Prefix => f.ticket \notin StillWaiting(l)
  <2>1. w[1].ticket \in Nat
    BY <1>4 DEF Frame
  <2>2. ~(w[1].ticket < w[1].ticket)
    BY <2>1
  <2> QED
    BY <1>3, <1>4, <1>6, <2>2
<1> QED
  BY <1>1, <1>3, <1>4, <1>5, <1>6, <1>7, <1>8

\* Units are written behind those that are on the wire.
LEMMA JoinOnce ==
  ASSUME NEW r \in Seq(Unit), NEW x \in Seq(Unit), NEW u \in Seq(Unit)
  PROVE  r \o (x \o u) = (r \o x) \o u /\ x \o u \in Seq(Unit)
BY ConcatAssociative

\* A lane stays in order when units of its first frame are written.
LEMMA LaneWritten ==
  ASSUME IInv, CInv, NEW n \in Member, NEW l \in From(n), Driving(n), Drives(n),
         pending'[Destination(l)] = pending[Destination(l)], NEW m, LaneCut(l, m)
  PROVE  LaneInv(l)' /\ read'[l] \in Seq(Unit) /\ wire'[l] \in Seq(Unit)
<1> DEFINE s == read[l] \o wire[l]
           r == read'[l] \o wire'[l]
           f == Taken(l).writes[1]
           u == Units(f, m)
           d == Destination(l)
<1>0. l \in Lane /\ Source(l) = n /\ Works(n) /\ Kinds /\ d \in Member /\ d # n
  BY DrivingWorks, LaneFacts DEF From, CInv
<1>1. /\ Numbered(sent[l], next_ticket[Source(l)])
      /\ Row(s, Waiting(l), Prefix)
      /\ Ordered(got[l], pending[d], drv[d].events, ArrivalOn(l), TRUE)
      /\ Passing(Accepted(l), Seen(l), TicketsIn(s), Waiting(l))
      /\ Unbroken(Accepted(l), Seen(l), TicketsIn(s), Waiting(l), visible[d], Works(d), Works(n))
  BY <1>0 DEF CInv, LaneInv, Way
<1>2. /\ backend' = backend /\ sent' = sent /\ next_ticket' = next_ticket /\ got' = got
      /\ visible' = visible /\ drv'[d] = drv[d]
  BY <1>0 DEF Drives, DrvKeeps
<1>3. /\ Ordered(got'[l], pending'[d], drv'[d].events, ArrivalOn(l), TRUE)
      /\ SeenBy(l) = Seen(l)
  BY <1>1, <1>2 DEF SeenBy, Seen
<1>4. /\ Upstream(writes'[l], receivers'[l]) /\ StillWaiting(l) \subseteq Waiting(l)
      /\ Waiting(l) \subseteq StillWaiting(l) \cup {f.ticket}
      /\ f.ticket \in Waiting(l) /\ \A z \in Waiting(l) : f.ticket <= z
      /\ Behind(u, f.ticket, m, Waiting(l), StillWaiting(l), Prefix)
  BY <1>0, CutWaits
<1>5. u \in Seq(Unit)
  BY <1>4 DEF Behind
<1>6. read'[l] = read[l] /\ wire'[l] = wire[l] \o u /\ read[l] \in Seq(Unit) /\ wire[l] \in Seq(Unit)
  BY <1>0 DEF LaneCut, Kinds
<1> HIDE DEF u
<1>7. r = s \o u /\ wire'[l] \in Seq(Unit)
  <2>1. read[l] \o (wire[l] \o u) = (read[l] \o wire[l]) \o u /\ wire[l] \o u \in Seq(Unit)
    BY <1>5, <1>6, JoinOnce
  <2> QED
    BY <1>6, <2>1
<1> HIDE DEF s, r, f
<1>8. Row(r, StillWaiting(l), Prefix) /\ TicketsIn(r) = TicketsIn(s) \cup {f.ticket}
  <2>1. Row(s, Waiting(l), Prefix) /\ Behind(u, f.ticket, m, Waiting(l), StillWaiting(l), Prefix)
    BY <1>1, <1>4
  <2>2. Row(s \o u, StillWaiting(l), Prefix) /\ TicketsIn(s \o u) = TicketsIn(s) \cup {f.ticket}
    <3>1. s \in Seq(Unit)
      BY <1>6, JoinAt DEF s
    <3> QED
      BY ONLY <2>1, <3>1, RowMore
  <2> QED
    BY <1>7, <2>2
<1>9. PICK shown \in BOOLEAN, reads \in BOOLEAN : (shown <=> visible[d]) /\ (reads <=> Works(d))
  OBVIOUS
<1>10. Unbroken(Accepted(l), Seen(l), TicketsIn(s), Waiting(l), shown, reads, TRUE)
  BY <1>0, <1>1, <1>9 DEF Unbroken
<1>11. /\ Passing(Accepted(l), Seen(l), TicketsIn(r), StillWaiting(l))
       /\ Unbroken(Accepted(l), Seen(l), TicketsIn(r), StillWaiting(l), shown, reads, TRUE)
  <2>1. /\ Passing(Accepted(l), Seen(l), TicketsIn(s), Waiting(l))
        /\ Unbroken(Accepted(l), Seen(l), TicketsIn(s), Waiting(l), shown, reads, TRUE)
        /\ f.ticket \in Waiting(l) /\ (\A z \in Waiting(l) : f.ticket <= z)
        /\ StillWaiting(l) \subseteq Waiting(l) /\ Waiting(l) \subseteq StillWaiting(l) \cup {f.ticket}
    BY <1>1, <1>4, <1>10
  <2>2. /\ Passing(Accepted(l), Seen(l), TicketsIn(s) \cup {f.ticket}, StillWaiting(l))
        /\ Unbroken(Accepted(l), Seen(l), TicketsIn(s) \cup {f.ticket}, StillWaiting(l), shown, reads, TRUE)
    BY ONLY <2>1, TicketWritten
  <2> QED
    BY <1>8, <2>2
<1>12. Works(d)' => Works(d)
  <2>1. Fades
    BY DriveFades DEF Drives
  <2> QED
    BY <1>0, <2>1 DEF Fades
<1>13. Unbroken(In(sent'[l]), SeenBy(l), TicketsIn(r), StillWaiting(l),
                visible'[Destination(l)], Works(Destination(l))', Works(Source(l))')
  <2>1. Accepted(l) = In(sent'[l]) /\ visible'[d] = visible[d]
    BY <1>2 DEF Accepted
  <2>2. PICK a \in BOOLEAN, b \in BOOLEAN :
          (a <=> Works(Source(l))') /\ (b <=> Works(Destination(l))')
    OBVIOUS
  <2>3. b => reads
    BY <1>9, <1>12, <2>2
  <2>4. Unbroken(Accepted(l), Seen(l), TicketsIn(r), StillWaiting(l), shown, b, a)
    BY <1>11, <2>3 DEF Unbroken
  <2> QED
    BY <1>3, <1>9, <2>1, <2>2, <2>4 DEF Unbroken
<1>14. /\ Numbered(sent'[l], next_ticket'[Source(l)]) /\ Upstream(writes'[l], receivers'[l])
       /\ Passing(In(sent'[l]), SeenBy(l), TicketsIn(r), StillWaiting(l))
  BY <1>1, <1>2, <1>3, <1>4, <1>11 DEF Accepted
<1>15. LaneInv(l)'
  BY <1>0, <1>2, <1>3, <1>8, <1>13, <1>14, LanePrimed DEF r
<1> QED
  BY <1>6, <1>7, <1>15

\* The completion of a parcel joins the events of the call, or those that wait for room.
Notes(n, x) ==
  /\ \/ drv'[n].events = Append(drv[n].events, x) /\ pending'[n] = pending[n]
     \/ drv'[n].events = drv[n].events /\ pending'[n] = Append(pending[n], x)
  /\ \A m \in Member \ {n} : pending'[m] = pending[m]

\* A completion is nothing that a receiver sees of a lane.
LEMMA SeesNoted ==
  ASSUME CInv, NEW l \in Lane, NEW x \in Event, x \notin ArrivalOn(l), got'[l] = got[l],
         Notes(Destination(l), x), visible'[Destination(l)] = visible[Destination(l)]
  PROVE  Sees(l)
<1> DEFINE g == got[l]
           p == pending[Destination(l)]
           e == drv[Destination(l)].events
<1>1. CASE /\ drv'[Destination(l)].events = Append(drv[Destination(l)].events, x)
           /\ pending'[Destination(l)] = pending[Destination(l)]
  BY <1>1, SeesReported
<1>2. CASE /\ drv'[Destination(l)].events = e /\ pending'[Destination(l)] = Append(p, x)
  <2>1. Ordered(g, p, e, ArrivalOn(l), TRUE) /\ g \in Seq(Nat) /\ p \in Seq(Event)
    BY LaneFacts DEF CInv, LaneInv, Kinds
  <2> HIDE DEF g, p, e
  <2>2. /\ Ordered(g, Append(p, x), e, ArrivalOn(l), TRUE)
        /\ Known(g, Append(p, x), e, ArrivalOn(l)) = Known(g, p, e, ArrivalOn(l))
    BY <2>1, OtherPending
  <2>3. Regrouped(g, p, e, g, Append(p, x), e, ArrivalOn(l), TRUE)
    BY <2>1, <2>2, StartsSame DEF Regrouped
  <2> QED
    BY <1>2, <2>3, SeesRegrouped DEF g, p, e
<1> QED
  BY <1>1, <1>2 DEF Notes

\* The completions of n after it has noted a new one.
Fresh(g, p, e, x, M) ==
  /\ p \in Seq(Event) /\ e \in Seq(Event) /\ x \in Event /\ x \in M
  /\ Ordered(g, p, e, M, FALSE) /\ x.ticket \notin Known(g, p, e, M)
Noted(g, q, f, x, M, K) == Ordered(g, q, f, M, FALSE) /\ Known(g, q, f, M) = K \cup {x.ticket}

\* A new completion is distinct from the earlier ones, wherever it is noted.
LEMMA NotedOrdered ==
  ASSUME NEW g, NEW p, NEW e, NEW x, NEW M, Fresh(g, p, e, x, M)
  PROVE  /\ Noted(g, p, Append(e, x), x, M, Known(g, p, e, M))
         /\ Noted(g, Append(p, x), e, x, M, Known(g, p, e, M))
<1>1. /\ p \in Seq(Event) /\ e \in Seq(Event) /\ x \in Event /\ x \in M
      /\ Ordered(g, p, e, M, FALSE) /\ x.ticket \notin Known(g, p, e, M)
  BY DEF Fresh
<1>2. Separate(Known(g, p, e, M), {x.ticket}, FALSE)
  BY <1>1 DEF Separate, Precedes
<1>3. Ordered(g, p, Append(e, x), M, FALSE)
  BY ONLY <1>1, <1>2, EventReported
<1>4. Ordered(g, Append(p, x), e, M, FALSE)
  BY ONLY <1>1, EventPending
<1>5. Marked(Append(e, x), M) = Marked(e, M) \cup {x.ticket}
  BY <1>1, EventAppended
<1>6. Marked(Append(p, x), M) = Marked(p, M) \cup {x.ticket}
  <2>1. p \in Seq(Event) /\ x \in Event /\ x \in M
    BY <1>1
  <2> QED
    BY ONLY <2>1, EventAppended
<1> QED
  BY <1>3, <1>4, <1>5, <1>6 DEF Noted, Known

\* The completion of the parcel whose last unit was written.
LEMMA CompletesNoted ==
  ASSUME CInv, NEW n \in Member, NEW l \in From(n), NEW t \in Nat, sent' = sent, done' = done,
         Notes(n, LocalSendComplete(l, t)), \A k \in From(n) : StillWaiting(k) \subseteq Waiting(k),
         t \in Waiting(l), t \notin StillWaiting(l)
  PROVE  Completes(n)'
<1> DEFINE x == LocalSendComplete(l, t)
           p == pending[n]
           e == drv[n].events
           g == done[n]
<1>0. l \in Lane /\ Source(l) = n /\ Kinds /\ Apart
  BY DEF From, CInv
<1>1. /\ x \in Event /\ x.ticket = t /\ x \in Completion
  BY <1>0, EventKinds
<1>2. /\ e \in Seq(Event) /\ p \in Seq(Event) /\ Ordered(g, p, e, Completion, FALSE)
      /\ Known(g, p, e, Completion) \subseteq Settled(n)
  BY <1>0 DEF CInv, Completes, Kinds
<1>3. t \in Accepted(l)
  BY <1>0 DEF CInv, LaneInv, Passing
<1>4. t \notin Settled(n)
  <2> SUFFICES ASSUME NEW k \in From(n), t \in Accepted(k) \ Waiting(k) PROVE FALSE
    BY DEF Settled
  <2>1. k # l
    OBVIOUS
  <2>2. k \in Lane /\ Source(k) = n
    BY DEF From
  <2> QED
    BY <1>0, <1>3, <2>1, <2>2 DEF Apart
<1>5. \/ drv'[n].events = Append(e, x) /\ pending'[n] = p
      \/ drv'[n].events = e /\ pending'[n] = Append(p, x)
  BY DEF Notes
<1>6. done'[n] = g
  OBVIOUS
<1> HIDE DEF x, p, e, g
<1>7. /\ Ordered(g, p, Append(e, x), Completion, FALSE)
      /\ Known(g, p, Append(e, x), Completion) = Known(g, p, e, Completion) \cup {x.ticket}
      /\ Ordered(g, Append(p, x), e, Completion, FALSE)
      /\ Known(g, Append(p, x), e, Completion) = Known(g, p, e, Completion) \cup {x.ticket}
  <2>1. x.ticket \notin Known(g, p, e, Completion)
    BY <1>1, <1>2, <1>4
  <2>2. /\ e \in Seq(Event) /\ p \in Seq(Event) /\ x \in Event /\ x \in Completion
        /\ Ordered(g, p, e, Completion, FALSE)
    BY <1>1, <1>2
  <2> QED
    <3>1. Fresh(g, p, e, x, Completion)
      BY <2>1, <2>2 DEF Fresh
    <3>2. /\ Noted(g, p, Append(e, x), x, Completion, Known(g, p, e, Completion))
          /\ Noted(g, Append(p, x), e, x, Completion, Known(g, p, e, Completion))
      BY ONLY <3>1, NotedOrdered
    <3> QED
      BY <3>2 DEF Noted
<1>8. /\ Ordered(done'[n], pending'[n], drv'[n].events, Completion, FALSE)
      /\ Known(done'[n], pending'[n], drv'[n].events, Completion) = Known(g, p, e, Completion) \cup {t}
  BY <1>1, <1>5, <1>6, <1>7
<1>9. \A z \in Known(done'[n], pending'[n], drv'[n].events, Completion) :
        z \in Settled(n) \/ \E k \in From(n) : z \in Accepted(k) \ StillWaiting(k)
  BY <1>2, <1>3, <1>8
<1> QED
  BY <1>8, <1>9, CompletesPrimed

\* Noted events are events, and none of them is an arrival.
LEMMA NotedOwn ==
  ASSUME IInv, CInv, NEW n \in Member, Driving(n), Drives(n), NEW l \in Lane, NEW t \in Nat,
         Notes(n, LocalSendComplete(l, t))
  PROVE  Own(n) /\ Placed(n)'
<1> DEFINE x == LocalSendComplete(l, t)
           p == pending[n]
           e == drv[n].events
<1>1. /\ x \in Event /\ \A k \in Lane : x \notin ArrivalOn(k)
  BY EventKinds
<1>2. e \in Seq(Event) /\ p \in Seq(Event)
  BY DEF CInv, Kinds
<1>3. /\ \/ drv'[n].events = Append(e, x) /\ pending'[n] = p
         \/ drv'[n].events = e /\ pending'[n] = Append(p, x)
      /\ \A m \in Member \ {n} : pending'[m] = pending[m]
  BY DEF Notes
<1> HIDE DEF x
<1>4. Append(e, x) \in Seq(Event) /\ Append(p, x) \in Seq(Event)
  BY <1>1, <1>2, AppendAt
<1>5. \A k \in To(n) : Marked(Append(p, x), ArrivalOn(k)) = Marked(p, ArrivalOn(k))
  <2> TAKE k \in To(n)
  <2>1. x \notin ArrivalOn(k)
    BY <1>1 DEF To
  <2> QED
    BY <1>1, <1>2, <2>1, EventAppended
<1>6. pending'[n] \in Seq(Event) /\ drv'[n].events \in Seq(Event)
  BY <1>2, <1>3, <1>4
<1>7. \A k \in To(n) : Marked(pending'[n], ArrivalOn(k)) = Marked(p, ArrivalOn(k))
  BY <1>3, <1>5
<1> QED
  BY <1>3, <1>6, <1>7, DriveOwn

\* What a write does to its lane and to the others.
LEMMA WrittenLane ==
  ASSUME IInv, CInv, NEW n \in Member, NEW l \in Lane, NEW m \in Nat, m >= 1,
         Taken(l).writes # <<>>, Written(n, l, Taken(l).writes, m),
         m = 1 \/ Head(Taken(l).writes).offset + m <= FrameUnits(Head(Taken(l).writes)),
         receivers' = [receivers EXCEPT ![l] = Taken(l).receivers], read' = read
  PROVE  /\ LaneCut(l, m)
         /\ \A k \in Lane : k # l => /\ receivers'[k] = receivers[k] /\ writes'[k] = writes[k]
                                     /\ read'[k] = read[k] /\ wire'[k] = wire[k]
<1> DEFINE w == Taken(l).writes
           q == Taken(l).receivers
           f == Head(w)
           k == Prefix
           g == [f EXCEPT !.offset = f.offset + m]
<1>0. Types /\ Kinds
  BY DEF IInv, CInv
<1>1. k \in {0, 1} /\ FrameUnits(f) = f.length + k
  BY PrefixUnits
<1>2. wire = [j \in Lane |-> wire[j]] /\ writes = [j \in Lane |-> writes[j]]
      /\ receivers = [j \in Lane |-> receivers[j]]
  BY <1>0 DEF Kinds, Types
<1>3. w \in Seq(Frame) /\ q \in Seq(Frame)
  BY <1>0, TakenFacts
<1>4. f \in Frame /\ f = w[1]
  BY <1>3
<1>5. wire' = [wire EXCEPT ![l] = wire[l] \o Units(f, m)]
  BY <1>2 DEF Written
<1>6. /\ f.offset + m = FrameUnits(f) => writes' = [writes EXCEPT ![l] = Tail(w)]
      /\ f.offset + m # FrameUnits(f) =>
           writes' = [writes EXCEPT ![l] = <<[f EXCEPT !.offset = @ + m]>> \o Tail(w)]
  BY DEF Written
<1>7. [f EXCEPT !.offset = @ + m] = g
  OBVIOUS
<1>8. g \in Frame /\ g.ticket = f.ticket
  <2>1. f.offset + m \in Nat
    BY <1>4 DEF Frame
  <2> HIDE DEF f
  <2> QED
    BY <1>4, <2>1 DEF Frame
<1>9. \E v : writes' = [writes EXCEPT ![l] = v]
  BY <1>6
<1>10. \A j \in Lane : j # l => /\ receivers'[j] = receivers[j] /\ writes'[j] = writes[j]
                                /\ read'[j] = read[j] /\ wire'[j] = wire[j]
  BY <1>2, <1>5, <1>9
<1>11. wire'[l] = wire[l] \o Units(f, m) /\ receivers'[l] = q
  BY <1>2, <1>5
<1>12. /\ f.offset + m = f.length + k => writes'[l] = Tail(w)
       /\ f.offset + m # f.length + k => writes'[l] = <<g>> \o Tail(w)
  <2>2. \A v : [writes EXCEPT ![l] = v][l] = v
    BY <1>2
  <2> HIDE DEF f, g, w, k
  <2> QED
    BY <1>1, <1>6, <1>7, <2>2
<1>13. m = 1 \/ f.offset + m <= f.length + k
  BY <1>1
<1>14. w # <<>>
  OBVIOUS
<1> HIDE DEF f, g, w, q, k
<1>15. FrontCut(w, q, writes'[l], k, m)
  BY <1>1, <1>3, <1>4, <1>8, <1>12, <1>13, <1>14 DEF FrontCut
<1>16. LaneCut(l, m)
  BY <1>4, <1>11, <1>15 DEF LaneCut, w, q, k
<1> QED
  BY <1>10, <1>16

\* What it does to the events.
LEMMA WrittenEvents ==
  ASSUME IInv, CInv, NEW n \in Member, NEW l \in Lane, NEW m \in Nat, NEW w, Written(n, l, w, m),
         NEW f, f = Head(w)
  PROVE  /\ f.offset + m = FrameUnits(f) => Notes(n, LocalSendComplete(l, f.ticket))
         /\ f.offset + m # FrameUnits(f) => drv'[n].events = drv[n].events /\ pending' = pending
         /\ \E events : Advance(n, events)
<1> DEFINE x == LocalSendComplete(l, f.ticket)
<1>1. pending = [k \in Member |-> pending[k]]
  BY DEF CInv, Kinds
<1>2. CASE f.offset + m = FrameUnits(f)
  <2>1. CASE Advance(n, Append(drv[n].events, x)) /\ UNCHANGED pending
    <3>1. drv'[n].events = Append(drv[n].events, x) /\ pending' = pending
      BY <2>1, AdvanceEvents
    <3> QED
      BY <1>2, <2>1, <3>1 DEF Notes
  <2>2. CASE Advance(n, drv[n].events) /\ pending' = [pending EXCEPT ![n] = Append(@, x)]
    <3>1. drv'[n].events = drv[n].events
      BY <2>2, AdvanceEvents
    <3>2. pending'[n] = Append(pending[n], x) /\ \A k \in Member \ {n} : pending'[k] = pending[k]
      BY <1>1, <2>2
    <3> QED
      BY <1>2, <2>2, <3>1, <3>2 DEF Notes
  <2> QED
    BY <1>2, <2>1, <2>2 DEF Written
<1>3. CASE f.offset + m # FrameUnits(f)
  <2>1. Advance(n, drv[n].events) /\ pending' = pending
    BY <1>3 DEF Written
  <2>2. drv'[n].events = drv[n].events
    BY <2>1, AdvanceEvents
  <2> QED
    BY <1>3, <2>1, <2>2
<1> QED
  BY <1>2, <1>3

\* A driver has written units of the first frame of a lane.
LEMMA WrittenKeeps ==
  ASSUME IInv, IInv', Framing', CInv, NEW n \in Member, NEW l \in From(n), Driving(n),
         NEW m \in Nat, m >= 1, Taken(l).writes # <<>>, Written(n, l, Taken(l).writes, m),
         m = 1 \/ Head(Taken(l).writes).offset + m <= FrameUnits(Head(Taken(l).writes)),
         receivers' = [receivers EXCEPT ![l] = Taken(l).receivers], read' = read,
         backend' = backend, sent' = sent, next_ticket' = next_ticket,
         failed' = failed, shutdown' = shutdown, got' = got, done' = done, visible' = visible
  PROVE  CInv'
<1> DEFINE f == Taken(l).writes[1]
<1>0. /\ l \in Lane /\ Source(l) = n /\ Kinds /\ Types
      /\ Destination(l) \in Member /\ Destination(l) # n
  BY LaneFacts DEF From, CInv, IInv
<1>1. /\ LaneCut(l, m)
      /\ \A k \in Lane : k # l => /\ receivers'[k] = receivers[k] /\ writes'[k] = writes[k]
                                  /\ read'[k] = read[k] /\ wire'[k] = wire[k]
  BY <1>0, WrittenLane
<1>2. f = Head(Taken(l).writes)
  <2>1. Taken(l).writes \in Seq(Frame)
    BY <1>0, TakenFacts
  <2> QED
    BY <2>1
<1>3. /\ Upstream(writes'[l], receivers'[l]) /\ StillWaiting(l) \subseteq Waiting(l)
      /\ f \in Frame /\ f.ticket \in Waiting(l)
      /\ f.offset + m = f.length + Prefix => f.ticket \notin StillWaiting(l)
  BY <1>0, <1>1, CutWaits
<1> HIDE DEF f
<1>4. /\ f.offset + m = FrameUnits(f) => Notes(n, LocalSendComplete(l, f.ticket))
      /\ f.offset + m # FrameUnits(f) => drv'[n].events = drv[n].events /\ pending' = pending
      /\ \E events : Advance(n, events)
  BY <1>0, <1>2, WrittenEvents
<1>5. Drives(n)
  BY <1>4, AdvanceKeeps DEF Drives
<1>6. f.ticket \in Nat /\ FrameUnits(f) = f.length + Prefix
  BY <1>3, PrefixUnits DEF Frame
<1>7. pending'[Destination(l)] = pending[Destination(l)]
  BY <1>0, <1>4 DEF Notes
<1>8. LaneInv(l)' /\ read'[l] \in Seq(Unit) /\ wire'[l] \in Seq(Unit)
  BY <1>1, <1>5, <1>7, LaneWritten
<1>9. \A k \in Lane : k # l => Reads(k) /\ Waits(k)
  BY <1>0, <1>1, ReadsStay, WaitsSame
<1>10. Readable
  BY <1>8, <1>9 DEF Readable, Reads
<1>11. \A k \in Lane : StillWaiting(k) \subseteq Waiting(k)
  BY <1>3, <1>9 DEF Waits
<1>12. Own(n) /\ Placed(n)' /\ Completes(n)' /\ \A k \in Lane : Destination(k) = n => Sees(k)
  <2>1. CASE f.offset + m = FrameUnits(f)
    <3>1. Notes(n, LocalSendComplete(l, f.ticket))
      BY <1>4, <2>1
    <3>2. Own(n) /\ Placed(n)'
      BY <1>0, <1>5, <1>6, <3>1, NotedOwn
    <3>3. Completes(n)'
      <4>1. f.ticket \notin StillWaiting(l) /\ \A k \in From(n) : StillWaiting(k) \subseteq Waiting(k)
        BY <1>3, <1>6, <1>11, <2>1 DEF From
      <4> QED
        BY <1>3, <1>6, <3>1, <4>1, CompletesNoted
    <3>4. ASSUME NEW k \in Lane, Destination(k) = n PROVE Sees(k)
      <4>1. /\ LocalSendComplete(l, f.ticket) \in Event
            /\ LocalSendComplete(l, f.ticket) \notin ArrivalOn(k)
        BY <1>0, <1>6, EventKinds
      <4>2. Notes(Destination(k), LocalSendComplete(l, f.ticket)) /\ got'[k] = got[k]
            /\ visible'[Destination(k)] = visible[Destination(k)]
        BY <3>1, <3>4
      <4> QED
        BY <4>1, <4>2, SeesNoted
    <3> QED
      BY <3>2, <3>3, <3>4
  <2>2. CASE f.offset + m # FrameUnits(f)
    <3>1. drv'[n].events = drv[n].events /\ pending' = pending
      BY <1>4, <2>2
    <3>2. Own(n) /\ Placed(n)'
      BY <1>0, <1>5, <3>1, DriveOwn DEF Kinds
    <3>3. Completes(n)'
      <4>1. Completes(n) /\ done'[n] = done[n]
        BY DEF CInv
      <4>2. Reports(n)
        BY <3>1, <4>1, ReportsSame
      <4> QED
        BY <1>11, <4>1, <4>2, CompletesKept DEF From
    <3>4. \A k \in Lane : Destination(k) = n => Sees(k)
      BY <3>1, SeesSame
    <3> QED
      BY <3>2, <3>3, <3>4
  <2> QED
    BY <2>1, <2>2
<1>13. \A k \in Lane : Destination(k) # n => Sees(k)
  BY <1>12, SeesOther
<1>14. \A k \in Lane : (Reads(k) /\ Sees(k) /\ Waits(k)) \/ LaneInv(k)'
  BY <1>8, <1>9, <1>12, <1>13
<1> QED
  BY <1>10, <1>11, <1>12, <1>14, OwnStep

\* The writes of a TCP stream.
LEMMA TcpWriteKeeps ==
  ASSUME IInv, IInv', Framing, Framing', CInv, NEW n \in Member, NEW p \in Member \ {n}, TcpWrite(n, p)
  PROVE  CInv' /\ UNCHANGED <<sent, got, done, visible>>
<1> DEFINE l == <<n, p, Turn(n)>>
           free == WireCapacity - Len(wire[l])
<1>0. Types /\ Kinds /\ p \in Member /\ p # n
  BY DEF IInv, CInv
<1>1. Driving(n) /\ Turn(n) \in Channel
  BY <1>0, AtStopFacts DEF TcpWrite
<1>2. l \in Lane /\ l \in From(n)
  BY <1>0, <1>1, LaneFacts DEF From
<1>3. /\ backend' = backend /\ sent' = sent /\ next_ticket' = next_ticket
      /\ failed' = failed /\ shutdown' = shutdown /\ got' = got /\ done' = done /\ visible' = visible
  BY <1>0, StopFacts
<1>5. CASE /\ receivers' = [receivers EXCEPT ![l] = Taken(l).receivers]
           /\ writes' = [writes EXCEPT ![l] = Taken(l).writes]
           /\ Advance(n, drv[n].events) /\ UNCHANGED <<credit, wire, read, pending>>
  <2>1. Drives(n) /\ drv'[n].events = drv[n].events
    BY <1>1, <1>3, <1>5, AdvanceKeeps, AdvanceEvents DEF Drives
  <2>2. wire' = wire /\ read' = read /\ pending' = pending
    BY <1>5
  <2> HIDE DEF l
  <2>3. receivers'[l] = Taken(l).receivers /\ writes'[l] = Taken(l).writes
    BY <1>0, <1>2, <1>5 DEF Types
  <2>4. \A k \in Lane : k # l => receivers'[k] = receivers[k] /\ writes'[k] = writes[k]
    BY <1>0, <1>2, <1>5 DEF Types
  <2>5. CInv'
    BY <1>1, <1>2, <2>1, <2>2, <2>3, <2>4, TakenKeeps
  <2> QED
    BY <1>3, <2>5
<1>6. CASE /\ Taken(l).writes # <<>>
           /\ \E m \in 1..free : /\ Head(Taken(l).writes).offset + m <= FrameUnits(Head(Taken(l).writes))
                                 /\ Written(n, l, Taken(l).writes, m)
           /\ receivers' = [receivers EXCEPT ![l] = Taken(l).receivers]
           /\ UNCHANGED read
  <2>1. PICK m \in 1..free : /\ Head(Taken(l).writes).offset + m <= FrameUnits(Head(Taken(l).writes))
                             /\ Written(n, l, Taken(l).writes, m)
    BY <1>6
  <2>2. m \in Nat /\ m >= 1 /\ read' = read
    BY <1>6
  <2> HIDE DEF l, free
  <2>3. CInv'
    BY <1>1, <1>2, <1>3, <1>6, <2>1, <2>2, WrittenKeeps
  <2> QED
    BY <1>3, <2>3
<1>7. CASE FailDrain(n) /\ UNCHANGED <<wire, pending>>
  <2>1. CInv'
    BY <1>1, <1>3, <1>7, DrainKeeps
  <2> QED
    BY <1>3, <2>1
<1> QED
  BY <1>5, <1>6, <1>7 DEF TcpWrite

\* A blocking send of an MPI chunk.
LEMMA MpiWriteKeeps ==
  ASSUME IInv, IInv', Framing, Framing', CInv, NEW n \in Member, NEW p \in Member \ {n}, MpiWrite(n, p)
  PROVE  CInv' /\ UNCHANGED <<sent, got, done, visible>>
<1> DEFINE l == <<n, p, Turn(n)>>
<1>0. Types /\ Kinds /\ p \in Member /\ p # n
  BY DEF IInv, CInv
<1>1. Driving(n) /\ Turn(n) \in Channel
  BY <1>0, AtStopFacts DEF MpiWrite
<1>2. l \in Lane /\ l \in From(n)
  BY <1>0, <1>1, LaneFacts DEF From
<1>3. /\ backend' = backend /\ sent' = sent /\ next_ticket' = next_ticket
      /\ failed' = failed /\ shutdown' = shutdown /\ got' = got /\ done' = done /\ visible' = visible
      /\ read' = read /\ receivers' = [receivers EXCEPT ![l] = Taken(l).receivers]
  BY <1>0, StopFacts DEF MpiWrite
<1>5. CASE Taken(l).writes = <<>> /\ Advance(n, drv[n].events) /\ UNCHANGED <<credit, writes, wire, pending>>
  <2>1. Drives(n) /\ drv'[n].events = drv[n].events
    BY <1>1, <1>3, <1>5, AdvanceKeeps, AdvanceEvents DEF Drives
  <2>2. wire' = wire /\ writes' = writes /\ pending' = pending
    BY <1>5
  <2> HIDE DEF l
  <2>3. receivers'[l] = Taken(l).receivers /\ writes'[l] = Taken(l).writes
    <3>1. Taken(l).writes = writes[l]
      BY <1>0, <1>2, <1>5, TakenFacts
    <3> QED
      BY <1>0, <1>2, <1>3, <2>2, <3>1 DEF Types
  <2>4. \A k \in Lane : k # l => receivers'[k] = receivers[k] /\ writes'[k] = writes[k]
    BY <1>0, <1>2, <1>3, <2>2 DEF Types
  <2>5. CInv'
    BY <1>1, <1>2, <1>3, <2>1, <2>2, <2>3, <2>4, TakenKeeps
  <2> QED
    BY <1>3, <2>5
<1>6. CASE Taken(l).writes # <<>> /\ Written(n, l, Taken(l).writes, 1)
  <2> HIDE DEF l
  <2>1. PICK m \in Nat : m = 1 /\ m >= 1
    OBVIOUS
  <2>2. CInv'
    BY <1>1, <1>2, <1>3, <1>6, <2>1, WrittenKeeps
  <2> QED
    BY <1>3, <2>2
<1> QED
  BY <1>3, <1>5, <1>6 DEF MpiWrite

-----------------------------------------------------------------------------
(* Submissions.                                                             *)

\* A ticket that is counted up from all that were handed out.
LEMMA NumberedMore ==
  ASSUME NEW s \in Seq(Nat), NEW t \in Nat, t >= 1, Numbered(s, t)
  PROVE  Numbered(Append(s, t), t + 1) /\ In(Append(s, t)) = In(s) \cup {t}
<1> DEFINE r == Append(s, t)
<1>1. /\ r \in Seq(Nat) /\ Len(r) = Len(s) + 1 /\ Len(s) \in Nat /\ r[Len(s) + 1] = t
      /\ \A i \in 1..Len(s) : r[i] = s[i] /\ s[i] \in Nat
  BY AppendAt
<1>2. /\ \A i, j \in 1..Len(s) : i < j => s[i] < s[j]
      /\ \A z \in In(s) : 1 <= z /\ z < t
  BY DEF Numbered
<1> HIDE DEF r
<1>3. \A i \in 1..Len(s) : s[i] < t
  BY <1>2 DEF In
<1>4. \A i \in 1..Len(r) : i \in 1..Len(s) \/ i = Len(s) + 1
  BY <1>1
<1>5. \A i, j \in 1..Len(r) : i < j => r[i] < r[j]
  <2> SUFFICES ASSUME NEW i \in 1..Len(r), NEW j \in 1..Len(r), i < j PROVE r[i] < r[j]
    OBVIOUS
  <2>1. i \in 1..Len(s)
    BY <1>1
  <2>2. CASE j \in 1..Len(s)
    BY <1>1, <1>2, <2>1, <2>2
  <2>3. CASE j = Len(s) + 1
    BY <1>1, <1>3, <2>1, <2>3
  <2> QED
    BY <1>4, <2>2, <2>3
<1>6. In(r) = In(s) \cup {t}
  <2>1. Len(s) + 1 \in 1..Len(r) /\ \A i \in 1..Len(s) : i \in 1..Len(r)
    BY <1>1
  <2> QED
    BY <1>1, <1>4, <2>1 DEF In
<1>7. \A z \in In(r) : 1 <= z /\ z < t + 1
  <2>1. \A z \in In(s) : z \in Nat
    BY <1>1 DEF In
  <2> QED
    BY <1>2, <1>6, <2>1
<1>8. Numbered(r, t + 1)
  BY <1>5, <1>7 DEF Numbered
<1> QED
  BY <1>6, <1>8 DEF r

\* What try_send changes.
LEMMA SendFacts ==
  ASSUME IInv, CInv, NEW l \in Lane, NEW length \in Lengths, TrySend(l, length),
         NEW n, n = Source(l), NEW t, t = next_ticket[n]
  PROVE  /\ n \in Member /\ t \in Nat /\ t >= 1 /\ t <= Sends[n]
         /\ next_ticket'[n] = t + 1 /\ \A m \in Member : m # n => next_ticket'[m] = next_ticket[m]
         /\ \E f \in Frame : f.ticket = t /\ receivers'[l] = Append(receivers[l], f)
         /\ sent'[l] = Append(sent[l], t) /\ sent' = [sent EXCEPT ![l] = Append(@, t)]
         /\ \A k \in Lane : k # l => receivers'[k] = receivers[k] /\ sent'[k] = sent[k]
         /\ sent' \in [Lane -> Seq(Nat)]
<1> DEFINE f == [ticket |-> t, length |-> length, reserved |-> Reserved(length), offset |-> 0]
<1>1. Types /\ Kinds /\ n \in Member
  BY LaneFacts DEF IInv, CInv
<1>2. /\ receivers' = [receivers EXCEPT ![l] = Append(receivers[l], f)]
      /\ sent' = [sent EXCEPT ![l] = Append(sent[l], t)]
      /\ next_ticket' = [next_ticket EXCEPT ![n] = t + 1] /\ t <= Sends[n]
  BY <1>1 DEF TrySend, Types, Kinds
<1>3. t \in Nat /\ t >= 1
  BY <1>1 DEF Types, Kinds
<1>4. f \in Frame /\ f.ticket = t
  <2>1. length \in Nat
    BY TransportAssumption
  <2>2. Reserved(length) \in Nat
    BY <2>1 DEF Reserved, LENGTH
  <2> QED
    BY <1>3, <2>1, <2>2 DEF Frame
<1> HIDE DEF f
<1>5. receivers'[l] = Append(receivers[l], f) /\ \A k \in Lane : k # l => receivers'[k] = receivers[k]
  BY <1>1, <1>2 DEF Types
<1>6. /\ sent'[l] = Append(sent[l], t) /\ \A k \in Lane : k # l => sent'[k] = sent[k]
      /\ sent' \in [Lane -> Seq(Nat)]
  BY <1>1, <1>2, <1>3 DEF Kinds
<1>7. next_ticket'[n] = t + 1 /\ \A m \in Member : m # n => next_ticket'[m] = next_ticket[m]
  BY <1>1, <1>2 DEF Types
<1>8. sent' = [sent EXCEPT ![l] = Append(@, t)]
  BY <1>2
<1> QED
  BY <1>1, <1>2, <1>3, <1>4, <1>5, <1>6, <1>7, <1>8

\* The rest of what try_send leaves alone.
LEMMA SendKeeps ==
  ASSUME NEW l \in Lane, NEW length \in Lengths, TrySend(l, length)
  PROVE  /\ backend' = backend /\ writes' = writes /\ wire' = wire /\ read' = read
         /\ pending' = pending /\ failed' = failed /\ shutdown' = shutdown /\ drv' = drv
         /\ got' = got /\ done' = done /\ visible' = visible
BY DEF TrySend

\* The lane of the submission.
LEMMA LaneSent ==
  ASSUME IInv, CInv, NEW l \in Lane, NEW length \in Lengths, TrySend(l, length),
         NEW t, t = next_ticket[Source(l)]
  PROVE  /\ LaneInv(l)' /\ In(sent'[l]) = Accepted(l) \cup {t}
         /\ StillWaiting(l) = Waiting(l) \cup {t}
<1> DEFINE n == Source(l)
           d == Destination(l)
           w == writes[l]
           q == receivers[l]
           s == Way(l)
<1>1. Types /\ Kinds /\ LaneInv(l)
  BY DEF IInv, CInv
<1>2. /\ Numbered(sent[l], next_ticket[n]) /\ Upstream(w, q) /\ Row(s, Waiting(l), Prefix)
      /\ Ordered(got[l], pending[d], drv[d].events, ArrivalOn(l), TRUE)
      /\ Passing(Accepted(l), Seen(l), TicketsIn(s), Waiting(l))
      /\ Unbroken(Accepted(l), Seen(l), TicketsIn(s), Waiting(l), visible[d], Works(d), Works(n))
  BY <1>1 DEF LaneInv
<1>3. /\ t \in Nat /\ t >= 1 /\ next_ticket'[n] = t + 1
      /\ sent'[l] = Append(sent[l], t)
  BY SendFacts
<1>4. PICK f \in Frame : f.ticket = t /\ receivers'[l] = Append(q, f)
  BY SendFacts
<1>5. /\ backend' = backend /\ writes' = writes /\ wire' = wire /\ read' = read
      /\ pending' = pending /\ failed' = failed /\ shutdown' = shutdown /\ drv' = drv
      /\ got' = got /\ done' = done /\ visible' = visible
  BY SendKeeps
<1>6. Numbered(sent'[l], t + 1) /\ In(sent'[l]) = Accepted(l) \cup {t}
  <2>1. Numbered(sent[l], t) /\ sent[l] \in Seq(Nat)
    BY <1>1, <1>2 DEF Kinds
  <2> QED
    BY <1>3, <2>1, NumberedMore DEF Accepted
<1>7. \A a \in Accepted(l) : a \in Nat /\ a < t
  BY <1>2 DEF Numbered, Accepted, Passing
<1>8. Waiting(l) \subseteq Accepted(l) /\ TicketsIn(s) \subseteq Accepted(l)
  BY <1>2 DEF Passing
<1>9. w \in Seq(Frame) /\ q \in Seq(Frame) /\ Waiting(l) = TicketsIn(w) \cup TicketsIn(q)
  BY <1>1 DEF Types, Waiting
<1> HIDE DEF w, q, s
<1>10. /\ Upstream(w, Append(q, f)) /\ TicketsIn(Append(q, f)) = TicketsIn(q) \cup {t}
  <2>1. \A z \in TicketsIn(w) \cup TicketsIn(q) : z < f.ticket
    BY <1>4, <1>7, <1>8, <1>9
  <2> QED
    BY <1>2, <1>4, <1>9, <2>1, LaterWaits
<1>11. StillWaiting(l) = Waiting(l) \cup {t} /\ Upstream(writes'[l], receivers'[l])
  BY <1>4, <1>5, <1>9, <1>10 DEF StillWaiting, w
<1>12. Row(s, Waiting(l) \cup {t}, Prefix)
  <2>1. \A a \in TicketsIn(s) : a \in Nat /\ a < t
    BY <1>7, <1>8
  <2> QED
    BY <1>2, <1>3, <2>1, RowLater
<1>13. PICK shown \in BOOLEAN, reads \in BOOLEAN, writing \in BOOLEAN :
         (shown <=> visible[d]) /\ (reads <=> Works(d)) /\ (writing <=> Works(n))
  OBVIOUS
<1>14. Unbroken(Accepted(l), Seen(l), TicketsIn(s), Waiting(l), shown, reads, writing)
  BY <1>2, <1>13 DEF Unbroken
<1>15. /\ Passing(Accepted(l) \cup {t}, Seen(l), TicketsIn(s), Waiting(l) \cup {t})
       /\ Unbroken(Accepted(l) \cup {t}, Seen(l), TicketsIn(s), Waiting(l) \cup {t}, shown, reads, writing)
  BY <1>2, <1>3, <1>7, <1>14, TicketAccepted
<1>16. SeenBy(l) = Seen(l) /\ read'[l] \o wire'[l] = s
  BY <1>5 DEF SeenBy, Seen, Way, s
<1>17. (Works(d)' <=> Works(d)) /\ (Works(n)' <=> Works(n)) /\ visible'[d] = visible[d]
  BY <1>5 DEF Works
<1>18. Unbroken(In(sent'[l]), SeenBy(l), TicketsIn(read'[l] \o wire'[l]), StillWaiting(l),
                visible'[Destination(l)], Works(Destination(l))', Works(Source(l))')
  BY <1>6, <1>11, <1>13, <1>15, <1>16, <1>17 DEF Unbroken
<1>19. /\ Numbered(sent'[l], next_ticket'[Source(l)])
       /\ Row(read'[l] \o wire'[l], StillWaiting(l), Prefix)
       /\ Ordered(got'[l], pending'[Destination(l)], drv'[Destination(l)].events, ArrivalOn(l), TRUE)
       /\ Passing(In(sent'[l]), SeenBy(l), TicketsIn(read'[l] \o wire'[l]), StillWaiting(l))
  BY <1>2, <1>3, <1>5, <1>6, <1>11, <1>12, <1>15, <1>16
<1>20. LaneInv(l)'
  BY <1>5, <1>11, <1>18, <1>19, LanePrimed
<1> QED
  BY <1>6, <1>11, <1>20

\* The other lanes.
LEMMA LaneOther ==
  ASSUME IInv, CInv, NEW l \in Lane, NEW length \in Lengths, TrySend(l, length), NEW k \in Lane, k # l
  PROVE  LaneInv(k)' /\ sent'[k] = sent[k] /\ StillWaiting(k) = Waiting(k)
<1> DEFINE n == Source(k)
           d == Destination(k)
<1>1. Types /\ Kinds /\ LaneInv(k) /\ n \in Member
  BY LaneFacts DEF IInv, CInv
<1>2. /\ backend' = backend /\ writes' = writes /\ wire' = wire /\ read' = read
      /\ pending' = pending /\ failed' = failed /\ shutdown' = shutdown /\ drv' = drv
      /\ got' = got /\ done' = done /\ visible' = visible
  BY SendKeeps
<1>3. receivers'[k] = receivers[k] /\ sent'[k] = sent[k]
  BY SendFacts
<1>4. next_ticket'[n] = next_ticket[n] \/ next_ticket'[n] = next_ticket[n] + 1
  BY <1>1, SendFacts
<1>5. Numbered(sent'[k], next_ticket'[n])
  <2>1. Numbered(sent[k], next_ticket[n]) /\ next_ticket[n] \in Nat /\ sent[k] \in Seq(Nat)
    BY <1>1 DEF LaneInv, Kinds, Types
  <2>2. \A z \in In(sent[k]) : z \in Nat
    BY <2>1 DEF In
  <2> QED
    BY <1>3, <1>4, <2>1, <2>2 DEF Numbered
<1>6. StillWaiting(k) = Waiting(k) /\ SeenBy(k) = Seen(k) /\ read'[k] \o wire'[k] = Way(k)
      /\ In(sent'[k]) = Accepted(k)
  BY <1>2, <1>3 DEF StillWaiting, Waiting, SeenBy, Seen, Way, Accepted
<1>7. (Works(d)' <=> Works(d)) /\ (Works(n)' <=> Works(n)) /\ visible'[d] = visible[d]
  BY <1>2 DEF Works
<1>8. /\ Upstream(writes'[k], receivers'[k]) /\ Row(read'[k] \o wire'[k], StillWaiting(k), Prefix)
      /\ Ordered(got'[k], pending'[Destination(k)], drv'[Destination(k)].events, ArrivalOn(k), TRUE)
      /\ Passing(In(sent'[k]), SeenBy(k), TicketsIn(read'[k] \o wire'[k]), StillWaiting(k))
  BY <1>1, <1>2, <1>3, <1>6 DEF LaneInv
<1>9. Unbroken(In(sent'[k]), SeenBy(k), TicketsIn(read'[k] \o wire'[k]), StillWaiting(k),
                visible'[Destination(k)], Works(Destination(k))', Works(Source(k))')
  BY <1>1, <1>6, <1>7 DEF LaneInv, Unbroken
<1>10. LaneInv(k)'
  BY <1>2, <1>5, <1>8, <1>9, LanePrimed
<1> QED
  BY <1>3, <1>6, <1>10

\* try_send on any client's thread.
LEMMA TrySendKeeps ==
  ASSUME IInv, CInv, NEW l \in Lane, NEW length \in Lengths, TrySend(l, length)
  PROVE  CInv'
<1> DEFINE n == Source(l)
           t == next_ticket[n]
<1>1. Types /\ Kinds /\ Apart /\ n \in Member
  BY LaneFacts DEF IInv, CInv
<1>2. /\ LaneInv(l)' /\ In(sent'[l]) = Accepted(l) \cup {t}
      /\ StillWaiting(l) = Waiting(l) \cup {t}
  BY LaneSent
<1>3. \A k \in Lane : k # l => LaneInv(k)' /\ sent'[k] = sent[k] /\ StillWaiting(k) = Waiting(k)
  BY LaneOther
<1>4. /\ t \in Nat /\ t >= 1 /\ next_ticket'[n] = t + 1
      /\ \A m \in Member : m # n => next_ticket'[m] = next_ticket[m]
      /\ sent' \in [Lane -> Seq(Nat)]
  BY SendFacts
<1>5. /\ backend' = backend /\ writes' = writes /\ wire' = wire /\ read' = read
      /\ pending' = pending /\ failed' = failed /\ shutdown' = shutdown /\ drv' = drv
      /\ got' = got /\ done' = done /\ visible' = visible
  BY SendKeeps
<1> HIDE DEF t
<1>6. Kinds'
  <2>1. ASSUME NEW m \in Member PROVE next_ticket'[m] >= 1
    <3>1. CASE m = n
      <4>1. t + 1 >= 1
        BY <1>4
      <4> QED
        BY <1>4, <3>1, <4>1
    <3>2. CASE m # n
      <4>1. next_ticket'[m] = next_ticket[m]
        BY <1>4, <3>2
      <4> QED
        BY <1>1, <4>1 DEF Kinds
    <3> QED
      BY <3>1, <3>2
  <2> QED
    BY <1>1, <1>4, <1>5, <2>1 DEF Kinds
<1>7. \A k \in Lane : Source(k) = n => \A a \in Accepted(k) : a \in Nat /\ a < t
  BY <1>1 DEF CInv, LaneInv, Numbered, Accepted, Passing, t
<1>8. \A k \in Lane : k # l => In(sent'[k]) = Accepted(k)
  BY <1>3 DEF Accepted
<1>9. Apart'
  <2> SUFFICES ASSUME NEW k \in Lane, NEW m \in Lane, Source(k) = Source(m), k # m
               PROVE  In(sent'[k]) \cap In(sent'[m]) = {}
    BY DEF Apart, Accepted, Source
  <2>1. Accepted(k) \cap Accepted(m) = {}
    BY <1>1 DEF Apart
  <2>2. \A x \in Lane : Source(x) = n => t \notin Accepted(x)
    BY <1>4, <1>7
  <2>3. CASE k = l
    BY <1>2, <1>8, <2>1, <2>2, <2>3
  <2>4. CASE m = l
    BY <1>2, <1>8, <2>1, <2>2, <2>4
  <2>5. CASE k # l /\ m # l
    BY <1>8, <2>1, <2>5
  <2> QED
    BY <2>3, <2>4, <2>5
<1>10. ASSUME NEW m \in Member PROVE Completes(m)' /\ Placed(m)'
  <2>1. Completes(m) /\ Placed(m)
    BY DEF CInv
  <2>2. Placed(m)'
    BY <1>5, <2>1 DEF Placed, To, Destination
  <2>3. ASSUME NEW z \in Settled(m) PROVE z \in Settled(m)'
    <3>1. PICK k \in From(m) : z \in Accepted(k) /\ z \notin Waiting(k)
      BY <2>3 DEF Settled
    <3>2. k \in Lane /\ Source(k) = m
      BY <3>1 DEF From
    <3>3. z \in In(sent'[k])
      BY <1>2, <1>8, <3>1, <3>2
    <3>4. z \notin StillWaiting(k)
      <4>1. CASE k = l
        <5>1. z # t
          BY <1>4, <1>7, <3>1, <3>2, <4>1
        <5> QED
          BY <1>2, <3>1, <4>1, <5>1
      <4>2. CASE k # l
        BY <1>3, <3>1, <3>2, <4>2
      <4> QED
        BY <4>1, <4>2
    <3>5. k \in From(m)'
      BY <3>1 DEF From, Source
    <3>6. Accepted(k)' = In(sent'[k]) /\ Waiting(k)' = StillWaiting(k)
      BY DEF Accepted, Waiting, StillWaiting
    <3> QED
      BY <3>3, <3>4, <3>5, <3>6 DEF Settled
  <2>4. Completes(m)'
    <3>1. Ordered(done[m], pending[m], drv[m].events, Completion, FALSE)'
      BY <1>5, <2>1 DEF Completes
    <3>2. Known(done[m], pending[m], drv[m].events, Completion)' \subseteq Settled(m)
      BY <1>5, <2>1 DEF Completes
    <3> QED
      BY <2>3, <3>1, <3>2 DEF Completes
  <2> QED
    BY <2>2, <2>4
<1> QED
  BY <1>2, <1>3, <1>6, <1>9, <1>10 DEF CInv

\* At first no ticket has been handed out.
LEMMA InitCInv == Init => CInv
<1> SUFFICES ASSUME Init PROVE CInv
  OBVIOUS
<1>1. /\ \A l \in Lane : /\ sent[l] = <<>> /\ got[l] = <<>> /\ read[l] = <<>> /\ wire[l] = <<>>
                         /\ writes[l] = <<>> /\ receivers[l] = <<>>
      /\ \A n \in Member : /\ done[n] = <<>> /\ pending[n] = <<>> /\ drv[n].events = <<>>
                           /\ drv[n].op = "idle" /\ next_ticket[n] = 1
  BY DEF Init, Idle
<1>2. Kinds
  <2>1. /\ sent \in [Lane -> Seq(Nat)] /\ got \in [Lane -> Seq(Nat)]
        /\ done \in [Member -> Seq(Nat)] /\ visible \in [Member -> BOOLEAN]
    BY DEF Init
  <2>2. /\ pending \in [Member -> Seq(Event)] /\ read \in [Lane -> Seq(Unit)] /\ wire \in [Lane -> Seq(Unit)]
    BY DEF Init
  <2>3. /\ \A n \in Member : drv[n].events \in Seq(Event)
        /\ \A n \in Member : next_ticket[n] >= 1
    <3>1. <<>> \in Seq(Event) /\ 1 >= 1
      OBVIOUS
    <3>2. \A n \in Member : drv[n].events = <<>> /\ next_ticket[n] = 1
      BY <1>1
    <3> QED
      BY <3>1, <3>2, Zenon
  <2> QED
    BY <2>1, <2>2, <2>3 DEF Kinds
<1>3. In(<<>>) = {} /\ TicketsIn(<<>>) = {} /\ <<>> \o <<>> = <<>> /\ 1..Len(<<>>) = {}
  <2>1. Len(<<>>) = 0 /\ 1..0 = {} /\ <<>> \o <<>> = <<>>
    OBVIOUS
  <2> QED
    BY <2>1 DEF In, TicketsIn
<1>4. \A M, o : Ordered(<<>>, <<>>, <<>>, M, o) /\ Known(<<>>, <<>>, <<>>, M) = {}
  <2> TAKE M, o
  <2>1. Marked(<<>>, M) = {} /\ Aligned(<<>>, M, o)
    BY NoEvents
  <2>2. Rising(<<>>, o)
    BY <1>3 DEF Rising
  <2> QED
    BY <1>3, <2>1, <2>2 DEF Ordered, Known, Separate
<1>5. Apart
  BY <1>1, <1>3 DEF Apart, Accepted
<1>6. ASSUME NEW l \in Lane PROVE LaneInv(l)
  <2>1. Destination(l) \in Member
    BY LaneFacts
  <2>2. Accepted(l) = {} /\ Seen(l) = {} /\ Way(l) = <<>> /\ Waiting(l) = {} /\ TicketsIn(Way(l)) = {}
    BY <1>1, <1>3, <1>4, <2>1 DEF Accepted, Seen, Way, Waiting
  <2>3. Numbered(sent[l], next_ticket[Source(l)])
    BY <1>1, <1>3 DEF Numbered
  <2>4. Upstream(writes[l], receivers[l])
    BY <1>1, <1>3 DEF Upstream, InOrder, Below
  <2>5. Row(Way(l), Waiting(l), Prefix)
    BY <1>3, <2>2 DEF Row
  <2>6. Ordered(got[l], pending[Destination(l)], drv[Destination(l)].events, ArrivalOn(l), TRUE)
    BY <1>1, <1>4, <2>1
  <2>7. Passing(Accepted(l), Seen(l), TicketsIn(Way(l)), Waiting(l))
    BY <2>2 DEF Passing, Below
  <2>8. Unbroken(Accepted(l), Seen(l), TicketsIn(Way(l)), Waiting(l), visible[Destination(l)],
                 Works(Destination(l)), Works(Source(l)))
    BY <2>2 DEF Unbroken, Whole
  <2> QED
    BY <2>3, <2>4, <2>5, <2>6, <2>7, <2>8 DEF LaneInv
<1>7. ASSUME NEW n \in Member PROVE Completes(n) /\ Placed(n)
  <2>1. Completes(n)
    BY <1>1, <1>4 DEF Completes
  <2>2. Placed(n)
    BY <1>1, NoEvents DEF Placed
  <2> QED
    BY <2>1, <2>2
<1> QED
  BY <1>2, <1>5, <1>6, <1>7 DEF CInv

\* Nothing changes.
LEMMA StillCInv ==
  ASSUME CInv, UNCHANGED vars
  PROVE  CInv'
<1>1. /\ backend' = backend /\ writes' = writes /\ wire' = wire /\ read' = read /\ receivers' = receivers
      /\ pending' = pending /\ failed' = failed /\ shutdown' = shutdown /\ drv' = drv
      /\ sent' = sent /\ next_ticket' = next_ticket
      /\ got' = got /\ done' = done /\ visible' = visible
  BY DEF vars, flow, history
<1>2. Kinds' /\ Apart'
  BY <1>1 DEF CInv, Kinds, Apart, Accepted, Source
<1>3. ASSUME NEW l \in Lane PROVE LaneInv(l)'
  <2>1. LaneInv(l)
    BY DEF CInv
  <2> QED
    BY <1>1, <2>1 DEF LaneInv, Accepted, Seen, Way, Waiting, Works, Prefix, Source, Destination
<1>4. ASSUME NEW n \in Member PROVE Completes(n)' /\ Placed(n)'
  <2>1. Completes(n) /\ Placed(n)
    BY DEF CInv
  <2>2. Settled(n)' = Settled(n)
    BY <1>1 DEF Settled, Accepted, Waiting, From, Source
  <2>3. Completes(n)'
    BY <1>1, <2>1, <2>2 DEF Completes
  <2>4. Placed(n)'
    BY <1>1, <2>1 DEF Placed, To, Destination
  <2> QED
    BY <2>3, <2>4
<1> QED
  BY <1>2, <1>3, <1>4 DEF CInv

-----------------------------------------------------------------------------
(* The invariant holds.                                                     *)

Inv == IInv /\ Framing /\ CInv

\* The invariant holds at the start.
LEMMA InitInv == Init => Inv
BY InitIInv, InitFraming, InitCInv DEF Inv

\* What each step of an owner does to the histories.
HandsOver(n) ==
  /\ Own(n)
  /\ Hands(n) \/ (got' = got /\ done' = done)
Quiet == UNCHANGED <<sent, got, done, visible>>

\* A step of an owner keeps the tickets in order, and hands events over or leaves the histories.
LEMMA StepOutcome ==
  ASSUME IInv, IInv', Framing, Framing', CInv, NEW n \in Member,
         Step(n) \/ Progress(n) \/ Flush(n) \/ Shutdown(n) \/ Crash(n)
  PROVE  CInv' /\ (Quiet \/ HandsOver(n))
<1>1. ASSUME NEW p \in Member \ {n}, TcpWrite(n, p) \/ TcpRead(n, p) \/ TcpDecode(n, p) \/ MpiWrite(n, p)
      PROVE  CInv' /\ Quiet
  <2>1. CASE TcpWrite(n, p)
    BY <2>1, TcpWriteKeeps DEF Quiet
  <2>2. CASE TcpRead(n, p)
    BY <2>2, TcpReadKeeps DEF Quiet
  <2>3. CASE TcpDecode(n, p)
    BY <2>3, TcpDecodeKeeps DEF Quiet
  <2>4. CASE MpiWrite(n, p)
    BY <2>4, MpiWriteKeeps DEF Quiet
  <2> QED
    BY <1>1, <2>1, <2>2, <2>3, <2>4
<1>2. CASE MpiReceive(n)
  BY <1>2, MpiReceiveKeeps DEF Quiet
<1>3. CASE MpiReceived(n)
  BY <1>3, MpiReceivedKeeps DEF Quiet
<1>4. CASE FlushOverflow(n)
  BY <1>4, FlushOverflowKeeps DEF HandsOver
<1>5. CASE FlushTimeout(n) \/ FlushAgain(n)
  BY <1>5, FlushKeepsEvents DEF Quiet
<1>6. CASE ProgressDone(n)
  BY <1>6, ProgressDoneKeeps DEF HandsOver
<1>7. CASE ShutdownDone(n)
  BY <1>7, ShutdownDoneKeeps DEF HandsOver
<1>8. CASE FailClose(n)
  BY <1>8, FailCloseKeeps DEF HandsOver
<1>9. CASE Progress(n)
  BY <1>9, ProgressKeeps DEF HandsOver
<1>10. CASE Flush(n) \/ Shutdown(n)
  BY <1>10, BeginKeeps DEF Quiet
<1>11. CASE Crash(n)
  BY <1>11, CrashKeeps DEF Quiet
<1> QED
  BY <1>1, <1>2, <1>3, <1>4, <1>5, <1>6, <1>7, <1>8, <1>9, <1>10, <1>11 DEF Step

\* Every step keeps the invariant.
LEMMA NextInv == Inv /\ [Next]_vars => Inv'
<1> SUFFICES ASSUME Inv, [Next]_vars PROVE Inv'
  OBVIOUS
<1>1. IInv /\ Framing /\ CInv
  BY DEF Inv
<1>2. IInv' /\ Framing'
  BY <1>1, NextIInv, NextFraming
<1>3. CASE UNCHANGED vars
  BY <1>1, <1>2, <1>3, StillCInv DEF Inv
<1>4. CASE \E l \in Lane : \E length \in Lengths : TrySend(l, length)
  BY <1>1, <1>2, <1>4, TrySendKeeps DEF Inv
<1>5. ASSUME NEW n \in Member, Step(n) \/ Progress(n) \/ Flush(n) \/ Shutdown(n) \/ Crash(n)
      PROVE  Inv'
  BY <1>1, <1>2, <1>5, StepOutcome DEF Inv
<1> QED
  BY <1>3, <1>4, <1>5 DEF Next

-----------------------------------------------------------------------------
(* Every step is a step of ParcelLink, or leaves its variables alone.       *)

\* ParcelLink names the elements of a sequence the same.
LEMMA SameElements == \A S : \A s \in Seq(S) : Link!Elements(s) = In(s)
BY DEF Link!Elements, In

\* A submission is accepted.
LEMMA TrySendAccepts ==
  ASSUME IInv, CInv, NEW l \in Lane, NEW length \in Lengths, TrySend(l, length)
  PROVE  Link!Accept(l)
<1> DEFINE n == Source(l)
           t == next_ticket[n]
<1>1. Kinds
  BY DEF CInv
<1>2. /\ n \in Member /\ t \in Nat /\ t >= 1 /\ t <= Sends[n]
      /\ sent' = [sent EXCEPT ![l] = Append(@, t)]
  BY SendFacts
<1>3. got' = got /\ done' = done /\ visible' = visible
  BY SendKeeps
<1>4. t \in Ticket
  <2>1. Sends[n] \in Nat
    BY <1>2, TransportAssumption
  <2>2. t \in 1..Sends[n]
    BY <1>2, <2>1
  <2> QED
    BY <1>2, <2>2 DEF Ticket
<1>5. \A u \in Link!AcceptedBy(Link!Source(l)) : u < t
  <2> SUFFICES ASSUME NEW k \in Lane, Source(k) = n, NEW u \in Link!Elements(sent[k]) PROVE u < t
    BY DEF Link!AcceptedBy, Link!Source, Source
  <2>1. u \in In(sent[k])
    BY <1>1, SameElements DEF Kinds
  <2>2. Numbered(sent[k], t)
    BY DEF CInv, LaneInv
  <2> QED
    BY <2>1, <2>2 DEF Numbered
<1> HIDE DEF t
<1> QED
  BY <1>2, <1>3, <1>4, <1>5 DEF Link!Accept

\* The events of `p' and `e' become `h', `q' and `f', and the tickets of `s' cover them.
Covered(g, p, e, h, q, f, M, s) ==
  /\ Regrouped(g, p, e, h, q, f, M, TRUE)
  /\ s \in Seq(Nat)
  /\ Rising(s, TRUE)
  /\ Known(g, p, e, M) \subseteq In(s)

\* What has been handed over of a lane.
LEMMA ArrivalsHanded ==
  ASSUME NEW g, NEW p, NEW e, NEW h, NEW q, NEW f, NEW M, NEW s,
         Covered(g, p, e, h, q, f, M, s)
  PROVE  /\ Link!IsStart(g, h) /\ Link!Ascending(h) /\ Link!Elements(h) \subseteq Link!Elements(s)
         /\ Whole(Known(g, p, e, M), In(s)) => Link!IsStart(h, s)
<1>0. /\ Regrouped(g, p, e, h, q, f, M, TRUE) /\ s \in Seq(Nat) /\ Rising(s, TRUE)
      /\ Known(g, p, e, M) \subseteq In(s)
  BY DEF Covered
<1> DEFINE K == Known(g, p, e, M)
<1>1. /\ h \in Seq(Nat) /\ Link!IsStart(g, h) /\ Ordered(h, q, f, M, TRUE) /\ Known(h, q, f, M) = K
  BY <1>0 DEF Regrouped
<1>2. /\ Rising(h, TRUE) /\ Separate(In(h), Marked(q, M) \cup Marked(f, M), TRUE)
  BY <1>1 DEF Ordered
<1>3. K = In(h) \cup (Marked(q, M) \cup Marked(f, M)) /\ In(h) \subseteq K /\ K \subseteq In(s)
  BY <1>0, <1>1 DEF Known
<1> HIDE DEF K
<1>4. Link!Ascending(h)
  <2>1. DOMAIN h = 1..Len(h)
    BY <1>1
  <2> QED
    BY <1>2, <2>1 DEF Link!Ascending, Rising, Precedes
<1>5. Link!Elements(h) \subseteq Link!Elements(s)
  BY <1>0, <1>1, <1>3, SameElements
<1>6. ASSUME Whole(K, In(s)) PROVE Link!IsStart(h, s)
  <2>1. ASSUME NEW a \in In(s), NEW x \in In(h), a < x PROVE a \in In(h)
    <3>1. a \in K
      BY <1>3, <1>6, <2>1 DEF Whole
    <3>2. CASE a \in Marked(q, M) \cup Marked(f, M)
      <4>1. x < a
        BY <1>2, <3>2 DEF Separate, Precedes
      <4>2. a \in Nat /\ x \in Nat
        BY <1>0, <1>1 DEF In
      <4> QED
        BY <2>1, <4>1, <4>2
    <3> QED
      BY <1>3, <3>1, <3>2
  <2>2. Whole(In(h), In(s)) /\ In(h) \subseteq In(s)
    BY <1>3, <2>1 DEF Whole
  <2> QED
    BY <1>0, <1>1, <1>2, <2>2, WholeStarts
<1> QED
  BY <1>1, <1>4, <1>5, <1>6 DEF K

\* The completions handed over.
LEMMA CompletionsHanded ==
  ASSUME NEW g, NEW p, NEW e, NEW h, NEW q, NEW f, NEW M, Regrouped(g, p, e, h, q, f, M, FALSE)
  PROVE  /\ Link!IsStart(g, h) /\ Link!Distinct(h) /\ Link!Elements(h) \subseteq Known(g, p, e, M)
<1>1. /\ h \in Seq(Nat) /\ Link!IsStart(g, h) /\ Rising(h, FALSE) /\ In(h) \subseteq Known(g, p, e, M)
  BY DEF Regrouped, Ordered, Known
<1>2. DOMAIN h = 1..Len(h) /\ Len(h) \in Nat
  BY <1>1
<1>3. \A i, j \in 1..Len(h) : i < j => h[i] # h[j]
  BY <1>1 DEF Rising, Precedes
<1>4. ASSUME NEW i \in 1..Len(h), NEW j \in 1..Len(h), i # j PROVE h[i] # h[j]
  <2>1. i < j \/ j < i
    BY <1>4
  <2> QED
    BY <1>3, <2>1
<1>5. Link!Distinct(h)
  BY <1>2, <1>4 DEF Link!Distinct
<1> QED
  BY <1>1, <1>5, SameElements

\* A batch of events is handed over.
LEMMA HandsOverIs ==
  ASSUME CInv, NEW n \in Member, HandsOver(n)
  PROVE  Link!HandOver(n)
<1>1. Kinds /\ Own(n)
  BY DEF CInv, HandsOver
<1>2. sent' = sent /\ visible' \in {visible, [visible EXCEPT ![n] = TRUE]}
  BY <1>1 DEF Own
<1>3. /\ \A m \in Member \ {n} : done'[m] = done[m]
      /\ \A l \in Lane : Destination(l) # n => got'[l] = got[l]
  BY <1>1 DEF Own
<1>4. ASSUME NEW l \in Lane, Destination(l) = n
      PROVE  \E q, f : Regrouped(got[l], pending[n], drv[n].events, got'[l], q, f, ArrivalOn(l), TRUE)
  <2>1. CASE Hands(n)
    BY <1>4, <2>1 DEF Hands, To
  <2>2. CASE got' = got
    <3>1. /\ got[l] \in Seq(Nat)
          /\ Ordered(got[l], pending[n], drv[n].events, ArrivalOn(l), TRUE)
      BY <1>4, HandsWhere DEF To
    <3>2. Regrouped(got[l], pending[n], drv[n].events, got[l], pending[n], drv[n].events,
                    ArrivalOn(l), TRUE)
      BY <3>1, StartsSame DEF Regrouped
    <3> QED
      BY <2>2, <3>2
  <2> QED
    BY <2>1, <2>2 DEF HandsOver
<1>5. \E q, f : Regrouped(done[n], pending[n], drv[n].events, done'[n], q, f, Completion, FALSE)
  <2>1. CASE Hands(n)
    BY <2>1 DEF Hands
  <2>2. CASE done' = done
    <3>1. done[n] \in Seq(Nat) /\ Ordered(done[n], pending[n], drv[n].events, Completion, FALSE)
      BY HandsWhere
    <3>2. Regrouped(done[n], pending[n], drv[n].events, done[n], pending[n], drv[n].events,
                    Completion, FALSE)
      BY <3>1, StartsSame DEF Regrouped
    <3> QED
      BY <2>2, <3>2
  <2> QED
    BY <2>1, <2>2 DEF HandsOver
<1>6. ASSUME NEW l \in Lane, Destination(l) = n
      PROVE  /\ Link!IsStart(got[l], got'[l]) /\ Link!Ascending(got'[l])
             /\ Link!Elements(got'[l]) \subseteq Link!Elements(sent[l])
             /\ ~ visible[n] => Link!IsStart(got'[l], sent[l])
  <2> DEFINE K == Known(got[l], pending[n], drv[n].events, ArrivalOn(l))
  <2>1. PICK q, f : Regrouped(got[l], pending[n], drv[n].events, got'[l], q, f, ArrivalOn(l), TRUE)
    BY <1>4, <1>6
  <2>2. /\ Numbered(sent[l], next_ticket[Source(l)])
        /\ Passing(Accepted(l), Seen(l), TicketsIn(Way(l)), Waiting(l))
        /\ ~visible[n] => Whole(Seen(l), Accepted(l))
    BY <1>6 DEF CInv, LaneInv, Unbroken
  <2>3. Seen(l) = K /\ Accepted(l) = In(sent[l])
    BY <1>6 DEF Seen, Accepted
  <2>4. sent[l] \in Seq(Nat) /\ Rising(sent[l], TRUE)
    BY <1>1, <2>2 DEF Kinds, Numbered, Rising, Precedes
  <2>5. K \subseteq In(sent[l]) /\ (~visible[n] => Whole(K, In(sent[l])))
    BY <2>2, <2>3 DEF Passing
  <2>6. /\ Link!IsStart(got[l], got'[l]) /\ Link!Ascending(got'[l])
        /\ Link!Elements(got'[l]) \subseteq Link!Elements(sent[l])
        /\ Whole(K, In(sent[l])) => Link!IsStart(got'[l], sent[l])
    <3>1. Covered(got[l], pending[n], drv[n].events, got'[l], q, f, ArrivalOn(l), sent[l])
      BY <2>1, <2>4, <2>5 DEF Covered
    <3>2. /\ Link!IsStart(got[l], got'[l]) /\ Link!Ascending(got'[l])
          /\ Link!Elements(got'[l]) \subseteq Link!Elements(sent[l])
          /\ Whole(Known(got[l], pending[n], drv[n].events, ArrivalOn(l)), In(sent[l]))
             => Link!IsStart(got'[l], sent[l])
      BY ONLY <3>1, ArrivalsHanded
    <3> QED
      BY ONLY <3>2
  <2> QED
    BY <2>5, <2>6
<1>7. /\ Link!IsStart(done[n], done'[n]) /\ Link!Distinct(done'[n])
      /\ Link!Elements(done'[n]) \subseteq Link!AcceptedBy(n)
  <2> DEFINE K == Known(done[n], pending[n], drv[n].events, Completion)
  <2>1. PICK q, f : Regrouped(done[n], pending[n], drv[n].events, done'[n], q, f, Completion, FALSE)
    BY <1>5
  <2>2. Link!IsStart(done[n], done'[n]) /\ Link!Distinct(done'[n]) /\ Link!Elements(done'[n]) \subseteq K
    BY <2>1, CompletionsHanded
  <2>3. K \subseteq Settled(n)
    BY DEF CInv, Completes
  <2>4. \A l \in Lane : Accepted(l) = Link!Elements(sent[l])
    BY <1>1, SameElements DEF Accepted, Kinds
  <2>5. Settled(n) \subseteq Link!AcceptedBy(n)
    BY <2>4 DEF Settled, From, Source, Link!AcceptedBy, Link!Source
  <2> QED
    BY <2>2, <2>3, <2>5
<1>8. \A l \in Lane : Link!Destination(l) = Destination(l)
  BY DEF Link!Destination, Destination
<1> QED
  BY <1>2, <1>3, <1>6, <1>7, <1>8 DEF Link!HandOver

\* The initial states of Transport are those of ParcelLink.
LEMMA InitLink == Init => Link!Init
BY DEF Init, Link!Init

\* Every step that Transport takes is one that ParcelLink allows.
LEMMA NextLink == Inv /\ [Next]_vars => [Link!Next]_(Link!vars)
<1> SUFFICES ASSUME Inv, [Next]_vars PROVE Link!Next \/ UNCHANGED Link!vars
  OBVIOUS
<1>1. IInv /\ Framing /\ CInv /\ IInv' /\ Framing'
  BY NextInv DEF Inv
<1>2. CASE UNCHANGED vars
  BY <1>2 DEF vars, history, Link!vars
<1>3. CASE \E l \in Lane : \E length \in Lengths : TrySend(l, length)
  BY <1>1, <1>3, TrySendAccepts DEF Link!Next
<1>4. ASSUME NEW n \in Member, Step(n) \/ Progress(n) \/ Flush(n) \/ Shutdown(n) \/ Crash(n)
      PROVE  Link!Next \/ UNCHANGED Link!vars
  <2>1. Quiet \/ HandsOver(n)
    BY <1>1, <1>4, StepOutcome
  <2>2. CASE Quiet
    BY <2>2 DEF Quiet, Link!vars
  <2>3. CASE HandsOver(n)
    BY <1>1, <2>3, HandsOverIs DEF Link!Next
  <2> QED
    BY <2>1, <2>2, <2>3
<1> QED
  BY <1>2, <1>3, <1>4 DEF Next

\* Either transport keeps the contract that the runtime relies on: the parcels of a lane are handed
\* over in the order of their try_send, none twice, none that was not accepted and none left
\* out before the receiver's owner has seen an error; a ticket completes at most once.
THEOREM ContractIsKept == Spec => KeepsContract
<1>1. Init => Inv /\ Link!Init
  BY InitInv, InitLink
<1>2. Inv /\ [Next]_vars => Inv' /\ [Link!Next]_(Link!vars)
  BY NextInv, NextLink
<1> QED
  BY <1>1, <1>2, PTL DEF Spec, KeepsContract, Link!Spec
=============================================================================
