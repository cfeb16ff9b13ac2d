------------------------------ MODULE ParcelLink ------------------------------
(***************************************************************************)
(* What a transport promises the runtime, whatever its backend: parcels of *)
(* one lane (source, destination, channel) are handed over in the order in *)
(* which they were accepted, none twice, none that was never accepted, and *)
(* none is skipped unless the receiving owner has been shown an error; the *)
(* ticket of an accepted parcel is completed at most once.                 *)
(* (transport.rs, TransportHandle and TransportDriver; the contract of      *)
(* docs/design/distributed-runtime.md, section 8.)                          *)
(***************************************************************************)
EXTENDS Integers, Sequences

CONSTANTS
  Lane,   \* triples <<source, destination, channel>>
  Member, \* the localities
  Ticket  \* the ticket numbers, a set of naturals

VARIABLES
  sent,     \* [Lane -> Seq of the accepted tickets]
  got,      \* [Lane -> Seq of the tickets whose parcel was handed over]
  done,     \* [Member -> Seq of the tickets reported complete]
  visible   \* [Member -> its owner has been shown an error]

vars == <<sent, got, done, visible>>

Source(l) == l[1]
Destination(l) == l[2]
Elements(s) == {s[i] : i \in DOMAIN s}
IsStart(s, t) == Len(s) <= Len(t) /\ \A i \in DOMAIN s : s[i] = t[i]
Ascending(s) == \A i, j \in DOMAIN s : i < j => s[i] < s[j]
Distinct(s) == \A i, j \in DOMAIN s : i # j => s[i] # s[j]

\* The tickets member n has accepted so far.
AcceptedBy(n) == UNION {Elements(sent[l]) : l \in {k \in Lane : Source(k) = n}}

Init ==
  /\ sent = [l \in Lane |-> <<>>]
  /\ got = [l \in Lane |-> <<>>]
  /\ done = [n \in Member |-> <<>>]
  /\ visible = [n \in Member |-> FALSE]

\* try_send returned a ticket: tickets of one member only grow.
Accept(l) ==
  /\ \E t \in Ticket :
       /\ \A u \in AcceptedBy(Source(l)) : u < t
       /\ sent' = [sent EXCEPT ![l] = Append(@, t)]
  /\ UNCHANGED <<got, done, visible>>

\* The owner of n receives a batch of events, perhaps with an error.
HandOver(n) ==
  /\ visible' \in {visible, [visible EXCEPT ![n] = TRUE]}
  /\ \A l \in Lane :
       IF Destination(l) = n
       THEN /\ IsStart(got[l], got'[l])
            /\ Ascending(got'[l])
            /\ Elements(got'[l]) \subseteq Elements(sent[l])
            /\ ~ visible[n] => IsStart(got'[l], sent[l])
       ELSE got'[l] = got[l]
  /\ \A m \in Member :
       IF m = n
       THEN /\ IsStart(done[m], done'[m])
            /\ Distinct(done'[m])
            /\ Elements(done'[m]) \subseteq AcceptedBy(m)
       ELSE done'[m] = done[m]
  /\ UNCHANGED sent

Next ==
  \/ \E l \in Lane : Accept(l)
  \/ \E n \in Member : HandOver(n)

Spec == Init /\ [][Next]_vars
===============================================================================
