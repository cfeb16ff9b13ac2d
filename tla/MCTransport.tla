---------------------------- MODULE MCTransport ----------------------------
\* Instances of Transport for TLC.
EXTENDS Transport

TwoChannels == <<"Control", "Bulk">>
OneChannel == <<"Bulk">>
\* A member with a smaller frame limit than its peer.
Unequal == [n \in Member |-> IF n = 0 THEN 1 ELSE 2]
Equal == [n \in Member |-> 2]
\* How many parcels each member submits.
JustTwo == [n \in Member |-> IF n = 0 THEN 2 ELSE 0]
OneAndTwo == [n \in Member |-> IF n = 0 THEN 1 ELSE 2]
=============================================================================
