--------------------------- MODULE MCOutboxRelay ---------------------------
(* Instances of OutboxRelay: two relay processes under the one lease owner *)
(* the deployment configures for a process and its replacement.            *)
EXTENDS OutboxRelay

CONSTANTS r1, r2, m1, m2, m3

MCRelays == {r1, r2}
ThreeMessages == {m1, m2, m3}

\* They fill a batch, and go before m3.
Refuse2 == {m1, m2}
MCRank == [m \in Messages |-> IF m = m1 THEN 1 ELSE IF m = m2 THEN 2 ELSE 3]
SharedOwner == [r \in Relays |-> "relay-01"]
=============================================================================
