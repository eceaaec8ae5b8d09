------------------------------ MODULE ChangeOutbox ------------------------------
(* What the change-tracking half of the sync engine promises, without saying   *)
(* how: a log of changes that only grows, a set of changes the remote services *)
(* have accepted, and a set of changes acknowledged locally (synced_at is set).*)
(* Delivery is at least once, so a change may be delivered again at any time;  *)
(* an acknowledgement is given once, and only for a delivered change.          *)
EXTENDS Naturals, Sequences

CONSTANT Keys       \* the rows a change can be about

VARIABLES log,        \* the changes, in the order of their ids
          delivered,  \* ids of the changes some service has accepted
          acked       \* ids of the changes acknowledged to the local database

vars == <<log, delivered, acked>>

Ids == 1 .. Len(log)

Init == /\ log = <<>>
        /\ delivered = {}
        /\ acked = {}

Record == /\ \E k \in Keys : log' = Append(log, k)
          /\ UNCHANGED <<delivered, acked>>

Deliver == /\ \E R \in SUBSET Ids : delivered' = delivered \cup R
           /\ UNCHANGED <<log, acked>>

Acknowledge == /\ \E i \in delivered : acked' = acked \cup {i}
               /\ UNCHANGED <<log, delivered>>

Next == Record \/ Deliver \/ Acknowledge

Spec == Init /\ [][Next]_vars

=================================================================================
