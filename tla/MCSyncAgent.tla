------------------------------ MODULE MCSyncAgent -------------------------------
(* Small instances of SyncAgent: one work order and one                        *)
(* asset, so that a batch can hold two services and a key several changes.     *)
EXTENDS SyncAgent

MCKeys == {<<"work_order", "w1">>, <<"asset", "a1">>}

=================================================================================
