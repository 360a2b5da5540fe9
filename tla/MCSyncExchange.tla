--------------------------- MODULE MCSyncExchange ---------------------------
(***************************************************************************)
(* An author of three units, the last of which continues the one before    *)
(* it, a hub with a file, and a reader behind the hub that may delete.     *)
(***************************************************************************)
EXTENDS SyncExchange

CONSTANTS author, hub, reader

MCSizes == [p \in Peers |-> IF p = author THEN 3 ELSE 0]
MCContinues == {<<author, 2>>}
MCDeletable == {<<author, 1>>}
=============================================================================
