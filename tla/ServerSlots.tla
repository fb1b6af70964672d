----------------------------- MODULE ServerSlots -----------------------------
(* The connection slots of the server: the array connections[] of          *)
(* src/server.c, which every part of the server that keeps something per   *)
(* client is indexed by.                                                   *)
EXTENDS Integers

CONSTANT MAX_CLIENTS_SUPPORTED

ASSUME SlotsAssumption == MAX_CLIENTS_SUPPORTED \in Nat \ {0}

Slots == 0 .. MAX_CLIENTS_SUPPORTED - 1
=============================================================================
