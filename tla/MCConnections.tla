--------------------------- MODULE MCConnections ---------------------------
(* Small instances of Connections for TLC. *)
EXTENDS Connections, TLC

CONSTANTS p1, p2, p3

Symmetry == Permutations(Peers)
=============================================================================
