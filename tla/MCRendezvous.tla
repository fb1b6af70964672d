---------------------------- MODULE MCRendezvous ----------------------------
(* Small instances of Rendezvous for TLC: one or two clients and keys, a   *)
(* value that fits a message and one that does not.                        *)
EXTENDS Rendezvous

CONSTANTS c1, c2, k1, small, middle, large

MCKeyLen == [k \in Keys |-> 5]

(* middle fits an eager SET but not the copy of a queued one; the buffer   *)
(* of a new entry holds large only after it was reallocated.               *)
MCStrLen == [v \in Contents |-> CASE v = Empty -> 0
                                  [] v = small -> 1
                                  [] v = middle -> 4060
                                  [] v = large -> 9000]

Symmetry == Permutations(Clients)
=============================================================================
