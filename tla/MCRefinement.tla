---------------------------- MODULE MCRefinement ----------------------------
(* RendezvousRefinement, and Rendezvous below it, with two keys. *)
EXTENDS RendezvousRefinement

CONSTANTS c1, c2, k1, k2, small, large

MCKeyLen == [k \in Keys |-> 5]

MCStrLen == [v \in Contents |-> CASE v = Empty -> 0
                                  [] v = small -> 1
                                  [] v = large -> 9000]

Symmetry == Permutations(Clients) \cup Permutations(Keys)
=============================================================================
