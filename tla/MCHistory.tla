----------------------------- MODULE MCHistory ------------------------------
(* RendezvousHistory on the values of MCRendezvous. *)
EXTENDS RendezvousHistory

CONSTANTS c1, c2, k1, small, middle, large

MCKeyLen == [k \in Keys |-> 5]

MCStrLen == [v \in Contents |-> CASE v = Empty -> 0
                                  [] v = small -> 1
                                  [] v = middle -> 4060
                                  [] v = large -> 9000]
=============================================================================
