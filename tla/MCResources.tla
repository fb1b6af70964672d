---------------------------- MODULE MCResources ----------------------------
(***************************************************************************)
(* Small instances, in one run, of the modules that are about what the     *)
(* server counts in one place and holds in another: connection slots,      *)
(* receive buffers, pool records, the bytes of an entry.  They share no    *)
(* variable, so what one does is independent of the others: each behaviour *)
(* moves the variables of one part and leaves those of the others alone.   *)
(***************************************************************************)
EXTENDS Connections, ReceiveBuffers, EntryPool, EntryBuffer, TLC

CONSTANTS p1, p2, p3, v0, v1, v2, v3, v4, v7, v9, v10, v20

VARIABLE part  \* the part that moves

MCStrLen == [v \in Values |-> CASE v = v0 -> 0 [] v = v1 -> 1 [] v = v2 -> 2
                                [] v = v3 -> 3 [] v = v4 -> 4 [] v = v7 -> 7
                                [] v = v9 -> 9 [] v = v10 -> 10 [] v = v20 -> 20]

Symmetry == Permutations(Peers)

Parts == {"connections", "receives", "pool", "buffer"}

all_vars == <<part, vars, receive_vars, pool_vars, buffer_vars>>

ResourcesInit ==
    /\ part \in Parts
    /\ Init /\ ReceiveInit /\ PoolInit /\ BufferInit
    /\ part # "buffer" => \A n \in KeyLens : keylen <= n

ResourcesNext ==
    /\ UNCHANGED part
    /\ \/ /\ part = "connections"
          /\ Next
          /\ UNCHANGED <<receive_vars, pool_vars, buffer_vars>>
       \/ /\ part = "receives"
          /\ ReceiveNext
          /\ UNCHANGED <<vars, pool_vars, buffer_vars>>
       \/ /\ part = "pool"
          /\ PoolNext
          /\ UNCHANGED <<vars, receive_vars, buffer_vars>>
       \/ /\ part = "buffer"
          /\ BufferNext
          /\ UNCHANGED <<vars, receive_vars, pool_vars>>

ResourcesSpec == ResourcesInit /\ [][ResourcesNext]_all_vars

(* The variables of every part hold what their declarations say; among     *)
(* others the count of connections stays between zero and the number of    *)
(* slots (server.c:193-240), the count and index of a pool inside of its   *)
(* array, and no NULL is handed out as a record (db.c:59-68).              *)
ResourcesTypeOK ==
    ConnectionsTypeOK /\ ReceiveTypeOK /\ PoolTypeOK /\ BufferTypeOK
=============================================================================
