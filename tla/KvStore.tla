------------------------------ MODULE KvStore -------------------------------
(***************************************************************************)
(* What the key-value service promises its clients, whatever the path a    *)
(* request takes: each key is one atomic register.  A set returns at once  *)
(* and takes effect some time later, whole and at most once; sets take     *)
(* effect in any order.  A get returns what the register held at some      *)
(* instant between its call and its return.  A set that has not taken      *)
(* effect is lost only when its client closes its handle, or afterwards.   *)
(***************************************************************************)
EXTENDS Naturals

CONSTANTS Keys, Contents, Empty, Clients, Tids, Idle, ClientOf(_)

VARIABLES
    store,   \* the value of each key
    sets,    \* the sets that were called and have not taken effect
    open,    \* the clients that have an open handle
    call     \* the get each client is in, or Idle

kvVars == <<store, sets, open, call>>

SetOp == [tid : Tids, key : Keys, val : Contents]
GetOp == [key : Keys, read : BOOLEAN, val : Contents]

KvTypeOK ==
    /\ store \in [Keys -> Contents]
    /\ sets \subseteq SetOp
    /\ open \subseteq Clients
    /\ call \in [Clients -> GetOp \cup {Idle}]

SetsOf(c) == {s \in sets : ClientOf(s.tid) = c}

KvInit ==
    /\ store = [k \in Keys |-> Empty]
    /\ sets = {}
    /\ open = {}
    /\ call = [c \in Clients |-> Idle]

Open(c) ==
    /\ c \notin open
    /\ open' = open \cup {c}
    /\ UNCHANGED <<store, sets, call>>

CallSet(s) ==
    /\ ClientOf(s.tid) \in open
    /\ \A r \in sets : r.tid # s.tid
    /\ sets' = sets \cup {s}
    /\ UNCHANGED <<store, open, call>>

TakeEffect(s) ==
    /\ store' = [store EXCEPT ![s.key] = s.val]
    /\ sets' = sets \ {s}
    /\ UNCHANGED <<open, call>>

CallGet(c, k) ==
    /\ c \in open
    /\ call[c] = Idle
    /\ call' = [call EXCEPT ![c] = [key |-> k, read |-> FALSE, val |-> Empty]]
    /\ UNCHANGED <<store, sets, open>>

Read(c) ==
    /\ call[c] # Idle
    /\ ~call[c].read
    /\ call' = [call EXCEPT ![c].read = TRUE, ![c].val = store[call[c].key]]
    /\ UNCHANGED <<store, sets, open>>

ReturnGet(c) ==
    /\ call[c] # Idle
    /\ call[c].read
    /\ call' = [call EXCEPT ![c] = Idle]
    /\ UNCHANGED <<store, sets, open>>

Close(c) ==
    /\ c \in open
    /\ call[c] = Idle
    /\ open' = open \ {c}
    /\ \E lost \in SUBSET SetsOf(c) : sets' = sets \ lost
    /\ UNCHANGED <<store, call>>

Lose(c) ==
    /\ c \notin open
    /\ \E lost \in SUBSET SetsOf(c) : sets' = sets \ lost
    /\ UNCHANGED <<store, open, call>>

KvNext ==
    \/ \E c \in Clients : Open(c) \/ Close(c) \/ Lose(c)
    \/ \E s \in SetOp : CallSet(s)
    \/ \E s \in sets : TakeEffect(s)
    \/ \E c \in Clients, k \in Keys : CallGet(c, k)
    \/ \E c \in Clients : Read(c) \/ ReturnGet(c)

KvSpec == KvInit /\ [][KvNext]_kvVars
=============================================================================
