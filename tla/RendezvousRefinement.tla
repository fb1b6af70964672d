------------------------ MODULE RendezvousRefinement ------------------------
(***************************************************************************)
(* The rendezvous protocol implements KvStore, under four hypotheses that  *)
(* the code does not enforce and that are named here.  A set takes effect  *)
(* when an eager handler stores it or when its RDMA write lands; a get     *)
(* reads when an eager handler answers it or when its RDMA read executes.  *)
(***************************************************************************)
EXTENDS Rendezvous

(* No client's process dies between two steps; each ends with kv_close. *)
NobodyDies == Unreliable = {}

(***************************************************************************)
(* The application leaves the memory of a value as it is until the set is  *)
(* over.  client.c:282-286 keeps the caller's pointer, and the device      *)
(* sends from it after kv_set has returned (client.c:634-640).  The driver *)
(* frees its values after its loop (client.c:1061-1070), when a set may    *)
(* still be queued behind a reader: it does not keep to this.              *)
(***************************************************************************)
ValuesAreKept == Reusing = {}

(* Keys are so short that every value a rendezvous SET brings is too long  *)
(* for an eager GET.  No check says so; tests use up to 1024 bytes         *)
(* (tests_common.h:6) and generate_inputs.py:62 up to 4070.                *)
ShortKeys == \A k \in Keys : KeyLen[k] <= 55

(* No length lies between the two bounds of the code, the one up to which  *)
(* a SET is eager and the one up to which a queued SET keeps its value.    *)
PayloadsAreKept ==
    \A k \in Keys, v \in Contents : EagerSet(k, v) => CopiesPayload(k, v)

Hypotheses == NobodyDies /\ ValuesAreKept /\ ShortKeys /\ PayloadsAreKept

SetOf(m, v) == [tid |-> m.tid, key |-> m.key, val |-> v]

(* The sets on their way to the database: posted, queued, granted a remote *)
(* key, or being written.                                                  *)
PostedSets(c) ==
    {SetOf(m, m.val) : m \in {n \in ToSet(c2s[c]) : n.op \in {"SET", "WRITE"}}}

QueuedSets ==
    {[tid |-> t, key |-> internal_q[t].key, val |-> internal_q[t].val] :
        t \in {u \in ToSet(sorted_q) : internal_q[u].op = "SET"}}

GrantedSets(c) ==
    {SetOf(m, pending[m.tid].val) :
        m \in {n \in ToSet(s2c[c]) : n.op = "RDMA_RKEY_SET"}}

SetsUnderWay ==
    QueuedSets \cup
    UNION {PostedSets(c) \cup GrantedSets(c) : c \in Clients}

(* The answer to the get of c that was taken from the database, if any. *)
AnswersTo(c) ==
    LET t == <<c, tid[c]>>
    IN  {m.val : m \in {n \in ToSet(s2c[c]) : n.op = "GET_RESPONSE"}} \cup
        IF pending[t].done \/ \E w \in ToSet(wcq[c]) : w.tid = t
        THEN {pending[t].val} ELSE {}

(* A client that is in no get does not look like one that is. *)
ASSUME CallAssumption ==
    NoReq \notin [key : Keys, read : BOOLEAN, val : Contents]

CallOf(c) ==
    IF pc[c] # "get" THEN NoReq
    ELSE [key  |-> pending[<<c, tid[c]>>].key,
          read |-> AnswersTo(c) # {},
          val  |-> IF AnswersTo(c) = {} THEN Empty
                   ELSE CHOOSE v \in AnswersTo(c) : TRUE]

Abstract == INSTANCE KvStore WITH
    store    <- [k \in Keys |-> db[k].value],
    sets     <- SetsUnderWay,
    open     <- {c \in Clients : Alive(c)},
    call     <- [c \in Clients |-> CallOf(c)],
    Idle     <- NoReq,
    ClientOf <- Owner

(* Under Hypotheses every behaviour of the protocol, also one whose        *)
(* kv_close loses eager sets, is one of the atomic registers.              *)
ImplementsKvStore == Abstract!KvSpec
=============================================================================
