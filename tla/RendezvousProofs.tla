-------------------------- MODULE RendezvousProofs --------------------------
(***************************************************************************)
(* What the operators of ServerRequests return and what the handlers do to *)
(* the locks; and from this the types of Rendezvous and its locks, for any *)
(* number of clients up to four and any keys, values, batch size, window,  *)
(* bound on the operations and set of clients that may die.                *)
(***************************************************************************)
EXTENDS Rendezvous, FiniteSetTheorems, SequenceTheorems, TLAPS

-----------------------------------------------------------------------------
(* Sequences.                                                              *)

(* A non-empty set of numbers has a least one: the initial segments of its *)
(* elements are finite sets, which have a smallest one among them.         *)
LEMMA LeastElement ==
    ASSUME NEW I \in SUBSET Nat, I # {}
    PROVE  \E n \in I : \A m \in I : n <= m
<1> DEFINE R == StrictSubsetOrdering(Nat)
           T == {0 .. n : n \in I}
<1>1. T \subseteq FiniteSubsetsOf(Nat)
  <2>1. ASSUME NEW n \in I
        PROVE  0 .. n \in SUBSET Nat /\ IsFiniteSet(0 .. n)
    <3>1. n \in Int /\ 0 .. n \in SUBSET Nat
      OBVIOUS
    <3> QED
      BY <3>1, FS_Interval
  <2> QED
    BY <2>1 DEF FiniteSubsetsOf
<1>2. IsWellFoundedOn(R, FiniteSubsetsOf(Nat))
  BY FS_StrictSubsetOrderingWellFounded
<1>3. PICK x \in T : \A y \in T : <<y, x>> \notin R
  <2>1. T # {}
    OBVIOUS
  <2> HIDE DEF R, T
  <2> QED
    BY <1>1, <1>2, <2>1, WFMin
<1>4. PICK n \in I : x = 0 .. n
  OBVIOUS
<1>5. ASSUME NEW m \in I, ~(n <= m)
      PROVE  FALSE
  <2>1. /\ 0 .. m \in T
        /\ 0 .. m \subseteq 0 .. n
        /\ n \in 0 .. n /\ n \notin 0 .. m
    BY <1>5
  <2>2. <<0 .. m, 0 .. n>> \in R
    BY <2>1 DEF StrictSubsetOrdering
  <2> QED
    BY <1>3, <1>4, <2>1, <2>2
<1> QED
  BY <1>5


(* Dropping one element of a sequence leaves a sequence over the same set. *)
LEMMA RemoveAtType ==
    ASSUME NEW S, NEW s \in Seq(S), NEW i \in 1 .. Len(s)
    PROVE  RemoveAt(s, i) \in Seq(S)
<1>1. SubSeq(s, 1, i - 1) \in Seq(S)
  BY SubSeqProperties, LenProperties, ElementOfSeq
<1>2. SubSeq(s, i + 1, Len(s)) \in Seq(S)
  BY SubSeqProperties, LenProperties, ElementOfSeq
<1> QED
  BY <1>1, <1>2, ConcatProperties DEF RemoveAt

(* RemoveFirst, which DL_DELETE is, keeps the list a list of tids. *)
LEMMA RemoveFirstType ==
    ASSUME NEW S, NEW s \in Seq(S), NEW e
    PROVE  RemoveFirst(s, e) \in Seq(S)
<1> DEFINE I == {i \in 1 .. Len(s) : s[i] = e}
<1>1. CASE I = {}
  BY <1>1 DEF RemoveFirst
<1>2. CASE I # {}
  <2>0. I \subseteq Nat
    BY LenProperties
  <2>1. PICK n \in I : \A m \in I : n <= m
    BY <1>2, <2>0, LeastElement
  <2>2. Min(I) \in I
    BY <2>1 DEF Min
  <2>3. SelectInSeq(s, LAMBDA v : v = e) = Min(I)
    BY <1>2 DEF SelectInSeq
  <2>4. RemoveFirst(s, e) = RemoveAt(s, Min(I))
    BY <1>2, <2>3 DEF RemoveFirst
  <2> QED
    BY <2>2, <2>4, RemoveAtType
<1> QED
  BY <1>1, <1>2

-----------------------------------------------------------------------------
(* Tids.                                                                   *)

(* There are finitely many transaction ids. *)
LEMMA TidsFinite == IsFiniteSet(Tids)
<1>1. IsFiniteSet(1 .. MaxOps)
  BY ClientsAssumption, FS_Interval
<1> QED
  BY <1>1, ClientsAssumption, FS_Product DEF Tids

(* A tid belongs to the client its first half names. *)
LEMMA OwnerType == \A t \in Tids : Owner(t) \in Clients
  BY DEF Tids, Owner

-----------------------------------------------------------------------------
(* Entries.                                                                *)

(* A new entry is an entry. *)
LEMMA FreshEntryType == FreshEntry \in Entry
  BY SentinelAssumption
  DEF FreshEntry, Entry, InitialAllocation, RoundUp, PageSize, Contents,
      CLIENT_REQUEST_PAYLOAD_LEN, BUFFER_SIZE, CLIENT_HEADER_LEN

(* db_reallocate_item changes the buffer and the size of an entry only. *)
LEMMA ReallocatedProperties ==
    ASSUME NEW e \in Entry, NEW n \in Nat
    PROVE  /\ Reallocated(e, n) \in Entry
           /\ Reallocated(e, n).num_readers = e.num_readers
           /\ Reallocated(e, n).num_writers = e.num_writers
<1> DEFINE c == RoundUp(n * 4, PageSize)
           m == e.mr + 1
<1>1. c \in Nat /\ m \in Nat
  BY DEF RoundUp, PageSize, Entry
<1>2. CASE n < e.cap \div 2
  BY <1>2 DEF Reallocated, Entry
<1>3. CASE ~(n < e.cap \div 2)
  <2>1. Reallocated(e, n) =
          [e EXCEPT !.size = n, !.cap = c, !.mr = m]
    BY <1>3 DEF Reallocated
  <2> HIDE DEF c, m
  <2> QED
    BY <1>1, <2>1 DEF Entry
<1> QED
  BY <1>2, <1>3

(* Opening, storing and exposing an entry leave its locks alone. *)
LEMMA OpenedProperties ==
    ASSUME NEW e \in Entry
    PROVE  /\ Opened(e) \in Entry
           /\ Opened(e).num_readers = e.num_readers
           /\ Opened(e).num_writers = e.num_writers
  BY DEF Opened, Entry

(* db_insert keeps the entry an entry, and its locks. *)
LEMMA InsertedProperties ==
    ASSUME NEW e \in Entry, NEW v \in Contents
    PROVE  /\ Inserted(e, v) \in Entry
           /\ Inserted(e, v).num_readers = e.num_readers
           /\ Inserted(e, v).num_writers = e.num_writers
<1> DEFINE r == Reallocated(e, StrLen[v] + 1)
<1>1. StrLen[v] + 1 \in Nat
  BY LengthAssumption
<1>2. /\ r \in Entry
      /\ r.num_readers = e.num_readers
      /\ r.num_writers = e.num_writers
  BY <1>1, ReallocatedProperties
<1> HIDE DEF r
<1>3. [r EXCEPT !.value = v, !.filling = FALSE] \in Entry
  BY <1>2 DEF Entry
<1>4. [r EXCEPT !.value = v, !.filling = FALSE] = Inserted(e, v)
  BY DEF Inserted, r
<1> QED
  BY <1>2, <1>3, <1>4 DEF Entry

(* So does handing its buffer to a remote writer. *)
LEMMA ExposedProperties ==
    ASSUME NEW e \in Entry, NEW v \in Contents
    PROVE  /\ Exposed(e, v) \in Entry
           /\ Exposed(e, v).num_readers = e.num_readers
           /\ Exposed(e, v).num_writers = e.num_writers
<1> DEFINE r == Reallocated(e, StrLen[v])
<1>1. StrLen[v] \in Nat
  BY LengthAssumption
<1>2. /\ r \in Entry
      /\ r.num_readers = e.num_readers
      /\ r.num_writers = e.num_writers
  BY <1>1, ReallocatedProperties
<1> HIDE DEF r
<1>3. [r EXCEPT !.filling = TRUE] \in Entry
  BY <1>2 DEF Entry
<1>4. [r EXCEPT !.filling = TRUE] = Exposed(e, v)
  BY DEF Exposed, r
<1> QED
  BY <1>2, <1>3, <1>4 DEF Entry

(* Taking a lock counts it, and giving one back takes one away. *)
LEMMA LockedWrProperties ==
    ASSUME NEW e \in Entry
    PROVE  /\ LockedWr(e) \in Entry
           /\ LockedWr(e).num_readers = e.num_readers
           /\ LockedWr(e).num_writers = e.num_writers + 1
  BY DEF LockedWr, Entry

(* lock_rd adds one reader and no writer. *)
LEMMA LockedRdProperties ==
    ASSUME NEW e \in Entry
    PROVE  /\ LockedRd(e) \in Entry
           /\ LockedRd(e).num_readers = e.num_readers + 1
           /\ LockedRd(e).num_writers = e.num_writers
  BY DEF LockedRd, Entry

(* unlock keeps an entry an entry. *)
LEMMA UnlockedType ==
    ASSUME NEW e \in Entry
    PROVE  Unlocked(e) \in Entry
  BY DEF Unlocked, Entry

(* A copy that the queue keeps is a value or empty. *)
LEMMA PendingPayloadType ==
    ASSUME NEW k, NEW v \in Contents
    PROVE  PendingPayload(k, v) \in Contents
  BY DEF PendingPayload, Contents

-----------------------------------------------------------------------------
(* The handlers keep the types of the server's state.                      *)

(* A FIN leaves the database a database. *)
LEMMA ReleasedType ==
    ASSUME ServerTypeOK, NEW d \in [Keys -> Entry], NEW t \in Tids
    PROVE  Released(d, t) \in [Keys -> Entry]
<1>1. waiting_fin_q[t] \in Keys \cup {NoKey}
  BY DEF ServerTypeOK
<1>2. CASE waiting_fin_q[t] = NoKey
  BY <1>2 DEF Released
<1>3. CASE waiting_fin_q[t] # NoKey
  <2>1. Unlocked(d[waiting_fin_q[t]]) \in Entry
    BY <1>1, <1>3, UnlockedType
  <2> QED
    BY <1>1, <1>3, <2>1 DEF Released
<1> QED
  BY <1>2, <1>3

(* Posting a reply keeps the reply queues. *)
LEMMA PostSendType ==
    ASSUME ServerTypeOK, NEW m \in Reply, server_post_send(m)
    PROVE  s2c' \in [Clients -> Seq(Reply)]
<1>1. m.tid \in Tids
  BY DEF Reply
<1>2. Owner(m.tid) \in Clients
  BY <1>1, OwnerType
<1>3. Append(s2c[Owner(m.tid)], m) \in Seq(Reply)
  BY <1>2, AppendProperties DEF ServerTypeOK
<1> QED
  BY <1>2, <1>3 DEF server_post_send, ServerTypeOK

(* Removing a request of a client keeps the queue and the tables well       *)
(* typed.                                                                   *)
LEMMA RemovePendingType ==
    ASSUME ServerTypeOK, NEW t \in Tids, NEW d \in [Keys -> Entry],
           NEW q \in Seq(Tids), remove_server_pending_request(t, d, q)
    PROVE  /\ db' \in [Keys -> Entry]
           /\ internal_q' \in [Tids -> Request \cup {NoReq}]
           /\ sorted_q' \in Seq(Tids)
           /\ waiting_fin_q' \in [Tids -> Keys \cup {NoKey}]
<1>1. Released(d, t) \in [Keys -> Entry]
  BY ReleasedType
<1>2. RemoveFirst(q, t) \in Seq(Tids)
  BY RemoveFirstType
<1> QED
  BY <1>1, <1>2 DEF remove_server_pending_request, ServerTypeOK

(* Pushing a request keeps the queue and the tables well typed. *)
LEMMA PushPendingType ==
    ASSUME ServerTypeOK, NEW t \in Tids, NEW op \in {"SET", "GET"},
           NEW k \in Keys, NEW v \in Contents, NEW q \in Seq(Tids),
           push_pending_request(t, op, k, v, q)
    PROVE  ServerTypeOK'
<1>1. sorted_q' \in Seq(Tids)
  BY AppendProperties DEF push_pending_request
<1>2. [op |-> op, key |-> k, val |-> v, payload |-> PendingPayload(k, v)]
        \in Request
  BY PendingPayloadType DEF Request
<1>3. internal_q' \in [Tids -> Request \cup {NoReq}]
  BY <1>2 DEF push_pending_request, ServerTypeOK
<1> QED
  BY <1>1, <1>3 DEF push_pending_request, ServerTypeOK

(* handle_set_request, whatever the size of the value. *)
LEMMA HandleSetType ==
    ASSUME ServerTypeOK, NEW t \in Tids, NEW k \in Keys,
           NEW v \in Contents, NEW p \in Contents, NEW q \in Seq(Tids),
           handle_set_request(t, k, v, p, q)
    PROVE  ServerTypeOK'
<1>1. db[k] \in Entry
  BY DEF ServerTypeOK
<1>2. CASE SetBlocked(t, k, v, q)
  BY <1>2, PushPendingType DEF SetBlocked
<1>3. CASE SetEager(t, k, v, p, q)
  <2>1. Inserted(Opened(db[k]), p) \in Entry
    BY <1>1, OpenedProperties, InsertedProperties
  <2>2. [db EXCEPT ![k] = Inserted(Opened(@), p)] \in [Keys -> Entry]
    BY <2>1 DEF ServerTypeOK
  <2>3. /\ remove_server_pending_request(t,
               [db EXCEPT ![k] = Inserted(Opened(@), p)], q)
        /\ UNCHANGED s2c
    BY <1>3 DEF SetEager
  <2> QED
    BY <2>2, <2>3, RemovePendingType DEF ServerTypeOK
<1>4. CASE SetRendezvous(t, k, v, q)
  <2> DEFINE e == Exposed(LockedWr(Opened(db[k])), v)
             m == Message("RDMA_RKEY_SET", t, k, Empty, e.mr)
             d == [db EXCEPT ![k] = e]
  <2>1. e \in Entry
    BY <1>1, OpenedProperties, LockedWrProperties, ExposedProperties
  <2>2. /\ server_post_send(m)
        /\ mark_rdma_fin_required(t, k, d, q)
    BY <1>4 DEF SetRendezvous
  <2> HIDE DEF e
  <2>3. m \in Reply
    BY <2>1 DEF Message, Reply, ReplyOps, Entry, Contents
  <2>4. d \in [Keys -> Entry]
    BY <2>1 DEF ServerTypeOK
  <2> HIDE DEF m, d
  <2>5. s2c' \in [Clients -> Seq(Reply)]
    BY <2>2, <2>3, PostSendType
  <2>6. Released(d, t) \in [Keys -> Entry] /\ RemoveFirst(q, t) \in Seq(Tids)
    BY <2>4, ReleasedType, RemoveFirstType
  <2> QED
    BY <2>2, <2>4, <2>5, <2>6 DEF mark_rdma_fin_required, ServerTypeOK
<1> QED
  BY <1>2, <1>3, <1>4 DEF handle_set_request

(* handle_get_request, whatever the size of the value. *)
LEMMA HandleGetType ==
    ASSUME ServerTypeOK, NEW t \in Tids, NEW k \in Keys,
           NEW q \in Seq(Tids), handle_get_request(t, k, q)
    PROVE  ServerTypeOK'
<1>1. db[k] \in Entry
  BY DEF ServerTypeOK
<1>2. CASE GetBlocked(t, k, q)
  BY <1>2, PushPendingType DEF GetBlocked, Contents
<1>3. CASE GetEager(t, k, q)
  <2>1. [db EXCEPT ![k] = Opened(@)] \in [Keys -> Entry]
    BY <1>1, OpenedProperties DEF ServerTypeOK
  <2>2. PICK v \in EagerContent(db[k]) :
             server_post_send(Message("GET_RESPONSE", t, k, v, 0))
    BY <1>3 DEF GetEager
  <2>5. v \in Contents \cup {Torn}
    BY <1>1, <2>2 DEF EagerContent, Content, Entry
  <2>6. Message("GET_RESPONSE", t, k, v, 0) \in Reply
    BY <2>5 DEF Message, Reply, ReplyOps
  <2>3. s2c' \in [Clients -> Seq(Reply)]
    BY <2>2, <2>6, PostSendType
  <2>4. remove_server_pending_request(t, [db EXCEPT ![k] = Opened(@)], q)
    BY <1>3 DEF GetEager
  <2> QED
    BY <2>1, <2>3, <2>4, RemovePendingType DEF ServerTypeOK
<1>4. CASE GetRendezvous(t, k, q)
  <2> DEFINE d == [db EXCEPT ![k] = LockedRd(Opened(@))]
  <2>1. LockedRd(Opened(db[k])) \in Entry
    BY <1>1, OpenedProperties, LockedRdProperties
  <2>2. d \in [Keys -> Entry]
    BY <2>1 DEF ServerTypeOK
  <2>3. Message("RDMA_RKEY_GET", t, k, Empty, db[k].mr) \in Reply
    BY <1>1 DEF Message, Reply, ReplyOps, Entry, Contents
  <2>4. s2c' \in [Clients -> Seq(Reply)]
    BY <1>4, <2>3, PostSendType DEF GetRendezvous
  <2>5. Released(d, t) \in [Keys -> Entry] /\ RemoveFirst(q, t) \in Seq(Tids)
    BY <2>2, ReleasedType, RemoveFirstType
  <2>6. db' \in [Keys -> Entry] /\ sorted_q' \in Seq(Tids)
    BY <1>4, <2>5 DEF GetRendezvous
  <2>7. /\ internal_q' \in [Tids -> Request \cup {NoReq}]
        /\ waiting_fin_q' \in [Tids -> Keys \cup {NoKey}]
    BY <1>4 DEF GetRendezvous, ServerTypeOK
  <2> QED
    BY <2>4, <2>6, <2>7 DEF ServerTypeOK
<1> QED
  BY <1>2, <1>3, <1>4 DEF handle_get_request

-----------------------------------------------------------------------------
(* The handlers keep the locks accounted for.                              *)

(* The tids that the table w has waiting for the FIN of k. *)
Waiting(w, k) == {t \in Tids : w[t] = k}

(* LocksAreAccountedFor, of any database d and table of waits w. *)
Balanced(d, w) ==
    \A k \in Keys :
        /\ d[k].num_readers + d[k].num_writers = Cardinality(Waiting(w, k))
        /\ d[k].num_writers <= 1
        /\ d[k].num_writers = 1 => d[k].num_readers = 0

(* When each lock changes with its holders, LocksAreAccountedFor is         *)
(* preserved.                                                               *)
LEMMA BalancedIsAccountedFor ==
    LocksAreAccountedFor <=> Balanced(db, waiting_fin_q)
  BY DEF LocksAreAccountedFor, Balanced, Holders, Waiting

(* Waiting sets are finite, so they can be counted. *)
LEMMA WaitingFinite ==
    ASSUME NEW w, NEW k
    PROVE  /\ IsFiniteSet(Waiting(w, k))
           /\ Cardinality(Waiting(w, k)) \in Nat
<1>1. Waiting(w, k) \in SUBSET Tids
  BY DEF Waiting
<1> QED
  BY <1>1, TidsFinite, FS_Subset, FS_CardinalityType

(* Only the lock counts matter. *)
LEMMA SameLocks ==
    ASSUME NEW d, NEW e, NEW w, Balanced(d, w),
           \A k \in Keys : /\ e[k].num_readers = d[k].num_readers
                          /\ e[k].num_writers = d[k].num_writers
    PROVE  Balanced(e, w)
  BY DEF Balanced

(* A wait that ends gives one lock back. *)
LEMMA UnlockBalanced ==
    ASSUME NEW d \in [Keys -> Entry], NEW w \in [Tids -> Keys \cup {NoKey}],
           NEW t \in Tids, w[t] # NoKey, Balanced(d, w)
    PROVE  Balanced([d EXCEPT ![w[t]] = Unlocked(@)],
                    [w EXCEPT ![t] = NoKey])
<1> DEFINE h == w[t]
           e == [d EXCEPT ![h] = Unlocked(@)]
           x == [w EXCEPT ![t] = NoKey]
<1>1. h \in Keys /\ NoKey \notin Keys
  BY ClientsAssumption
<1> SUFFICES ASSUME NEW k \in Keys
             PROVE  /\ e[k].num_readers + e[k].num_writers
                          = Cardinality(Waiting(x, k))
                    /\ e[k].num_writers <= 1
                    /\ e[k].num_writers = 1 => e[k].num_readers = 0
  BY DEF Balanced
<1>2. CASE k = h
  <2>1. Waiting(x, k) = Waiting(w, k) \ {t} /\ t \in Waiting(w, k)
    BY <1>1, <1>2 DEF Waiting
  <2>2. Cardinality(Waiting(x, k)) = Cardinality(Waiting(w, k)) - 1
    <3>1. IsFiniteSet(Waiting(w, k))
      BY WaitingFinite
    <3>2. Cardinality(Waiting(w, k) \ {t}) = Cardinality(Waiting(w, k)) - 1
      BY <2>1, <3>1, FS_RemoveElement
    <3> QED
      BY <2>1, <3>2
  <2>3. e[k] = Unlocked(d[k])
    BY <1>1, <1>2
  <2>4. /\ d[k].num_readers \in Nat /\ d[k].num_writers \in Nat
        /\ d[k].num_readers + d[k].num_writers = Cardinality(Waiting(w, k))
        /\ d[k].num_writers <= 1
        /\ d[k].num_writers = 1 => d[k].num_readers = 0
    BY DEF Balanced, Entry
  <2>5. Cardinality(Waiting(w, k)) # 0
    BY <2>1, WaitingFinite, FS_EmptySet
  <2>6. CASE d[k].num_readers > 0
    <3>1. /\ Unlocked(d[k]).num_readers = d[k].num_readers - 1
          /\ Unlocked(d[k]).num_writers = d[k].num_writers
      BY <2>6 DEF Unlocked, Entry
    <3> QED
      BY <2>2, <2>3, <2>4, <2>6, <3>1, WaitingFinite
  <2>7. CASE d[k].num_readers = 0
    <3>1. d[k].num_writers = 1
      BY <2>4, <2>5, <2>7, WaitingFinite
    <3>2. /\ Unlocked(d[k]).num_readers = d[k].num_readers
          /\ Unlocked(d[k]).num_writers = d[k].num_writers - 1
      BY <2>7, <3>1 DEF Unlocked, Entry
    <3> QED
      BY <2>2, <2>3, <2>4, <2>7, <3>1, <3>2, WaitingFinite
  <2> QED
    BY <2>4, <2>6, <2>7
<1>3. CASE k # h
  <2>1. Waiting(x, k) = Waiting(w, k)
    BY <1>1, <1>3 DEF Waiting
  <2>2. e[k] = d[k]
    BY <1>3
  <2> QED
    BY <2>1, <2>2 DEF Balanced
<1> QED
  BY <1>2, <1>3

(* A tid that waited for nothing and now waits for k has taken one lock. *)
LEMMA LockBalanced ==
    ASSUME NEW d \in [Keys -> Entry], NEW w \in [Tids -> Keys \cup {NoKey}],
           NEW t \in Tids, NEW k \in Keys, NEW e,
           w[t] = NoKey, Balanced(d, w),
           \/ /\ d[k].num_readers = 0 /\ d[k].num_writers = 0
              /\ e.num_readers = 0 /\ e.num_writers = 1
           \/ /\ d[k].num_writers = 0
              /\ e.num_readers = d[k].num_readers + 1 /\ e.num_writers = 0
    PROVE  Balanced([d EXCEPT ![k] = e], [w EXCEPT ![t] = k])
<1> DEFINE f == [d EXCEPT ![k] = e]
           x == [w EXCEPT ![t] = k]
<1> SUFFICES ASSUME NEW j \in Keys
             PROVE  /\ f[j].num_readers + f[j].num_writers
                          = Cardinality(Waiting(x, j))
                    /\ f[j].num_writers <= 1
                    /\ f[j].num_writers = 1 => f[j].num_readers = 0
  BY DEF Balanced
<1>1. NoKey \notin Keys
  BY ClientsAssumption
<1>2. CASE j = k
  <2>1. Waiting(x, j) = Waiting(w, j) \cup {t} /\ t \notin Waiting(w, j)
    BY <1>1, <1>2 DEF Waiting
  <2>2. Cardinality(Waiting(x, j)) = Cardinality(Waiting(w, j)) + 1
    BY <2>1, WaitingFinite, FS_AddElement
  <2>3. f[j] = e
    BY <1>2
  <2>4. /\ d[k].num_readers \in Nat /\ d[k].num_writers \in Nat
        /\ d[k].num_readers + d[k].num_writers = Cardinality(Waiting(w, j))
    BY <1>2 DEF Balanced, Entry
  <2> QED
    BY <2>2, <2>3, <2>4, WaitingFinite
<1>3. CASE j # k
  <2>1. Waiting(x, j) = Waiting(w, j)
    BY <1>3, <1>1 DEF Waiting
  <2>2. f[j] = d[j]
    BY <1>3
  <2> QED
    BY <2>1, <2>2 DEF Balanced
<1> QED
  BY <1>2, <1>3

(* mark_rdma_fin_received, and every path that calls it: the wait of t, if *)
(* it had one, ends and its lock is given back.                            *)
LEMMA ReleasedBalanced ==
    ASSUME ServerTypeOK, NEW d \in [Keys -> Entry], NEW t \in Tids,
           Balanced(d, waiting_fin_q)
    PROVE  Balanced(Released(d, t), [waiting_fin_q EXCEPT ![t] = NoKey])
<1>1. CASE waiting_fin_q[t] = NoKey
  <2>1. [waiting_fin_q EXCEPT ![t] = NoKey] = waiting_fin_q
    BY <1>1 DEF ServerTypeOK
  <2> QED
    BY <1>1, <2>1 DEF Released
<1>2. CASE waiting_fin_q[t] # NoKey
  BY <1>2, UnlockBalanced DEF Released, ServerTypeOK
<1> QED
  BY <1>1, <1>2

(* Dropping a request keeps the locks accounted for. *)
LEMMA RemovePendingLocks ==
    ASSUME ServerTypeOK, NEW t \in Tids, NEW d \in [Keys -> Entry],
           NEW q, Balanced(d, waiting_fin_q),
           remove_server_pending_request(t, d, q)
    PROVE  LocksAreAccountedFor'
<1>1. Balanced(db', waiting_fin_q')
  BY ReleasedBalanced DEF remove_server_pending_request
<1> QED
  BY <1>1 DEF LocksAreAccountedFor, Balanced, Holders, Waiting

(* handle_set_request.  The lock that an old wait of t still keeps is not  *)
(* on k, which nobody holds when it is locked for writing.                 *)
LEMMA HandleSetLocks ==
    ASSUME ServerTypeOK, LocksAreAccountedFor,
           NEW t \in Tids, NEW k \in Keys, NEW v \in Contents,
           NEW p \in Contents, NEW q, handle_set_request(t, k, v, p, q)
    PROVE  LocksAreAccountedFor'
<1>1. Balanced(db, waiting_fin_q) /\ db[k] \in Entry
  BY BalancedIsAccountedFor DEF ServerTypeOK
<1>2. CASE SetBlocked(t, k, v, q)
  BY <1>2
  DEF SetBlocked, push_pending_request, LocksAreAccountedFor, Holders
<1>3. CASE SetEager(t, k, v, p, q)
  <2> DEFINE e == Inserted(Opened(db[k]), p)
             d == [db EXCEPT ![k] = e]
  <2>1. /\ e \in Entry
        /\ e.num_readers = db[k].num_readers
        /\ e.num_writers = db[k].num_writers
    BY <1>1, OpenedProperties, InsertedProperties
  <2>2. remove_server_pending_request(t, d, q)
    BY <1>3 DEF SetEager
  <2> HIDE DEF e
  <2>3. d \in [Keys -> Entry]
    BY <2>1 DEF ServerTypeOK
  <2>4. \A j \in Keys : /\ d[j].num_readers = db[j].num_readers
                       /\ d[j].num_writers = db[j].num_writers
    BY <2>1 DEF ServerTypeOK
  <2> HIDE DEF d
  <2>5. Balanced(d, waiting_fin_q)
    BY <1>1, <2>4, SameLocks
  <2> QED
    BY <2>2, <2>3, <2>5, RemovePendingLocks
<1>4. CASE SetRendezvous(t, k, v, q)
  <2> DEFINE e == Exposed(LockedWr(Opened(db[k])), v)
             d == [db EXCEPT ![k] = e]
             w == [waiting_fin_q EXCEPT ![t] = NoKey]
             r == Released(db, t)
  <2>1. mark_rdma_fin_required(t, k, d, q) /\ CanLockWr(db[k])
    BY <1>4 DEF SetRendezvous
  <2>2. db[k].num_readers = 0 /\ db[k].num_writers = 0
    BY <2>1 DEF CanLockWr
  <2>3. /\ e \in Entry
        /\ e.num_readers = 0
        /\ e.num_writers = 1
    <3>1. /\ Opened(db[k]) \in Entry
          /\ Opened(db[k]).num_readers = 0
          /\ Opened(db[k]).num_writers = 0
      BY <1>1, <2>2, OpenedProperties
    <3>2. /\ LockedWr(Opened(db[k])) \in Entry
          /\ LockedWr(Opened(db[k])).num_readers = 0
          /\ LockedWr(Opened(db[k])).num_writers = 1
      BY <3>1, LockedWrProperties
    <3> QED
      BY <3>2, ExposedProperties
  <2>4. waiting_fin_q[t] # k
    <3>1. Waiting(waiting_fin_q, k) = {}
      BY <1>1, <2>2, WaitingFinite, FS_EmptySet DEF Balanced
    <3> QED
      BY <3>1 DEF Waiting
  <2>5. Balanced(r, w) /\ r \in [Keys -> Entry]
    BY <1>1, ReleasedBalanced, ReleasedType DEF ServerTypeOK
  <2>6. r[k] = db[k]
    BY <2>4 DEF Released, ServerTypeOK
  <2>7. /\ w \in [Tids -> Keys \cup {NoKey}]
        /\ w[t] = NoKey
        /\ [w EXCEPT ![t] = k] = [waiting_fin_q EXCEPT ![t] = k]
    BY DEF ServerTypeOK
  <2> HIDE DEF e
  <2>8. [r EXCEPT ![k] = e] = Released(d, t)
    BY <2>4 DEF Released, ServerTypeOK
  <2>9. /\ db' = Released(d, t)
        /\ waiting_fin_q' = [waiting_fin_q EXCEPT ![t] = k]
    BY <2>1 DEF mark_rdma_fin_required, Released
  <2> HIDE DEF w, r, d
  <2>10. Balanced([r EXCEPT ![k] = e], [w EXCEPT ![t] = k])
    BY <2>2, <2>3, <2>5, <2>6, <2>7, LockBalanced
  <2>11. Balanced(db', waiting_fin_q')
    BY <2>7, <2>8, <2>9, <2>10
  <2> QED
    BY <2>11 DEF LocksAreAccountedFor, Balanced, Holders, Waiting
<1> QED
  BY <1>2, <1>3, <1>4 DEF handle_set_request

(* handle_get_request.  An old wait of t may be on k itself: then k gets   *)
(* one reader more and, with the old wait, one less.                       *)
LEMMA HandleGetLocks ==
    ASSUME ServerTypeOK, LocksAreAccountedFor,
           NEW t \in Tids, NEW k \in Keys, NEW q,
           handle_get_request(t, k, q)
    PROVE  LocksAreAccountedFor'
<1>1. Balanced(db, waiting_fin_q) /\ db[k] \in Entry
  BY BalancedIsAccountedFor DEF ServerTypeOK
<1>2. CASE GetBlocked(t, k, q)
  BY <1>2
  DEF GetBlocked, push_pending_request, LocksAreAccountedFor, Holders
<1>3. CASE GetEager(t, k, q)
  <2> DEFINE d == [db EXCEPT ![k] = Opened(@)]
  <2>1. d \in [Keys -> Entry]
    BY <1>1, OpenedProperties DEF ServerTypeOK
  <2>2. \A j \in Keys : /\ d[j].num_readers = db[j].num_readers
                       /\ d[j].num_writers = db[j].num_writers
    BY <1>1, OpenedProperties DEF ServerTypeOK
  <2>3. remove_server_pending_request(t, d, q)
    BY <1>3 DEF GetEager
  <2> HIDE DEF d
  <2>4. Balanced(d, waiting_fin_q)
    BY <1>1, <2>2, SameLocks
  <2> QED
    BY <2>1, <2>3, <2>4, RemovePendingLocks
<1>4. CASE GetRendezvous(t, k, q)
  <2> DEFINE e == LockedRd(Opened(db[k]))
             d == [db EXCEPT ![k] = e]
             w == [waiting_fin_q EXCEPT ![t] = NoKey]
             r == Released(db, t)
  <2>1. /\ db' = Released(d, t)
        /\ waiting_fin_q' = [waiting_fin_q EXCEPT ![t] = k]
        /\ db[k].num_writers = 0
    BY <1>4 DEF GetRendezvous, CanLockRd
  <2>2. /\ e \in Entry
        /\ e.num_readers = db[k].num_readers + 1
        /\ e.num_writers = 0
    BY <1>1, <2>1, OpenedProperties, LockedRdProperties
  <2> HIDE DEF e
  <2>3. CASE waiting_fin_q[t] # k
    <3>1. Balanced(r, w) /\ r \in [Keys -> Entry]
      BY <1>1, ReleasedBalanced, ReleasedType DEF ServerTypeOK
    <3>2. r[k] = db[k]
      BY <2>3 DEF Released, ServerTypeOK
    <3>3. /\ w \in [Tids -> Keys \cup {NoKey}]
          /\ w[t] = NoKey
          /\ [w EXCEPT ![t] = k] = [waiting_fin_q EXCEPT ![t] = k]
      BY DEF ServerTypeOK
    <3>4. [r EXCEPT ![k] = e] = Released(d, t)
      BY <2>3 DEF Released, ServerTypeOK
    <3> HIDE DEF w, r, d
    <3>5. Balanced([r EXCEPT ![k] = e], [w EXCEPT ![t] = k])
      BY <2>1, <2>2, <3>1, <3>2, <3>3, LockBalanced
    <3>6. Balanced(db', waiting_fin_q')
      BY <2>1, <3>3, <3>4, <3>5
    <3> QED
      BY <3>6 DEF LocksAreAccountedFor, Balanced, Holders, Waiting
  <2>4. CASE waiting_fin_q[t] = k
    <3>1. waiting_fin_q' = waiting_fin_q
      BY <2>1, <2>4 DEF ServerTypeOK
    <3>2. db' = [db EXCEPT ![k] = Unlocked(e)]
      BY <2>1, <2>4, ClientsAssumption DEF Released, ServerTypeOK
    <3>3. /\ Unlocked(e).num_readers = db[k].num_readers
          /\ Unlocked(e).num_writers = db[k].num_writers
      BY <1>1, <2>1, <2>2 DEF Unlocked, Entry
    <3>4. \A j \in Keys : /\ db'[j].num_readers = db[j].num_readers
                         /\ db'[j].num_writers = db[j].num_writers
      BY <3>2, <3>3 DEF ServerTypeOK
    <3>5. Balanced(db', waiting_fin_q)
      BY <1>1, <3>4, SameLocks
    <3> QED
      BY <3>1, <3>5 DEF LocksAreAccountedFor, Balanced, Holders, Waiting
  <2> QED
    BY <2>3, <2>4
<1> QED
  BY <1>2, <1>3, <1>4 DEF handle_get_request

-----------------------------------------------------------------------------
(* The invariant.                                                          *)

(***************************************************************************)
(* What the server has polled from client c and not handled yet is at the  *)
(* head of c2s[c] and consists of sends: neither an RDMA request nor the   *)
(* end of the client takes it away.                                        *)
(***************************************************************************)
PolledAreSends ==
    \A c \in Clients :
        /\ polled[c] <= Len(c2s[c])
        /\ \A i \in 1 .. polled[c] : c2s[c][i].op \notin RdmaOps

IInv == TypeOK /\ PolledAreSends /\ LocksAreAccountedFor

-----------------------------------------------------------------------------
(* Records.                                                                *)

(* A message of the client with fields of the right types. *)
LEMMA MessageType ==
    ASSUME NEW op \in SendOps \cup RdmaOps, NEW t \in Tids, NEW k \in Keys,
           NEW v \in Contents, NEW r \in Nat
    PROVE  Message(op, t, k, v, r) \in WorkRequest
  BY DEF Message, WorkRequest

(* The client's shutdown request is a work request. *)
LEMMA ShutdownType == Shutdown \in WorkRequest
  BY DEF WorkRequest

(* Every work request but the shutdown message names a tid and a key. *)
LEMMA WorkRequestFields ==
    ASSUME NEW m \in WorkRequest, m.op # "SHUTDOWN"
    PROVE  /\ m.op \in SendOps \cup RdmaOps
           /\ m.tid \in Tids
           /\ m.key \in Keys
           /\ m.val \in Contents
           /\ m.rkey \in Nat
  BY DEF WorkRequest, Shutdown

(* What the client's handlers do to its pending requests. *)
LEMMA PendingSetFields ==
    ASSUME NEW p \in ClientRequest, p.op = "SET"
    PROVE  p.key \in Keys /\ p.val \in Contents
  BY DEF ClientRequest

(* What a pending GET record holds has the types of the request it was made *)
(* from.                                                                    *)
LEMMA PendingGetFields ==
    ASSUME NEW p \in ClientRequest, p.op = "GET",
           NEW v \in Contents \cup {Torn}
    PROVE  /\ p.key \in Keys
           /\ [p EXCEPT !.done = TRUE] \in ClientRequest
           /\ [p EXCEPT !.val = v] \in ClientRequest
           /\ [p EXCEPT !.val = v, !.done = TRUE] \in ClientRequest
<1>1. p \in [op : {"GET"}, key : Keys, val : Contents \cup {Torn},
             done : BOOLEAN]
  BY DEF ClientRequest
<1> QED
  BY <1>1 DEF ClientRequest

(* A client that waits for the answer to t has t in its table. *)
LEMMA WaitsFor ==
    ASSUME TypeOK, NEW t \in Tids, NEW op, Waits(t, op)
    PROVE  pending[t] \in ClientRequest /\ pending[t].op = op
  BY DEF Waits, TypeOK, ClientTypeOK

(* The next tid of a client that may still make an operation. *)
LEMMA NextTidType ==
    ASSUME TypeOK, NEW c \in Clients, get_new_tid(c)
    PROVE  /\ NextTid(c) \in Tids
           /\ tid' \in [Clients -> 0 .. MaxOps]
<1>1. tid[c] \in 0 .. MaxOps /\ MaxOps \in Nat /\ tid[c] < MaxOps
  BY ClientsAssumption DEF TypeOK, ClientTypeOK, get_new_tid
<1>2. tid[c] + 1 \in 1 .. MaxOps /\ tid[c] + 1 \in 0 .. MaxOps
  BY <1>1
<1> QED
  BY <1>2 DEF NextTid, Tids, get_new_tid, TypeOK, ClientTypeOK

-----------------------------------------------------------------------------
(* The queues of work requests.                                            *)

(* Everything before the i-th element of a sequence stays when it goes. *)
LEMMA RemoveAtPrefix ==
    ASSUME NEW S, NEW s \in Seq(S), NEW i \in 1 .. Len(s)
    PROVE  /\ Len(RemoveAt(s, i)) = Len(s) - 1
           /\ \A j \in 1 .. (i - 1) : RemoveAt(s, i)[j] = s[j]
<1> DEFINE a == SubSeq(s, 1, i - 1)
           b == SubSeq(s, i + 1, Len(s))
<1>1. /\ a \in Seq(S) /\ Len(a) = i - 1
      /\ \A j \in 1 .. (i - 1) : a[j] = s[j]
  BY SubSeqProperties, LenProperties, ElementOfSeq
<1>2. b \in Seq(S) /\ Len(b) = Len(s) - i
  BY SubSeqProperties, LenProperties, ElementOfSeq
<1>3. RemoveAt(s, i) = a \o b
  BY DEF RemoveAt
<1> HIDE DEF a, b
<1>4. /\ Len(a \o b) = Len(a) + Len(b)
      /\ \A j \in 1 .. Len(a) + Len(b) :
            (a \o b)[j] = IF j <= Len(a) THEN a[j] ELSE b[j - Len(a)]
  BY <1>1, <1>2, ConcatProperties
<1> QED
  BY <1>1, <1>2, <1>3, <1>4, LenProperties

(* A client's queue after a step that leaves what was polled alone. *)
KeepsPolled(c, q) ==
    /\ q \in Seq(WorkRequest)
    /\ polled[c] <= Len(q)
    /\ \A i \in 1 .. polled[c] : q[i] = c2s[c][i]

(* The types of a client's send queue, and what the server has polled of    *)
(* it.                                                                      *)
LEMMA QueueType ==
    ASSUME TypeOK, PolledAreSends, NEW c \in Clients
    PROVE  /\ c2s[c] \in Seq(WorkRequest)
           /\ Len(c2s[c]) \in Nat
           /\ polled[c] \in Nat /\ polled[c] <= Len(c2s[c])
           /\ KeepsPolled(c, c2s[c])
<1>1. c2s[c] \in Seq(WorkRequest) /\ polled[c] \in 0 .. SERVER_WC_BATCH
  BY DEF TypeOK, ClientTypeOK, LoopTypeOK
<1> QED
  BY <1>1, LenProperties, LoopAssumption DEF PolledAreSends, KeepsPolled

(* Posting a request puts it behind the others. *)
LEMMA AppendKeepsPolled ==
    ASSUME TypeOK, PolledAreSends, NEW c \in Clients, NEW m \in WorkRequest
    PROVE  KeepsPolled(c, Append(c2s[c], m))
<1>1. /\ c2s[c] \in Seq(WorkRequest) /\ Len(c2s[c]) \in Nat
      /\ polled[c] \in Nat /\ polled[c] <= Len(c2s[c])
  BY QueueType
<1>2. /\ Append(c2s[c], m) \in Seq(WorkRequest)
      /\ Len(Append(c2s[c], m)) = Len(c2s[c]) + 1
      /\ \A i \in 1 .. Len(c2s[c]) : Append(c2s[c], m)[i] = c2s[c][i]
  BY <1>1, AppendProperties
<1> QED
  BY <1>1, <1>2 DEF KeepsPolled

(* The end of a client cuts off requests that were not polled. *)
LEMMA SurvivingKeepsPolled ==
    ASSUME TypeOK, PolledAreSends, NEW c \in Clients, NEW q,
           KeepsPolled(c, q), NEW n \in Nat, polled[c] <= n,
           NEW s \in Surviving(q, n)
    PROVE  KeepsPolled(c, s)
<1>1. q \in Seq(WorkRequest) /\ Len(q) \in Nat /\ polled[c] <= Len(q)
  BY LenProperties DEF KeepsPolled
<1>2. polled[c] \in Nat
  BY QueueType
<1>3. PICK m \in n .. Len(q) : s = SubSeq(q, 1, m)
  BY DEF Surviving
<1>4. \A i \in 1 .. m : q[i] \in WorkRequest
  BY <1>1, <1>2, <1>3, ElementOfSeq
<1>5. m \in Nat /\ polled[c] <= m /\ m <= Len(q)
  BY <1>1, <1>2, <1>3
<1>6. /\ s \in Seq(WorkRequest)
      /\ Len(s) = IF 1 <= m THEN m - 1 + 1 ELSE 0
      /\ \A i \in 1 .. m - 1 + 1 : s[i] = q[1 + i - 1]
  BY <1>3, <1>4, <1>5, SubSeqProperties
<1>7. Len(s) = m /\ \A i \in 1 .. m : s[i] = q[i]
  BY <1>5, <1>6
<1> QED
  BY <1>2, <1>3, <1>5, <1>6, <1>7 DEF KeepsPolled

(* A step that does this to every queue and polls nothing keeps both parts *)
(* of the invariant that speak of the queues.                              *)
LEMMA QueuesKept ==
    ASSUME TypeOK, PolledAreSends, UNCHANGED polled,
           NEW c \in Clients, NEW q, KeepsPolled(c, q),
           c2s' = [c2s EXCEPT ![c] = q]
    PROVE  /\ c2s' \in [Clients -> Seq(WorkRequest)]
           /\ PolledAreSends'
<1>1. c2s \in [Clients -> Seq(WorkRequest)] /\ q \in Seq(WorkRequest)
  BY DEF TypeOK, ClientTypeOK, KeepsPolled
<1>2. c2s' \in [Clients -> Seq(WorkRequest)]
  BY <1>1
<1>3. ASSUME NEW b \in Clients
      PROVE  /\ polled[b] <= Len(c2s'[b])
             /\ \A i \in 1 .. polled[b] : c2s'[b][i].op \notin RdmaOps
  <2>1. CASE b = c
    BY <1>1, <2>1 DEF KeepsPolled, PolledAreSends
  <2>2. CASE b # c
    BY <1>1, <2>2 DEF PolledAreSends
  <2> QED
    BY <2>1, <2>2
<1> QED
  BY <1>2, <1>3 DEF PolledAreSends

(* Posting a request keeps the send queues, and what was polled of them. *)
LEMMA PostKeepsQueues ==
    ASSUME TypeOK, PolledAreSends, UNCHANGED polled,
           NEW c \in Clients, NEW m \in WorkRequest, Post(c, m)
    PROVE  /\ c2s' \in [Clients -> Seq(WorkRequest)]
           /\ PolledAreSends'
  BY AppendKeepsPolled, QueuesKept DEF Post

-----------------------------------------------------------------------------
(* The steps of the clients.                                               *)

(* kv_get, kv_set and kv_close keep the types. *)
LEMMA CallType ==
    ASSUME TypeOK, PolledAreSends, NEW c \in Clients,
           \/ \E k \in Keys, v \in Values : kv_set(c, k, v)
           \/ \E k \in Keys : kv_get(c, k)
    PROVE  TypeOK' /\ PolledAreSends'
<1>1. ASSUME NEW k \in Keys, NEW v \in Values, kv_set(c, k, v)
      PROVE  TypeOK' /\ PolledAreSends'
  <2>1. NextTid(c) \in Tids /\ tid' \in [Clients -> 0 .. MaxOps]
    BY <1>1, NextTidType DEF kv_set
  <2>2. Message("SET", NextTid(c), k, v, 0) \in WorkRequest
    BY <2>1, MessageType DEF SendOps, Contents
  <2>3. c2s' \in [Clients -> Seq(WorkRequest)] /\ PolledAreSends'
    BY <1>1, <2>2, PostKeepsQueues DEF kv_set, loopVars
  <2>4. [op |-> "SET", key |-> k, val |-> v, done |-> FALSE]
          \in ClientRequest
    BY DEF ClientRequest, Contents
  <2>5. pending' \in [Tids -> ClientRequest \cup {NoReq}]
    BY <1>1, <2>1, <2>4 DEF kv_set, TypeOK, ClientTypeOK
  <2> QED
    BY <1>1, <2>1, <2>3, <2>5
    DEF kv_set, TypeOK, ServerTypeOK, ClientTypeOK, LoopTypeOK, serverVars,
        loopVars
<1>2. ASSUME NEW k \in Keys, kv_get(c, k)
      PROVE  TypeOK' /\ PolledAreSends'
  <2>1. NextTid(c) \in Tids /\ tid' \in [Clients -> 0 .. MaxOps]
    BY <1>2, NextTidType DEF kv_get
  <2>2. Message("GET", NextTid(c), k, Empty, 0) \in WorkRequest
    BY <2>1, MessageType DEF SendOps, Contents
  <2>3. c2s' \in [Clients -> Seq(WorkRequest)] /\ PolledAreSends'
    BY <1>2, <2>2, PostKeepsQueues DEF kv_get, loopVars
  <2>4. [op |-> "GET", key |-> k, val |-> Empty, done |-> FALSE]
          \in ClientRequest
    BY DEF ClientRequest, Contents
  <2>5. pending' \in [Tids -> ClientRequest \cup {NoReq}]
    BY <1>2, <2>1, <2>4 DEF kv_get, TypeOK, ClientTypeOK
  <2>6. pc' \in [Clients -> {"out", "app", "get", "close", "gone"}]
    BY <1>2 DEF kv_get, TypeOK, ClientTypeOK
  <2> QED
    BY <1>2, <2>1, <2>3, <2>5, <2>6
    DEF kv_get, TypeOK, ServerTypeOK, ClientTypeOK, LoopTypeOK, serverVars,
        loopVars
<1> QED
  BY <1>1, <1>2

(* The end of kv_get keeps the types. *)
LEMMA GetReturnType ==
    ASSUME TypeOK, PolledAreSends, NEW c \in Clients,
           GetReturn(c) \/ kv_close(c)
    PROVE  TypeOK' /\ PolledAreSends'
<1>1. CASE GetReturn(c)
  <2>1. pending' \in [Tids -> ClientRequest \cup {NoReq}]
    BY <1>1 DEF GetReturn, TypeOK, ClientTypeOK
  <2>2. pc' \in [Clients -> {"out", "app", "get", "close", "gone"}]
    BY <1>1 DEF GetReturn, TypeOK, ClientTypeOK
  <2> QED
    BY <1>1, <2>1, <2>2
    DEF GetReturn, TypeOK, ServerTypeOK, ClientTypeOK, LoopTypeOK, serverVars,
        loopVars, PolledAreSends
<1>2. CASE kv_close(c)
  BY <1>2
  DEF kv_close, TypeOK, ServerTypeOK, ClientTypeOK, LoopTypeOK, serverVars,
      loopVars, PolledAreSends
<1> QED
  BY <1>1, <1>2

(* The end of kv_close keeps the types. *)
LEMMA CloseDoneType ==
    ASSUME TypeOK, PolledAreSends, NEW c \in Clients, CloseDone(c)
    PROVE  TypeOK' /\ PolledAreSends'
<1> DEFINE n == IF c \in Delivering THEN Len(c2s[c]) ELSE polled[c]
<1>1. PICK q \in Surviving(Append(c2s[c], Shutdown), n) :
           c2s' = [c2s EXCEPT ![c] = q]
  BY DEF CloseDone
<1>5. n \in Nat /\ polled[c] <= n
  BY QueueType
<1> HIDE DEF n
<1>2. KeepsPolled(c, q)
  BY <1>1, <1>5, ShutdownType, AppendKeepsPolled, SurvivingKeepsPolled
<1>3. c2s' \in [Clients -> Seq(WorkRequest)] /\ PolledAreSends'
  BY <1>1, <1>2, QueuesKept DEF CloseDone, loopVars
<1>4. pc' \in [Clients -> {"out", "app", "get", "close", "gone"}]
  BY DEF CloseDone, TypeOK, ClientTypeOK
<1> QED
  BY <1>3, <1>4
  DEF CloseDone, TypeOK, ServerTypeOK, ClientTypeOK, LoopTypeOK, serverVars,
      loopVars

(* The end of a client process keeps the types. *)
LEMMA ClientDieType ==
    ASSUME TypeOK, PolledAreSends, NEW c \in Clients, ClientDie(c)
    PROVE  TypeOK' /\ PolledAreSends'
<1>1. PICK q \in Surviving(c2s[c], polled[c]) :
           c2s' = [c2s EXCEPT ![c] = q]
  BY DEF ClientDie
<1>2. KeepsPolled(c, q)
  BY <1>1, QueueType, SurvivingKeepsPolled
<1>3. c2s' \in [Clients -> Seq(WorkRequest)] /\ PolledAreSends'
  BY <1>1, <1>2, QueuesKept DEF ClientDie, loopVars
<1>4. pc' \in [Clients -> {"out", "app", "get", "close", "gone"}]
  BY DEF ClientDie, TypeOK, ClientTypeOK
<1>5. pending' \in [Tids -> ClientRequest \cup {NoReq}]
  BY DEF ClientDie, TypeOK, ClientTypeOK
<1>6. wcq' \in [Clients -> Seq(Completion)]
  BY EmptySeq DEF ClientDie, TypeOK, ClientTypeOK
<1> QED
  BY <1>3, <1>4, <1>5, <1>6
  DEF ClientDie, TypeOK, ServerTypeOK, ClientTypeOK, LoopTypeOK, serverVars,
      loopVars

(* Taking a reply off its queue leaves a reply for a pending request.      *)
LEMMA TakeReplyType ==
    ASSUME TypeOK, NEW c \in Clients, NEW op, NEW request,
           TakeReply(c, op, request)
    PROVE  LET m == Head(s2c[c])
           IN  /\ ServerTypeOK'
               /\ m \in Reply
               /\ m.tid \in Tids
               /\ pending[m.tid] \in ClientRequest
               /\ pending[m.tid].op = request
<1>1. s2c[c] \in Seq(Reply) /\ s2c[c] # <<>>
  BY DEF TypeOK, ServerTypeOK, TakeReply
<1>2. Head(s2c[c]) \in Reply /\ Tail(s2c[c]) \in Seq(Reply)
  BY <1>1, HeadTailProperties
<1>3. Head(s2c[c]).tid \in Tids
  BY <1>2 DEF Reply
<1>4. ServerTypeOK'
  BY <1>2 DEF TakeReply, TypeOK, ServerTypeOK
<1> QED
  BY <1>2, <1>3, <1>4, WaitsFor DEF TakeReply

(* The client's handling of an answer keeps the types. *)
LEMMA HandleReplyType ==
    ASSUME TypeOK, PolledAreSends, NEW c \in Clients,
           \/ client_handle_get_response(c)
           \/ client_handle_recv_rdma_rkey_get(c)
           \/ client_handle_recv_rdma_rkey_set(c)
    PROVE  TypeOK' /\ PolledAreSends'
<1> DEFINE m == Head(s2c[c])
<1>1. CASE client_handle_get_response(c)
  <2>1. /\ ServerTypeOK' /\ m \in Reply /\ m.tid \in Tids
        /\ pending[m.tid] \in ClientRequest
        /\ pending[m.tid].op = "GET"
    BY <1>1, TakeReplyType DEF client_handle_get_response
  <2>2. m.val \in Contents \cup {Torn}
    BY <2>1 DEF Reply
  <2>3. [pending[m.tid] EXCEPT !.val = m.val, !.done = TRUE]
          \in ClientRequest
    BY <2>1, <2>2, PendingGetFields
  <2>4. pending' = [pending EXCEPT ![m.tid] =
                      [pending[m.tid] EXCEPT !.val = m.val, !.done = TRUE]]
    BY <1>1, <2>1
    DEF client_handle_get_response, TypeOK, ClientTypeOK
  <2>5. pending' \in [Tids -> ClientRequest \cup {NoReq}]
    BY <2>3, <2>4 DEF TypeOK, ClientTypeOK
  <2> QED
    BY <1>1, <2>1, <2>5
    DEF client_handle_get_response, TypeOK, ClientTypeOK, LoopTypeOK,
        loopVars, PolledAreSends
<1>2. CASE client_handle_recv_rdma_rkey_get(c)
  <2>1. ServerTypeOK' /\ m \in Reply
    BY <1>2, TakeReplyType DEF client_handle_recv_rdma_rkey_get
  <2>2. Message("READ", m.tid, m.key, Empty, m.rkey) \in WorkRequest
    BY <2>1, MessageType DEF Reply, RdmaOps, Contents
  <2>3. c2s' \in [Clients -> Seq(WorkRequest)] /\ PolledAreSends'
    BY <1>2, <2>2, PostKeepsQueues
    DEF client_handle_recv_rdma_rkey_get, loopVars
  <2> QED
    BY <1>2, <2>1, <2>3
    DEF client_handle_recv_rdma_rkey_get, TypeOK, ClientTypeOK, LoopTypeOK,
        clientVars, loopVars
<1>3. CASE client_handle_recv_rdma_rkey_set(c)
  <2>1. /\ ServerTypeOK' /\ m \in Reply
        /\ pending[m.tid] \in ClientRequest
        /\ pending[m.tid].op = "SET"
    BY <1>3, TakeReplyType DEF client_handle_recv_rdma_rkey_set
  <2>2. pending[m.tid].val \in Contents
    BY <2>1, PendingSetFields
  <2>3. Message("WRITE", m.tid, m.key, pending[m.tid].val, m.rkey)
          \in WorkRequest
    BY <2>1, <2>2, MessageType DEF Reply, RdmaOps
  <2>4. c2s' \in [Clients -> Seq(WorkRequest)] /\ PolledAreSends'
    BY <1>3, <2>3, PostKeepsQueues
    DEF client_handle_recv_rdma_rkey_set, loopVars
  <2> QED
    BY <1>3, <2>1, <2>4
    DEF client_handle_recv_rdma_rkey_set, TypeOK, ClientTypeOK, LoopTypeOK,
        clientVars, loopVars
<1> QED
  BY <1>1, <1>2, <1>3

(* The same for completions. *)
LEMMA TakeCompletionType ==
    ASSUME TypeOK, NEW c \in Clients, NEW op, NEW request,
           TakeCompletion(c, op, request)
    PROVE  LET t == Head(wcq[c]).tid
           IN  /\ wcq' \in [Clients -> Seq(Completion)]
               /\ t \in Tids
               /\ pending[t] \in ClientRequest
               /\ pending[t].op = request
<1>1. wcq[c] \in Seq(Completion) /\ wcq[c] # <<>>
  BY DEF TypeOK, ClientTypeOK, TakeCompletion
<1>2. Head(wcq[c]) \in Completion /\ Tail(wcq[c]) \in Seq(Completion)
  BY <1>1, HeadTailProperties
<1>3. Head(wcq[c]).tid \in Tids
  BY <1>2 DEF Completion
<1>4. wcq' \in [Clients -> Seq(Completion)]
  BY <1>2 DEF TakeCompletion, TypeOK, ClientTypeOK
<1> QED
  BY <1>3, <1>4, WaitsFor DEF TakeCompletion

(* The client's handling of an RDMA completion keeps the types. *)
LEMMA HandleCompletionType ==
    ASSUME TypeOK, PolledAreSends, NEW c \in Clients,
           RdmaReadDone(c) \/ RdmaWriteDone(c)
    PROVE  TypeOK' /\ PolledAreSends'
<1> DEFINE t == Head(wcq[c]).tid
           fin == Message("FIN", t, pending[t].key, Empty, 0)
<1>1. CASE RdmaReadDone(c)
  <2>1. /\ wcq' \in [Clients -> Seq(Completion)]
        /\ t \in Tids
        /\ pending[t] \in ClientRequest
        /\ pending[t].op = "GET"
    BY <1>1, TakeCompletionType DEF RdmaReadDone
  <2>2. /\ pending[t].key \in Keys
        /\ [pending[t] EXCEPT !.done = TRUE] \in ClientRequest
    BY <2>1, PendingGetFields DEF Contents
  <2>3. fin \in WorkRequest
    BY <2>1, <2>2, MessageType DEF SendOps, Contents
  <2>4. c2s' \in [Clients -> Seq(WorkRequest)] /\ PolledAreSends'
    BY <1>1, <2>3, PostKeepsQueues
    DEF RdmaReadDone, client_send_rdma_fin, loopVars
  <2>5. pending' \in [Tids -> ClientRequest \cup {NoReq}]
    BY <1>1, <2>1, <2>2 DEF RdmaReadDone, TypeOK, ClientTypeOK
  <2> QED
    BY <1>1, <2>1, <2>4, <2>5
    DEF RdmaReadDone, TypeOK, ServerTypeOK, ClientTypeOK, LoopTypeOK,
        serverVars, loopVars
<1>2. CASE RdmaWriteDone(c)
  <2>1. /\ wcq' \in [Clients -> Seq(Completion)]
        /\ t \in Tids
        /\ pending[t] \in ClientRequest
        /\ pending[t].op = "SET"
    BY <1>2, TakeCompletionType DEF RdmaWriteDone
  <2>2. pending[t].key \in Keys
    BY <2>1, PendingSetFields
  <2>3. fin \in WorkRequest
    BY <2>1, <2>2, MessageType DEF SendOps, Contents
  <2>4. c2s' \in [Clients -> Seq(WorkRequest)] /\ PolledAreSends'
    BY <1>2, <2>3, PostKeepsQueues
    DEF RdmaWriteDone, client_send_rdma_fin, loopVars
  <2>5. pending' \in [Tids -> ClientRequest \cup {NoReq}]
    BY <1>2 DEF RdmaWriteDone, TypeOK, ClientTypeOK
  <2> QED
    BY <1>2, <2>1, <2>4, <2>5
    DEF RdmaWriteDone, TypeOK, ServerTypeOK, ClientTypeOK, LoopTypeOK,
        serverVars, loopVars
<1> QED
  BY <1>1, <1>2

(* Every step of a client. *)
LEMMA ClientStepType ==
    ASSUME TypeOK, PolledAreSends, NEW c \in Clients, ClientStep(c)
    PROVE  TypeOK' /\ PolledAreSends'
  BY CallType, GetReturnType, CloseDoneType, ClientDieType, HandleReplyType,
     HandleCompletionType
  DEF ClientStep, ClientPoll

-----------------------------------------------------------------------------
(* The steps of the network.                                               *)

(* The RDMA request that executes is behind everything that was polled. *)
LEMMA RdmaExecuteType ==
    ASSUME TypeOK, PolledAreSends, UNCHANGED polled,
           NEW c \in Clients, NEW i, RdmaExecute(c, i)
    PROVE  LET m == c2s[c][i]
           IN  /\ m.op \in RdmaOps
               /\ m.tid \in Tids /\ m.key \in Keys /\ m.val \in Contents
               /\ c2s' \in [Clients -> Seq(WorkRequest)]
               /\ wcq' \in [Clients -> Seq(Completion)]
               /\ PolledAreSends'
<1> DEFINE m == c2s[c][i]
           q == RemoveAt(c2s[c], i)
<1>1. /\ c2s[c] \in Seq(WorkRequest) /\ Len(c2s[c]) \in Nat
      /\ polled[c] \in Nat /\ polled[c] <= Len(c2s[c])
  BY QueueType
<1>2. i \in 1 .. Len(c2s[c]) /\ m.op \in RdmaOps
  BY <1>1, LenProperties DEF RdmaExecute, NextRdma
<1>3. m \in WorkRequest
  BY <1>1, <1>2, ElementOfSeq
<1>4. m.tid \in Tids /\ m.key \in Keys /\ m.val \in Contents
  BY <1>2, <1>3, WorkRequestFields DEF RdmaOps
<1>5. ~(i <= polled[c])
  BY <1>1, <1>2 DEF PolledAreSends
<1>6. KeepsPolled(c, q)
  <2>1. q \in Seq(WorkRequest)
    BY <1>1, <1>2, RemoveAtType
  <2>2. /\ Len(q) = Len(c2s[c]) - 1
        /\ \A j \in 1 .. (i - 1) : q[j] = c2s[c][j]
    BY <1>1, <1>2, RemoveAtPrefix
  <2> HIDE DEF q
  <2> QED
    BY <1>1, <1>2, <1>5, <2>1, <2>2 DEF KeepsPolled
<1>7. c2s' \in [Clients -> Seq(WorkRequest)] /\ PolledAreSends'
  BY <1>6, QueuesKept DEF RdmaExecute
<1>8. wcq' \in [Clients -> Seq(Completion)]
  <2>1. [op |-> m.op, tid |-> m.tid] \in Completion
    BY <1>2, <1>4 DEF Completion
  <2>2. wcq \in [Clients -> Seq(Completion)]
    BY DEF TypeOK, ClientTypeOK
  <2>3. Append(wcq[c], [op |-> m.op, tid |-> m.tid]) \in Seq(Completion)
    BY <2>1, <2>2, AppendProperties
  <2> QED
    BY <2>2, <2>3 DEF RdmaExecute
<1> QED
  BY <1>2, <1>4, <1>7, <1>8

(* RdmaWrite changes what the entry holds, and nothing else of it. *)
LEMMA WrittenProperties ==
    ASSUME NEW e \in Entry, NEW v \in Contents
    PROVE  LET w == [e EXCEPT !.value = v, !.filling = FALSE]
           IN  /\ w \in Entry
               /\ w.num_readers = e.num_readers
               /\ w.num_writers = e.num_writers
  BY DEF Entry

(* An RDMA write changes the value of one entry and no lock. *)
LEMMA RdmaWriteEntries ==
    ASSUME TypeOK, PolledAreSends, NEW c \in Clients, RdmaWrite(c)
    PROVE  /\ db' \in [Keys -> Entry]
           /\ \A k \in Keys : /\ db'[k].num_readers = db[k].num_readers
                             /\ db'[k].num_writers = db[k].num_writers
           /\ c2s' \in [Clients -> Seq(WorkRequest)]
           /\ wcq' \in [Clients -> Seq(Completion)]
           /\ PolledAreSends'
<1>8. PICK i \in DOMAIN c2s[c] :
           /\ RdmaExecute(c, i)
           /\ \E v \in SentContent(c, c2s[c][i].val) :
                 db' = [db EXCEPT ![c2s[c][i].key].value = v,
                                  ![c2s[c][i].key].filling = FALSE]
           /\ UNCHANGED loopVars
  BY DEF RdmaWrite
<1>1. PICK v \in SentContent(c, c2s[c][i].val) :
           /\ RdmaExecute(c, i)
           /\ db' = [db EXCEPT ![c2s[c][i].key].value = v,
                               ![c2s[c][i].key].filling = FALSE]
           /\ UNCHANGED loopVars
  BY <1>8
<1>9. v \in Contents
  BY <1>1, <1>8, RdmaExecuteType DEF loopVars, SentContent
<1> DEFINE m == c2s[c][i]
           e == [db[m.key] EXCEPT !.value = v, !.filling = FALSE]
<1>2. /\ m.key \in Keys /\ m.val \in Contents
      /\ c2s' \in [Clients -> Seq(WorkRequest)]
      /\ wcq' \in [Clients -> Seq(Completion)]
      /\ PolledAreSends'
  BY <1>1, RdmaExecuteType DEF loopVars
<1>3. db \in [Keys -> Entry] /\ db[m.key] \in Entry
  BY <1>2 DEF TypeOK, ServerTypeOK
<1>4. db' = [db EXCEPT ![m.key] = e]
  BY <1>1, <1>2, <1>3
<1>5. /\ e \in Entry
      /\ e.num_readers = db[m.key].num_readers
      /\ e.num_writers = db[m.key].num_writers
  BY <1>2, <1>3, <1>9, WrittenProperties
<1> HIDE DEF e, m
<1>6. db' \in [Keys -> Entry]
  BY <1>3, <1>4, <1>5
<1>7. \A k \in Keys : /\ db'[k].num_readers = db[k].num_readers
                    /\ db'[k].num_writers = db[k].num_writers
  BY <1>3, <1>4, <1>5
<1> QED
  BY <1>2, <1>6, <1>7

(* The steps of the network and of the RDMA devices keep the types. *)
LEMMA NetworkStepType ==
    ASSUME TypeOK, PolledAreSends, NEW c \in Clients, NetworkStep(c)
    PROVE  TypeOK' /\ PolledAreSends'
<1>1. CASE RdmaWrite(c)
  BY <1>1, RdmaWriteEntries
  DEF RdmaWrite, TypeOK, ServerTypeOK, ClientTypeOK, LoopTypeOK, loopVars
<1>2. CASE RdmaRead(c)
  <2>1. PICK i \in DOMAIN c2s[c] :
             LET m == c2s[c][i]
             IN  /\ RdmaExecute(c, i)
                 /\ pending' = IF Waits(m.tid, "GET")
                               THEN [pending EXCEPT ![m.tid].val =
                                       Content(db[m.key])]
                               ELSE pending
                 /\ UNCHANGED <<serverVars, pc, tid, conn, sessions,
                                loopVars>>
    BY <1>2 DEF RdmaRead
  <2> DEFINE m == c2s[c][i]
  <2>2. /\ m.tid \in Tids /\ m.key \in Keys
        /\ c2s' \in [Clients -> Seq(WorkRequest)]
        /\ wcq' \in [Clients -> Seq(Completion)]
        /\ PolledAreSends'
    BY <2>1, RdmaExecuteType DEF loopVars
  <2>3. Content(db[m.key]) \in Contents \cup {Torn}
    BY <2>2 DEF Content, Entry, TypeOK, ServerTypeOK
  <2>4. pending' \in [Tids -> ClientRequest \cup {NoReq}]
    <3>1. pending \in [Tids -> ClientRequest \cup {NoReq}]
      BY DEF TypeOK, ClientTypeOK
    <3>2. CASE Waits(m.tid, "GET")
      <4>1. [pending[m.tid] EXCEPT !.val = Content(db[m.key])]
              \in ClientRequest
        BY <2>2, <2>3, <3>2, WaitsFor, PendingGetFields
      <4> QED
        BY <2>1, <3>1, <3>2, <4>1
    <3>3. CASE ~Waits(m.tid, "GET")
      BY <2>1, <3>1, <3>3
    <3> QED
      BY <3>2, <3>3
  <2> QED
    BY <2>1, <2>2, <2>4
    DEF TypeOK, ServerTypeOK, ClientTypeOK, LoopTypeOK, serverVars, loopVars
<1>3. CASE QpError(c)
  BY <1>3
  DEF QpError, TypeOK, ServerTypeOK, ClientTypeOK, LoopTypeOK, serverVars,
      clientVars, loopVars, PolledAreSends
<1> QED
  BY <1>1, <1>2, <1>3 DEF NetworkStep

-----------------------------------------------------------------------------
(* The steps of the server.                                                *)

(* A new connection keeps the types. *)
LEMMA AcceptType ==
    ASSUME TypeOK, PolledAreSends, NEW c \in Clients,
           accept_new_connection(c)
    PROVE  TypeOK' /\ PolledAreSends'
<1>1. sessions' \in [Clients -> 0 .. MaxSessions]
  BY LoopAssumption DEF accept_new_connection, TypeOK, LoopTypeOK
<1>2. tid' \in [Clients -> 0 .. MaxOps]
  BY ClientsAssumption DEF accept_new_connection, TypeOK, ClientTypeOK
<1>3. /\ pc' \in [Clients -> {"out", "app", "get", "close", "gone"}]
      /\ conn' \in [Clients -> {"none", "rts", "error"}]
  BY DEF accept_new_connection, TypeOK, ClientTypeOK, LoopTypeOK
<1> QED
  BY <1>1, <1>2, <1>3
  DEF accept_new_connection, TypeOK, ServerTypeOK, ClientTypeOK, LoopTypeOK,
      serverVars, loopVars, PolledAreSends

(* Polling a batch of completions keeps the types. *)
LEMMA PollType ==
    ASSUME TypeOK, PolledAreSends, ibv_poll_cq
    PROVE  TypeOK' /\ PolledAreSends'
<1>1. PICK batch \in [Clients -> 0 .. SERVER_WC_BATCH] :
           /\ \A c \in Clients : Arrived(c, batch[c])
           /\ polled' = batch
  BY DEF ibv_poll_cq
<1>2. PolledAreSends'
  BY <1>1 DEF ibv_poll_cq, PolledAreSends, Arrived
<1> QED
  BY <1>1, <1>2
  DEF ibv_poll_cq, TypeOK, ServerTypeOK, ClientTypeOK, LoopTypeOK, serverVars,
      clientVars

(* The next polled request exists, and what follows it moves up. *)
LEMMA TakeRequestType ==
    ASSUME TypeOK, PolledAreSends, NEW c \in Clients, NEW op,
           TakeRequest(c, op)
    PROVE  /\ Head(c2s[c]) \in WorkRequest
           /\ ClientTypeOK'
           /\ polled' \in [Clients -> 0 .. SERVER_WC_BATCH]
           /\ PolledAreSends'
<1> DEFINE q == Tail(c2s[c])
<1>1. /\ c2s[c] \in Seq(WorkRequest) /\ Len(c2s[c]) \in Nat
      /\ polled[c] \in Nat /\ polled[c] <= Len(c2s[c])
  BY QueueType
<1>2. polled[c] > 0 /\ c2s[c] # <<>>
  BY <1>1, EmptySeq DEF TakeRequest
<1>3. /\ Head(c2s[c]) \in WorkRequest
      /\ q \in Seq(WorkRequest)
      /\ Len(q) = Len(c2s[c]) - 1
      /\ \A i \in 1 .. Len(q) : q[i] = c2s[c][i + 1]
  BY <1>1, <1>2, HeadTailProperties
<1> HIDE DEF q
<1>4. c2s' = [c2s EXCEPT ![c] = q] /\ polled' = [polled EXCEPT ![c] = @ - 1]
  BY DEF TakeRequest, q
<1>5. /\ c2s \in [Clients -> Seq(WorkRequest)]
      /\ polled \in [Clients -> 0 .. SERVER_WC_BATCH]
      /\ SERVER_WC_BATCH \in Nat
  BY LoopAssumption DEF TypeOK, ClientTypeOK, LoopTypeOK
<1>6. ClientTypeOK'
  BY <1>3, <1>4, <1>5 DEF TakeRequest, TypeOK, ClientTypeOK, clientVars
<1>7. polled' \in [Clients -> 0 .. SERVER_WC_BATCH]
  BY <1>1, <1>2, <1>4, <1>5
<1>8. ASSUME NEW b \in Clients
      PROVE  /\ polled'[b] <= Len(c2s'[b])
             /\ \A i \in 1 .. polled'[b] : c2s'[b][i].op \notin RdmaOps
  <2>1. CASE b = c
    <3>1. polled'[b] = polled[c] - 1 /\ c2s'[b] = q
      BY <1>4, <1>5, <2>1
    <3>2. \A i \in 1 .. polled[c] - 1 : q[i] = c2s[c][i + 1]
      BY <1>1, <1>3
    <3>3. \A i \in 1 .. polled[c] - 1 : c2s[c][i + 1].op \notin RdmaOps
      BY <1>1 DEF PolledAreSends
    <3>4. polled[c] \in Nat /\ polled[c] <= Len(c2s[c]) /\ Len(c2s[c]) \in Nat
      BY <1>1, <1>5, LenProperties DEF PolledAreSends
    <3>5. polled'[b] <= Len(c2s'[b])
      BY <1>3, <3>1, <3>4
    <3> QED
      BY <3>1, <3>2, <3>3, <3>5
  <2>2. CASE b # c
    BY <1>4, <1>5, <2>2 DEF PolledAreSends
  <2> QED
    BY <2>1, <2>2
<1> QED
  BY <1>3, <1>6, <1>7, <1>8 DEF PolledAreSends

(* What the server reads from a request it takes: it is not the shutdown   *)
(* message, so it names a tid and a key.                                   *)
LEMMA TakenFields ==
    ASSUME TypeOK, PolledAreSends, NEW c \in Clients, NEW op \in SendOps,
           TakeRequest(c, op)
    PROVE  LET m == Head(c2s[c])
           IN  m.tid \in Tids /\ m.key \in Keys /\ m.val \in Contents
<1>1. Head(c2s[c]) \in WorkRequest /\ Head(c2s[c]).op = op
  BY TakeRequestType DEF TakeRequest
<1> QED
  BY <1>1, WorkRequestFields DEF SendOps

(* Handling a received request keeps the types. *)
LEMMA RecvType ==
    ASSUME TypeOK, PolledAreSends, NEW c \in Clients,
           handle_recv_request(c)
    PROVE  TypeOK' /\ PolledAreSends'
<1> DEFINE m == Head(c2s[c])
<1>1. ServerTypeOK /\ sorted_q \in Seq(Tids) /\ db \in [Keys -> Entry]
  BY DEF TypeOK, ServerTypeOK
<1>2. CASE RecvSet(c)
  <2>1. TakeRequest(c, "SET")
    BY <1>2 DEF RecvSet
  <2>2. m.tid \in Tids /\ m.key \in Keys /\ m.val \in Contents
    BY <2>1, TakenFields DEF SendOps
  <2>3. handle_set_request(m.tid, m.key, m.val, m.val, sorted_q)
    BY <1>2 DEF RecvSet
  <2>4. ServerTypeOK'
    BY <1>1, <2>2, <2>3, HandleSetType
  <2>5. /\ ClientTypeOK' /\ PolledAreSends'
        /\ polled' \in [Clients -> 0 .. SERVER_WC_BATCH]
    BY <2>1, TakeRequestType
  <2> QED
    BY <1>2, <2>1, <2>4, <2>5 DEF RecvSet, TakeRequest, TypeOK, LoopTypeOK
<1>3. CASE RecvGet(c)
  <2>1. TakeRequest(c, "GET")
    BY <1>3 DEF RecvGet
  <2>2. m.tid \in Tids /\ m.key \in Keys
    BY <2>1, TakenFields DEF SendOps
  <2>3. handle_get_request(m.tid, m.key, sorted_q)
    BY <1>3 DEF RecvGet
  <2>4. ServerTypeOK'
    BY <1>1, <2>2, <2>3, HandleGetType
  <2>5. /\ ClientTypeOK' /\ PolledAreSends'
        /\ polled' \in [Clients -> 0 .. SERVER_WC_BATCH]
    BY <2>1, TakeRequestType
  <2> QED
    BY <1>3, <2>1, <2>4, <2>5 DEF RecvGet, TakeRequest, TypeOK, LoopTypeOK
<1>4. CASE RecvFin(c)
  <2>1. TakeRequest(c, "FIN")
    BY <1>4 DEF RecvFin
  <2>2. m.tid \in Tids
    BY <2>1, TakenFields DEF SendOps
  <2>3. \/ /\ remove_server_pending_request(m.tid, db, sorted_q)
           /\ UNCHANGED s2c
        \/ UNCHANGED serverVars
    BY <1>4 DEF RecvFin
  <2>4. ServerTypeOK'
    <3>1. CASE UNCHANGED serverVars
      BY <1>1, <3>1 DEF ServerTypeOK, serverVars
    <3>2. CASE /\ remove_server_pending_request(m.tid, db, sorted_q)
               /\ UNCHANGED s2c
      BY <1>1, <2>2, <3>2, RemovePendingType DEF ServerTypeOK
    <3> QED
      BY <2>3, <3>1, <3>2
  <2>5. /\ ClientTypeOK' /\ PolledAreSends'
        /\ polled' \in [Clients -> 0 .. SERVER_WC_BATCH]
    BY <2>1, TakeRequestType
  <2>6. /\ phase' \in {"poll", "batch", "pending", "down"}
        /\ closing' \in Clients \cup {NoClient}
    BY <1>4 DEF RecvFin, TypeOK, LoopTypeOK
  <2> QED
    BY <2>1, <2>4, <2>5, <2>6 DEF TakeRequest, TypeOK, LoopTypeOK
<1>5. CASE RecvShutdown(c)
  <2>1. TakeRequest(c, "SHUTDOWN")
    BY <1>5 DEF RecvShutdown
  <2>2. /\ ClientTypeOK' /\ PolledAreSends'
        /\ polled' \in [Clients -> 0 .. SERVER_WC_BATCH]
    BY <2>1, TakeRequestType
  <2>3. ServerTypeOK'
    BY <1>1, <1>5 DEF RecvShutdown, ServerTypeOK, serverVars
  <2> QED
    BY <1>5, <2>1, <2>2, <2>3
    DEF RecvShutdown, TakeRequest, TypeOK, LoopTypeOK
<1> QED
  BY <1>2, <1>3, <1>4, <1>5 DEF handle_recv_request

(* remove_connection keeps the types. *)
LEMMA RemoveConnectionType ==
    ASSUME TypeOK, PolledAreSends,
           \/ \E c \in Clients : RemoveFailedConnection(c)
           \/ InvalidateRequest
           \/ \E c \in Clients : RemoveConnection(c)
    PROVE  TypeOK' /\ PolledAreSends'
<1>1. ASSUME NEW c \in Clients, RemoveFailedConnection(c)
      PROVE  TypeOK' /\ PolledAreSends'
  BY <1>1
  DEF RemoveFailedConnection, TypeOK, ServerTypeOK, ClientTypeOK, LoopTypeOK,
      serverVars, clientVars, PolledAreSends
<1>2. CASE InvalidateRequest
  <2>1. PICK t \in Tids : remove_server_pending_request(t, db, sorted_q)
    BY <1>2 DEF InvalidateRequest, QueuedBy
  <2>2. ServerTypeOK /\ sorted_q \in Seq(Tids) /\ db \in [Keys -> Entry]
    BY DEF TypeOK, ServerTypeOK
  <2>3. ServerTypeOK'
    BY <1>2, <2>1, <2>2, RemovePendingType
    DEF InvalidateRequest, ServerTypeOK
  <2> QED
    BY <1>2, <2>3
    DEF InvalidateRequest, TypeOK, ClientTypeOK, LoopTypeOK, clientVars,
        loopVars, PolledAreSends
<1>3. ASSUME NEW c \in Clients, RemoveConnection(c)
      PROVE  TypeOK' /\ PolledAreSends'
  <2>1. /\ c2s' \in [Clients -> Seq(WorkRequest)]
        /\ s2c' \in [Clients -> Seq(Reply)]
    BY <1>3, EmptySeq
    DEF RemoveConnection, TypeOK, ServerTypeOK, ClientTypeOK
  <2>2. polled' \in [Clients -> 0 .. SERVER_WC_BATCH]
    BY <1>3, LoopAssumption DEF RemoveConnection, TypeOK, LoopTypeOK
  <2>3. PolledAreSends'
    <3>1. ASSUME NEW b \in Clients
          PROVE  /\ polled'[b] <= Len(c2s'[b])
                 /\ \A i \in 1 .. polled'[b] : c2s'[b][i].op \notin RdmaOps
      <4>1. CASE b = c
        <5>1. polled'[b] = 0 /\ c2s'[b] = <<>>
          BY <1>3, <4>1
          DEF RemoveConnection, TypeOK, LoopTypeOK, ClientTypeOK
        <5> QED
          BY <5>1, EmptySeq
      <4>2. CASE b # c
        <5>1. polled'[b] = polled[b] /\ c2s'[b] = c2s[b]
          BY <1>3, <4>2
          DEF RemoveConnection, TypeOK, LoopTypeOK, ClientTypeOK
        <5> QED
          BY <5>1 DEF PolledAreSends
      <4> QED
        BY <4>1, <4>2
    <3> QED
      BY <3>1 DEF PolledAreSends
  <2>4. /\ pc' \in [Clients -> {"out", "app", "get", "close", "gone"}]
        /\ conn' \in [Clients -> {"none", "rts", "error"}]
    BY <1>3 DEF RemoveConnection, TypeOK, ClientTypeOK, LoopTypeOK
  <2> QED
    BY <1>3, <2>1, <2>2, <2>3, <2>4
    DEF RemoveConnection, TypeOK, ServerTypeOK, ClientTypeOK, LoopTypeOK
<1> QED
  BY <1>1, <1>2, <1>3

(* The request that a pass serves is a record of the table. *)
LEMMA ServedRequest ==
    ASSUME TypeOK, ServePending
    PROVE  /\ Head(sorted_q) \in Tids
           /\ Tail(sorted_q) \in Seq(Tids)
           /\ internal_q[Head(sorted_q)] \in Request
<1>1. Head(sorted_q) \in Tids /\ Tail(sorted_q) \in Seq(Tids)
  BY HeadTailProperties DEF ServePending, TypeOK, ServerTypeOK
<1> QED
  BY <1>1 DEF ServePending, TypeOK, ServerTypeOK

(* The steps of the pass over the pending requests keep the types. *)
LEMMA PassType ==
    ASSUME TypeOK, PolledAreSends,
           StartPass \/ ServePending \/ EndPass
    PROVE  TypeOK' /\ PolledAreSends'
<1>1. CASE StartPass
  <2>1. Len(sorted_q) \in Nat
    BY LenProperties DEF TypeOK, ServerTypeOK
  <2>2. todo' \in 0 .. SERVER_WC_BATCH + 1
    BY <1>1, <2>1, LoopAssumption DEF StartPass
  <2> QED
    BY <1>1, <2>2
    DEF StartPass, TypeOK, ServerTypeOK, ClientTypeOK, LoopTypeOK,
        serverVars, clientVars, PolledAreSends
<1>2. CASE ServePending
  <2> DEFINE t == Head(sorted_q)
             r == internal_q[t]
             q == Tail(sorted_q)
  <2>1. t \in Tids /\ q \in Seq(Tids) /\ r \in Request
    BY <1>2, ServedRequest
  <2>2. r.key \in Keys /\ r.val \in Contents /\ r.payload \in Contents
    BY <2>1 DEF Request
  <2>3. \/ handle_set_request(t, r.key, r.val, r.payload, q)
        \/ handle_get_request(t, r.key, q)
    BY <1>2 DEF ServePending
  <2>4. ServerTypeOK
    BY DEF TypeOK
  <2>5. ServerTypeOK'
    BY <2>1, <2>2, <2>3, <2>4, HandleSetType, HandleGetType
  <2>6. todo' \in 0 .. SERVER_WC_BATCH + 1
    BY <1>2, LoopAssumption DEF ServePending, TypeOK, LoopTypeOK
  <2> QED
    BY <1>2, <2>5, <2>6
    DEF ServePending, TypeOK, ClientTypeOK, LoopTypeOK, clientVars,
        PolledAreSends
<1>3. CASE EndPass
  BY <1>3
  DEF EndPass, TypeOK, ServerTypeOK, ClientTypeOK, LoopTypeOK, serverVars,
      clientVars, PolledAreSends
<1> QED
  BY <1>1, <1>2, <1>3

-----------------------------------------------------------------------------
(* The three parts of the invariant, over every step.                      *)

(* The invariant holds at the start. *)
LEMMA InitInv == Init => IInv
<1> SUFFICES ASSUME Init
             PROVE  IInv
  OBVIOUS
<1>1. ServerTypeOK
  BY FreshEntryType, EmptySeq DEF Init, ServerInit, ServerTypeOK
<1>2. ClientTypeOK
  BY EmptySeq, ClientsAssumption DEF Init, ClientTypeOK
<1>3. LoopTypeOK
  BY LoopAssumption DEF Init, LoopTypeOK
<1>4. PolledAreSends
  BY EmptySeq DEF Init, PolledAreSends
<1>5. LocksAreAccountedFor
  <2>1. ASSUME NEW k \in Keys
        PROVE  Cardinality(Holders(k)) = 0
    <3>1. Holders(k) = {}
      BY ClientsAssumption DEF Init, ServerInit, Holders
    <3> QED
      BY <3>1, FS_EmptySet
  <2>2. \A k \in Keys : db[k].num_readers = 0 /\ db[k].num_writers = 0
    BY DEF Init, ServerInit, FreshEntry
  <2>3. ASSUME NEW k \in Keys
        PROVE  /\ db[k].num_readers + db[k].num_writers
                    = Cardinality(Holders(k))
               /\ db[k].num_writers <= 1
               /\ db[k].num_writers = 1 => db[k].num_readers = 0
    BY <2>1, <2>2
  <2> QED
    BY <2>3 DEF LocksAreAccountedFor
<1> QED
  BY <1>1, <1>2, <1>3, <1>4, <1>5 DEF IInv, TypeOK

(* Every step keeps the types and the polled requests. *)
LEMMA TypeStep == TypeOK /\ PolledAreSends /\ [Next]_vars =>
                      TypeOK' /\ PolledAreSends'
<1> SUFFICES ASSUME TypeOK, PolledAreSends, [Next]_vars
             PROVE  TypeOK' /\ PolledAreSends'
  OBVIOUS
<1>1. CASE \E c \in Clients : ClientStep(c)
  BY <1>1, ClientStepType
<1>2. CASE \E c \in Clients : NetworkStep(c)
  BY <1>2, NetworkStepType
<1>3. CASE \E c \in Clients : accept_new_connection(c)
  BY <1>3, AcceptType
<1>4. CASE ibv_poll_cq
  BY <1>4, PollType
<1>5. CASE ServerStep
  BY <1>5, RecvType, RemoveConnectionType, PassType DEF ServerStep
<1>6. CASE UNCHANGED vars
  BY <1>6
  DEF vars, serverVars, clientVars, loopVars, TypeOK, ServerTypeOK,
      ClientTypeOK, LoopTypeOK, PolledAreSends
<1> QED
  BY <1>1, <1>2, <1>3, <1>4, <1>5, <1>6 DEF Next

(* A step that changes neither a lock count nor a wait. *)
LEMMA LocksUntouched ==
    ASSUME LocksAreAccountedFor, UNCHANGED waiting_fin_q,
           \A k \in Keys : /\ db'[k].num_readers = db[k].num_readers
                          /\ db'[k].num_writers = db[k].num_writers
    PROVE  LocksAreAccountedFor'
  BY DEF LocksAreAccountedFor, Holders

(* Every step keeps the locks accounted for. *)
LEMMA LockStep == IInv /\ [Next]_vars => LocksAreAccountedFor'
<1> SUFFICES ASSUME TypeOK, PolledAreSends, LocksAreAccountedFor, [Next]_vars
             PROVE  LocksAreAccountedFor'
  BY DEF IInv
<1>1. ServerTypeOK /\ sorted_q \in Seq(Tids) /\ db \in [Keys -> Entry]
  BY DEF TypeOK, ServerTypeOK
<1>2. Balanced(db, waiting_fin_q)
  BY BalancedIsAccountedFor
<1>3. ASSUME NEW c \in Clients, handle_recv_request(c)
      PROVE  LocksAreAccountedFor'
  <2> DEFINE m == Head(c2s[c])
  <2>1. CASE RecvSet(c)
    <3>1. m.tid \in Tids /\ m.key \in Keys /\ m.val \in Contents
      BY <2>1, TakenFields DEF RecvSet, SendOps
    <3> QED
      BY <1>1, <2>1, <3>1, HandleSetLocks DEF RecvSet
  <2>2. CASE RecvGet(c)
    <3>1. m.tid \in Tids /\ m.key \in Keys
      BY <2>2, TakenFields DEF RecvGet, SendOps
    <3> QED
      BY <1>1, <2>2, <3>1, HandleGetLocks DEF RecvGet
  <2>3. CASE RecvFin(c)
    <3>1. m.tid \in Tids
      BY <2>3, TakenFields DEF RecvFin, SendOps
    <3>2. \/ remove_server_pending_request(m.tid, db, sorted_q)
          \/ UNCHANGED serverVars
      BY <2>3 DEF RecvFin
    <3>3. CASE UNCHANGED serverVars
      BY <3>3, LocksUntouched DEF serverVars
    <3>4. CASE remove_server_pending_request(m.tid, db, sorted_q)
      BY <1>1, <1>2, <3>1, <3>4, RemovePendingLocks
    <3> QED
      BY <3>2, <3>3, <3>4
  <2>4. CASE RecvShutdown(c)
    BY <2>4, LocksUntouched DEF RecvShutdown, serverVars
  <2> QED
    BY <1>3, <2>1, <2>2, <2>3, <2>4 DEF handle_recv_request
<1>4. CASE InvalidateRequest
  <2>1. PICK t \in Tids : remove_server_pending_request(t, db, sorted_q)
    BY <1>4 DEF InvalidateRequest, QueuedBy
  <2> QED
    BY <1>1, <1>2, <2>1, RemovePendingLocks
<1>5. CASE ServePending
  <2> DEFINE t == Head(sorted_q)
             r == internal_q[t]
             q == Tail(sorted_q)
  <2>1. t \in Tids /\ q \in Seq(Tids) /\ r \in Request
    BY <1>5, ServedRequest
  <2>2. r.key \in Keys /\ r.val \in Contents /\ r.payload \in Contents
    BY <2>1 DEF Request
  <2>3. \/ handle_set_request(t, r.key, r.val, r.payload, q)
        \/ handle_get_request(t, r.key, q)
    BY <1>5 DEF ServePending
  <2> HIDE DEF t, r, q
  <2> QED
    BY <1>1, <2>1, <2>2, <2>3, HandleSetLocks, HandleGetLocks
<1>6. ASSUME NEW c \in Clients, RdmaWrite(c)
      PROVE  LocksAreAccountedFor'
  BY <1>6, RdmaWriteEntries, LocksUntouched DEF RdmaWrite
<1>7. CASE UNCHANGED <<db, waiting_fin_q>>
  BY <1>7, LocksUntouched
<1>8. ASSUME NEW c \in Clients, ClientStep(c)
      PROVE  UNCHANGED <<db, waiting_fin_q>>
  BY <1>8
  DEF ClientStep, kv_set, kv_get, GetReturn, kv_close, CloseDone, ClientDie,
      ClientPoll, client_handle_get_response,
      client_handle_recv_rdma_rkey_get, client_handle_recv_rdma_rkey_set,
      TakeReply, RdmaReadDone, RdmaWriteDone, serverVars
<1>9. ASSUME NEW c \in Clients, RdmaRead(c) \/ QpError(c)
      PROVE  UNCHANGED <<db, waiting_fin_q>>
  BY <1>9 DEF RdmaRead, QpError, serverVars
<1>10. ASSUME NEW c \in Clients,
              \/ accept_new_connection(c)
              \/ RemoveFailedConnection(c)
              \/ RemoveConnection(c)
       PROVE  UNCHANGED <<db, waiting_fin_q>>
  BY <1>10
  DEF accept_new_connection, RemoveFailedConnection, RemoveConnection,
      serverVars
<1>11. CASE ibv_poll_cq \/ StartPass \/ EndPass \/ UNCHANGED vars
  BY <1>7, <1>11 DEF ibv_poll_cq, StartPass, EndPass, vars, serverVars
<1> QED
  BY <1>3, <1>4, <1>5, <1>6, <1>7, <1>8, <1>9, <1>10, <1>11
  DEF Next, NetworkStep, ServerStep

-----------------------------------------------------------------------------
(* The theorems.                                                           *)

(* Every reachable state satisfies the invariant. *)
THEOREM Invariance == Spec => []IInv
<1>1. IInv /\ [Next]_vars => IInv'
  BY TypeStep, LockStep DEF IInv
<1> QED
  BY InitInv, <1>1, PTL DEF Spec

(* The variables keep their types, whatever the clients and the network    *)
(* do; in particular no handler reads a request that is not there.         *)
THEOREM TypeCorrect == Spec => []TypeOK
<1>1. IInv => TypeOK
  BY DEF IInv
<1> QED
  BY Invariance, <1>1, PTL

(* db_entry_lock_wr, db_entry_lock_rd and db_entry_unlock: between two     *)
(* handlers the locks of every entry are exactly the requests that wait    *)
(* for a FIN, and a writer is alone, also when clients die and their tids  *)
(* are used again.                                                         *)
THEOREM LocksAccountedFor == Spec => []LocksAreAccountedFor
<1>1. IInv => LocksAreAccountedFor
  BY DEF IInv
<1> QED
  BY Invariance, <1>1, PTL
=============================================================================
