---------------------------- MODULE PlacesProofs ----------------------------
(***************************************************************************)
(* No request is lost and none is in two places.                           *)
(*                                                                         *)
(* RequestsProofs says that a tid is in one place at most, and that what a *)
(* running client's messages are about is still in its table.  Here is the *)
(* other direction: what is in the table and not done is on its way, and a *)
(* SET that needs no answer is not in the table.  A step moves the tids of *)
(* a set T, often of one element, and leaves the places of all others as   *)
(* they are.  At the end the places are counted, and the order of the list *)
(* is followed through a pass.                                             *)
(***************************************************************************)
EXTENDS RequestsProofs

(* The request t is on its way: a FIN is not a request.                    *)
Placed(t) ==
    \/ \E m \in Posted(Owner(t)) : m.tid = t /\ m.op # "FIN"
    \/ t \in TidsIn(s2c[Owner(t)]) \cup TidsIn(wcq[Owner(t)])
    \/ t \in Listed

(* A SET that its client expects no answer to is not in its table. *)
Forgotten(op, t, k, v) == op = "SET" /\ EagerSet(k, v) => pending[t] = NoReq

ForgottenListed(t) ==
    Forgotten(internal_q[t].op, t, internal_q[t].key, internal_q[t].val)

Accounted(t) ==
    /\ pending[t] # NoReq => Alive(Owner(t)) /\ t[2] <= tid[Owner(t)]
    /\ Undone(t) => Placed(t)
    /\ t \in Listed => ForgottenListed(t)
    /\ \A m \in Posted(Owner(t)) :
          m.tid = t => Forgotten(m.op, t, m.key, m.val)

PlInv == RInv /\ \A t \in Tids : Accounted(t)

-----------------------------------------------------------------------------
(* One step.                                                               *)

(* It does nothing to the tids that are not in T. *)
Moves(T) ==
    /\ \A u \in Tids \ T :
          /\ pending'[u] = pending[u] /\ internal_q'[u] = internal_q[u]
          /\ u \in Listed' <=> u \in Listed
          /\ pending[u] # NoReq =>
                /\ Alive(Owner(u)) => Alive(Owner(u))'
                /\ tid[Owner(u)] <= tid'[Owner(u)]
    /\ \A b \in Clients :
          /\ \A m \in Posted(b) : m.tid \in Tids \ T => m \in Posted(b)'
          /\ \A m \in Posted(b)' : m.tid \in Tids \ T => m \in Posted(b)
          /\ \A m \in Replied(b) : m.tid \in Tids \ T => m \in Replied(b)'
          /\ \A m \in Replied(b)' : m.tid \in Tids \ T => m \in Replied(b)
          /\ \A m \in Completed(b) :
                m.tid \in Tids \ T => m \in Completed(b)'
          /\ \A m \in Completed(b)' :
                m.tid \in Tids \ T => m \in Completed(b)

(* So they stay accounted for. *)
LEMMA OthersStayAccounted ==
    ASSUME TypeOK, TypeOK', \A t \in Tids : Accounted(t), NEW T, Moves(T),
           \A t \in T : Accounted(t)'
    PROVE  \A t \in Tids : Accounted(t)'
<1> SUFFICES ASSUME NEW t \in Tids \ T
             PROVE  Accounted(t)'
  OBVIOUS
<1> DEFINE c == Owner(t)
<1>1. /\ c \in Clients /\ Accounted(t)
      /\ tid[c] \in Nat /\ tid'[c] \in Nat /\ t[2] \in Nat
  BY OwnerType DEF TypeOK, ClientTypeOK, Tids
<1>2. /\ pending'[t] = pending[t] /\ internal_q'[t] = internal_q[t]
      /\ t \in Listed' <=> t \in Listed
      /\ pending[t] # NoReq => /\ Alive(c) => Alive(c)'
                               /\ tid[c] <= tid'[c]
  BY DEF Moves
<1>3. /\ \A m \in Posted(c) : m.tid = t => m \in Posted(c)'
      /\ \A m \in Posted(c)' : m.tid = t => m \in Posted(c)
      /\ t \in TidsIn(s2c[c]) => t \in TidsIn(s2c'[c])
      /\ t \in TidsIn(wcq[c]) => t \in TidsIn(wcq'[c])
  BY <1>1 DEF Moves, TidsIn, Replied, Completed
<1> HIDE DEF c
<1>4. pending'[t] # NoReq => Alive(c)' /\ t[2] <= tid'[c]
  BY <1>1, <1>2 DEF Accounted, c
<1>5. Undone(t)' => Placed(t)'
  <2>1. Undone(t)' => Placed(t)
    BY <1>1, <1>2 DEF Accounted, Undone
  <2> QED
    BY <1>2, <1>3, <2>1 DEF Placed, c
<1>6. t \in Listed' => ForgottenListed(t)'
  BY <1>1, <1>2 DEF Accounted, ForgottenListed, Forgotten
<1>7. \A m \in Posted(c)' : m.tid = t => Forgotten(m.op, t, m.key, m.val)'
  BY <1>1, <1>2, <1>3 DEF Accounted, Forgotten, c
<1> QED
  BY <1>4, <1>5, <1>6, <1>7 DEF Accounted, c

(* There is nothing to say of a tid without a record in the table. *)
LEMMA NoRecordNoDebt ==
    ASSUME NEW t, pending'[t] = NoReq
    PROVE  Accounted(t)'
  BY DEF Accounted, Undone, ForgottenListed, Forgotten

(* The tids of a slot whose table is empty. *)
LEMMA SlotWithoutRecords ==
    ASSUME TypeOK, TypeOK', \A t \in Tids : Accounted(t), NEW c \in Clients,
           NEW T, T = {t \in Tids : Owner(t) = c}, Moves(T),
           \A t \in T : pending'[t] = NoReq
    PROVE  \A t \in Tids : Accounted(t)'
  BY NoRecordNoDebt, OthersStayAccounted
-----------------------------------------------------------------------------
(* The steps of the clients.                                               *)

(* The elements that are left when one is taken out. *)
LEMMA OneIsTaken ==
    ASSUME NEW S, NEW s \in Seq(S), NEW i \in 1 .. Len(s), NEW r \in Seq(S),
           TakenOut(s, r, i)
    PROVE  /\ \A m \in ToSet(s) : m.tid # s[i].tid => m \in ToSet(r)
           /\ TidsIn(s) \ {s[i].tid} \subseteq TidsIn(r)
<1>1. ToSet(s) \ {s[i]} \subseteq ToSet(r)
  BY TakenOutElements
<1>2. \A m \in ToSet(s) : m.tid # s[i].tid => m \in ToSet(r)
  BY <1>1
<1> QED
  BY <1>2 DEF TidsIn

LEMMA HeadIsOut ==
    ASSUME NEW S, NEW s \in Seq(S), s # <<>>
    PROVE  /\ \A m \in ToSet(s) : m.tid # Head(s).tid => m \in ToSet(Tail(s))
           /\ TidsIn(s) \ {Head(s).tid} \subseteq TidsIn(Tail(s))
<1>1. PICK r : r = Tail(s)
  OBVIOUS
<1>2. /\ r \in Seq(S) /\ Len(r) = Len(s) - 1 /\ Len(s) \in Nat \ {0}
      /\ Head(s) = s[1]
      /\ \A j \in 1 .. Len(r) : r[j] = s[j + 1]
  BY <1>1, HeadTailProperties, EmptySeq, LenProperties
<1>3. 1 \in 1 .. Len(s) /\ TakenOut(s, r, 1)
  BY <1>2 DEF TakenOut
<1>4. /\ \A m \in ToSet(s) : m.tid # s[1].tid => m \in ToSet(r)
      /\ TidsIn(s) \ {s[1].tid} \subseteq TidsIn(r)
  BY <1>2, <1>3, OneIsTaken
<1> QED
  BY <1>1, <1>2, <1>4

(* What is posted besides a new request. *)
LEMMA OneIsPosted ==
    ASSUME TypeOK, NEW c \in Clients, NEW m \in WorkRequest, Post(c, m)
    PROVE  /\ Posted(c)' = Posted(c) \cup {m}
           /\ \A b \in Clients \ {c} : Posted(b)' = Posted(b)
<1>1. /\ c2s[c] \in Seq(WorkRequest)
      /\ c2s'[c] = Append(c2s[c], m)
      /\ \A b \in Clients \ {c} : c2s'[b] = c2s[b]
  BY DEF Post, TypeOK, ClientTypeOK
<1>2. ToSet(Append(c2s[c], m)) = ToSet(c2s[c]) \cup {m}
  BY <1>1, Added
<1> QED
  BY <1>1, <1>2 DEF Posted

(* A new request is posted under the tid that get_new_tid returns. *)
PostsNew(c, m) ==
    /\ Alive(c) /\ Alive(c)'
    /\ \A b \in Clients \ {c} : pc'[b] = pc[b]
    /\ get_new_tid(c)
    /\ m \in WorkRequest /\ m.op \in Requests /\ m.tid = NextTid(c)
    /\ Post(c, m)
    /\ \A u \in Tids \ {m.tid} : pending'[u] = pending[u]
    /\ QuietServer
    /\ UNCHANGED <<db, s2c, wcq>>

LEMMA SetPosts ==
    ASSUME TypeOK, NEW c \in Clients, NEW k \in Keys, NEW v \in Values,
           kv_set(c, k, v), NEW m, m = Message("SET", NextTid(c), k, v, 0)
    PROVE  /\ PostsNew(c, m)
           /\ m.op = "SET" /\ m.key = k /\ m.val = v
           /\ pending' = IF EagerSet(k, v)
                         THEN pending
                         ELSE [pending EXCEPT ![m.tid] =
                                 [op |-> "SET", key |-> k, val |-> v,
                                  done |-> FALSE]]
<1>1. /\ m.op = "SET" /\ m.tid = NextTid(c) /\ m.key = k /\ m.val = v
      /\ m.tid \in Tids
  BY NextTidType DEF Message, kv_set
<1>2. m \in WorkRequest
  BY <1>1, MessageType DEF SendOps, Contents
<1>3. /\ Alive(c) /\ Alive(c)' /\ get_new_tid(c) /\ Post(c, m)
      /\ QuietServer /\ UNCHANGED <<db, s2c, wcq, pc>>
  BY DEF kv_set, Alive, serverVars, QuietServer
<1>4. pending' = IF EagerSet(k, v)
                 THEN pending
                 ELSE [pending EXCEPT ![m.tid] =
                         [op |-> "SET", key |-> k, val |-> v, done |-> FALSE]]
  BY <1>1 DEF kv_set
<1>5. \A u \in Tids \ {m.tid} : pending'[u] = pending[u]
  BY <1>1, <1>4 DEF TypeOK, ClientTypeOK
<1> QED
  BY <1>1, <1>2, <1>3, <1>4, <1>5 DEF PostsNew, Requests

LEMMA GetPosts ==
    ASSUME TypeOK, NEW c \in Clients, NEW k \in Keys, kv_get(c, k),
           NEW m, m = Message("GET", NextTid(c), k, Empty, 0)
    PROVE  /\ PostsNew(c, m)
           /\ m.op = "GET" /\ m.key = k
           /\ pending' = [pending EXCEPT ![m.tid] =
                            [op |-> "GET", key |-> k, val |-> Empty,
                             done |-> FALSE]]
<1>1. m.op = "GET" /\ m.tid = NextTid(c) /\ m.tid \in Tids /\ m.key = k
  BY NextTidType DEF Message, kv_get
<1>2. m \in WorkRequest
  BY <1>1, MessageType DEF SendOps, Contents
<1>3. /\ Alive(c) /\ Alive(c)' /\ get_new_tid(c) /\ Post(c, m)
      /\ QuietServer /\ UNCHANGED <<db, s2c, wcq>>
      /\ \A b \in Clients \ {c} : pc'[b] = pc[b]
  BY DEF kv_get, Alive, serverVars, QuietServer, TypeOK, ClientTypeOK
<1>4. pending' = [pending EXCEPT ![m.tid] =
                    [op |-> "GET", key |-> k, val |-> Empty, done |-> FALSE]]
  BY <1>1 DEF kv_get
<1>5. \A u \in Tids \ {m.tid} : pending'[u] = pending[u]
  BY <1>1, <1>4 DEF TypeOK, ClientTypeOK
<1> QED
  BY <1>1, <1>2, <1>3, <1>4, <1>5 DEF PostsNew, Requests

(* Its tid was in no place. *)
LEMMA PostingMoves ==
    ASSUME RInv, NEW c \in Clients, NEW m, PostsNew(c, m)
    PROVE  /\ m.tid \in Tids /\ Owner(m.tid) = c
           /\ m.tid[2] = tid[c] + 1 /\ tid'[c] = tid[c] + 1 /\ tid[c] \in Nat
           /\ m.tid \notin TidsIn(c2s[c]) \cup TidsIn(s2c[c])
                             \cup TidsIn(wcq[c]) \cup Listed
           /\ Posted(c)' = Posted(c) \cup {m}
           /\ \A n \in Posted(c)' : n.tid = m.tid => n = m
           /\ Moves({m.tid})
<1> DEFINE t == m.tid
<1>1. TypeOK /\ Orderly(c)
  BY DEF RInv, TInv, IInv
<1>2. /\ t \in Session(c, tid'[c])
      /\ t \notin TidsIn(c2s[c]) \cup TidsIn(s2c[c]) \cup TidsIn(wcq[c])
      /\ t \notin ToSet(sorted_q)
  BY <1>1, NextTidIsFresh DEF PostsNew
<1>3. /\ t \in Tids /\ Owner(t) = c
      /\ t[2] = tid[c] + 1 /\ tid'[c] = tid[c] + 1 /\ tid[c] \in Nat
      /\ \A b \in Clients \ {c} : tid'[b] = tid[b] /\ tid[b] \in Nat
  <2>1. /\ tid'[c] = tid[c] + 1 /\ tid[c] \in Nat
        /\ \A b \in Clients \ {c} : tid'[b] = tid[b] /\ tid[b] \in Nat
    BY <1>1 DEF PostsNew, get_new_tid, TypeOK, ClientTypeOK
  <2> QED
    BY <1>2, <2>1 DEF Session, NextTid, PostsNew
<1>4. /\ Posted(c)' = Posted(c) \cup {m}
      /\ \A b \in Clients \ {c} : Posted(b)' = Posted(b)
  BY <1>1, OneIsPosted DEF PostsNew
<1>5. \A n \in Posted(c)' : n.tid = t => n = m
  BY <1>2, <1>4 DEF TidsIn, Posted
<1>6. Moves({t})
  <2>1. \A b \in Clients : /\ tid[b] <= tid'[b]
                           /\ Alive(b) => Alive(b)'
    BY <1>3 DEF Alive, PostsNew
  <2>2. \A b \in Clients :
          /\ \A n \in Posted(b) : n \in Posted(b)'
          /\ \A n \in Posted(b)' : n.tid # t => n \in Posted(b)
    BY <1>4
  <2>3. \A b \in Clients : /\ Replied(b)' = Replied(b)
                           /\ Completed(b)' = Completed(b)
    BY DEF PostsNew, Replied, Completed
  <2> QED
    BY <2>1, <2>2, <2>3, OwnerType DEF Moves, QuietServer, Listed, PostsNew
<1> QED
  BY <1>2, <1>3, <1>4, <1>5, <1>6 DEF Listed

(* kv_set and kv_get. *)
LEMMA PostingAccounted ==
    ASSUME PlInv, TypeOK', NEW c \in Clients, NEW m, PostsNew(c, m),
           m.op = "SET" /\ EagerSet(m.key, m.val) => pending' = pending
    PROVE  \A t \in Tids : Accounted(t)'
<1> DEFINE t == m.tid
<1>1. TypeOK /\ \A u \in Tids : Accounted(u)
  BY DEF PlInv, RInv, TInv, IInv
<1>2. /\ t \in Tids /\ Owner(t) = c
      /\ t[2] = tid[c] + 1 /\ tid'[c] = tid[c] + 1 /\ tid[c] \in Nat
      /\ t \notin Listed
      /\ Posted(c)' = Posted(c) \cup {m}
      /\ \A n \in Posted(c)' : n.tid = t => n = m
      /\ Moves({t})
  BY PostingMoves DEF PlInv
<1>3. Accounted(t)'
  <2>1. pending[t] = NoReq
    BY <1>1, <1>2 DEF Accounted
  <2>2. m.op = "SET" /\ EagerSet(m.key, m.val) => pending'[t] = NoReq
    BY <2>1
  <2>3. Placed(t)'
    BY <1>2 DEF Placed, Requests, PostsNew
  <2>4. t \notin Listed'
    BY <1>2 DEF Listed, QuietServer, PostsNew
  <2>5. Alive(c)'
    BY DEF PostsNew
  <2> QED
    BY <1>2, <2>2, <2>3, <2>4, <2>5 DEF Accounted, Forgotten
<1> QED
  BY <1>1, <1>2, <1>3, OthersStayAccounted

LEMMA CallsStayAccounted ==
    ASSUME PlInv, TypeOK', NEW c \in Clients,
           \/ \E k \in Keys, v \in Values : kv_set(c, k, v)
           \/ \E k \in Keys : kv_get(c, k)
    PROVE  \A t \in Tids : Accounted(t)'
<1>1. TypeOK
  BY DEF PlInv, RInv, TInv, IInv
<1>2. ASSUME NEW k \in Keys, NEW v \in Values, kv_set(c, k, v)
      PROVE  \A t \in Tids : Accounted(t)'
  <2>1. PICK m : m = Message("SET", NextTid(c), k, v, 0)
    OBVIOUS
  <2>2. PostsNew(c, m)
    BY <1>1, <1>2, <2>1, SetPosts
  <2>3. m.key = k /\ m.val = v
    BY <2>1 DEF Message
  <2>4. EagerSet(k, v) => pending' = pending
    BY <1>2 DEF kv_set
  <2> QED
    BY <2>2, <2>3, <2>4, PostingAccounted
<1>3. ASSUME NEW k \in Keys, kv_get(c, k)
      PROVE  \A t \in Tids : Accounted(t)'
  <2>1. PICK m : m = Message("GET", NextTid(c), k, Empty, 0)
    OBVIOUS
  <2>2. PostsNew(c, m)
    BY <1>1, <1>3, <2>1, GetPosts
  <2>3. m.op = "GET"
    BY <2>1 DEF Message
  <2> QED
    BY <2>2, <2>3, PostingAccounted
<1> QED
  BY <1>2, <1>3

(* The end of a get, the beginning of kv_close, and what ends no request.  *)
LEMMA QuietStaysAccounted ==
    ASSUME PlInv, TypeOK', QuietServer, UNCHANGED <<s2c, wcq, c2s, tid>>,
           NEW T \in SUBSET Tids,
           \A u \in Tids \ T : pending'[u] = pending[u],
           \A u \in T : pending'[u] = NoReq,
           \A b \in Clients : Alive(b) => Alive(b)'
    PROVE  \A t \in Tids : Accounted(t)'
<1>1. TypeOK /\ \A u \in Tids : Accounted(u)
  BY DEF PlInv, RInv, TInv, IInv
<1>2. \A u \in Tids : Owner(u) \in Clients /\ tid[Owner(u)] \in Nat
  BY <1>1, OwnerType DEF TypeOK, ClientTypeOK
<1>3. Moves(T)
  BY <1>2 DEF Moves, QuietServer, Posted, Replied, Completed, Listed
<1> QED
  BY <1>1, <1>3, NoRecordNoDebt, OthersStayAccounted

LEMMA ReturnStaysAccounted ==
    ASSUME PlInv, TypeOK', NEW c \in Clients, GetReturn(c) \/ kv_close(c)
    PROVE  \A t \in Tids : Accounted(t)'
<1>1. QuietServer /\ UNCHANGED <<s2c, wcq, c2s, tid>>
  BY DEF GetReturn, kv_close, serverVars, QuietServer
<1>2. /\ TypeOK /\ pending \in [Tids -> ClientRequest \cup {NoReq}]
      /\ pc \in [Clients -> {"out", "app", "get", "close", "gone"}]
  BY DEF PlInv, RInv, TInv, IInv, TypeOK, ClientTypeOK
<1>3. \A b \in Clients : Alive(b) => Alive(b)'
  BY <1>2 DEF GetReturn, kv_close, Alive
<1>4. CASE GetReturn(c)
  <2> DEFINE t == <<c, tid[c]>>
             T == {t} \cap Tids
  <2>1. /\ \A u \in Tids \ T : pending'[u] = pending[u]
        /\ \A u \in T : pending'[u] = NoReq
    BY <1>2, <1>4 DEF GetReturn
  <2> HIDE DEF T
  <2>2. T \in SUBSET Tids
    BY DEF T
  <2> QED
    BY <1>1, <1>3, <2>1, <2>2, QuietStaysAccounted
<1>5. CASE kv_close(c)
  <2>1. PICK T \in SUBSET Tids : T = {}
    OBVIOUS
  <2>2. /\ \A u \in Tids \ T : pending'[u] = pending[u]
        /\ \A u \in T : pending'[u] = NoReq
    BY <1>5, <2>1 DEF kv_close
  <2> QED
    BY <1>1, <1>3, <2>2, QuietStaysAccounted
<1> QED
  BY <1>4, <1>5
(* A step of the slot c that keeps or drops what the slot has, but for a   *)
(* shutdown message.                                                       *)
SlotMoves(c) ==
    /\ \A u \in Tids : Owner(u) # c =>
          /\ pending'[u] = pending[u] /\ internal_q'[u] = internal_q[u]
          /\ u \in Listed' <=> u \in Listed
    /\ \A b \in Clients \ {c} :
          /\ c2s'[b] = c2s[b] /\ s2c'[b] = s2c[b] /\ wcq'[b] = wcq[b]
          /\ tid'[b] = tid[b] /\ pc'[b] = pc[b]
    /\ \A m \in Posted(c)' : m \in Posted(c) \/ m = Shutdown
    /\ Replied(c)' \subseteq Replied(c)
    /\ Completed(c)' \subseteq Completed(c)

(* It moves the tids of the slot. *)
LEMMA SlotMovesAlone ==
    ASSUME RInv, NEW c \in Clients, SlotMoves(c)
    PROVE  Moves({t \in Tids : Owner(t) = c})
<1> DEFINE T == {t \in Tids : Owner(t) = c}
<1>1. /\ TypeOK /\ Orderly(c)
      /\ \A u \in Tids : Owner(u) \in Clients
      /\ \A b \in Clients : tid[b] \in Nat
  BY OwnerType DEF RInv, TInv, IInv, TypeOK, ClientTypeOK
<1>2. /\ \A m \in Posted(c) : m = Shutdown \/ m.tid \in T
      /\ \A m \in Replied(c) \cup Completed(c) : m.tid \in T
      /\ Shutdown.tid \notin Tids
  BY <1>1, PlacedTids, LoopAssumption DEF Session, Shutdown, Tids
<1>3. \A u \in Tids \ T :
        /\ pending'[u] = pending[u] /\ internal_q'[u] = internal_q[u]
        /\ u \in Listed' <=> u \in Listed
        /\ Alive(Owner(u)) => Alive(Owner(u))'
        /\ tid[Owner(u)] <= tid'[Owner(u)]
  BY <1>1 DEF Alive, SlotMoves
<1>4. \A b \in Clients \ {c} :
        /\ Posted(b)' = Posted(b)
        /\ Replied(b)' = Replied(b) /\ Completed(b)' = Completed(b)
  BY DEF Posted, Replied, Completed, SlotMoves
<1>5. /\ \A m \in Posted(c) \cup Posted(c)' : m.tid \notin Tids \ T
      /\ \A m \in Replied(c) \cup Replied(c)' : m.tid \notin Tids \ T
      /\ \A m \in Completed(c) \cup Completed(c)' : m.tid \notin Tids \ T
  BY <1>2 DEF SlotMoves
<1> HIDE DEF T
<1>6. Moves(T)
  BY <1>3, <1>4, <1>5 DEF Moves
<1> QED
  BY <1>6 DEF T

(* A slot whose client runs no longer, whatever is left of what it sent. *)
LEMMA GoneStaysAccounted ==
    ASSUME PlInv, TypeOK', NEW c \in Clients, SlotMoves(c),
           \A t \in Tids : Owner(t) = c => pending'[t] = NoReq
    PROVE  \A t \in Tids : Accounted(t)'
<1>1. RInv /\ TypeOK /\ \A u \in Tids : Accounted(u)
  BY DEF PlInv, RInv, TInv, IInv
<1> QED
  BY <1>1, SlotMovesAlone, SlotWithoutRecords

(* The end of kv_close, and the end of a client. *)
LEMMA EndsMove ==
    ASSUME RInv, NEW c \in Clients, CloseDone(c) \/ ClientDie(c)
    PROVE  SlotMoves(c)
<1>1. TypeOK /\ Orderly(c)
  BY DEF RInv, TInv, IInv
<1>2. \A m \in Posted(c)' : m \in Posted(c) \/ m = Shutdown
  BY <1>1, ShutdownIsPosted
<1>3. QuietServer /\ UNCHANGED <<s2c, tid>>
  BY DEF CloseDone, ClientDie, serverVars, QuietServer
<1>4. \A b \in Clients \ {c} :
         c2s'[b] = c2s[b] /\ wcq'[b] = wcq[b] /\ pc'[b] = pc[b]
  BY <1>1 DEF CloseDone, ClientDie, TypeOK, ClientTypeOK
<1>5. \A u \in Tids : Owner(u) # c => pending'[u] = pending[u]
  BY DEF CloseDone, ClientDie
<1>6. Completed(c)' \subseteq Completed(c)
  <2>1. wcq'[c] = wcq[c] \/ wcq'[c] = <<>>
    BY <1>1 DEF CloseDone, ClientDie, TypeOK, ClientTypeOK
  <2> QED
    BY <2>1, NoElements DEF Completed
<1> QED
  BY <1>2, <1>3, <1>4, <1>5, <1>6
  DEF SlotMoves, QuietServer, Listed, Replied

LEMMA EndsStayAccounted ==
    ASSUME PlInv, TypeOK', NEW c \in Clients, CloseDone(c) \/ ClientDie(c)
    PROVE  \A t \in Tids : Accounted(t)'
<1>1. \A t \in Tids : Owner(t) = c => pending'[t] = NoReq
  BY DEF CloseDone, ClientDie, PendingOf
<1> QED
  BY <1>1, EndsMove, GoneStaysAccounted DEF PlInv

(* A new connection finds the table of its slot empty. *)
LEMMA AcceptMoves ==
    ASSUME RInv, NEW c \in Clients, accept_new_connection(c)
    PROVE  SlotMoves(c)
<1>1. TypeOK
  BY DEF RInv, TInv, IInv
<1>2. /\ QuietServer /\ UNCHANGED <<s2c, c2s, wcq, pending>>
      /\ \A b \in Clients \ {c} : tid'[b] = tid[b] /\ pc'[b] = pc[b]
  BY <1>1 DEF accept_new_connection, serverVars, QuietServer, TypeOK,
     ClientTypeOK
<1> QED
  BY <1>2 DEF SlotMoves, QuietServer, Listed, Posted, Replied, Completed

LEMMA AcceptStaysAccounted ==
    ASSUME PlInv, TypeOK', NEW c \in Clients, accept_new_connection(c)
    PROVE  \A t \in Tids : Accounted(t)'
<1>1. \A t \in Tids : Owner(t) = c => pending'[t] = NoReq
  BY DEF PlInv, Accounted, Alive, accept_new_connection
<1> QED
  BY <1>1, AcceptMoves, GoneStaysAccounted DEF PlInv

(* A client takes the answer or the completion of t that it polls, and may *)
(* post a work request for t again.                                        *)
Takes(c, t) ==
    /\ Alive(c) /\ QuietServer
    /\ UNCHANGED <<db, tid, pc>>
    /\ t \in Tids
    /\ \/ /\ s2c[c] # <<>> /\ Head(s2c[c]).tid = t
          /\ s2c' = [s2c EXCEPT ![c] = Tail(@)]
          /\ UNCHANGED wcq
       \/ /\ wcq[c] # <<>> /\ Head(wcq[c]).tid = t
          /\ wcq' = [wcq EXCEPT ![c] = Tail(@)]
          /\ UNCHANGED s2c
    /\ \A u \in Tids \ {t} : pending'[u] = pending[u]
    /\ UNCHANGED c2s \/ \E m \in WorkRequest : m.tid = t /\ Post(c, m)

(* What is left when the first is taken. *)
LEMMA HeadIsGone ==
    ASSUME NEW S, NEW s \in Seq(S), s # <<>>, Distinct(s)
    PROVE  /\ Head(s) \in ToSet(s)
           /\ \A m \in ToSet(Tail(s)) : m \in ToSet(s) /\ m.tid # Head(s).tid
           /\ \A m \in ToSet(s) : m.tid # Head(s).tid => m \in ToSet(Tail(s))
<1>1. Without(s, Tail(s), Head(s)) /\ Head(s) \in ToSet(s)
  BY HeadTaken
<1> QED
  BY <1>1, HeadIsOut DEF Without

(* The tid t was there and nowhere else. *)
LEMMA TakingMoves ==
    ASSUME RInv, NEW c \in Clients, NEW t, Takes(c, t)
    PROVE  /\ Owner(t) = c /\ t[2] <= tid[c]
           /\ t \notin TidsIn(c2s[c]) /\ t \notin Listed
           /\ t \notin TidsIn(s2c'[c]) \cup TidsIn(wcq'[c])
           /\ \A n \in Posted(c) : n \in Posted(c)' /\ n.tid # t
           /\ \A m \in WorkRequest : Post(c, m) => Posted(c)' = Posted(c) \cup {m}
           /\ Moves({t})
<1>1. /\ TypeOK /\ Orderly(c)
      /\ s2c \in [Clients -> Seq(Reply)] /\ s2c[c] \in Seq(Reply)
      /\ wcq \in [Clients -> Seq(Completion)] /\ wcq[c] \in Seq(Completion)
      /\ \A b \in Clients : tid[b] \in Nat
      /\ Distinct(s2c[c]) /\ Distinct(wcq[c])
  BY DEF RInv, TInv, IInv, TypeOK, ClientTypeOK, ServerTypeOK, Orderly, Apart
<1>2. t \in TidsIn(s2c[c]) \/ t \in TidsIn(wcq[c])
  BY <1>1, HeadTaken DEF TidsIn, Takes
<1>3. /\ Owner(t) = c /\ t[2] <= tid[c]
      /\ t \notin TidsIn(c2s[c]) /\ t \notin ToSet(sorted_q)
      /\ ~(t \in TidsIn(s2c[c]) /\ t \in TidsIn(wcq[c]))
  <2>1. Shutdown.tid \notin Tids
    BY LoopAssumption DEF Shutdown, Tids
  <2> QED
    BY <1>1, <1>2, <2>1 DEF Orderly, Apart, Session, Takes
<1>4. /\ \A m \in Replied(c)' : m \in Replied(c)
      /\ \A m \in Replied(c) : m.tid # t => m \in Replied(c)'
      /\ \A m \in Completed(c)' : m \in Completed(c)
      /\ \A m \in Completed(c) : m.tid # t => m \in Completed(c)'
      /\ t \notin TidsIn(s2c'[c]) \cup TidsIn(wcq'[c])
      /\ \A b \in Clients \ {c} : s2c'[b] = s2c[b] /\ wcq'[b] = wcq[b]
  <2>1. CASE /\ s2c[c] # <<>> /\ Head(s2c[c]).tid = t
             /\ s2c' = [s2c EXCEPT ![c] = Tail(@)]
             /\ UNCHANGED wcq
    <3>1. /\ s2c'[c] = Tail(s2c[c]) /\ wcq'[c] = wcq[c]
          /\ \A b \in Clients \ {c} : s2c'[b] = s2c[b] /\ wcq'[b] = wcq[b]
      BY <1>1, <2>1
    <3>2. /\ Head(s2c[c]) \in ToSet(s2c[c])
          /\ \A m \in ToSet(Tail(s2c[c])) : m \in ToSet(s2c[c]) /\ m.tid # t
          /\ \A m \in ToSet(s2c[c]) : m.tid # t => m \in ToSet(Tail(s2c[c]))
      BY <1>1, <2>1, HeadIsGone
    <3>3. t \notin TidsIn(wcq[c])
      BY <1>3, <2>1, <3>2 DEF TidsIn
    <3> QED
      BY <3>1, <3>2, <3>3 DEF Replied, Completed, TidsIn
  <2>2. CASE /\ wcq[c] # <<>> /\ Head(wcq[c]).tid = t
             /\ wcq' = [wcq EXCEPT ![c] = Tail(@)]
             /\ UNCHANGED s2c
    <3>1. /\ wcq'[c] = Tail(wcq[c]) /\ s2c'[c] = s2c[c]
          /\ \A b \in Clients \ {c} : s2c'[b] = s2c[b] /\ wcq'[b] = wcq[b]
      BY <1>1, <2>2
    <3>2. /\ Head(wcq[c]) \in ToSet(wcq[c])
          /\ \A m \in ToSet(Tail(wcq[c])) : m \in ToSet(wcq[c]) /\ m.tid # t
          /\ \A m \in ToSet(wcq[c]) : m.tid # t => m \in ToSet(Tail(wcq[c]))
      BY <1>1, <2>2, HeadIsGone
    <3>3. t \notin TidsIn(s2c[c])
      BY <1>3, <2>2, <3>2 DEF TidsIn
    <3> QED
      BY <3>1, <3>2, <3>3 DEF Replied, Completed, TidsIn
  <2> QED
    BY <2>1, <2>2 DEF Takes
<1>5. \A n \in Posted(c) : n.tid # t
  BY <1>3 DEF TidsIn, Posted
<1>6. \A m \in WorkRequest : Post(c, m) =>
         /\ Posted(c)' = Posted(c) \cup {m}
         /\ \A b \in Clients \ {c} : Posted(b)' = Posted(b)
  BY <1>1, OneIsPosted
<1>7. /\ \A b \in Clients : \A n \in Posted(b) : n \in Posted(b)'
      /\ \A b \in Clients : \A n \in Posted(b)' : n \in Posted(b) \/ n.tid = t
  <2>1. CASE UNCHANGED c2s
    BY <2>1 DEF Posted
  <2>2. CASE \E m \in WorkRequest : m.tid = t /\ Post(c, m)
    BY <1>6, <2>2
  <2> QED
    BY <2>1, <2>2 DEF Takes
<1>8. Moves({t})
  <2>1. \A b \in Clients : tid[b] <= tid'[b] /\ (Alive(b) => Alive(b)')
    BY <1>1 DEF Alive, Takes
  <2>2. \A b \in Clients \ {c} : /\ Replied(b)' = Replied(b)
                                 /\ Completed(b)' = Completed(b)
    BY <1>4 DEF Replied, Completed
  <2>3. \A u \in Tids : Owner(u) \in Clients
    BY OwnerType
  <2> QED
    BY <1>4, <1>7, <2>1, <2>2, <2>3 DEF Moves, QuietServer, Listed, Takes
<1> QED
  BY <1>3, <1>4, <1>5, <1>6, <1>7, <1>8 DEF Listed

(* The three kinds of what is taken. *)
LEMMA ResponseIsTaken ==
    ASSUME RInv, NEW c \in Clients, client_handle_get_response(c),
           NEW r, r = Head(s2c[c])
    PROVE  /\ Takes(c, r.tid) /\ UNCHANGED <<c2s, wcq>>
           /\ r \in Replied(c) /\ r.op = "GET_RESPONSE"
           /\ pending[r.tid] \in ClientRequest /\ pending[r.tid].op = "GET"
           /\ pending'[r.tid]
                = [pending[r.tid] EXCEPT !.val = r.val, !.done = TRUE]
           /\ ~Undone(r.tid)'
<1>1. /\ TypeOK /\ pending \in [Tids -> ClientRequest \cup {NoReq}]
      /\ s2c[c] \in Seq(Reply)
  BY DEF RInv, TInv, IInv, TypeOK, ClientTypeOK, ServerTypeOK
<1>2. r.tid \in Tids /\ pending[r.tid] \in ClientRequest
      /\ pending[r.tid].op = "GET"
  BY <1>1, TakeReplyType DEF client_handle_get_response
<1>3. /\ \A u \in Tids \ {r.tid} : pending'[u] = pending[u]
      /\ pending'[r.tid]
           = [pending[r.tid] EXCEPT !.val = r.val, !.done = TRUE]
  BY <1>1, <1>2 DEF client_handle_get_response
<1>4. "done" \in DOMAIN pending[r.tid]
  BY <1>2 DEF ClientRequest
<1>5. ~Undone(r.tid)'
  BY <1>3, <1>4 DEF Undone
<1>6. /\ Alive(c) /\ QuietServer /\ UNCHANGED <<db, tid, pc, wcq, c2s>>
      /\ s2c[c] # <<>> /\ s2c' = [s2c EXCEPT ![c] = Tail(@)]
      /\ r.op = "GET_RESPONSE"
  BY DEF client_handle_get_response, TakeReply, QuietServer
<1>7. r \in Replied(c)
  BY <1>1, <1>6, HeadTaken DEF Replied
<1> QED
  BY <1>2, <1>3, <1>5, <1>6, <1>7 DEF Takes

LEMMA KeyIsTaken ==
    ASSUME RInv, NEW c \in Clients,
           \/ client_handle_recv_rdma_rkey_get(c)
           \/ client_handle_recv_rdma_rkey_set(c),
           NEW r, r = Head(s2c[c])
    PROVE  /\ Takes(c, r.tid) /\ UNCHANGED <<pending, wcq>>
           /\ r \in Replied(c)
           /\ \E m \in WorkRequest :
                 /\ Post(c, m) /\ m.tid = r.tid /\ m.key = r.key
                 /\ \/ /\ r.op = "RDMA_RKEY_GET" /\ m.op = "READ"
                       /\ Waits(r.tid, "GET")
                    \/ /\ r.op = "RDMA_RKEY_SET" /\ m.op = "WRITE"
                       /\ Waits(r.tid, "SET") /\ m.val = pending[r.tid].val
<1>1. /\ TypeOK /\ pending \in [Tids -> ClientRequest \cup {NoReq}]
      /\ s2c[c] \in Seq(Reply)
  BY DEF RInv, TInv, IInv, TypeOK, ClientTypeOK, ServerTypeOK
<1>2. /\ Alive(c) /\ QuietServer
      /\ UNCHANGED <<db, tid, pc, wcq, pending>>
      /\ s2c[c] # <<>> /\ s2c' = [s2c EXCEPT ![c] = Tail(@)]
  BY DEF client_handle_recv_rdma_rkey_get, client_handle_recv_rdma_rkey_set,
     TakeReply, QuietServer, clientVars
<1>3. r \in Reply /\ r \in Replied(c)
  BY <1>1, <1>2, HeadTaken DEF Replied
<1>4. r.tid \in Tids /\ r.key \in Keys /\ r.rkey \in Nat
  BY <1>3 DEF Reply
<1>5. \E m \in WorkRequest :
         /\ Post(c, m) /\ m.tid = r.tid /\ m.key = r.key
         /\ \/ /\ r.op = "RDMA_RKEY_GET" /\ m.op = "READ"
               /\ Waits(r.tid, "GET")
            \/ /\ r.op = "RDMA_RKEY_SET" /\ m.op = "WRITE"
               /\ Waits(r.tid, "SET") /\ m.val = pending[r.tid].val
  <2>1. CASE client_handle_recv_rdma_rkey_get(c)
    <3>1. PICK m : m = Message("READ", r.tid, r.key, Empty, r.rkey)
      OBVIOUS
    <3>2. m \in WorkRequest
      BY <1>4, <3>1, MessageType DEF RdmaOps, Contents
    <3>3. m.tid = r.tid /\ m.key = r.key /\ m.op = "READ"
      BY <3>1 DEF Message
    <3>4. Post(c, m) /\ r.op = "RDMA_RKEY_GET" /\ Waits(r.tid, "GET")
      BY <2>1, <3>1 DEF client_handle_recv_rdma_rkey_get, TakeReply
    <3> QED
      BY <3>2, <3>3, <3>4
  <2>2. CASE client_handle_recv_rdma_rkey_set(c)
    <3>1. PICK m : m = Message("WRITE", r.tid, r.key, pending[r.tid].val,
                               r.rkey)
      OBVIOUS
    <3>2. /\ pending[r.tid] \in ClientRequest /\ pending[r.tid].op = "SET"
      BY <1>1, <2>2, TakeReplyType DEF client_handle_recv_rdma_rkey_set
    <3>3. m \in WorkRequest
      BY <1>4, <3>1, <3>2, PendingSetFields, MessageType DEF RdmaOps
    <3>4. /\ m.tid = r.tid /\ m.key = r.key /\ m.op = "WRITE"
          /\ m.val = pending[r.tid].val
      BY <3>1 DEF Message
    <3>5. Post(c, m) /\ r.op = "RDMA_RKEY_SET" /\ Waits(r.tid, "SET")
      BY <2>2, <3>1 DEF client_handle_recv_rdma_rkey_set, TakeReply
    <3> QED
      BY <3>3, <3>4, <3>5
  <2> QED
    BY <2>1, <2>2
<1> QED
  BY <1>2, <1>3, <1>4, <1>5 DEF Takes

(* A completion ends the request t, and a FIN for it is posted. *)
Completes(c, t) ==
    /\ Takes(c, t) /\ UNCHANGED s2c
    /\ t \in TidsIn(wcq[c])
    /\ \E m \in WorkRequest : Post(c, m) /\ m.tid = t /\ m.op = "FIN"
    /\ pending[t] \in ClientRequest
    /\ \/ /\ pending[t].op = "GET"
          /\ pending'[t] = [pending[t] EXCEPT !.done = TRUE]
       \/ pending[t].op = "SET" /\ pending'[t] = NoReq
    /\ ~Undone(t)'

LEMMA CompletionIsTaken ==
    ASSUME RInv, NEW c \in Clients, RdmaReadDone(c) \/ RdmaWriteDone(c),
           NEW t, t = Head(wcq[c]).tid
    PROVE  Completes(c, t)
<1>1. /\ TypeOK /\ pending \in [Tids -> ClientRequest \cup {NoReq}]
      /\ wcq[c] \in Seq(Completion)
  BY DEF RInv, TInv, IInv, TypeOK, ClientTypeOK, ServerTypeOK
<1>2. PICK m : m = Message("FIN", t, pending[t].key, Empty, 0)
  OBVIOUS
<1>3. /\ Alive(c) /\ QuietServer /\ UNCHANGED <<db, tid, pc, s2c>>
      /\ wcq[c] # <<>> /\ wcq' = [wcq EXCEPT ![c] = Tail(@)]
      /\ Post(c, m)
  BY <1>2
  DEF RdmaReadDone, RdmaWriteDone, client_send_rdma_fin, TakeCompletion,
      QuietServer, serverVars
<1>4. t \in TidsIn(wcq[c])
  BY <1>1, <1>3, HeadTaken DEF TidsIn
<1>5. /\ t \in Tids /\ pending[t] \in ClientRequest /\ pending[t].key \in Keys
      /\ \A u \in Tids \ {t} : pending'[u] = pending[u]
      /\ \/ /\ pending[t].op = "GET"
            /\ pending'[t] = [pending[t] EXCEPT !.done = TRUE]
         \/ pending[t].op = "SET" /\ pending'[t] = NoReq
      /\ ~Undone(t)'
  <2>1. CASE RdmaReadDone(c)
    <3>1. t \in Tids /\ pending[t] \in ClientRequest /\ pending[t].op = "GET"
      BY <1>1, <2>1, TakeCompletionType DEF RdmaReadDone
    <3>2. pending[t].key \in Keys /\ "done" \in DOMAIN pending[t]
      BY <3>1 DEF ClientRequest
    <3>3. pending' = [pending EXCEPT ![t].done = TRUE]
      BY <2>1 DEF RdmaReadDone
    <3>4. /\ pending'[t] = [pending[t] EXCEPT !.done = TRUE]
          /\ \A u \in Tids \ {t} : pending'[u] = pending[u]
      BY <1>1, <3>1, <3>3
    <3> QED
      BY <3>1, <3>2, <3>4 DEF Undone
  <2>2. CASE RdmaWriteDone(c)
    <3>1. t \in Tids /\ pending[t] \in ClientRequest /\ pending[t].op = "SET"
      BY <1>1, <2>2, TakeCompletionType DEF RdmaWriteDone
    <3>2. pending' = [pending EXCEPT ![t] = NoReq]
      BY <2>2 DEF RdmaWriteDone
    <3> QED
      BY <1>1, <3>1, <3>2, PendingSetFields DEF Undone
  <2> QED
    BY <2>1, <2>2
<1>6. m \in WorkRequest /\ m.tid = t /\ m.op = "FIN"
  BY <1>2, <1>5, MessageType DEF SendOps, Contents, Message
<1> QED
  BY <1>3, <1>4, <1>5, <1>6 DEF Takes, Completes

(* Afterwards t is done, or posted again. *)
LEMMA TakingAccounted ==
    ASSUME PlInv, TypeOK', NEW c \in Clients, NEW t, Takes(c, t),
           \/ UNCHANGED c2s /\ ~Undone(t)'
           \/ \E m \in WorkRequest :
                 /\ m.tid = t /\ Post(c, m) /\ m.op # "SET"
                 /\ m.op = "FIN" => ~Undone(t)'
    PROVE  \A u \in Tids : Accounted(u)'
<1>1. TypeOK /\ \A u \in Tids : Accounted(u)
  BY DEF PlInv, RInv, TInv, IInv
<1>2. /\ t \in Tids /\ Owner(t) = c /\ t[2] <= tid[c] /\ t \notin Listed
      /\ \A n \in Posted(c) : n.tid # t
      /\ \A m \in WorkRequest : Post(c, m) => Posted(c)' = Posted(c) \cup {m}
      /\ Moves({t})
  BY TakingMoves DEF PlInv, Takes
<1>3. /\ \A n \in Posted(c)' : n.tid = t => n.op # "SET"
      /\ Undone(t)' => \E n \in Posted(c)' : n.tid = t /\ n.op # "FIN"
  <2>1. CASE UNCHANGED c2s /\ ~Undone(t)'
    BY <1>2, <2>1 DEF Posted
  <2>2. ASSUME NEW m \in WorkRequest, m.tid = t, Post(c, m), m.op # "SET",
               m.op = "FIN" => ~Undone(t)'
        PROVE  <1>3!:
    BY <1>2, <2>2
  <2> QED
    BY <2>1, <2>2
<1>4. Accounted(t)'
  BY <1>2, <1>3
  DEF Accounted, Placed, Forgotten, Alive, QuietServer, Listed, Takes
<1> QED
  BY <1>1, <1>2, <1>4, OthersStayAccounted

LEMMA PollStaysAccounted ==
    ASSUME PlInv, TypeOK', NEW c \in Clients, ClientPoll(c)
    PROVE  \A u \in Tids : Accounted(u)'
<1>1. RInv
  BY DEF PlInv
<1>2. CASE client_handle_get_response(c)
  BY <1>1, <1>2, ResponseIsTaken, TakingAccounted
<1>3. CASE \/ client_handle_recv_rdma_rkey_get(c)
           \/ client_handle_recv_rdma_rkey_set(c)
  <2>1. PICK r : r = Head(s2c[c])
    OBVIOUS
  <2>2. /\ Takes(c, r.tid)
        /\ \E m \in WorkRequest :
              /\ Post(c, m) /\ m.tid = r.tid
              /\ m.op = "READ" \/ m.op = "WRITE"
    BY <1>1, <1>3, <2>1, KeyIsTaken
  <2> QED
    BY <2>2, TakingAccounted
<1>4. CASE RdmaReadDone(c) \/ RdmaWriteDone(c)
  <2>1. PICK t : t = Head(wcq[c]).tid
    OBVIOUS
  <2>2. Completes(c, t)
    BY <1>1, <1>4, <2>1, CompletionIsTaken
  <2>3. PICK m \in WorkRequest : Post(c, m) /\ m.tid = t /\ m.op = "FIN"
    BY <2>2 DEF Completes
  <2>4. Takes(c, t) /\ ~Undone(t)'
    BY <2>2 DEF Completes
  <2> QED
    BY <2>3, <2>4, TakingAccounted
<1> QED
  BY <1>2, <1>3, <1>4 DEF ClientPoll

-----------------------------------------------------------------------------
(* The steps of the network.                                               *)

(* A request that the devices have executed is completed, if its client    *)
(* still runs, and was in no other place.                                  *)
LEMMA ExecuteMoves ==
    ASSUME RInv, NEW c \in Clients, QuietServer, NEW i, RdmaExecute(c, i),
           UNCHANGED <<s2c, tid, pc, polled>>, NEW m, m = c2s[c][i],
           \A u \in Tids \ {m.tid} : pending'[u] = pending[u]
    PROVE  /\ m \in Posted(c) /\ m.op \in RdmaOps
           /\ m.tid \in Tids /\ Owner(m.tid) = c /\ m.tid \notin Listed
           /\ m.tid \notin TidsIn(s2c[c]) \cup TidsIn(wcq[c])
           /\ \A n \in Posted(c)' : n.tid # m.tid
           /\ Alive(c) => m.tid \in TidsIn(wcq'[c])
           /\ Moves({m.tid})
<1> DEFINE t == m.tid
           x == [op |-> m.op, tid |-> m.tid]
<1>1. /\ TypeOK /\ Orderly(c)
      /\ c2s[c] \in Seq(WorkRequest) /\ wcq[c] \in Seq(Completion)
      /\ \A b \in Clients : tid[b] \in Nat
  BY DEF RInv, TInv, IInv, TypeOK, ClientTypeOK
<1>2. /\ m \in Posted(c) /\ m.op \in RdmaOps /\ t \in Tids /\ Owner(t) = c
      /\ \A n \in Posted(c)' : n \in Posted(c) /\ n.tid # t
      /\ \A n \in Completed(c)' : n \in Completed(c) \/ n.tid = t
      /\ \A b \in Clients \ {c} : c2s'[b] = c2s[b] /\ wcq'[b] = wcq[b]
  BY ExecuteTakes
<1>3. t \notin ToSet(sorted_q) /\ t \notin TidsIn(s2c[c]) \cup TidsIn(wcq[c])
  BY <1>1, <1>2, PostedElsewhere
<1>4. \A n \in Posted(c) : n.tid # t => n \in Posted(c)'
  <2>1. i \in 1 .. Len(c2s[c])
    BY <1>1, LenProperties DEF RdmaExecute, NextRdma
  <2>2. /\ RemoveAt(c2s[c], i) \in Seq(WorkRequest)
        /\ TakenOut(c2s[c], RemoveAt(c2s[c], i), i)
    BY <1>1, <2>1, Removed
  <2>3. c2s'[c] = RemoveAt(c2s[c], i)
    BY <1>1 DEF RdmaExecute, TypeOK, ClientTypeOK
  <2>4. PICK r : r = RemoveAt(c2s[c], i)
    OBVIOUS
  <2>5. \A n \in ToSet(c2s[c]) : n.tid # c2s[c][i].tid => n \in ToSet(r)
    BY <1>1, <2>1, <2>2, <2>4, OneIsTaken
  <2> QED
    BY <2>3, <2>4, <2>5 DEF Posted
<1>5. /\ \A n \in Completed(c) : n \in Completed(c)'
      /\ Alive(c) => t \in TidsIn(wcq'[c])
  <2>1. CASE Alive(c)
    <3>1. x \in Completion /\ x.tid = t
      BY <1>2 DEF Completion
    <3>2. wcq'[c] = Append(wcq[c], x)
      BY <1>1, <2>1 DEF RdmaExecute, TypeOK, ClientTypeOK
    <3> HIDE DEF x
    <3>3. ToSet(wcq'[c]) = ToSet(wcq[c]) \cup {x}
      BY <1>1, <3>1, <3>2, Added
    <3> QED
      BY <3>1, <3>3 DEF Completed, TidsIn
  <2>2. CASE ~Alive(c)
    BY <2>2 DEF RdmaExecute, Completed
  <2> QED
    BY <2>1, <2>2
<1>6. Moves({t})
  <2>1. \A u \in Tids : Owner(u) \in Clients
    BY OwnerType
  <2>2. \A b \in Clients : tid[b] <= tid'[b] /\ (Alive(b) => Alive(b)')
    BY <1>1 DEF Alive
  <2>3. \A b \in Clients :
          /\ \A n \in Posted(b) : n.tid # t => n \in Posted(b)'
          /\ \A n \in Posted(b)' : n \in Posted(b)
          /\ \A n \in Completed(b) : n \in Completed(b)'
          /\ \A n \in Completed(b)' : n.tid # t => n \in Completed(b)
          /\ Replied(b)' = Replied(b)
    BY <1>2, <1>4, <1>5 DEF Posted, Completed, Replied
  <2> QED
    BY <2>1, <2>2, <2>3 DEF Moves, QuietServer, Listed
<1> QED
  BY <1>2, <1>3, <1>5, <1>6 DEF Listed

LEMMA ExecuteStaysAccounted ==
    ASSUME PlInv, TypeOK', NEW c \in Clients, QuietServer, NEW i,
           RdmaExecute(c, i), UNCHANGED <<s2c, tid, pc, polled>>,
           NEW m, m = c2s[c][i],
           \A u \in Tids \ {m.tid} : pending'[u] = pending[u],
           pending'[m.tid] # NoReq => pending[m.tid] # NoReq
    PROVE  \A u \in Tids : Accounted(u)'
<1> DEFINE t == m.tid
<1>1. TypeOK /\ \A u \in Tids : Accounted(u)
  BY DEF PlInv, RInv, TInv, IInv
<1>2. /\ t \in Tids /\ Owner(t) = c /\ t \notin Listed
      /\ \A n \in Posted(c)' : n.tid # t
      /\ Alive(c) => t \in TidsIn(wcq'[c])
      /\ Moves({t})
  BY ExecuteMoves DEF PlInv
<1>3. Accounted(t)'
  <2>1. pending'[t] # NoReq => Alive(c)' /\ t[2] <= tid'[c]
    BY <1>1, <1>2 DEF Accounted, Alive
  <2>2. Undone(t)' => Placed(t)'
    BY <1>2, <2>1 DEF Undone, Placed, Alive
  <2> QED
    BY <1>2, <2>1, <2>2 DEF Accounted, QuietServer, Listed
<1> QED
  BY <1>1, <1>2, <1>3, OthersStayAccounted

(* What an RDMA read puts into the table. *)
LEMMA ReadExecutes ==
    ASSUME RInv, NEW c \in Clients, RdmaRead(c)
    PROVE  /\ QuietServer /\ UNCHANGED <<db, s2c, tid, pc, polled>>
           /\ \E i :
                 LET m == c2s[c][i]
                 IN  /\ RdmaExecute(c, i) /\ m.op = "READ" /\ m.tid \in Tids
                     /\ \A u \in Tids \ {m.tid} : pending'[u] = pending[u]
                     /\ pending'[m.tid]
                          = IF Waits(m.tid, "GET")
                            THEN [pending[m.tid] EXCEPT !.val =
                                    Content(db[m.key])]
                            ELSE pending[m.tid]
<1>1. /\ TypeOK /\ PolledAreSends
      /\ pending \in [Tids -> ClientRequest \cup {NoReq}]
  BY DEF RInv, TInv, IInv, TypeOK, ClientTypeOK
<1>2. PICK i :
        /\ RdmaExecute(c, i) /\ c2s[c][i].op = "READ"
        /\ pending' = IF Waits(c2s[c][i].tid, "GET")
                      THEN [pending EXCEPT ![c2s[c][i].tid].val =
                              Content(db[c2s[c][i].key])]
                      ELSE pending
  BY DEF RdmaRead
<1>3. PICK m : m = c2s[c][i]
  OBVIOUS
<1>4. QuietServer /\ UNCHANGED <<db, s2c, tid, pc, polled>>
  BY DEF RdmaRead, QuietServer, serverVars, loopVars
<1>5. m.tid \in Tids
  BY <1>1, <1>2, <1>3, <1>4, RdmaExecuteType
<1>6. /\ \A u \in Tids \ {m.tid} : pending'[u] = pending[u]
      /\ pending'[m.tid]
           = IF Waits(m.tid, "GET")
             THEN [pending[m.tid] EXCEPT !.val = Content(db[m.key])]
             ELSE pending[m.tid]
  BY <1>1, <1>2, <1>3, <1>5
<1> QED
  BY <1>2, <1>3, <1>4, <1>5, <1>6

(* The devices at work. *)
LEMMA NetworkStaysAccounted ==
    ASSUME PlInv, TypeOK', NEW c \in Clients, NetworkStep(c)
    PROVE  \A u \in Tids : Accounted(u)'
<1>1. CASE RdmaWrite(c)
  <2>1. PICK i : RdmaExecute(c, i)
    BY <1>1 DEF RdmaWrite
  <2>2. QuietServer /\ UNCHANGED <<s2c, tid, pc, polled, pending>>
    BY <1>1 DEF RdmaWrite, QuietServer, loopVars
  <2>3. PICK m : m = c2s[c][i]
    OBVIOUS
  <2> QED
    BY <2>1, <2>2, <2>3, ExecuteStaysAccounted
<1>2. CASE RdmaRead(c)
  <2>1. QuietServer /\ UNCHANGED <<db, s2c, tid, pc, polled>>
    BY <1>2, ReadExecutes DEF PlInv
  <2>2. PICK i :
          LET m == c2s[c][i]
          IN  /\ RdmaExecute(c, i) /\ m.op = "READ" /\ m.tid \in Tids
              /\ \A u \in Tids \ {m.tid} : pending'[u] = pending[u]
              /\ pending'[m.tid]
                   = IF Waits(m.tid, "GET")
                     THEN [pending[m.tid] EXCEPT !.val = Content(db[m.key])]
                     ELSE pending[m.tid]
    BY <1>2, ReadExecutes DEF PlInv
  <2>3. PICK m : m = c2s[c][i]
    OBVIOUS
  <2>4. pending'[m.tid] # NoReq => pending[m.tid] # NoReq
    BY <2>2, <2>3 DEF Waits
  <2> QED
    BY <2>1, <2>2, <2>3, <2>4, ExecuteStaysAccounted
<1>3. CASE QpError(c)
  <2>1. /\ QuietServer /\ UNCHANGED <<s2c, wcq, c2s, tid, pc, pending>>
    BY <1>3 DEF QpError, serverVars, clientVars, QuietServer
  <2>2. PICK T \in SUBSET Tids : T = {}
    OBVIOUS
  <2> QED
    BY <2>1, <2>2, QuietStaysAccounted DEF Alive
<1> QED
  BY <1>1, <1>2, <1>3 DEF NetworkStep

-----------------------------------------------------------------------------
(* The steps of the server.                                                *)

(* A handler serves the request t, which has left the place it was in. *)
Serves(c, t, op, k, v, q) ==
    /\ op \in Requests
    /\ ReadyToServe(c, t, op, k, v, q)
    /\ HandledAs(t, op, k, v, q)
    /\ UNCHANGED <<pending, tid, pc, wcq>>
    /\ \A m \in Posted(c) : m.tid # t => m \in Posted(c)'

(* It is in the list again, or answered, or in no place. *)
LEMMA ServingMoves ==
    ASSUME RInv, NEW c \in Clients, NEW t, NEW op, NEW k, NEW v, NEW q,
           Serves(c, t, op, k, v, q)
    PROVE  /\ t \in Tids /\ Owner(t) = c
           /\ t \in Listed' <=> Pushed(t, op, k, v, q)
           /\ \A m \in Posted(c)' : m.tid # t
           /\ t \notin TidsIn(s2c[c]) \cup TidsIn(wcq'[c])
           /\ UNCHANGED s2c
                 \/ \E m \in Reply : AnsweredWith(t, k, q, m)
           /\ \A m \in Reply :
                 AnsweredWith(t, k, q, m) => Replied(c)' = Replied(c) \cup {m}
           /\ Moves({t})
<1>1. /\ TypeOK
      /\ s2c \in [Clients -> Seq(Reply)]
      /\ t \in Tids /\ Owner(t) = c
      /\ q \in Seq(Tids) /\ IsInjective(q)
      /\ \A b \in Clients : tid[b] \in Nat
  BY DEF Serves, ReadyToServe, Session, RInv, TInv, IInv, TypeOK,
     ServerTypeOK, ClientTypeOK
<1>2. /\ ToSet(sorted_q') \ {t} = ToSet(sorted_q) \ {t}
      /\ t \in Listed' <=> Pushed(t, op, k, v, q)
  <2>1. CASE sorted_q' = q
    <3>1. t \notin Listed'
      BY <2>1 DEF Serves, ReadyToServe, Listed
    <3>2. ~Pushed(t, op, k, v, q)
      <4>1. ToSet(Append(q, t)) = ToSet(q) \cup {t}
        BY <1>1, ListElements
      <4> QED
        BY <2>1, <4>1 DEF Pushed, Serves, ReadyToServe
    <3> QED
      BY <2>1, <3>1, <3>2 DEF Serves, ReadyToServe
  <2>2. CASE Pushed(t, op, k, v, q)
    <3>1. ToSet(sorted_q') = ToSet(q) \cup {t}
      BY <1>1, <2>2, ListElements DEF Pushed
    <3> QED
      BY <2>2, <3>1 DEF Serves, ReadyToServe, Listed
  <2> QED
    BY <2>1, <2>2 DEF Serves, HandledAs, Dropped, AnsweredWith
<1>3. ASSUME NEW m \in Reply, AnsweredWith(t, k, q, m)
      PROVE  /\ Replied(c)' = Replied(c) \cup {m} /\ m.tid = t
             /\ \A b \in Clients \ {c} : Replied(b)' = Replied(b)
  <2>1. /\ s2c'[c] = Append(s2c[c], m) /\ m.tid = t
        /\ \A b \in Clients \ {c} : s2c'[b] = s2c[b]
    BY <1>1, <1>3 DEF AnsweredWith, server_post_send
  <2>2. s2c[c] \in Seq(Reply)
    BY <1>1
  <2>3. ToSet(Append(s2c[c], m)) = ToSet(s2c[c]) \cup {m}
    BY <2>2, Added
  <2> QED
    BY <2>1, <2>3 DEF Replied
<1>4. UNCHANGED s2c \/ \E m \in Reply : AnsweredWith(t, k, q, m)
  BY DEF Serves, HandledAs, Pushed, Dropped
<1>5. Moves({t})
  <2>1. \A u \in Tids : Owner(u) \in Clients
    BY OwnerType
  <2>2. \A b \in Clients : tid[b] <= tid'[b] /\ (Alive(b) => Alive(b)')
    BY <1>1 DEF Alive, Serves
  <2>3. \A b \in Clients :
          /\ \A n \in Posted(b) : n.tid # t => n \in Posted(b)'
          /\ \A n \in Posted(b)' : n \in Posted(b)
    BY DEF Serves, ReadyToServe, Posted
  <2>4. \A b \in Clients :
          /\ Completed(b)' = Completed(b)
          /\ \A n \in Replied(b) : n \in Replied(b)'
          /\ \A n \in Replied(b)' : n \in Replied(b) \/ n.tid = t
    <3>1. CASE UNCHANGED s2c
      BY <3>1 DEF Serves, Completed, Replied
    <3>2. CASE \E m \in Reply : AnsweredWith(t, k, q, m)
      BY <1>3, <3>2 DEF Serves, Completed
    <3> QED
      BY <1>4, <3>1, <3>2
  <2>5. \A u \in Tids \ {t} : /\ internal_q'[u] = internal_q[u]
                              /\ u \in Listed' <=> u \in Listed
    BY <1>2 DEF Serves, HandledAs, Listed
  <2> QED
    BY <2>1, <2>2, <2>3, <2>4, <2>5 DEF Moves, Serves
<1> QED
  BY <1>1, <1>2, <1>3, <1>4, <1>5 DEF Serves, ReadyToServe

(* It is on its way, or nobody waits for it. *)
LEMMA ServingStaysAccounted ==
    ASSUME PlInv, TypeOK', NEW c \in Clients, NEW t, NEW op, NEW k, NEW v,
           NEW q, Serves(c, t, op, k, v, q), Forgotten(op, t, k, v)
    PROVE  \A u \in Tids : Accounted(u)'
<1>1. TypeOK /\ \A u \in Tids : Accounted(u)
  BY DEF PlInv, RInv, TInv, IInv
<1>2. /\ t \in Tids /\ Owner(t) = c
      /\ t \in Listed' <=> Pushed(t, op, k, v, q)
      /\ \A m \in Posted(c)' : m.tid # t
      /\ \A m \in Reply :
            AnsweredWith(t, k, q, m) => Replied(c)' = Replied(c) \cup {m}
      /\ Moves({t})
  BY ServingMoves DEF PlInv
<1>3. Accounted(t)'
  <2>1. pending'[t] # NoReq => Alive(c)' /\ t[2] <= tid'[c]
    BY <1>1, <1>2 DEF Accounted, Alive, Serves
  <2>2. CASE Pushed(t, op, k, v, q)
    <3>1. t \in Listed'
      BY <1>2, <2>2
    <3>2. /\ internal_q'[t].op = op /\ internal_q'[t].key = k
          /\ internal_q'[t].val = v
      BY <2>2 DEF Pushed, ReadyToServe, Serves
    <3>3. ForgottenListed(t)'
      BY <3>2 DEF Forgotten, ForgottenListed, Serves
    <3> QED
      BY <1>2, <2>1, <3>1, <3>3 DEF Accounted, Placed
  <2>3. CASE ~NeedsAnswer(op, k, v) /\ Dropped(t, q)
    <3>1. pending'[t] = NoReq
      BY <2>3 DEF NeedsAnswer, Forgotten, Requests, Serves
    <3> QED
      BY <3>1, NoRecordNoDebt
  <2>4. ASSUME NEW m \in Reply, AnsweredWith(t, k, q, m)
        PROVE  Accounted(t)'
    <3>1. m \in Replied(c)' /\ m.tid = t
      <4>1. Replied(c)' = Replied(c) \cup {m} /\ m.tid = t
        BY <1>2, <2>4 DEF AnsweredWith
      <4> QED
        BY <4>1
    <3>2. t \in TidsIn(s2c'[c])
      BY <3>1 DEF TidsIn, Replied
    <3>3. t \notin Listed'
      BY <2>4 DEF AnsweredWith, Serves, ReadyToServe, Listed
    <3> QED
      BY <1>2, <2>1, <3>2, <3>3 DEF Accounted, Placed
  <2> QED
    BY <2>2, <2>3, <2>4 DEF HandledAs, Serves
<1> QED
  BY <1>1, <1>2, <1>3, OthersStayAccounted

(* What handle_recv_request leaves posted. *)
LEMMA OthersStayPosted ==
    ASSUME TypeOK, PolledAreSends, \A b \in Clients : Orderly(b),
           NEW c \in Clients, NEW op, TakeRequest(c, op),
           NEW m, m = Head(c2s[c])
    PROVE  \A n \in Posted(c) : n.tid # m.tid => n \in Posted(c)'
<1>1. c2s[c] \in Seq(WorkRequest) /\ c2s[c] # <<>>
  BY TakenIsPosted DEF TypeOK, ClientTypeOK
<1>2. c2s'[c] = Tail(c2s[c])
  BY DEF TakeRequest, TypeOK, ClientTypeOK
<1>3. \A n \in ToSet(c2s[c]) :
         n.tid # Head(c2s[c]).tid => n \in ToSet(Tail(c2s[c]))
  BY <1>1, HeadIsOut
<1> QED
  BY <1>2, <1>3 DEF Posted

(* A received SET or GET. *)
LEMMA RecvServes ==
    ASSUME RInv, NEW c \in Clients, RecvSet(c) \/ RecvGet(c),
           NEW m, m = Head(c2s[c])
    PROVE  /\ m \in Posted(c)
           /\ m.tid \in Tids /\ m.key \in Keys /\ m.val \in Contents
           /\ internal_q[m.tid] = NoReq
           /\ \/ RecvSet(c) /\ m.op = "SET"
                 /\ Serves(c, m.tid, "SET", m.key, m.val, sorted_q)
              \/ RecvGet(c) /\ m.op = "GET"
                 /\ Serves(c, m.tid, "GET", m.key, Empty, sorted_q)
<1>1. m.op \in Requests /\ TakeRequest(c, m.op)
  BY DEF RecvSet, RecvGet, TakeRequest, Requests
<1>2. /\ TypeOK /\ PolledAreSends /\ \A b \in Clients : Orderly(b)
      /\ IsInjective(sorted_q) /\ sorted_q \in Seq(Tids) /\ ServerTypeOK
  BY DEF RInv, TInv, IInv, ListInOrder, TypeOK, ServerTypeOK
<1>3. /\ m \in Posted(c) /\ pc[c] # "out"
      /\ Distinct(c2s'[c])
      /\ \A n \in Posted(c)' : n \in Posted(c) /\ n.tid # m.tid
      /\ \A b \in Clients \ {c} : c2s'[b] = c2s[b]
      /\ UNCHANGED <<pending, tid, pc, wcq>>
  BY <1>1, <1>2, TakenIsPosted
<1>4. \A n \in Posted(c) : n.tid # m.tid => n \in Posted(c)'
  BY <1>1, <1>2, OthersStayPosted
<1>5. m.tid \in Tids /\ m.key \in Keys /\ m.val \in Contents
  BY <1>1, <1>2, TakenFields DEF Requests, SendOps
<1>6. /\ m.tid \in Session(c, tid[c]) /\ Owner(m.tid) = c
      /\ m.tid \notin TidsIn(s2c[c]) \cup TidsIn(wcq[c])
      /\ m.tid \notin ToSet(sorted_q)
  BY <1>2, <1>3, <1>5, PostedElsewhere
<1>7. internal_q[m.tid] = NoReq
  BY <1>1, <1>2, <1>3 DEF Orderly, PostedRight
<1>8. CASE RecvSet(c)
  <2>1. /\ m.op = "SET"
        /\ handle_set_request(m.tid, m.key, m.val, m.val, sorted_q)
    BY <1>8 DEF RecvSet, TakeRequest
  <2>2. HandledAs(m.tid, "SET", m.key, m.val, sorted_q)
    BY <1>2, <1>5, <1>6, <2>1, SetIsHandled
  <2>3. Alive(c) /\ NeedsAnswer("SET", m.key, m.val) => UndoneFor(m.tid, m.key)
    BY <1>2, <1>3, <2>1 DEF Orderly, PostedRight
  <2>4. ReadyToServe(c, m.tid, "SET", m.key, m.val, sorted_q)
    BY <1>2, <1>3, <1>6, <1>7, <2>3 DEF ReadyToServe
  <2>5. "SET" \in Requests
    BY DEF Requests
  <2>6. Serves(c, m.tid, "SET", m.key, m.val, sorted_q)
    BY <1>3, <1>4, <2>2, <2>4, <2>5 DEF Serves
  <2> QED
    BY <1>3, <1>5, <1>7, <1>8, <2>1, <2>6
<1>9. CASE RecvGet(c)
  <2>1. m.op = "GET" /\ handle_get_request(m.tid, m.key, sorted_q)
    BY <1>9 DEF RecvGet, TakeRequest
  <2>2. HandledAs(m.tid, "GET", m.key, Empty, sorted_q)
    BY <1>2, <1>5, <1>6, <2>1, GetIsHandled
  <2>3. Alive(c) => UndoneFor(m.tid, m.key)
    BY <1>2, <1>3, <2>1 DEF Orderly, PostedRight, NeedsAnswer
  <2>4. ReadyToServe(c, m.tid, "GET", m.key, Empty, sorted_q)
    BY <1>2, <1>3, <1>6, <1>7, <2>3 DEF ReadyToServe
  <2>5. "GET" \in Requests
    BY DEF Requests
  <2>6. Serves(c, m.tid, "GET", m.key, Empty, sorted_q)
    BY <1>3, <1>4, <2>2, <2>4, <2>5 DEF Serves
  <2> QED
    BY <1>3, <1>5, <1>7, <1>9, <2>1, <2>6
<1> QED
  BY <1>8, <1>9

LEMMA RecvStaysAccounted ==
    ASSUME PlInv, TypeOK', NEW c \in Clients, RecvSet(c) \/ RecvGet(c)
    PROVE  \A u \in Tids : Accounted(u)'
<1>1. PICK m : m = Head(c2s[c])
  OBVIOUS
<1>2. /\ m \in Posted(c) /\ m.tid \in Tids
      /\ \/ /\ m.op = "SET"
            /\ Serves(c, m.tid, "SET", m.key, m.val, sorted_q)
         \/ /\ m.op = "GET"
            /\ Serves(c, m.tid, "GET", m.key, Empty, sorted_q)
  BY <1>1, RecvServes DEF PlInv
<1>3. Owner(m.tid) = c
  BY <1>2 DEF Serves, ReadyToServe, Session
<1>4. /\ Forgotten(m.op, m.tid, m.key, m.val)
      /\ Forgotten("GET", m.tid, m.key, Empty)
  BY <1>2, <1>3 DEF PlInv, Accounted, Forgotten
<1> QED
  BY <1>2, <1>4, ServingStaysAccounted

(* A queued request. *)
LEMMA PendingServes ==
    ASSUME RInv, ServePending, NEW t, t = Head(sorted_q),
           NEW q, q = Tail(sorted_q), NEW r, r = internal_q[t]
    PROVE  /\ t \in Tids /\ t \in Listed /\ Owner(t) \in Clients
           /\ r \in Request /\ r # NoReq
           /\ \/ r.op = "SET" /\ handle_set_request(t, r.key, r.val, r.payload, q)
              \/ r.op = "GET" /\ handle_get_request(t, r.key, q)
           /\ Serves(Owner(t), t, r.op, r.key, r.val, q)
<1>1. /\ TypeOK /\ IsInjective(sorted_q) /\ \A b \in Clients : Orderly(b)
      /\ sorted_q \in Seq(Tids) /\ sorted_q # <<>> /\ ServerTypeOK
      /\ UNCHANGED <<pending, tid, pc, wcq, c2s>>
  BY DEF RInv, TInv, IInv, ListInOrder, TypeOK, ServerTypeOK, ServePending,
     clientVars
<1>2. t \in Tids /\ q \in Seq(Tids) /\ r \in Request
  BY <1>1, ServedRequest
<1>3. r.key \in Keys /\ r.val \in Contents /\ r.payload \in Contents
  BY <1>2 DEF Request
<1>4. /\ t \in ToSet(sorted_q) /\ IsInjective(q)
      /\ ToSet(q) = ToSet(sorted_q) \ {t}
  BY <1>1, HeadTaken
<1>5. PICK c : c = Owner(t)
  OBVIOUS
<1>6. /\ c \in Clients /\ Orderly(c)
      /\ QueuedRight(c, t) /\ r # NoReq
  BY <1>1, <1>2, <1>5, OwnerType, RequestAssumption DEF Orderly
<1>7. /\ t \in Session(c, tid[c]) /\ pc[c] # "out"
      /\ t \notin TidsIn(s2c[c]) \cup TidsIn(wcq[c])
      /\ t \notin TidsIn(c2s[c])
  BY <1>2, <1>4, <1>5, <1>6
  DEF QueuedRight, Session, Orderly, SlotIsClean, Apart
<1>8. /\ Distinct(c2s'[c])
      /\ \A m \in Posted(c)' : m \in Posted(c) /\ m.tid # t
  BY <1>1, <1>6, <1>7 DEF Orderly, Apart, TidsIn, Posted
<1>9. Alive(c) /\ NeedsAnswer(r.op, r.key, r.val) => UndoneFor(t, r.key)
  BY <1>4, <1>6 DEF QueuedRight, Listed
<1>10. ReadyToServe(c, t, r.op, r.key, r.val, q)
  BY <1>1, <1>2, <1>4, <1>7, <1>8, <1>9 DEF ReadyToServe
<1>11. \/ r.op = "SET" /\ handle_set_request(t, r.key, r.val, r.payload, q)
       \/ r.op = "GET" /\ handle_get_request(t, r.key, q)
  BY DEF ServePending
<1>12. HandledAs(t, r.op, r.key, r.val, q) /\ r.op \in Requests
  <2>0. /\ ServerTypeOK /\ t \in Tids /\ q \in Seq(Tids) /\ IsInjective(q)
        /\ r.key \in Keys /\ r.val \in Contents /\ r.payload \in Contents
    BY <1>1, <1>2, <1>3, <1>4
  <2>1. t \notin ToSet(q) /\ internal_q[t] # NoReq
    BY <1>4, <1>6
  <2>2. CASE /\ r.op = "SET"
             /\ handle_set_request(t, r.key, r.val, r.payload, q)
    BY <2>0, <2>1, <2>2, SetIsHandled DEF Requests
  <2>3. CASE r.op = "GET" /\ handle_get_request(t, r.key, q)
    BY <2>0, <2>1, <2>3, GetIsHandled DEF Requests
  <2> QED
    BY <1>11, <2>2, <2>3
<1>13. Serves(c, t, r.op, r.key, r.val, q)
  BY <1>1, <1>10, <1>12 DEF Serves, Posted
<1> QED
  BY <1>2, <1>4, <1>5, <1>6, <1>11, <1>13 DEF Listed

LEMMA ServeStaysAccounted ==
    ASSUME PlInv, TypeOK', ServePending
    PROVE  \A u \in Tids : Accounted(u)'
<1>1. PICK t : t = Head(sorted_q)
  OBVIOUS
<1>2. PICK q : q = Tail(sorted_q)
  OBVIOUS
<1>3. PICK r : r = internal_q[t]
  OBVIOUS
<1>4. /\ t \in Tids /\ t \in Listed /\ Owner(t) \in Clients
      /\ Serves(Owner(t), t, r.op, r.key, r.val, q)
  BY <1>1, <1>2, <1>3, PendingServes DEF PlInv
<1>5. Forgotten(r.op, t, r.key, r.val)
  BY <1>3, <1>4 DEF PlInv, Accounted, ForgottenListed
<1> QED
  BY <1>4, <1>5, ServingStaysAccounted

(* A received FIN: the request that it ends is done already. *)
LEMMA FinMoves ==
    ASSUME RInv, NEW c \in Clients, RecvFin(c), NEW m, m = Head(c2s[c])
    PROVE  /\ m \in Posted(c) /\ m.op = "FIN"
           /\ m.tid \in Tids /\ Owner(m.tid) = c
           /\ \A n \in Posted(c)' : n.tid # m.tid
           /\ m.tid \notin TidsIn(s2c[c]) \cup TidsIn(wcq[c]) \cup Listed
           /\ UNCHANGED <<pending, tid, pc, wcq, s2c, sorted_q>>
           /\ Moves({m.tid})
<1>1. TakeRequest(c, "FIN")
  BY DEF RecvFin
<1>2. /\ TypeOK /\ PolledAreSends /\ \A b \in Clients : Orderly(b)
      /\ IsInjective(sorted_q) /\ sorted_q \in Seq(Tids)
      /\ \A b \in Clients : tid[b] \in Nat
      /\ internal_q \in [Tids -> Request \cup {NoReq}]
  BY DEF RInv, TInv, IInv, ListInOrder, TypeOK, ServerTypeOK, ClientTypeOK
<1>3. /\ m \in Posted(c) /\ m.op = "FIN"
      /\ \A n \in Posted(c)' : n \in Posted(c) /\ n.tid # m.tid
      /\ \A b \in Clients \ {c} : c2s'[b] = c2s[b]
      /\ UNCHANGED <<pending, tid, pc, wcq>>
  BY <1>1, <1>2, TakenIsPosted
<1>4. \A n \in Posted(c) : n.tid # m.tid => n \in Posted(c)'
  BY <1>1, <1>2, OthersStayPosted
<1>5. m.tid \in Tids
  BY <1>1, <1>2, TakenFields DEF SendOps
<1>6. /\ Owner(m.tid) = c
      /\ m.tid \notin TidsIn(s2c[c]) \cup TidsIn(wcq[c])
      /\ m.tid \notin ToSet(sorted_q)
  BY <1>2, <1>3, <1>5, PostedElsewhere
<1>7. /\ UNCHANGED <<s2c, sorted_q>>
      /\ \A u \in Tids \ {m.tid} : internal_q'[u] = internal_q[u]
  <2>1. CASE UNCHANGED serverVars
    BY <2>1 DEF serverVars
  <2>2. CASE /\ remove_server_pending_request(m.tid, db, sorted_q)
             /\ UNCHANGED s2c
    <3>1. RemoveFirst(sorted_q, m.tid) = sorted_q
      BY <1>2, <1>5, <1>6, ListElements
    <3> QED
      BY <1>2, <1>5, <2>2, <3>1 DEF remove_server_pending_request
  <2> QED
    BY <2>1, <2>2 DEF RecvFin
<1>8. Moves({m.tid})
  <2>1. \A b \in Clients :
          /\ tid[b] <= tid'[b] /\ (Alive(b) => Alive(b)')
          /\ \A n \in Posted(b) : n.tid # m.tid => n \in Posted(b)'
          /\ \A n \in Posted(b)' : n \in Posted(b)
          /\ Replied(b)' = Replied(b) /\ Completed(b)' = Completed(b)
    BY <1>2, <1>3, <1>4, <1>7 DEF Alive, Posted, Replied, Completed
  <2> QED
    BY <1>3, <1>7, <2>1, OwnerType DEF Moves, Listed
<1> QED
  BY <1>3, <1>5, <1>6, <1>7, <1>8 DEF Listed

LEMMA FinStaysAccounted ==
    ASSUME PlInv, TypeOK', NEW c \in Clients, RecvFin(c)
    PROVE  \A u \in Tids : Accounted(u)'
<1>1. PICK m : m = Head(c2s[c])
  OBVIOUS
<1>2. /\ m \in Posted(c) /\ m.op = "FIN"
      /\ m.tid \in Tids /\ Owner(m.tid) = c
      /\ \A n \in Posted(c)' : n.tid # m.tid
      /\ m.tid \notin TidsIn(s2c[c]) \cup TidsIn(wcq[c]) \cup Listed
      /\ UNCHANGED <<pending, tid, pc, wcq, s2c, sorted_q>>
      /\ Moves({m.tid})
  BY <1>1, FinMoves DEF PlInv
<1>3. TypeOK /\ Orderly(c) /\ \A u \in Tids : Accounted(u)
  BY DEF PlInv, RInv, TInv, IInv
<1>4. ~Undone(m.tid)
  <2>1. \A n \in Posted(c) : n.tid = m.tid => n = m
    <3>1. Distinct(c2s[c]) /\ c2s[c] \in Seq(WorkRequest)
      BY <1>3 DEF Orderly, Apart, TypeOK, ClientTypeOK
    <3>2. \A n \in Posted(c) : \E i \in 1 .. Len(c2s[c]) : c2s[c][i] = n
      BY <3>1, Elements DEF Posted
    <3> QED
      BY <1>2, <3>1, <3>2 DEF Distinct
  <2>2. ~Placed(m.tid)
    BY <1>2, <2>1 DEF Placed
  <2> QED
    BY <1>2, <1>3, <2>2 DEF Accounted
<1>5. Accounted(m.tid)'
  <2>1. Accounted(m.tid) /\ m.tid \notin Listed' /\ ~Undone(m.tid)'
    BY <1>2, <1>3, <1>4 DEF Listed, Undone
  <2> QED
    BY <1>2, <2>1 DEF Accounted, Alive
<1> QED
  BY <1>2, <1>3, <1>5, OthersStayAccounted

(* A received shutdown message: its client is gone. *)
LEMMA ShutdownMoves ==
    ASSUME RInv, NEW c \in Clients, RecvShutdown(c)
    PROVE  /\ SlotMoves(c) /\ ~Alive(c)
           /\ \A n \in Posted(c) : n = Shutdown \/ n \in Posted(c)'
           /\ UNCHANGED <<serverVars, pending, tid, pc, wcq>>
<1>1. PICK m : m = Head(c2s[c])
  OBVIOUS
<1>2. TakeRequest(c, "SHUTDOWN") /\ UNCHANGED serverVars
  BY DEF RecvShutdown
<1>3. TypeOK /\ PolledAreSends /\ \A b \in Clients : Orderly(b)
  BY DEF RInv, TInv, IInv
<1>4. /\ m \in Posted(c) /\ m.op = "SHUTDOWN"
      /\ \A n \in Posted(c)' : n \in Posted(c)
      /\ \A b \in Clients \ {c} : c2s'[b] = c2s[b]
      /\ UNCHANGED <<pending, tid, pc, wcq>>
  BY <1>1, <1>2, <1>3, TakenIsPosted
<1>5. m = Shutdown
  <2>1. m \in WorkRequest
    BY <1>3, <1>4, PlacedTids
  <2> QED
    BY <1>4, <2>1 DEF WorkRequest, SendOps, RdmaOps
<1>6. ~Alive(c)
  BY <1>3, <1>4, <1>5 DEF Orderly, SlotIsClean, Alive
<1>7. \A n \in Posted(c) : n = Shutdown \/ n \in Posted(c)'
  <2>1. \A n \in Posted(c) : n.tid # m.tid => n \in Posted(c)'
    BY <1>1, <1>2, <1>3, OthersStayPosted
  <2>2. \A n \in Posted(c) : n = Shutdown \/ n.tid \in Tids
    BY <1>3, PlacedTids DEF Session
  <2>3. m.tid \notin Tids
    BY <1>5, LoopAssumption DEF Shutdown, Tids
  <2> QED
    BY <2>1, <2>2, <2>3
<1> QED
  BY <1>2, <1>4, <1>6, <1>7
  DEF SlotMoves, serverVars, Listed, Replied, Completed

LEMMA ShutdownStaysAccounted ==
    ASSUME PlInv, TypeOK', NEW c \in Clients, RecvShutdown(c)
    PROVE  \A u \in Tids : Accounted(u)'
<1>1. SlotMoves(c) /\ ~Alive(c) /\ UNCHANGED pending
  BY ShutdownMoves DEF PlInv
<1>2. \A u \in Tids : Owner(u) = c => pending'[u] = NoReq
  BY <1>1 DEF PlInv, Accounted
<1> QED
  BY <1>1, <1>2, GoneStaysAccounted

(* A request of a connection that is being removed, and the end of it. *)
LEMMA RemovalMoves ==
    ASSUME RInv, InvalidateRequest \/ \E c \in Clients : RemoveConnection(c),
           NEW c, c = closing
    PROVE  /\ c \in Clients /\ SlotMoves(c) /\ ~Alive(c)
           /\ UNCHANGED <<wcq, tid, pending>>
           /\ \A b \in Clients : Alive(b)' <=> Alive(b)
           /\ Posted(c)' \subseteq Posted(c)
           /\ \A u \in Listed' : u \in Listed /\ internal_q'[u] = internal_q[u]
<1>1. /\ TypeOK
      /\ IsInjective(sorted_q) /\ sorted_q \in Seq(Tids)
      /\ internal_q \in [Tids -> Request \cup {NoReq}]
  BY DEF RInv, TInv, IInv, ListInOrder, TypeOK, ServerTypeOK
<1>2. c \in Clients
  BY LoopAssumption
  DEF InvalidateRequest, RemoveConnection, TypeOK, LoopTypeOK, RInv, TInv, IInv
<1>3. pc[c] = "gone" /\ ~Alive(c)
  BY <1>2, LoopAssumption DEF RInv, Closings, Alive
<1>4. CASE InvalidateRequest
  <2>1. PICK t \in QueuedBy(closing) :
             remove_server_pending_request(t, db, sorted_q)
    BY <1>4 DEF InvalidateRequest
  <2>2. t \in Tids /\ Owner(t) = c
    BY <1>2, <2>1 DEF QueuedBy
  <2>3. UNCHANGED <<s2c, pending, tid, pc, wcq, c2s>>
    BY <1>4 DEF InvalidateRequest, clientVars
  <2>4. /\ \A u \in Tids \ {t} : internal_q'[u] = internal_q[u]
        /\ sorted_q' = RemoveFirst(sorted_q, t)
    BY <1>1, <2>1, <2>2 DEF remove_server_pending_request
  <2>5. Listed' = Listed \ {t} /\ Listed \subseteq Tids
    BY <1>1, <2>2, <2>4, ListElements, Elements DEF Listed
  <2>6. SlotMoves(c)
    BY <2>2, <2>3, <2>4, <2>5 DEF SlotMoves, Posted, Replied, Completed
  <2>7. /\ \A b \in Clients : Alive(b)' <=> Alive(b)
        /\ Posted(c)' = Posted(c)
    BY <2>3 DEF Alive, Posted
  <2> QED
    BY <1>2, <1>3, <2>3, <2>4, <2>5, <2>6, <2>7
<1>5. ASSUME NEW d \in Clients, RemoveConnection(d)
      PROVE  /\ SlotMoves(c) /\ UNCHANGED <<wcq, tid, pending>>
             /\ \A b \in Clients : Alive(b)' <=> Alive(b)
             /\ Posted(c)' = {}
             /\ QuietServer
  <2>1. /\ QuietServer /\ UNCHANGED <<wcq, tid, pending>> /\ d = c
        /\ c2s'[d] = <<>> /\ s2c'[d] = <<>> /\ pc'[d] = "out"
        /\ \A b \in Clients \ {d} :
              c2s'[b] = c2s[b] /\ s2c'[b] = s2c[b] /\ pc'[b] = pc[b]
    BY <1>1, <1>2, <1>3, <1>5 DEF RemoveConnection, QuietServer, TypeOK,
       ClientTypeOK, ServerTypeOK
  <2>2. Posted(d)' = {} /\ Replied(d)' = {}
    BY <2>1, NoElements DEF Posted, Replied
  <2>3. SlotMoves(c)
    BY <2>1, <2>2 DEF SlotMoves, QuietServer, Listed, Completed
  <2>4. \A b \in Clients : Alive(b)' <=> Alive(b)
    BY <1>3, <2>1 DEF Alive
  <2> QED
    BY <2>1, <2>2, <2>3, <2>4
<1> QED
  BY <1>2, <1>3, <1>4, <1>5 DEF QuietServer, Listed

LEMMA RemovalStaysAccounted ==
    ASSUME PlInv, TypeOK',
           InvalidateRequest \/ \E c \in Clients : RemoveConnection(c)
    PROVE  \A u \in Tids : Accounted(u)'
<1>1. PICK c : c = closing
  OBVIOUS
<1>2. c \in Clients /\ SlotMoves(c) /\ ~Alive(c) /\ UNCHANGED pending
  BY <1>1, RemovalMoves DEF PlInv
<1>3. \A u \in Tids : Owner(u) = c => pending'[u] = NoReq
  BY <1>2 DEF PlInv, Accounted
<1> QED
  BY <1>2, <1>3, GoneStaysAccounted

-----------------------------------------------------------------------------
(* All the steps.                                                          *)

(* Every step keeps every tid accounted for. *)
LEMMA AccountedStep ==
    ASSUME PlInv, [Next]_vars, TypeOK'
    PROVE  \A u \in Tids : Accounted(u)'
<1>1. CASE \/ ibv_poll_cq \/ StartPass \/ EndPass \/ UNCHANGED vars
           \/ \E c \in Clients : RemoveFailedConnection(c)
  <2>1. QuietServer /\ UNCHANGED <<s2c, wcq, c2s, tid, pc, pending>>
    BY <1>1 DEF ibv_poll_cq, StartPass, EndPass, RemoveFailedConnection,
       vars, serverVars, clientVars, QuietServer
  <2>2. PICK T \in SUBSET Tids : T = {}
    OBVIOUS
  <2> QED
    BY <2>1, <2>2, QuietStaysAccounted DEF Alive
<1>2. ASSUME NEW c \in Clients, ClientStep(c)
      PROVE  \A u \in Tids : Accounted(u)'
  BY <1>2, CallsStayAccounted, ReturnStaysAccounted, EndsStayAccounted,
     PollStaysAccounted
  DEF ClientStep
<1>3. ASSUME NEW c \in Clients, NetworkStep(c) \/ accept_new_connection(c)
      PROVE  \A u \in Tids : Accounted(u)'
  BY <1>3, NetworkStaysAccounted, AcceptStaysAccounted
<1>4. ASSUME NEW c \in Clients, handle_recv_request(c)
      PROVE  \A u \in Tids : Accounted(u)'
  BY <1>4, RecvStaysAccounted, FinStaysAccounted, ShutdownStaysAccounted
  DEF handle_recv_request
<1>5. CASE \/ InvalidateRequest \/ ServePending
           \/ \E c \in Clients : RemoveConnection(c)
  BY <1>5, RemovalStaysAccounted, ServeStaysAccounted
<1> QED
  BY <1>1, <1>2, <1>3, <1>4, <1>5 DEF Next, ServerStep

(* At the start there is nothing to account for. *)
LEMMA InitAccounted == Init => PlInv
<1> SUFFICES ASSUME Init
             PROVE  PlInv
  OBVIOUS
<1>1. \A t \in Tids : pending[t] = NoReq
  BY DEF Init
<1>2. \A t \in Tids : Accounted(t)
  BY <1>1 DEF Accounted, Undone, ForgottenListed, Forgotten
<1> QED
  BY <1>2, InitSecured DEF PlInv

LEMMA PlacesInvariance == Spec => []PlInv
<1>1. PlInv /\ [Next]_vars /\ RInv' => PlInv'
  <2>1. RInv' => TypeOK'
    BY DEF RInv, TInv, IInv
  <2> QED
    BY <2>1, AccountedStep DEF PlInv
<1> QED
  BY InitAccounted, SecuredInvariance, <1>1, PTL DEF Spec
-----------------------------------------------------------------------------
(* The places are counted.                                                 *)

(* Where no tid occurs twice, a tid occurs once or not at all. *)
LEMMA OnceAtMost ==
    ASSUME NEW S, NEW s \in Seq(S), Distinct(s), NEW t, NEW ops
    PROVE  Occurrences(t, s, ops) =
             IF \E m \in ToSet(s) : m.tid = t /\ m.op \in ops THEN 1 ELSE 0
<1> DEFINE I == {i \in DOMAIN s : s[i].tid = t /\ s[i].op \in ops}
<1>1. DOMAIN s = 1 .. Len(s) /\ ToSet(s) = {s[i] : i \in 1 .. Len(s)}
  BY Elements, LenProperties
<1>2. CASE \E m \in ToSet(s) : m.tid = t /\ m.op \in ops
  <2>1. PICK i \in I : TRUE
    BY <1>1, <1>2
  <2>2. I = {i}
    BY <1>1, <2>1 DEF Distinct
  <2> QED
    BY <1>2, <2>2, FS_Singleton DEF Occurrences
<1>3. CASE ~\E m \in ToSet(s) : m.tid = t /\ m.op \in ops
  <2>1. I = {}
    BY <1>1, <1>3
  <2> QED
    BY <1>3, <2>1, FS_EmptySet DEF Occurrences
<1> QED
  BY <1>2, <1>3

(* The five places of a request; a posted one is either. *)
IsPosted(t, ops)  == \E m \in Posted(Owner(t)) : m.tid = t /\ m.op \in ops
IsReplied(t)   == t \in TidsIn(s2c[Owner(t)])
IsCompleted(t) == t \in TidsIn(wcq[Owner(t)])

(* No two of them at a time. *)
LEMMA OnePlace ==
    ASSUME RInv, NEW t \in Tids
    PROVE  /\ IsPosted(t, Requests) =>
                ~IsPosted(t, RdmaOps) /\ ~IsReplied(t) /\ ~IsCompleted(t)
                   /\ t \notin Listed
           /\ IsPosted(t, RdmaOps) =>
                ~IsReplied(t) /\ ~IsCompleted(t) /\ t \notin Listed
           /\ IsReplied(t) => ~IsCompleted(t) /\ t \notin Listed
           /\ IsCompleted(t) => t \notin Listed
<1> DEFINE c == Owner(t)
<1>1. Apart(c, c2s[c], s2c[c], wcq[c], tid[c], sorted_q)
  BY OwnerType DEF RInv, TInv, Orderly
<1>2. \A ops : IsPosted(t, ops) => t \in TidsIn(c2s[c])
  BY DEF IsPosted, Posted, TidsIn
<1>3. IsPosted(t, Requests) => ~IsPosted(t, RdmaOps)
  <2>1. c2s[c] \in Seq(WorkRequest)
    BY OwnerType DEF RInv, TInv, IInv, TypeOK, ClientTypeOK
  <2>2. \A m, n \in Posted(c) : m.tid = n.tid => m = n
    <3>1. \A m \in Posted(c) : \E i \in 1 .. Len(c2s[c]) : c2s[c][i] = m
      BY <2>1, Elements DEF Posted
    <3> QED
      BY <1>1, <3>1 DEF Apart, Distinct
  <2> QED
    BY <2>2 DEF IsPosted, Requests, RdmaOps
<1>4. TidsIn(c2s[c]) \cap (TidsIn(s2c[c]) \cup TidsIn(wcq[c])) = {}
      /\ TidsIn(s2c[c]) \cap TidsIn(wcq[c]) = {}
      /\ (TidsIn(c2s[c]) \cup TidsIn(s2c[c]) \cup TidsIn(wcq[c]))
            \cap ToSet(sorted_q) = {}
  BY <1>1 DEF Apart
<1> QED
  BY <1>2, <1>3, <1>4 DEF IsReplied, IsCompleted, Listed

(* A place holds no request but one that its client waits for, or a SET    *)
(* that needs no answer.                                                   *)
LEMMA PlaceIsRight ==
    ASSUME PlInv, NEW t \in Tids, Alive(Owner(t))
    PROVE  /\ IsPosted(t, RdmaOps) \/ IsReplied(t) \/ IsCompleted(t) =>
                Undone(t)
           /\ IsPosted(t, Requests) \/ t \in Listed =>
                Undone(t) \/ pending[t] = NoReq
<1> DEFINE c == Owner(t)
<1>1. Orderly(c) /\ Accounted(t) /\ TypeOK
  BY OwnerType DEF PlInv, RInv, TInv, IInv
<1>2. IsPosted(t, RdmaOps) => Undone(t)
  BY <1>1 DEF IsPosted, Orderly, PostedRight, UndoneFor
<1>3. IsReplied(t) => Undone(t)
  BY <1>1 DEF IsReplied, TidsIn, Replied, Orderly, RepliedRight, UndoneFor
<1>4. IsCompleted(t) => Undone(t)
  BY <1>1 DEF IsCompleted, TidsIn, Completed, Orderly, CompletedRight
<1>5. IsPosted(t, Requests) => Undone(t) \/ pending[t] = NoReq
  BY <1>1 DEF IsPosted, Requests, Orderly, PostedRight, UndoneFor,
     NeedsAnswer, Accounted, Forgotten
<1>6. t \in Listed => Undone(t) \/ pending[t] = NoReq
  <2>1. ASSUME t \in Listed
        PROVE  Undone(t) \/ pending[t] = NoReq
    <3> DEFINE r == internal_q[t]
    <3>1. QueuedRight(c, t) /\ r # NoReq
      BY <1>1, <2>1 DEF Orderly, QueuedRight
    <3>2. r.op \in {"SET", "GET"}
      BY <1>1, <3>1 DEF TypeOK, ServerTypeOK, Request
    <3>3. NeedsAnswer(r.op, r.key, r.val) => Undone(t)
      BY <2>1, <3>1 DEF QueuedRight, UndoneFor
    <3>4. r.op = "SET" /\ EagerSet(r.key, r.val) => pending[t] = NoReq
      BY <1>1, <2>1 DEF Accounted, ForgottenListed, Forgotten
    <3> QED
      BY <3>2, <3>3, <3>4 DEF NeedsAnswer
  <2> QED
    BY <2>1
<1> QED
  BY <1>2, <1>3, <1>4, <1>5, <1>6

(* What a running client has asked for and not received is in exactly one  *)
(* place, from the send queue to the completion of its RDMA request, and   *)
(* what is done or needs no answer will not be answered again: the handlers *)
(* of client.c, which use the record they look up without a check, always  *)
(* find it.                                                                *)
THEOREM RequestsInOnePlace == Spec => []RequestsAreInOnePlace
<1>1. PlInv => RequestsAreInOnePlace
  <2> SUFFICES ASSUME PlInv, NEW t \in Tids, Alive(Owner(t))
               PROVE  IF pending[t] = NoReq
                      THEN Unanswered(t) <= 1 /\ Answered(t) = 0
                      ELSE Unanswered(t) + Answered(t) =
                              IF pending[t].done THEN 0 ELSE 1
    BY DEF RequestsAreInOnePlace
  <2> DEFINE c == Owner(t)
  <2>1. /\ RInv /\ TypeOK /\ c \in Clients /\ Orderly(c) /\ Accounted(t)
        /\ c2s[c] \in Seq(WorkRequest) /\ s2c[c] \in Seq(Reply)
        /\ wcq[c] \in Seq(Completion)
        /\ Distinct(c2s[c]) /\ Distinct(s2c[c]) /\ Distinct(wcq[c])
    BY OwnerType DEF PlInv, RInv, TInv, IInv, Orderly, Apart, TypeOK,
       ClientTypeOK, ServerTypeOK
  <2>2. \A ops : Occurrences(t, c2s[c], ops) =
                    IF IsPosted(t, ops) THEN 1 ELSE 0
    BY <2>1, OnceAtMost DEF IsPosted, Posted
  <2>3. Occurrences(t, s2c[c], ReplyOps) = IF IsReplied(t) THEN 1 ELSE 0
    <3>1. \A m \in ToSet(s2c[c]) : m \in Reply
      BY <2>1, Elements
    <3>2. IsReplied(t) <=>
             \E m \in ToSet(s2c[c]) : m.tid = t /\ m.op \in ReplyOps
      BY <3>1 DEF IsReplied, TidsIn, Reply
    <3> QED
      BY <2>1, <3>2, OnceAtMost
  <2>4. Occurrences(t, wcq[c], RdmaOps) = IF IsCompleted(t) THEN 1 ELSE 0
    <3>1. \A m \in ToSet(wcq[c]) : m \in Completion
      BY <2>1, Elements
    <3>2. IsCompleted(t) <=>
             \E m \in ToSet(wcq[c]) : m.tid = t /\ m.op \in RdmaOps
      BY <3>1 DEF IsCompleted, TidsIn, Completion
    <3> QED
      BY <2>1, <3>2, OnceAtMost
  <2>5. /\ Unanswered(t) = (IF IsPosted(t, Requests) THEN 1 ELSE 0)
                              + IF t \in Listed THEN 1 ELSE 0
        /\ Answered(t) = (IF IsReplied(t) THEN 1 ELSE 0)
                            + (IF IsPosted(t, RdmaOps) THEN 1 ELSE 0)
                            + IF IsCompleted(t) THEN 1 ELSE 0
    BY <2>2, <2>3, <2>4 DEF Unanswered, Answered, Requests, Listed
  <2>6. Undone(t) => \/ IsPosted(t, Requests) \/ IsPosted(t, RdmaOps)
                     \/ IsReplied(t) \/ IsCompleted(t) \/ t \in Listed
    <3>1. ASSUME NEW m \in Posted(c), m.tid = t, m.op # "FIN"
          PROVE  m.op \in Requests \cup RdmaOps
      <4>1. m \in WorkRequest
        BY <2>1, PlacedTids
      <4>2. m # Shutdown
        BY <3>1, LoopAssumption DEF Shutdown, Tids
      <4> QED
        BY <3>1, <4>1, <4>2 DEF WorkRequest, SendOps, Requests
    <3> QED
      BY <2>1, <3>1 DEF Accounted, Placed, IsPosted, IsReplied, IsCompleted
  <2>7. CASE Undone(t)
    BY <2>1, <2>5, <2>6, <2>7, OnePlace DEF Undone
  <2>8. CASE ~Undone(t)
    <3>1. /\ ~IsPosted(t, RdmaOps) /\ ~IsReplied(t) /\ ~IsCompleted(t)
          /\ IsPosted(t, Requests) \/ t \in Listed => pending[t] = NoReq
      BY <2>8, PlaceIsRight
    <3>2. IsPosted(t, Requests) => t \notin Listed
      BY <2>1, OnePlace
    <3> QED
      BY <2>5, <2>8, <3>1, <3>2 DEF Undone
  <2> QED
    BY <2>7, <2>8
<1> QED
  BY PlacesInvariance, <1>1, PTL

-----------------------------------------------------------------------------
(* The order of the list.                                                  *)

(* A pass that begins now reaches the end of the list. *)
ListIsShort == Len(sorted_q) <= SERVER_WC_BATCH + 1

Before(t, u) == Owner(t) = Owner(u) => t[2] < u[2]

(* In the middle of a pass with n requests still to serve the list has     *)
(* these, and then those pushed back, which came before them.              *)
PassInOrder(q, n) ==
    \A i, j \in 1 .. Len(q) :
        i < j => IF i <= n /\ n < j THEN Before(q[j], q[i])
                                    ELSE Before(q[i], q[j])

(* Requests are posted in the order they are made... *)
PostedInOrder(s) ==
    \A i, j \in 1 .. Len(s) :
        i < j /\ s[i].op \in Requests /\ s[j].op \in Requests =>
            s[i].tid[2] < s[j].tid[2]

(* ... and handled in this order. *)
ListedFirst(c) ==
    \A t \in Listed, m \in Posted(c) :
        Owner(t) = c /\ m.op \in Requests => t[2] < m.tid[2]

OInv ==
    /\ TInv
    /\ PassInOrder(sorted_q, todo)
    /\ \A c \in Clients : PostedInOrder(c2s[c]) /\ ListedFirst(c)

(* The sequence r has no other requests than s, and no other order. *)
KeepsOrder(s, r) ==
    /\ \A m \in ToSet(r) : m.op \in Requests => m \in ToSet(s)
    /\ PostedInOrder(s) => PostedInOrder(r)

LEMMA TakenOutKeepsOrder ==
    ASSUME NEW S, NEW s \in Seq(S), NEW r \in Seq(S), NEW i \in 1 .. Len(s),
           TakenOut(s, r, i)
    PROVE  /\ KeepsOrder(s, r)
           /\ PassInOrder(s, 0) => PassInOrder(r, 0)
<1>1. /\ Len(s) \in Nat /\ Len(r) \in Nat /\ Len(r) = Len(s) - 1
      /\ ToSet(s) = {s[j] : j \in 1 .. Len(s)}
      /\ ToSet(r) = {r[j] : j \in 1 .. Len(r)}
  BY Elements DEF TakenOut
<1> DEFINE was(k) == IF k < i THEN k ELSE k + 1
<1>2. /\ \A j \in 1 .. Len(r) : was(j) \in 1 .. Len(s) /\ r[j] = s[was(j)]
      /\ \A j, n \in 1 .. Len(r) : j < n => was(j) < was(n)
  BY <1>1 DEF TakenOut
<1> HIDE DEF was
<1>3. \A m \in ToSet(r) : m \in ToSet(s)
  BY <1>1, <1>2
<1>4. PostedInOrder(s) => PostedInOrder(r)
  BY <1>2 DEF PostedInOrder
<1>5. ASSUME PassInOrder(s, 0)
      PROVE  PassInOrder(r, 0)
  <2>1. \A j, n \in 1 .. Len(s) : j < n => Before(s[j], s[n])
    BY <1>1, <1>5 DEF PassInOrder
  <2>2. \A j, n \in 1 .. Len(r) : j < n => Before(r[j], r[n])
    BY <1>2, <2>1
  <2> QED
    BY <1>1, <2>2 DEF PassInOrder
<1> QED
  BY <1>3, <1>4, <1>5 DEF KeepsOrder

(* A message that is no request says nothing of the order. *)
LEMMA AppendKeepsOrder ==
    ASSUME NEW S, NEW s \in Seq(S), NEW m \in S, m.op \notin Requests
    PROVE  KeepsOrder(s, Append(s, m))
<1>1. /\ Len(s) \in Nat /\ Len(Append(s, m)) = Len(s) + 1
      /\ \A i \in 1 .. Len(s) : Append(s, m)[i] = s[i]
      /\ Append(s, m)[Len(s) + 1] = m
      /\ ToSet(Append(s, m)) = ToSet(s) \cup {m}
  BY AppendProperties, LenProperties, Added
<1>2. \A i \in 1 .. Len(Append(s, m)) : i \in 1 .. Len(s) \/ i = Len(s) + 1
  BY <1>1
<1>3. PostedInOrder(s) => PostedInOrder(Append(s, m))
  BY <1>1, <1>2 DEF PostedInOrder
<1> QED
  BY <1>1, <1>3 DEF KeepsOrder

LEMMA PrefixKeepsOrder ==
    ASSUME NEW S, NEW s \in Seq(S), NEW n \in 0 .. Len(s)
    PROVE  KeepsOrder(s, SubSeq(s, 1, n))
<1>1. Len(s) \in Nat /\ n \in Nat /\ n <= Len(s)
  BY LenProperties
<1>2. \A i \in 1 .. n : s[i] \in S
  BY <1>1, ElementOfSeq
<1>3. /\ Len(SubSeq(s, 1, n)) = IF 1 <= n THEN n - 1 + 1 ELSE 0
      /\ \A i \in 1 .. n - 1 + 1 : SubSeq(s, 1, n)[i] = s[1 + i - 1]
  BY <1>1, <1>2, SubSeqProperties
<1>4. /\ Len(SubSeq(s, 1, n)) = n
      /\ \A i \in 1 .. n : SubSeq(s, 1, n)[i] = s[i] /\ i \in 1 .. Len(s)
  BY <1>1, <1>3
<1>5. PostedInOrder(s) => PostedInOrder(SubSeq(s, 1, n))
  BY <1>4 DEF PostedInOrder
<1> QED
  BY <1>5, PrefixElements DEF KeepsOrder

(* A new request comes last. *)
LEMMA NewComesLast ==
    ASSUME NEW S, NEW s \in Seq(S), NEW m \in S, PostedInOrder(s),
           \A n \in ToSet(s) : n.op \in Requests => n.tid[2] < m.tid[2]
    PROVE  PostedInOrder(Append(s, m))
<1>1. /\ Len(s) \in Nat /\ Len(Append(s, m)) = Len(s) + 1
      /\ \A i \in 1 .. Len(s) : /\ Append(s, m)[i] = s[i]
                                /\ s[i] \in ToSet(s)
      /\ Append(s, m)[Len(s) + 1] = m
  BY AppendProperties, LenProperties, Elements
<1>2. \A i \in 1 .. Len(Append(s, m)) : i \in 1 .. Len(s) \/ i = Len(s) + 1
  BY <1>1
<1>3. ASSUME NEW i \in 1 .. Len(Append(s, m)),
             NEW j \in 1 .. Len(Append(s, m)), i < j, Append(s, m)[i].op \in Requests,
             Append(s, m)[j].op \in Requests
      PROVE  Append(s, m)[i].tid[2] < Append(s, m)[j].tid[2]
  <2>1. i \in 1 .. Len(s)
    BY <1>1, <1>3
  <2>2. CASE j \in 1 .. Len(s)
    BY <1>1, <1>3, <2>1, <2>2 DEF PostedInOrder
  <2>3. CASE j = Len(s) + 1
    BY <1>1, <1>3, <2>1, <2>3
  <2> QED
    BY <1>2, <2>2, <2>3
<1> QED
  BY <1>3 DEF PostedInOrder

(* A list without one of its tids. *)
LEMMA ListStaysInOrder ==
    ASSUME NEW q \in Seq(Tids), NEW t \in Tids, IsInjective(q),
           PassInOrder(q, 0)
    PROVE  PassInOrder(RemoveFirst(q, t), 0)
<1>1. CASE t \in ToSet(q)
  <2>1. PICK n \in 1 .. Len(q) : RemoveFirst(q, t) = RemoveAt(q, n)
    BY <1>1, FirstRemoved
  <2>2. RemoveAt(q, n) \in Seq(Tids) /\ TakenOut(q, RemoveAt(q, n), n)
    BY Removed
  <2> QED
    BY <2>1, <2>2, TakenOutKeepsOrder
<1>2. CASE t \notin ToSet(q)
  BY <1>2, ListElements
<1> QED
  BY <1>1, <1>2

(* A tid that comes after those of its client in the list. *)
LEMMA ListTakesInOrder ==
    ASSUME NEW q \in Seq(Tids), NEW t \in Tids, PassInOrder(q, 0),
           \A u \in ToSet(q) : Before(u, t)
    PROVE  PassInOrder(Append(q, t), 0)
<1>1. /\ Len(q) \in Nat /\ Len(Append(q, t)) = Len(q) + 1
      /\ \A i \in 1 .. Len(q) : Append(q, t)[i] = q[i] /\ q[i] \in ToSet(q)
      /\ Append(q, t)[Len(q) + 1] = t
  BY AppendProperties, LenProperties, Elements
<1>2. \A i, j \in 1 .. Len(q) : i < j => Before(q[i], q[j])
  BY <1>1 DEF PassInOrder
<1>3. ASSUME NEW i \in 1 .. Len(Append(q, t)),
             NEW j \in 1 .. Len(Append(q, t)), i < j
      PROVE  Before(Append(q, t)[i], Append(q, t)[j])
  <2>1. i \in 1 .. Len(q)
    BY <1>1, <1>3
  <2>2. CASE j \in 1 .. Len(q)
    BY <1>1, <1>2, <1>3, <2>1, <2>2
  <2>3. CASE j = Len(q) + 1
    BY <1>1, <2>1, <2>3
  <2> QED
    BY <1>1, <2>2, <2>3
<1> QED
  BY <1>1, <1>3 DEF PassInOrder

(* A pass goes on, with its first request dropped... *)
LEMMA PassDrops ==
    ASSUME NEW q \in Seq(Tids), q # <<>>, NEW n \in 1 .. Len(q),
           PassInOrder(q, n)
    PROVE  PassInOrder(Tail(q), n - 1)
<1>1. /\ Len(q) \in Nat /\ Len(Tail(q)) = Len(q) - 1
      /\ \A i \in 1 .. Len(Tail(q)) : Tail(q)[i] = q[i + 1]
  BY HeadTailProperties, EmptySeq, LenProperties
<1>2. ASSUME NEW i \in 1 .. Len(Tail(q)), NEW j \in 1 .. Len(Tail(q)), i < j
      PROVE  IF i <= n - 1 /\ n - 1 < j
             THEN Before(Tail(q)[j], Tail(q)[i])
             ELSE Before(Tail(q)[i], Tail(q)[j])
  <2>1. i + 1 \in 1 .. Len(q) /\ j + 1 \in 1 .. Len(q) /\ i + 1 < j + 1
    BY <1>1, <1>2
  <2>2. IF i + 1 <= n /\ n < j + 1
        THEN Before(q[j + 1], q[i + 1]) ELSE Before(q[i + 1], q[j + 1])
    BY <2>1 DEF PassInOrder
  <2>3. (i + 1 <= n <=> i <= n - 1) /\ (n < j + 1 <=> n - 1 < j)
    BY <1>1
  <2> QED
    BY <1>1, <2>2, <2>3
<1> QED
  BY <1>2 DEF PassInOrder

(* ... or pushed back. *)
LEMMA PassPushesBack ==
    ASSUME NEW q \in Seq(Tids), q # <<>>, NEW n \in 1 .. Len(q),
           PassInOrder(q, n)
    PROVE  PassInOrder(Append(Tail(q), Head(q)), n - 1)
<1> DEFINE t == Head(q)
           p == Tail(q)
           r == Append(p, t)
<1>1. /\ Len(q) \in Nat \ {0} /\ p \in Seq(Tids) /\ Len(p) = Len(q) - 1
      /\ t = q[1] /\ t \in Tids
      /\ \A i \in 1 .. Len(p) : p[i] = q[i + 1]
  BY HeadTailProperties, EmptySeq, LenProperties, ElementOfSeq
<1>2. PassInOrder(p, n - 1)
  BY PassDrops
<1> HIDE DEF t, p
<1>3. /\ Len(r) = Len(p) + 1 /\ r[Len(p) + 1] = t
      /\ \A i \in 1 .. Len(p) : r[i] = p[i]
  BY <1>1, AppendProperties
<1> HIDE DEF r
<1>4. ASSUME NEW i \in 1 .. Len(p)
      PROVE  IF i <= n - 1 THEN Before(t, r[i]) ELSE Before(r[i], t)
  <2>1. i + 1 \in 1 .. Len(q) /\ 1 \in 1 .. Len(q) /\ 1 < i + 1
        /\ r[i] = q[i + 1]
    BY <1>1, <1>3
  <2>2. IF 1 <= n /\ n < i + 1
        THEN Before(q[i + 1], q[1]) ELSE Before(q[1], q[i + 1])
    BY <2>1 DEF PassInOrder
  <2>3. 1 <= n /\ (n < i + 1 <=> ~(i <= n - 1))
    BY <1>1
  <2> QED
    BY <1>1, <2>1, <2>2, <2>3
<1>5. ASSUME NEW i \in 1 .. Len(r), NEW j \in 1 .. Len(r), i < j
      PROVE  IF i <= n - 1 /\ n - 1 < j THEN Before(r[j], r[i])
                                        ELSE Before(r[i], r[j])
  <2>1. i \in 1 .. Len(p)
    BY <1>1, <1>3, <1>5
  <2>2. CASE j \in 1 .. Len(p)
    BY <1>2, <1>3, <1>5, <2>1, <2>2 DEF PassInOrder
  <2>3. CASE j = Len(p) + 1
    <3>1. n - 1 < j /\ r[j] = t
      BY <1>1, <1>3, <2>3
    <3> QED
      BY <1>4, <2>1, <3>1
  <2> QED
    BY <1>1, <1>3, <2>2, <2>3
<1> QED
  BY <1>5 DEF PassInOrder, r, p, t

LEMMA SameKeepsOrder == \A s : KeepsOrder(s, s)
BY DEF KeepsOrder

(* A step that changes the requests of c only. *)
LEMMA OneKeepsOrder ==
    ASSUME TypeOK, NEW c \in Clients, NEW s,
           c2s' = [c2s EXCEPT ![c] = s], KeepsOrder(c2s[c], s)
    PROVE  \A b \in Clients : KeepsOrder(c2s[b], c2s'[b])
  BY SameKeepsOrder DEF TypeOK, ClientTypeOK

(* No step but a call brings new requests. *)
LEMMA OrderIsKept ==
    ASSUME OInv, Listed' \subseteq Listed,
           \A b \in Clients : KeepsOrder(c2s[b], c2s'[b])
    PROVE  \A b \in Clients : PostedInOrder(c2s[b])' /\ ListedFirst(b)'
  BY DEF OInv, KeepsOrder, ListedFirst, Posted

(* A call's request is the last of its client. *)
LEMMA CallComesLast ==
    ASSUME OInv, NEW c \in Clients, get_new_tid(c), UNCHANGED sorted_q,
           NEW m \in WorkRequest, m.tid = NextTid(c), Post(c, m)
    PROVE  \A b \in Clients : PostedInOrder(c2s[b])' /\ ListedFirst(b)'
<1>1. /\ TypeOK /\ Orderly(c) /\ tid[c] \in Nat
      /\ c2s[c] \in Seq(WorkRequest)
      /\ c2s'[c] = Append(c2s[c], m)
      /\ \A b \in Clients \ {c} : c2s'[b] = c2s[b]
  BY DEF OInv, TInv, IInv, TypeOK, ClientTypeOK, Post
<1>2. m.tid[2] = tid[c] + 1
  BY DEF NextTid
<1>3. ASSUME NEW n \in Posted(c), n.op \in Requests
      PROVE  n.tid[2] < m.tid[2]
  <2>1. n # Shutdown
    BY <1>3 DEF Shutdown, Requests
  <2>2. n.tid \in Tids /\ n.tid[2] <= tid[c]
    BY <1>1, <2>1, PlacedTids DEF Session
  <2> QED
    BY <1>1, <1>2, <2>2 DEF Tids
<1>4. ASSUME NEW t \in Listed, Owner(t) = c
      PROVE  t[2] < m.tid[2]
  <2>1. t \in Tids
    BY Elements DEF OInv, TInv, IInv, TypeOK, ServerTypeOK, Listed
  <2>2. QueuedRight(c, t)
    BY <1>1, <1>4, <2>1 DEF Orderly
  <2>3. t[2] <= tid[c] /\ t[2] \in Nat
    BY <1>4, <2>1, <2>2 DEF QueuedRight, Tids
  <2> QED
    BY <1>1, <1>2, <2>3
<1>5. PostedInOrder(c2s[c])'
  <2>1. PostedInOrder(c2s[c])
    BY DEF OInv
  <2> QED
    BY <1>1, <1>3, <2>1, NewComesLast DEF Posted
<1>6. Posted(c)' = Posted(c) \cup {m}
  BY <1>1, Added DEF Posted
<1>7. Listed' = Listed
  BY DEF Listed
<1>8. ListedFirst(c)'
  BY <1>4, <1>6, <1>7 DEF OInv, ListedFirst
<1>9. \A b \in Clients \ {c} : PostedInOrder(c2s[b])' /\ ListedFirst(b)'
  BY <1>1, <1>7 DEF OInv, ListedFirst, Posted
<1> QED
  BY <1>5, <1>8, <1>9

(* The steps of the clients and the network. *)
LEMMA PollsKeepOrder ==
    ASSUME TypeOK, NEW c \in Clients, ClientPoll(c)
    PROVE  \A b \in Clients : KeepsOrder(c2s[b], c2s'[b])
<1>1. c2s[c] \in Seq(WorkRequest)
  BY DEF TypeOK, ClientTypeOK
<1>2. CASE client_handle_get_response(c)
  BY <1>2, SameKeepsOrder DEF client_handle_get_response
<1>3. ASSUME ~client_handle_get_response(c)
      PROVE  \E m : Post(c, m) /\ m.op \notin Requests
  BY <1>3
  DEF ClientPoll, client_handle_recv_rdma_rkey_get,
      client_handle_recv_rdma_rkey_set, RdmaReadDone, RdmaWriteDone,
      client_send_rdma_fin, Message, Requests
<1>4. ASSUME NEW m, Post(c, m), m.op \notin Requests
      PROVE  \A b \in Clients : KeepsOrder(c2s[b], c2s'[b])
  <2>1. c2s[c] \in Seq(WorkRequest \cup {m})
    BY <1>1, SeqMonotonic
  <2>2. KeepsOrder(c2s[c], Append(c2s[c], m))
    BY <1>4, <2>1, AppendKeepsOrder
  <2> QED
    BY <1>4, <2>2, OneKeepsOrder DEF Post
<1> QED
  BY <1>2, <1>3, <1>4

LEMMA EndsKeepOrder ==
    ASSUME TypeOK, NEW c \in Clients, CloseDone(c) \/ ClientDie(c)
    PROVE  \A b \in Clients : KeepsOrder(c2s[b], c2s'[b])
<1>1. /\ c2s[c] \in Seq(WorkRequest)
      /\ Append(c2s[c], Shutdown) \in Seq(WorkRequest)
      /\ polled[c] \in Nat
  BY LoopAssumption, AppendProperties
  DEF TypeOK, ClientTypeOK, LoopTypeOK, WorkRequest
<1>2. ASSUME NEW p \in Seq(WorkRequest), NEW n \in Nat,
             NEW q \in Surviving(p, n)
      PROVE  KeepsOrder(p, q)
  <2>1. Len(p) \in Nat
    BY LenProperties
  <2>2. PICK m \in 0 .. Len(p) : q = SubSeq(p, 1, m)
    BY <1>2, <2>1 DEF Surviving
  <2> QED
    BY <2>2, PrefixKeepsOrder
<1>3. KeepsOrder(c2s[c], Append(c2s[c], Shutdown))
  <2>1. Shutdown \in WorkRequest /\ Shutdown.op \notin Requests
    BY DEF WorkRequest, Shutdown, Requests
  <2> QED
    BY <1>1, <2>1, AppendKeepsOrder
<1>4. ASSUME NEW p \in {c2s[c], Append(c2s[c], Shutdown)}, NEW n \in Nat,
             NEW q \in Surviving(p, n), c2s' = [c2s EXCEPT ![c] = q]
      PROVE  \A b \in Clients : KeepsOrder(c2s[b], c2s'[b])
  <2>1. KeepsOrder(c2s[c], p) /\ KeepsOrder(p, q)
    BY <1>1, <1>2, <1>3, <1>4, SameKeepsOrder
  <2>2. KeepsOrder(c2s[c], q)
    BY <2>1 DEF KeepsOrder
  <2> QED
    BY <1>4, <2>2, OneKeepsOrder
<1>5. CASE CloseDone(c)
  <2>1. PICK p : p = Append(c2s[c], Shutdown)
    OBVIOUS
  <2>2. PICK n \in Nat :
           \E q \in Surviving(p, n) : c2s' = [c2s EXCEPT ![c] = q]
    BY <1>5, <2>1, CloseSurvives
  <2> QED
    BY <1>4, <2>1, <2>2
<1>6. CASE ClientDie(c)
  <2>1. PICK n \in Nat :
           \E q \in Surviving(c2s[c], n) : c2s' = [c2s EXCEPT ![c] = q]
    BY <1>6, DieSurvives
  <2> QED
    BY <1>4, <2>1
<1> QED
  BY <1>5, <1>6

LEMMA NetworkKeepsOrder ==
    ASSUME TypeOK, NEW c \in Clients, NetworkStep(c)
    PROVE  \A b \in Clients : KeepsOrder(c2s[b], c2s'[b])
<1>1. CASE QpError(c)
  BY <1>1, SameKeepsOrder DEF QpError
<1>2. CASE RdmaWrite(c) \/ RdmaRead(c)
  <2>1. PICK i \in DOMAIN c2s[c] : RdmaExecute(c, i)
    BY <1>2 DEF RdmaWrite, RdmaRead
  <2>2. c2s[c] \in Seq(WorkRequest) /\ i \in 1 .. Len(c2s[c])
    BY <2>1, LenProperties DEF TypeOK, ClientTypeOK
  <2>3. KeepsOrder(c2s[c], RemoveAt(c2s[c], i))
    BY <2>2, Removed, TakenOutKeepsOrder
  <2>4. c2s' = [c2s EXCEPT ![c] = RemoveAt(c2s[c], i)]
    BY <2>1 DEF RdmaExecute
  <2> QED
    BY <2>3, <2>4, OneKeepsOrder
<1> QED
  BY <1>1, <1>2 DEF NetworkStep

LEMMA ClientsKeepOrder ==
    ASSUME OInv, NEW c \in Clients,
           ClientStep(c) \/ NetworkStep(c) \/ accept_new_connection(c)
    PROVE  /\ \A b \in Clients : PostedInOrder(c2s[b])' /\ ListedFirst(b)'
           /\ PassInOrder(sorted_q, todo)'
<1>1. TypeOK
  BY DEF OInv, TInv, IInv
<1>2. UNCHANGED <<sorted_q, todo>>
  BY DEF ClientStep, kv_set, kv_get, GetReturn, kv_close, CloseDone,
     ClientDie, ClientPoll, client_handle_get_response,
     client_handle_recv_rdma_rkey_get, client_handle_recv_rdma_rkey_set,
     TakeReply, RdmaReadDone, RdmaWriteDone, NetworkStep, RdmaWrite,
     RdmaRead, QpError, accept_new_connection, serverVars, loopVars
<1>3. Listed' = Listed /\ PassInOrder(sorted_q, todo)'
  BY <1>2 DEF OInv, Listed
<1>4. ASSUME NEW k \in Keys, NEW v \in Values, kv_set(c, k, v)
      PROVE  \A b \in Clients : PostedInOrder(c2s[b])' /\ ListedFirst(b)'
  <2>1. PICK m : m = Message("SET", NextTid(c), k, v, 0)
    OBVIOUS
  <2>2. get_new_tid(c) /\ Post(c, m) /\ m.tid = NextTid(c)
    BY <1>4, <2>1 DEF kv_set, Message
  <2>3. m \in WorkRequest
    BY <1>1, <2>1, <2>2, NextTidType
    DEF Message, WorkRequest, SendOps, Contents
  <2> QED
    BY <1>2, <2>2, <2>3, CallComesLast
<1>5. ASSUME NEW k \in Keys, kv_get(c, k)
      PROVE  \A b \in Clients : PostedInOrder(c2s[b])' /\ ListedFirst(b)'
  <2>1. PICK m : m = Message("GET", NextTid(c), k, Empty, 0)
    OBVIOUS
  <2>2. get_new_tid(c) /\ Post(c, m) /\ m.tid = NextTid(c)
    BY <1>5, <2>1 DEF kv_get, Message
  <2>3. m \in WorkRequest
    BY <1>1, <2>1, <2>2, NextTidType
    DEF Message, WorkRequest, SendOps, Contents
  <2> QED
    BY <1>2, <2>2, <2>3, CallComesLast
<1>6. CASE GetReturn(c) \/ kv_close(c) \/ accept_new_connection(c)
  <2>1. c2s' = c2s
    BY <1>6 DEF GetReturn, kv_close, accept_new_connection
  <2> QED
    BY <1>3, <2>1, SameKeepsOrder, OrderIsKept
<1>7. CASE CloseDone(c) \/ ClientDie(c) \/ ClientPoll(c) \/ NetworkStep(c)
  BY <1>1, <1>3, <1>7, PollsKeepOrder, EndsKeepOrder, NetworkKeepsOrder,
     OrderIsKept
<1> QED
  BY <1>3, <1>4, <1>5, <1>6, <1>7 DEF ClientStep

-----------------------------------------------------------------------------
(* What the server does to the list and to a client's requests.            *)

LEMMA HandledList ==
    ASSUME NEW t, NEW k, NEW v, NEW p, NEW q,
           handle_set_request(t, k, v, p, q) \/ handle_get_request(t, k, q)
    PROVE  sorted_q' \in {Append(q, t), RemoveFirst(q, t), q}
  BY DEF handle_set_request, SetBlocked, SetEager, SetRendezvous,
     handle_get_request, GetBlocked, GetEager, GetRendezvous,
     push_pending_request, remove_server_pending_request,
     mark_rdma_fin_required

(* The first request of a connection is taken. *)
LEMMA TakingKeepsOrder ==
    ASSUME TypeOK, NEW c \in Clients, c2s[c] # <<>>,
           c2s' = [c2s EXCEPT ![c] = Tail(@)]
    PROVE  \A b \in Clients : KeepsOrder(c2s[b], c2s'[b])
<1>1. c2s[c] \in Seq(WorkRequest)
  BY DEF TypeOK, ClientTypeOK
<1>2. PICK s : s = Tail(c2s[c])
  OBVIOUS
<1>3. /\ s \in Seq(WorkRequest) /\ 1 \in 1 .. Len(c2s[c])
      /\ TakenOut(c2s[c], s, 1)
  BY <1>1, <1>2, HeadTailProperties, EmptySeq, LenProperties DEF TakenOut
<1>4. KeepsOrder(c2s[c], s)
  BY <1>1, <1>3, TakenOutKeepsOrder
<1>5. c2s' = [c2s EXCEPT ![c] = s]
  BY <1>2
<1> QED
  BY <1>4, <1>5, OneKeepsOrder

(* A received SET or GET comes after what is listed and before what is     *)
(* posted.                                                                 *)
LEMMA RecvInOrder ==
    ASSUME OInv, NEW c \in Clients, RecvSet(c) \/ RecvGet(c)
    PROVE  /\ \A b \in Clients : PostedInOrder(c2s[b])' /\ ListedFirst(b)'
           /\ PassInOrder(sorted_q, todo)'
<1>1. /\ TypeOK /\ PolledAreSends /\ \A b \in Clients : Orderly(b)
      /\ sorted_q \in Seq(Tids) /\ IsInjective(sorted_q)
      /\ phase = "batch" /\ todo = 0 /\ todo' = 0
  BY DEF OInv, TInv, IInv, ListInOrder, TypeOK, ServerTypeOK, RecvSet,
     RecvGet, TakeRequest
<1>2. PICK m : m = Head(c2s[c])
  OBVIOUS
<1>3. m.op \in Requests /\ TakeRequest(c, m.op)
  BY <1>2 DEF RecvSet, RecvGet, TakeRequest, Requests
<1>4. /\ m \in Posted(c) /\ c2s[c] # <<>>
      /\ \A n \in Posted(c)' : n \in Posted(c) /\ n.tid # m.tid
      /\ \A b \in Clients \ {c} : c2s'[b] = c2s[b]
  BY <1>1, <1>2, <1>3, TakenIsPosted
<1>5. PICK t : t = m.tid
  OBVIOUS
<1>6. t \in Tids /\ Owner(t) = c /\ t \notin Listed
  <2>1. m.tid \in Tids
    BY <1>1, <1>2, <1>3, TakenFields DEF Requests, SendOps
  <2> QED
    BY <1>1, <1>4, <1>5, <2>1, PostedElsewhere DEF Listed
<1>7. sorted_q' \in {Append(sorted_q, t), RemoveFirst(sorted_q, t), sorted_q}
  <2>1. CASE RecvSet(c)
    BY <1>2, <1>5, <2>1, HandledList DEF RecvSet
  <2>2. CASE RecvGet(c)
    BY <1>2, <1>5, <2>2, HandledList DEF RecvGet
  <2> QED
    BY <2>1, <2>2
<1>8. Listed' \subseteq Listed \cup {t}
  BY <1>1, <1>6, <1>7, ListElements DEF Listed
<1>9. \A b \in Clients : KeepsOrder(c2s[b], c2s'[b])
  BY <1>1, <1>3, <1>4, TakingKeepsOrder DEF TakeRequest
<1>10. \A u \in Listed : Before(u, t)
  BY <1>3, <1>4, <1>5, <1>6 DEF OInv, ListedFirst, Before
<1>11. PassInOrder(sorted_q, todo)'
  <2>1. PassInOrder(sorted_q, 0)
    BY <1>1 DEF OInv
  <2>2. PassInOrder(Append(sorted_q, t), 0)
    BY <1>1, <1>6, <1>10, <2>1, ListTakesInOrder DEF Listed
  <2>3. PassInOrder(RemoveFirst(sorted_q, t), 0)
    BY <1>1, <1>6, <2>1, ListStaysInOrder
  <2> QED
    BY <1>1, <1>7, <2>1, <2>2, <2>3
<1>12. ASSUME NEW n \in Posted(c)', n.op \in Requests
       PROVE  t[2] < n.tid[2]
  <2>1. c2s[c] \in Seq(WorkRequest)
    BY <1>1 DEF TypeOK, ClientTypeOK
  <2>2. PICK j \in 1 .. Len(c2s[c]) : n = c2s[c][j]
    BY <1>4, <1>12, <2>1, Elements DEF Posted
  <2>3. m = c2s[c][1] /\ 1 \in 1 .. Len(c2s[c]) /\ Len(c2s[c]) \in Nat
    BY <1>2, <1>4, <2>1, HeadTailProperties, EmptySeq, LenProperties
  <2>4. 1 < j
    BY <1>4, <1>12, <2>2, <2>3
  <2> QED
    BY <1>3, <1>5, <1>12, <2>2, <2>3, <2>4 DEF OInv, PostedInOrder
<1>13. ASSUME NEW b \in Clients
       PROVE  PostedInOrder(c2s[b])' /\ ListedFirst(b)'
  <2>1. /\ PostedInOrder(c2s[b])'
        /\ \A n \in Posted(b)' : n.op \in Requests => n \in Posted(b)
    BY <1>9 DEF OInv, KeepsOrder, Posted
  <2>2. ASSUME NEW u \in Listed', NEW n \in Posted(b)', Owner(u) = b,
               n.op \in Requests
        PROVE  u[2] < n.tid[2]
    <3>1. CASE u \in Listed
      BY <2>1, <2>2, <3>1 DEF OInv, ListedFirst
    <3>2. CASE u = t
      BY <1>6, <1>12, <2>2, <3>2
    <3> QED
      BY <1>8, <3>1, <3>2
  <2> QED
    BY <2>1, <2>2 DEF ListedFirst
<1> QED
  BY <1>11, <1>13

(* A step of the loop that takes nothing into the list, outside a pass.    *)
LEMMA DroppingKeepsOrder ==
    ASSUME OInv, todo = 0, todo' = 0, NEW t \in Tids,
           sorted_q' \in {sorted_q, RemoveFirst(sorted_q, t)},
           \A b \in Clients : KeepsOrder(c2s[b], c2s'[b])
    PROVE  /\ \A b \in Clients : PostedInOrder(c2s[b])' /\ ListedFirst(b)'
           /\ PassInOrder(sorted_q, todo)'
<1>1. sorted_q \in Seq(Tids) /\ IsInjective(sorted_q)
  BY DEF OInv, TInv, IInv, ListInOrder, TypeOK, ServerTypeOK
<1>2. Listed' \subseteq Listed
  BY <1>1, ListElements DEF Listed
<1>3. PassInOrder(sorted_q, todo)'
  BY <1>1, ListStaysInOrder DEF OInv
<1> QED
  BY <1>2, <1>3, OrderIsKept

LEMMA RemovalKeepsOrder ==
    ASSUME OInv,
           \/ InvalidateRequest
           \/ \E c \in Clients : \/ RecvFin(c) \/ RecvShutdown(c)
                                 \/ RemoveConnection(c)
    PROVE  /\ \A b \in Clients : PostedInOrder(c2s[b])' /\ ListedFirst(b)'
           /\ PassInOrder(sorted_q, todo)'
<1>1. /\ TypeOK /\ PolledAreSends /\ \A b \in Clients : Orderly(b)
      /\ ListInOrder
  BY DEF OInv, TInv, IInv
<1>2. CASE InvalidateRequest
  <2>1. PICK t \in Tids : remove_server_pending_request(t, db, sorted_q)
    BY <1>2 DEF InvalidateRequest, QueuedBy
  <2>2. todo = 0 /\ todo' = 0 /\ c2s' = c2s
    BY <1>1, <1>2 DEF InvalidateRequest, ListInOrder, loopVars
  <2> QED
    BY <2>1, <2>2, SameKeepsOrder, DroppingKeepsOrder
    DEF remove_server_pending_request
<1>3. ASSUME NEW c \in Clients, RecvFin(c) \/ RecvShutdown(c)
      PROVE  /\ \A b \in Clients : PostedInOrder(c2s[b])' /\ ListedFirst(b)'
             /\ PassInOrder(sorted_q, todo)'
  <2>1. PICK m : m = Head(c2s[c])
    OBVIOUS
  <2>2. TakeRequest(c, m.op)
    BY <1>3, <2>1 DEF RecvFin, RecvShutdown, TakeRequest
  <2>3. c2s[c] # <<>>
    BY <1>1, <2>1, <2>2, TakenIsPosted
  <2>4. \A b \in Clients : KeepsOrder(c2s[b], c2s'[b])
    BY <1>1, <2>2, <2>3, TakingKeepsOrder DEF TakeRequest
  <2>5. todo = 0 /\ todo' = 0
    BY <1>1, <2>2 DEF TakeRequest, ListInOrder
  <2>6. CASE UNCHANGED serverVars
    <3>1. <<c, 1>> \in Tids
      BY ClientsAssumption DEF Tids
    <3> QED
      BY <2>4, <2>5, <2>6, <3>1, DroppingKeepsOrder DEF serverVars
  <2>7. CASE ~(UNCHANGED serverVars)
    <3>1. /\ TakeRequest(c, "FIN")
          /\ remove_server_pending_request(m.tid, db, sorted_q)
      BY <1>3, <2>1, <2>7 DEF RecvFin, RecvShutdown
    <3>2. m.tid \in Tids
      BY <1>1, <2>1, <3>1, TakenFields DEF SendOps
    <3> QED
      BY <2>4, <2>5, <3>1, <3>2, DroppingKeepsOrder
      DEF remove_server_pending_request
  <2> QED
    BY <2>6, <2>7
<1>4. ASSUME NEW c \in Clients, RemoveConnection(c)
      PROVE  /\ \A b \in Clients : PostedInOrder(c2s[b])' /\ ListedFirst(b)'
             /\ PassInOrder(sorted_q, todo)'
  <2>1. UNCHANGED <<sorted_q, todo>> /\ c2s' = [c2s EXCEPT ![c] = <<>>]
    BY <1>4 DEF RemoveConnection
  <2>2. KeepsOrder(c2s[c], <<>>)
    BY NoElements, EmptySeq DEF KeepsOrder, PostedInOrder
  <2>3. \A b \in Clients : KeepsOrder(c2s[b], c2s'[b])
    BY <1>1, <2>1, <2>2, OneKeepsOrder
  <2>4. Listed' \subseteq Listed /\ PassInOrder(sorted_q, todo)'
    BY <2>1 DEF Listed, OInv
  <2> QED
    BY <2>3, <2>4, OrderIsKept
<1> QED
  BY <1>2, <1>3, <1>4

(* A request of the pass is dropped or pushed back. *)
LEMMA ServeInOrder ==
    ASSUME OInv, ServePending
    PROVE  /\ \A b \in Clients : PostedInOrder(c2s[b])' /\ ListedFirst(b)'
           /\ PassInOrder(sorted_q, todo)'
<1>1. /\ TypeOK /\ sorted_q \in Seq(Tids) /\ IsInjective(sorted_q)
      /\ todo \in Nat /\ todo <= Len(sorted_q)
      /\ PassInOrder(sorted_q, todo)
  BY LoopAssumption
  DEF OInv, TInv, IInv, ListInOrder, TypeOK, ServerTypeOK, LoopTypeOK
<1>2. /\ sorted_q # <<>> /\ todo > 0 /\ todo' = todo - 1
      /\ c2s' = c2s
  BY DEF ServePending
<1>3. PICK t, q : t = Head(sorted_q) /\ q = Tail(sorted_q)
  OBVIOUS
<1>4. sorted_q' \in {Append(q, t), RemoveFirst(q, t), q}
  BY <1>3, HandledList DEF ServePending
<1>5. /\ t \in Tids /\ q \in Seq(Tids) /\ IsInjective(q)
      /\ t \in ToSet(sorted_q) /\ ToSet(q) = ToSet(sorted_q) \ {t}
  BY <1>1, <1>2, <1>3, HeadTaken
<1>6. RemoveFirst(q, t) = q /\ ToSet(Append(q, t)) = ToSet(q) \cup {t}
  BY <1>5, ListElements
<1>7. todo \in 1 .. Len(sorted_q)
  BY <1>1, <1>2, LenProperties
<1>8. PassInOrder(q, todo - 1) /\ PassInOrder(Append(q, t), todo - 1)
  BY <1>1, <1>2, <1>3, <1>7, PassDrops, PassPushesBack
<1>9. Listed' \subseteq Listed
  BY <1>4, <1>5, <1>6 DEF Listed
<1>10. PassInOrder(sorted_q, todo)'
  BY <1>2, <1>4, <1>6, <1>8
<1> QED
  BY <1>2, <1>9, <1>10, SameKeepsOrder, OrderIsKept

(* The first and the last step of a pass. *)
LEMMA PassStartsInOrder ==
    ASSUME OInv, ListIsShort, StartPass \/ EndPass
    PROVE  PassInOrder(sorted_q, todo)'
<1>1. Len(sorted_q) \in Nat /\ SERVER_WC_BATCH \in Nat
  BY LenProperties, LoopAssumption
  DEF OInv, TInv, IInv, TypeOK, ServerTypeOK
<1>2. CASE EndPass
  BY <1>2 DEF EndPass, OInv, serverVars
<1>3. CASE StartPass
  <2>1. PassInOrder(sorted_q, 0)
    BY <1>3 DEF StartPass, OInv, TInv, ListInOrder
  <2>2. sorted_q' = sorted_q /\ todo' = Len(sorted_q)
    BY <1>1, <1>3 DEF StartPass, ListIsShort, serverVars
  <2>3. PassInOrder(sorted_q, Len(sorted_q))
    BY <1>1, <2>1 DEF PassInOrder
  <2> QED
    BY <2>2, <2>3
<1> QED
  BY <1>2, <1>3

LEMMA OrderStep ==
    ASSUME OInv, ListIsShort, TInv', [Next]_vars
    PROVE  OInv'
<1>1. CASE \E c \in Clients : \/ ClientStep(c) \/ NetworkStep(c)
                              \/ accept_new_connection(c)
  BY <1>1, ClientsKeepOrder DEF OInv
<1>2. CASE \/ ibv_poll_cq \/ StartPass \/ EndPass \/ UNCHANGED vars
           \/ \E c \in Clients : RemoveFailedConnection(c)
  <2>1. UNCHANGED <<sorted_q, c2s>>
    BY <1>2
    DEF ibv_poll_cq, StartPass, EndPass, RemoveFailedConnection, vars,
        serverVars
  <2>2. \A b \in Clients : PostedInOrder(c2s[b])' /\ ListedFirst(b)'
    BY <2>1, SameKeepsOrder, OrderIsKept DEF Listed
  <2>3. PassInOrder(sorted_q, todo)'
    <3>1. CASE StartPass \/ EndPass
      BY <3>1, PassStartsInOrder
    <3>2. CASE ~(StartPass \/ EndPass)
      BY <1>2, <2>1, <3>2
      DEF ibv_poll_cq, RemoveFailedConnection, vars, loopVars, OInv
    <3> QED
      BY <3>1, <3>2
  <2> QED
    BY <2>2, <2>3 DEF OInv
<1>3. CASE ServerStep
  BY <1>2, <1>3, RecvInOrder, RemovalKeepsOrder, ServeInOrder
  DEF ServerStep, handle_recv_request, OInv
<1> QED
  BY <1>1, <1>2, <1>3 DEF Next

(* The queued requests of one client are served in the order it made them, *)
(* as long as the list is never longer than a pass serves.                 *)
THEOREM QueueAlwaysInOrder == Spec /\ []ListIsShort => []QueueIsInOrder
<1>1. Init => OInv
  <2>1. ASSUME Init
        PROVE  /\ PassInOrder(sorted_q, todo)
               /\ \A c \in Clients : PostedInOrder(c2s[c]) /\ ListedFirst(c)
    BY <2>1, NoElements, EmptySeq
    DEF Init, ServerInit, PassInOrder, PostedInOrder, ListedFirst, Posted
  <2> QED
    BY <2>1, InitOrderly DEF OInv
<1>2. OInv /\ ListIsShort /\ TInv' /\ [Next]_vars => OInv'
  BY OrderStep
<1>3. OInv => QueueIsInOrder
  <2> SUFFICES ASSUME OInv, phase # "pending",
                      NEW i \in DOMAIN sorted_q, NEW j \in DOMAIN sorted_q,
                      i < j, Owner(sorted_q[i]) = Owner(sorted_q[j])
               PROVE  sorted_q[i][2] < sorted_q[j][2]
    BY DEF QueueIsInOrder
  <2>1. todo = 0 /\ DOMAIN sorted_q = 1 .. Len(sorted_q)
    BY LenProperties
    DEF OInv, TInv, IInv, ListInOrder, TypeOK, ServerTypeOK
  <2>2. i \in Nat
    BY <2>1, LenProperties DEF OInv, TInv, IInv, TypeOK, ServerTypeOK
  <2>3. PassInOrder(sorted_q, 0) /\ ~(i <= 0)
    BY <2>1, <2>2 DEF OInv
  <2> QED
    BY <2>1, <2>3 DEF PassInOrder, Before
<1> QED
  BY <1>1, <1>2, <1>3, RequestsInvariance, PTL DEF Spec

=============================================================================
