--------------------------- MODULE RefinementProofs ---------------------------
(***************************************************************************)
(* The protocol implements the atomic registers of KvStore.                *)
(*                                                                         *)
(* The first half follows a request: what it carries on its way is what    *)
(* its client's table says.  The second half says what a tid contributes   *)
(* to the abstract state - the set it bears, the answer it has - in each   *)
(* of its places, and so what each step does to that state: a step moves   *)
(* one tid, or drops those of a slot.                                      *)
(***************************************************************************)
EXTENDS RendezvousRefinement, PlacesProofs

(* A request, and the table of the client that made it. *)
Asked(t, op, k, v) ==
    /\ op \in {"GET", "READ"} => Waits(t, "GET")
    /\ op = "WRITE" => Waits(t, "SET")
    /\ op = "SET" /\ ~EagerSet(k, v) => Waits(t, "SET") /\ pending[t].val = v

AskedListed(t) ==
    Asked(t, internal_q[t].op, internal_q[t].key, internal_q[t].val)

(* What a client writes by RDMA is a SET, anything else it is sent a GET. *)
Kind(op) == IF op \in {"RDMA_RKEY_SET", "WRITE"} THEN "SET" ELSE "GET"

(* In every place the request t is the one of its client's table.  The     *)
(* payload of a queued one is what push_pending_request copied.            *)
Linked(t) ==
    /\ \A m \in Posted(Owner(t)) : m.tid = t => Asked(t, m.op, m.key, m.val)
    /\ \A m \in Replied(Owner(t)) \cup Completed(Owner(t)) :
          m.tid = t => Waits(t, Kind(m.op))
    /\ t \in Listed =>
          /\ AskedListed(t)
          /\ internal_q[t].op = "SET" =>
                internal_q[t].payload
                  = PendingPayload(internal_q[t].key, internal_q[t].val)

(* A client in kv_get has a record of the get. *)
GetOf(c) == <<c, tid[c]>>

InGet(c) == pc[c] = "get" => GetOf(c) \in Tids /\ Waits(GetOf(c), "GET")

LInv ==
    /\ PlInv /\ Whole
    /\ \A t \in Tids : Linked(t)
    /\ \A c \in Clients : InGet(c)

-----------------------------------------------------------------------------
(* The invariant.                                                          *)

(* What is said of a tid that no step of T moves. *)
LEMMA OthersStayLinked ==
    ASSUME \A t \in Tids : Linked(t), NEW T, Moves(T), \A t \in T : Linked(t)'
    PROVE  \A t \in Tids : Linked(t)'
<1> SUFFICES ASSUME NEW t \in Tids \ T
             PROVE  Linked(t)'
  OBVIOUS
<1>1. PICK c \in Clients : c = Owner(t)
  BY OwnerType
<1>2. /\ pending'[t] = pending[t] /\ internal_q'[t] = internal_q[t]
      /\ t \in Listed' <=> t \in Listed
  BY DEF Moves
<1>3. /\ \A m \in Posted(c)' : m.tid = t => m \in Posted(c)
      /\ \A m \in Replied(c)' : m.tid = t => m \in Replied(c)
      /\ \A m \in Completed(c)' : m.tid = t => m \in Completed(c)
  BY DEF Moves
<1>4. Linked(t)
  OBVIOUS
<1>5. \A op, k, v : Asked(t, op, k, v) => Asked(t, op, k, v)'
  BY <1>2 DEF Asked, Waits
<1>6. \A m \in Posted(c)' : m.tid = t => Asked(t, m.op, m.key, m.val)'
  BY <1>1, <1>3, <1>4, <1>5 DEF Linked
<1>7. \A m \in Replied(c)' \cup Completed(c)' :
         m.tid = t => Waits(t, Kind(m.op))'
  BY <1>1, <1>2, <1>3, <1>4 DEF Linked, Waits
<1>8. t \in Listed' =>
        /\ AskedListed(t)'
        /\ internal_q'[t].op = "SET" =>
              internal_q'[t].payload
                = PendingPayload(internal_q'[t].key, internal_q'[t].val)
  BY <1>2, <1>4, <1>5 DEF Linked, AskedListed
<1> QED
  BY <1>1, <1>6, <1>7, <1>8 DEF Linked

(* A client that is in kv_get afterwards was in it, and its record stays a *)
(* record of a get.                                                        *)
LEMMA GetsStay ==
    ASSUME \A c \in Clients : InGet(c),
           \A c \in Clients :
              pc'[c] = "get" =>
                 /\ pc[c] = "get" /\ tid'[c] = tid[c]
                 /\ Waits(GetOf(c), "GET") => Waits(<<c, tid[c]>>, "GET")'
    PROVE  \A c \in Clients : InGet(c)'
  BY DEF InGet, GetOf

(* The types that LInv has in it. *)
LEMMA LinkTypes ==
    ASSUME LInv
    PROVE  /\ PlInv /\ RInv /\ TypeOK /\ ServerTypeOK /\ Whole
           /\ \A c \in Clients : Orderly(c) /\ Secured(c)
           /\ pending \in [Tids -> ClientRequest \cup {NoReq}]
           /\ pc \in [Clients -> {"out", "app", "get", "close", "gone"}]
           /\ tid \in [Clients -> 0 .. MaxOps]
           /\ \A c \in Clients : tid[c] \in Nat
           /\ \A t \in Tids : Owner(t) \in Clients
  BY OwnerType DEF LInv, PlInv, RInv, TInv, IInv, TypeOK, ClientTypeOK

-----------------------------------------------------------------------------
(* A new request is the one in the table. *)
LEMMA PostingStaysLinked ==
    ASSUME LInv, NEW c \in Clients, NEW m, PostsNew(c, m),
           Asked(m.tid, m.op, m.key, m.val)'
    PROVE  \A t \in Tids : Linked(t)'
<1>1. /\ m.tid \in Tids /\ Owner(m.tid) = c
      /\ m.tid \notin TidsIn(s2c[c]) \cup TidsIn(wcq[c]) \cup Listed
      /\ \A n \in Posted(c)' : n.tid = m.tid => n = m
      /\ Moves({m.tid})
  BY LinkTypes, PostingMoves
<1>2. /\ \A n \in Replied(c)' \cup Completed(c)' : n.tid # m.tid
      /\ m.tid \notin Listed'
  BY <1>1 DEF PostsNew, QuietServer, Listed, Replied, Completed, TidsIn
<1>3. Linked(m.tid)'
  BY <1>1, <1>2 DEF Linked
<1> QED
  BY <1>1, <1>3, OthersStayLinked DEF LInv

LEMMA CallsStayLinked ==
    ASSUME LInv, NEW c \in Clients,
           \/ \E k \in Keys, v \in Values : kv_set(c, k, v)
           \/ \E k \in Keys : kv_get(c, k)
    PROVE  (\A t \in Tids : Linked(t)') /\ \A b \in Clients : InGet(b)'
<1>1. ASSUME NEW k \in Keys, NEW v \in Values, kv_set(c, k, v)
      PROVE  (\A t \in Tids : Linked(t)') /\ \A b \in Clients : InGet(b)'
  <2>1. PICK m : m = Message("SET", NextTid(c), k, v, 0)
    OBVIOUS
  <2>2. /\ PostsNew(c, m)
        /\ m.op = "SET" /\ m.key = k /\ m.val = v
        /\ pending' = IF EagerSet(k, v)
                      THEN pending
                      ELSE [pending EXCEPT ![m.tid] =
                              [op |-> "SET", key |-> k, val |-> v,
                               done |-> FALSE]]
    BY <1>1, <2>1, LinkTypes, SetPosts
  <2>3. m.tid \in Tids /\ m.tid = NextTid(c)
    BY <2>2, LinkTypes, PostingMoves DEF PostsNew
  <2>4. ~EagerSet(k, v) =>
           Waits(m.tid, "SET")' /\ pending'[m.tid].val = v
    <3> DEFINE p == [op |-> "SET", key |-> k, val |-> v, done |-> FALSE]
    <3>0. p \in ClientRequest
      BY DEF ClientRequest, Contents
    <3>1. p # NoReq /\ p.op = "SET" /\ p.val = v
      BY <3>0, ClientRequestAssumption
    <3> HIDE DEF p
    <3>2. ~EagerSet(k, v) => pending' = [pending EXCEPT ![m.tid] = p]
      BY <2>2 DEF p
    <3>3. ~EagerSet(k, v) => pending'[m.tid] = p
      BY <2>3, <3>2, LinkTypes
    <3> QED
      BY <3>1, <3>3 DEF Waits
  <2>5. Asked(m.tid, m.op, m.key, m.val)'
    BY <2>2, <2>4 DEF Asked
  <2>6. \A b \in Clients :
           pc'[b] = "get" =>
              /\ pc[b] = "get" /\ tid'[b] = tid[b]
              /\ Waits(GetOf(b), "GET") => Waits(<<b, tid[b]>>, "GET")'
    <3> SUFFICES ASSUME NEW b \in Clients, pc'[b] = "get"
                 PROVE  /\ pc[b] = "get" /\ tid'[b] = tid[b]
                        /\ Waits(GetOf(b), "GET") => Waits(<<b, tid[b]>>, "GET")'
      OBVIOUS
    <3>1. pc' = pc /\ pc[c] = "app" /\ get_new_tid(c)
      BY <1>1 DEF kv_set
    <3>2. b # c /\ pc[b] = "get" /\ tid'[b] = tid[b]
      BY <3>1, LinkTypes DEF get_new_tid
    <3>3. GetOf(b) \in Tids /\ GetOf(b) # m.tid
      BY <2>3, <3>2 DEF LInv, InGet, GetOf, NextTid
    <3>4. pending'[GetOf(b)] = pending[GetOf(b)]
      BY <2>2, <3>3 DEF PostsNew
    <3> QED
      BY <3>2, <3>4 DEF Waits, GetOf
  <2> QED
    BY <2>2, <2>5, <2>6, PostingStaysLinked, GetsStay DEF LInv
<1>2. ASSUME NEW k \in Keys, kv_get(c, k)
      PROVE  (\A t \in Tids : Linked(t)') /\ \A b \in Clients : InGet(b)'
  <2>1. PICK m : m = Message("GET", NextTid(c), k, Empty, 0)
    OBVIOUS
  <2>2. /\ PostsNew(c, m)
        /\ m.op = "GET"
        /\ pending' = [pending EXCEPT ![m.tid] =
                         [op |-> "GET", key |-> k, val |-> Empty,
                          done |-> FALSE]]
    BY <1>2, <2>1, LinkTypes, GetPosts
  <2>3. m.tid \in Tids /\ m.tid = NextTid(c)
    BY <2>2, LinkTypes, PostingMoves DEF PostsNew
  <2>4. Waits(m.tid, "GET")'
    <3> DEFINE p == [op |-> "GET", key |-> k, val |-> Empty, done |-> FALSE]
    <3>0. p \in ClientRequest
      BY DEF ClientRequest, Contents
    <3>1. p # NoReq /\ p.op = "GET"
      BY <3>0, ClientRequestAssumption
    <3> HIDE DEF p
    <3>2. pending' = [pending EXCEPT ![m.tid] = p]
      BY <2>2 DEF p
    <3>3. pending'[m.tid] = p
      BY <2>3, <3>2, LinkTypes
    <3> QED
      BY <3>1, <3>3 DEF Waits
  <2>5. Asked(m.tid, m.op, m.key, m.val)'
    BY <2>2, <2>4 DEF Asked
  <2>6. ASSUME NEW b \in Clients
        PROVE  InGet(b)'
    <3>1. get_new_tid(c) /\ pc' = [pc EXCEPT ![c] = "get"]
      BY <1>2 DEF kv_get
    <3>2. CASE b = c
      <4>1. <<c, tid'[c]>> = m.tid
        BY <2>3, <3>1, LinkTypes DEF NextTid, get_new_tid
      <4> QED
        BY <2>3, <2>4, <3>2, <4>1 DEF InGet, GetOf
    <3>3. CASE b # c
      <4>1. pc'[b] = pc[b] /\ tid'[b] = tid[b]
        BY <3>1, <3>3, LinkTypes DEF get_new_tid
      <4>2. GetOf(b) # m.tid
        BY <2>3, <3>3 DEF GetOf, NextTid
      <4>3. GetOf(b) \in Tids => pending'[GetOf(b)] = pending[GetOf(b)]
        BY <2>2, <4>2 DEF PostsNew
      <4>4. InGet(b)
        BY DEF LInv
      <4> QED
        BY <4>1, <4>3, <4>4 DEF InGet, Waits, GetOf
    <3> QED
      BY <3>2, <3>3
  <2> QED
    BY <2>2, <2>5, <2>6, PostingStaysLinked
<1> QED
  BY <1>1, <1>2

-----------------------------------------------------------------------------
(* A step after which no place has a request that it had not before. *)
Fades ==
    /\ UNCHANGED pending
    /\ \A b \in Clients :
          /\ \A m \in Posted(b)' : m \in Posted(b) \/ m = Shutdown
          /\ Replied(b)' \subseteq Replied(b)
          /\ Completed(b)' \subseteq Completed(b)
          /\ pc'[b] = "get" => pc[b] = "get" /\ tid'[b] = tid[b]
    /\ \A u \in Listed' : u \in Listed /\ internal_q'[u] = internal_q[u]

LEMMA FadingStaysLinked ==
    ASSUME LInv, Fades
    PROVE  (\A t \in Tids : Linked(t)') /\ \A c \in Clients : InGet(c)'
<1>1. ASSUME NEW t \in Tids
      PROVE  Linked(t)'
  <2>1. PICK c \in Clients : c = Owner(t)
    BY OwnerType
  <2>2. Linked(t)
    BY DEF LInv
  <2>3. \A op, k, v : Asked(t, op, k, v) => Asked(t, op, k, v)'
    BY DEF Fades, Asked, Waits
  <2>4. t # Shutdown.tid
    BY LoopAssumption DEF Shutdown, Tids
  <2>5. \A m \in Posted(c)' : m.tid = t => Asked(t, m.op, m.key, m.val)'
    BY <2>1, <2>2, <2>3, <2>4 DEF Linked, Fades
  <2>6. \A m \in Replied(c)' \cup Completed(c)' :
           m.tid = t => Waits(t, Kind(m.op))'
    BY <2>1, <2>2 DEF Linked, Fades, Waits
  <2>7. t \in Listed' =>
          /\ AskedListed(t)'
          /\ internal_q'[t].op = "SET" =>
                internal_q'[t].payload
                  = PendingPayload(internal_q'[t].key, internal_q'[t].val)
    BY <2>2, <2>3 DEF Linked, AskedListed, Fades
  <2> QED
    BY <2>1, <2>5, <2>6, <2>7 DEF Linked
<1>2. \A c \in Clients : InGet(c)'
  BY DEF LInv, InGet, GetOf, Fades, Waits
<1> QED
  BY <1>1, <1>2

(* What a slot may lose. *)
LEMMA SlotFades ==
    ASSUME NEW c \in Clients, SlotMoves(c), UNCHANGED pending,
           \A u \in Listed' : u \in Listed /\ internal_q'[u] = internal_q[u],
           pc'[c] = "get" => pc[c] = "get" /\ tid'[c] = tid[c]
    PROVE  Fades
<1>1. ASSUME NEW b \in Clients \ {c}
      PROVE  /\ Posted(b)' = Posted(b) /\ Replied(b)' = Replied(b)
             /\ Completed(b)' = Completed(b)
             /\ pc'[b] = pc[b] /\ tid'[b] = tid[b]
  BY DEF SlotMoves, Posted, Replied, Completed
<1>2. /\ \A m \in Posted(c)' : m \in Posted(c) \/ m = Shutdown
      /\ Replied(c)' \subseteq Replied(c)
      /\ Completed(c)' \subseteq Completed(c)
  BY DEF SlotMoves
<1> QED
  BY <1>1, <1>2 DEF Fades

(* The steps that do so. *)
LEMMA FadingSteps ==
    ASSUME LInv, Unreliable = {},
           \/ \E c \in Clients :
                 \/ kv_close(c) \/ CloseDone(c) \/ ClientDie(c) \/ QpError(c)
                 \/ accept_new_connection(c) \/ RecvShutdown(c)
                 \/ RemoveFailedConnection(c) \/ RemoveConnection(c)
           \/ InvalidateRequest \/ ibv_poll_cq \/ StartPass \/ EndPass
           \/ UNCHANGED vars
    PROVE  Fades
<1>1. ASSUME NEW c \in Clients, CloseDone(c)
      PROVE  Fades
  <2>1. SlotMoves(c)
    BY <1>1, LinkTypes, EndsMove
  <2>2. UNCHANGED <<pending, sorted_q, internal_q>> /\ pc'[c] = "gone"
    BY <1>1, LinkTypes DEF CloseDone, serverVars
  <2> QED
    BY <2>1, <2>2, SlotFades DEF Listed
<1>2. ASSUME NEW c \in Clients, accept_new_connection(c)
      PROVE  Fades
  <2>1. SlotMoves(c)
    BY <1>2, LinkTypes, AcceptMoves
  <2>2. UNCHANGED <<pending, sorted_q, internal_q>> /\ pc'[c] = "app"
    BY <1>2, LinkTypes DEF accept_new_connection, serverVars
  <2> QED
    BY <2>1, <2>2, SlotFades DEF Listed
<1>3. ASSUME NEW c \in Clients, RecvShutdown(c)
      PROVE  Fades
  <2>1. SlotMoves(c) /\ UNCHANGED <<serverVars, pending, tid, pc, wcq>>
    BY <1>3, LinkTypes, ShutdownMoves
  <2> QED
    BY <2>1, SlotFades DEF Listed, serverVars
<1>4. ASSUME InvalidateRequest \/ \E c \in Clients : RemoveConnection(c)
      PROVE  Fades
  <2>1. PICK c : c = closing
    OBVIOUS
  <2>2. /\ c \in Clients /\ SlotMoves(c) /\ ~Alive(c)
        /\ UNCHANGED <<wcq, tid, pending>>
        /\ Alive(c)' <=> Alive(c)
        /\ \A u \in Listed' : u \in Listed /\ internal_q'[u] = internal_q[u]
    BY <1>4, <2>1, LinkTypes, RemovalMoves
  <2>3. pc'[c] # "get"
    BY <2>2 DEF Alive
  <2> QED
    BY <2>2, <2>3, SlotFades
<1>5. ASSUME UNCHANGED <<c2s, s2c, wcq, pending, tid, sorted_q, internal_q>>,
             \A c \in Clients : pc'[c] = "get" => pc[c] = "get"
      PROVE  Fades
  BY <1>5 DEF Fades, Posted, Replied, Completed, Listed
<1>6. ASSUME NEW c \in Clients, kv_close(c)
      PROVE  Fades
  <2>1. \A b \in Clients : pc'[b] = "get" => pc[b] = "get"
    BY <1>6, LinkTypes DEF kv_close
  <2> QED
    BY <1>5, <1>6, <2>1 DEF kv_close, serverVars
<1>7. ASSUME NEW c \in Clients, QpError(c) \/ RemoveFailedConnection(c)
      PROVE  Fades
  <2>1. UNCHANGED <<serverVars, clientVars, c2s>>
    BY <1>7 DEF QpError, RemoveFailedConnection
  <2> QED
    BY <1>5, <2>1 DEF serverVars, clientVars
<1>8. ASSUME ibv_poll_cq \/ StartPass \/ EndPass \/ UNCHANGED vars
      PROVE  Fades
  <2>1. UNCHANGED <<serverVars, clientVars, c2s>>
    BY <1>8 DEF ibv_poll_cq, StartPass, EndPass, vars
  <2> QED
    BY <1>5, <2>1 DEF serverVars, clientVars
<1>9. \A c \in Clients : ~ClientDie(c)
  BY DEF ClientDie
<1> QED
  BY <1>1, <1>2, <1>3, <1>4, <1>6, <1>7, <1>8, <1>9

-----------------------------------------------------------------------------
(* A step that moves one tid, which is linked afterwards, and which is in  *)
(* nobody's way.                                                           *)
LEMMA MovingStaysLinked ==
    ASSUME LInv, NEW t \in Tids, Moves({t}), Linked(t)',
           \A b \in Clients :
              pc'[b] = "get" => pc[b] = "get" /\ tid'[b] = tid[b],
           Waits(t, "GET") =>
              Waits(t, "GET")' \/ pc'[Owner(t)] # "get"
    PROVE  (\A u \in Tids : Linked(u)') /\ \A b \in Clients : InGet(b)'
<1>1. \A u \in Tids : Linked(u)'
  BY OthersStayLinked DEF LInv
<1>2. ASSUME NEW b \in Clients, pc'[b] = "get"
      PROVE  GetOf(b)' \in Tids /\ Waits(GetOf(b), "GET")'
  <2>1. /\ GetOf(b)' = GetOf(b) /\ GetOf(b) \in Tids
        /\ Waits(GetOf(b), "GET") /\ Owner(GetOf(b)) = b
    BY <1>2 DEF LInv, InGet, GetOf, Owner
  <2>2. CASE GetOf(b) # t
    <3>1. pending'[GetOf(b)] = pending[GetOf(b)]
      BY <2>1, <2>2 DEF Moves
    <3> QED
      BY <2>1, <3>1 DEF Waits
  <2>3. CASE GetOf(b) = t
    BY <1>2, <2>1, <2>3 DEF Waits
  <2> QED
    BY <2>2, <2>3
<1> QED
  BY <1>1, <1>2 DEF InGet

(* The end of a get: no place has a request that is done. *)
LEMMA ReturnStaysLinked ==
    ASSUME LInv, NEW c \in Clients, GetReturn(c)
    PROVE  (\A u \in Tids : Linked(u)') /\ \A b \in Clients : InGet(b)'
<1>1. PICK t : t = GetOf(c)
  OBVIOUS
<1>2. t \in Tids /\ Owner(t) = c /\ Waits(t, "GET") /\ ~Undone(t) /\ Alive(c)
  BY <1>1 DEF GetReturn, LInv, InGet, GetOf, Owner, Undone, Alive
<1>3. /\ pc' = [pc EXCEPT ![c] = "app"]
      /\ pending' = [pending EXCEPT ![t] = NoReq]
      /\ UNCHANGED <<serverVars, tid, wcq, c2s>>
  BY <1>1 DEF GetReturn, GetOf
<1>4. \A u \in Tids \ {t} : pending'[u] = pending[u]
  BY <1>2, <1>3, LinkTypes
<1>5. \A b \in Clients : Alive(b) => Alive(b)'
  BY <1>3, LinkTypes DEF Alive
<1>6. Moves({t})
  BY <1>3, <1>4, <1>5, LinkTypes
     DEF Moves, serverVars, Listed, Posted, Replied, Completed
<1>7. Orderly(c) /\ Linked(t)
  BY <1>2, LinkTypes DEF LInv
<1>8. \A m \in Replied(c) \cup Completed(c) : m.tid # t
  BY <1>2, <1>7 DEF Orderly, RepliedRight, CompletedRight, UndoneFor
<1>9. \A m \in Posted(c) : m.tid = t => Asked(t, m.op, m.key, m.val)'
  <2> SUFFICES ASSUME NEW m \in Posted(c), m.tid = t
               PROVE  Asked(t, m.op, m.key, m.val)'
    OBVIOUS
  <2>1. ~(m.op \in RdmaOps \/ NeedsAnswer(m.op, m.key, m.val))
    BY <1>2, <1>7 DEF Orderly, PostedRight, UndoneFor
  <2> QED
    BY <2>1 DEF NeedsAnswer, RdmaOps, Asked
<1>10. t \in Listed => ~NeedsAnswer(internal_q[t].op, internal_q[t].key,
                                    internal_q[t].val)
  BY <1>2, <1>7 DEF Orderly, QueuedRight, UndoneFor
<1>11. Linked(t)'
  <2>1. Posted(c)' = Posted(c) /\ Replied(c)' = Replied(c)
        /\ Completed(c)' = Completed(c) /\ Listed' = Listed
        /\ internal_q' = internal_q
    BY <1>3 DEF serverVars, Posted, Replied, Completed, Listed
  <2>2. t \in Listed => internal_q[t].op \in Requests
    BY <1>2, <1>7, LinkTypes
       DEF Orderly, QueuedRight, ServerTypeOK, Request, Requests
  <2>3. t \in Listed => AskedListed(t)'
    BY <1>10, <2>1, <2>2 DEF AskedListed, Asked, NeedsAnswer, Requests
  <2> QED
    BY <1>2, <1>7, <1>8, <1>9, <2>1, <2>3 DEF Linked
<1>12. \A b \in Clients :
          pc'[b] = "get" => pc[b] = "get" /\ tid'[b] = tid[b]
  BY <1>3, LinkTypes
<1>13. pc'[Owner(t)] # "get"
  BY <1>2, <1>3, LinkTypes
<1> QED
  BY <1>2, <1>6, <1>11, <1>12, <1>13, MovingStaysLinked

(* What a client takes is in no place, but for what it posts. *)
LEMMA TakingStaysLinked ==
    ASSUME LInv, NEW c \in Clients, NEW t, Takes(c, t),
           \/ UNCHANGED c2s
           \/ \E m \in WorkRequest :
                 Post(c, m) /\ m.tid = t /\ Asked(t, m.op, m.key, m.val)',
           Waits(t, "GET") => Waits(t, "GET")'
    PROVE  (\A u \in Tids : Linked(u)') /\ \A b \in Clients : InGet(b)'
<1>1. /\ t \in Tids /\ UNCHANGED <<internal_q, sorted_q, tid, pc>>
  BY DEF Takes, QuietServer
<1>2. /\ Owner(t) = c /\ t \notin Listed
      /\ t \notin TidsIn(s2c'[c]) \cup TidsIn(wcq'[c])
      /\ \A n \in Posted(c) : n.tid # t
      /\ \A m \in WorkRequest : Post(c, m) => Posted(c)' = Posted(c) \cup {m}
      /\ Moves({t})
  BY LinkTypes, TakingMoves
<1>3. \A m \in Posted(c)' : m.tid = t => Asked(t, m.op, m.key, m.val)'
  BY <1>2 DEF Posted
<1>4. \A m \in Replied(c)' \cup Completed(c)' : m.tid # t
  BY <1>2 DEF Replied, Completed, TidsIn
<1>5. Linked(t)'
  BY <1>1, <1>2, <1>3, <1>4 DEF Linked, Listed
<1> QED
  BY <1>1, <1>2, <1>5, MovingStaysLinked

(* A record of a get that is given its value, or whose request is done. *)
LEMMA StillWaits ==
    ASSUME LInv, NEW t \in Tids, pending[t] \in ClientRequest,
           pending[t].op = "GET", NEW v \in Contents \cup {Torn},
           \/ pending'[t] = [pending[t] EXCEPT !.val = v, !.done = TRUE]
           \/ pending'[t] = [pending[t] EXCEPT !.done = TRUE]
           \/ pending'[t] = [pending[t] EXCEPT !.val = v]
    PROVE  /\ Waits(t, "GET")'
           /\ pending'[t] \in ClientRequest
           /\ pending'[t].key = pending[t].key
<1>1. /\ [pending[t] EXCEPT !.done = TRUE] \in ClientRequest
      /\ [pending[t] EXCEPT !.val = v] \in ClientRequest
      /\ [pending[t] EXCEPT !.val = v, !.done = TRUE] \in ClientRequest
  BY PendingGetFields
<1>2. pending'[t] \in ClientRequest
  BY <1>1
<1>3. {"op", "key"} \subseteq DOMAIN pending[t]
  BY DEF ClientRequest
<1>4. pending'[t].op = "GET" /\ pending'[t].key = pending[t].key
  BY <1>3
<1> QED
  BY <1>2, <1>4, ClientRequestAssumption DEF Waits

LEMMA PollStaysLinked ==
    ASSUME LInv, NEW c \in Clients, ClientPoll(c)
    PROVE  (\A u \in Tids : Linked(u)') /\ \A b \in Clients : InGet(b)'
<1>1. ASSUME client_handle_get_response(c)
      PROVE  (\A u \in Tids : Linked(u)') /\ \A b \in Clients : InGet(b)'
  <2>1. PICK r : r = Head(s2c[c])
    OBVIOUS
  <2>2. /\ Takes(c, r.tid) /\ UNCHANGED <<c2s, wcq>>
        /\ r \in Replied(c)
        /\ pending[r.tid] \in ClientRequest /\ pending[r.tid].op = "GET"
        /\ pending'[r.tid]
             = [pending[r.tid] EXCEPT !.val = r.val, !.done = TRUE]
    BY <1>1, <2>1, LinkTypes, ResponseIsTaken
  <2>3. r.tid \in Tids /\ r.val \in Contents \cup {Torn}
    BY <2>2, LinkTypes, PlacedTids DEF Reply
  <2>4. Waits(r.tid, "GET")'
    BY <2>2, <2>3, StillWaits
  <2> QED
    BY <2>2, <2>4, TakingStaysLinked
<1>2. ASSUME \/ client_handle_recv_rdma_rkey_get(c)
             \/ client_handle_recv_rdma_rkey_set(c)
      PROVE  (\A u \in Tids : Linked(u)') /\ \A b \in Clients : InGet(b)'
  <2>1. PICK r : r = Head(s2c[c])
    OBVIOUS
  <2>2. /\ Takes(c, r.tid) /\ UNCHANGED <<pending, wcq>>
        /\ \E m \in WorkRequest :
              /\ Post(c, m) /\ m.tid = r.tid
              /\ \/ m.op = "READ" /\ Waits(r.tid, "GET")
                 \/ m.op = "WRITE" /\ Waits(r.tid, "SET")
    BY <1>2, <2>1, LinkTypes, KeyIsTaken
  <2>3. PICK m \in WorkRequest :
              /\ Post(c, m) /\ m.tid = r.tid
              /\ \/ m.op = "READ" /\ Waits(r.tid, "GET")
                 \/ m.op = "WRITE" /\ Waits(r.tid, "SET")
    BY <2>2
  <2>4. Asked(r.tid, m.op, m.key, m.val)'
    BY <2>2, <2>3 DEF Asked, Waits
  <2>5. Waits(r.tid, "GET") => Waits(r.tid, "GET")'
    BY <2>2 DEF Waits
  <2> QED
    BY <2>2, <2>3, <2>4, <2>5, TakingStaysLinked
<1>3. ASSUME RdmaReadDone(c) \/ RdmaWriteDone(c)
      PROVE  (\A u \in Tids : Linked(u)') /\ \A b \in Clients : InGet(b)'
  <2>1. PICK t : t = Head(wcq[c]).tid
    OBVIOUS
  <2>2. Completes(c, t)
    BY <1>3, <2>1, LinkTypes, CompletionIsTaken
  <2>3. /\ Takes(c, t) /\ t \in Tids
        /\ pending[t] \in ClientRequest
        /\ \/ /\ pending[t].op = "GET"
              /\ pending'[t] = [pending[t] EXCEPT !.done = TRUE]
           \/ pending[t].op = "SET"
    BY <2>2 DEF Completes, Takes
  <2>4. PICK m \in WorkRequest : Post(c, m) /\ m.tid = t /\ m.op = "FIN"
    BY <2>2 DEF Completes
  <2>5. Asked(t, m.op, m.key, m.val)'
    BY <2>4 DEF Asked
  <2>6. Waits(t, "GET") => Waits(t, "GET")'
    BY <2>3, StillWaits DEF Waits
  <2> QED
    BY <2>3, <2>4, <2>5, <2>6, TakingStaysLinked
<1> QED
  BY <1>1, <1>2, <1>3 DEF ClientPoll

(* What is completed is the request that was executed. *)
LEMMA ExecuteCompletes ==
    ASSUME LInv, NEW c \in Clients, NEW i, RdmaExecute(c, i),
           NEW m, m = c2s[c][i], m.tid \in Tids
    PROVE  \A n \in Completed(c)' :
              n \in Completed(c) \/ (n.tid = m.tid /\ n.op = m.op)
<1> DEFINE x == [op |-> m.op, tid |-> m.tid]
<1>1. wcq \in [Clients -> Seq(Completion)] /\ m.op \in RdmaOps
  BY LinkTypes DEF TypeOK, ClientTypeOK, RdmaExecute, NextRdma
<1>2. x \in Completion /\ x.tid = m.tid /\ x.op = m.op
  BY <1>1 DEF Completion
<1>3. wcq' = IF Alive(c) THEN [wcq EXCEPT ![c] = Append(@, x)] ELSE wcq
  BY DEF RdmaExecute
<1> HIDE DEF x
<1>4. ToSet(Append(wcq[c], x)) = ToSet(wcq[c]) \cup {x}
  BY <1>1, <1>2, Added
<1> QED
  BY <1>1, <1>2, <1>3, <1>4 DEF Completed

LEMMA ExecuteStaysLinked ==
    ASSUME LInv, NEW c \in Clients, QuietServer, NEW i, RdmaExecute(c, i),
           UNCHANGED <<s2c, tid, pc, polled>>, NEW m, m = c2s[c][i],
           \A u \in Tids \ {m.tid} : pending'[u] = pending[u],
           \A op : Waits(m.tid, op) => Waits(m.tid, op)'
    PROVE  (\A u \in Tids : Linked(u)') /\ \A b \in Clients : InGet(b)'
<1> DEFINE t == m.tid
<1>1. /\ m \in Posted(c) /\ m.op \in RdmaOps
      /\ t \in Tids /\ Owner(t) = c /\ t \notin Listed
      /\ t \notin TidsIn(s2c[c]) \cup TidsIn(wcq[c])
      /\ \A n \in Posted(c)' : n.tid # t
      /\ Moves({t})
  <2>1. RInv
    BY LinkTypes
  <2> QED
    BY <2>1, ExecuteMoves
<1>2. \A n \in Completed(c)' :
         n \in Completed(c) \/ (n.tid = t /\ n.op = m.op)
  BY <1>1, ExecuteCompletes
<1>3. Waits(t, Kind(m.op))'
  BY <1>1 DEF LInv, Linked, Asked, Kind, RdmaOps
<1>4. \A n \in Replied(c)' \cup Completed(c) : n.tid # t
  BY <1>1 DEF Replied, Completed, TidsIn
<1>5. Linked(t)'
  BY <1>1, <1>2, <1>3, <1>4 DEF Linked, QuietServer, Listed, Kind
<1> QED
  BY <1>1, <1>5, MovingStaysLinked

LEMMA RdmaStaysLinked ==
    ASSUME LInv, NEW c \in Clients, RdmaWrite(c) \/ RdmaRead(c)
    PROVE  (\A u \in Tids : Linked(u)') /\ \A b \in Clients : InGet(b)'
<1>1. CASE RdmaWrite(c)
  <2>1. PICK i : RdmaExecute(c, i)
    BY <1>1 DEF RdmaWrite
  <2>2. QuietServer /\ UNCHANGED <<s2c, tid, pc, polled, pending>>
    BY <1>1 DEF RdmaWrite, QuietServer, loopVars
  <2>3. PICK m : m = c2s[c][i]
    OBVIOUS
  <2>4. \A op : Waits(m.tid, op) => Waits(m.tid, op)'
    BY <2>2 DEF Waits
  <2> QED
    BY <2>1, <2>2, <2>3, <2>4, ExecuteStaysLinked
<1>2. CASE RdmaRead(c)
  <2>1. QuietServer /\ UNCHANGED <<db, s2c, tid, pc, polled>>
    BY <1>2, LinkTypes, ReadExecutes
  <2>2. PICK i :
          LET m == c2s[c][i]
          IN  /\ RdmaExecute(c, i) /\ m.op = "READ" /\ m.tid \in Tids
              /\ \A u \in Tids \ {m.tid} : pending'[u] = pending[u]
              /\ pending'[m.tid]
                   = IF Waits(m.tid, "GET")
                     THEN [pending[m.tid] EXCEPT !.val = Content(db[m.key])]
                     ELSE pending[m.tid]
    BY <1>2, LinkTypes, ReadExecutes
  <2>3. PICK m : m = c2s[c][i]
    OBVIOUS
  <2>4. /\ m \in Posted(c) /\ m \in WorkRequest
        /\ m.tid \in Tids /\ Owner(m.tid) = c
    <3>1. m \in Posted(c) /\ m.tid \in Tids /\ Owner(m.tid) = c
      <4>1. RInv
        BY LinkTypes
      <4> QED
        BY <2>1, <2>2, <2>3, <4>1, ExecuteMoves
    <3> QED
      BY <3>1, LinkTypes, PlacedTids
  <2>5. Waits(m.tid, "GET")
    BY <2>2, <2>3, <2>4 DEF LInv, Linked, Asked
  <2>6. /\ pending[m.tid] \in ClientRequest /\ pending[m.tid].op = "GET"
        /\ pending'[m.tid]
             = [pending[m.tid] EXCEPT !.val = Content(db[m.key])]
    BY <2>2, <2>3, <2>4, <2>5, LinkTypes, WaitsFor
  <2>7. Content(db[m.key]) \in Contents \cup {Torn}
    <3>1. m.key \in Keys
      BY <2>2, <2>3, <2>4 DEF WorkRequest, Shutdown
    <3> QED
      BY <3>1, LinkTypes DEF ServerTypeOK, Entry, Content
  <2>8. Waits(m.tid, "GET")'
    BY <2>4, <2>6, <2>7, StillWaits
  <2>9. \A op : Waits(m.tid, op) => Waits(m.tid, op)'
    BY <2>6, <2>8 DEF Waits
  <2> QED
    BY <2>1, <2>2, <2>3, <2>9, ExecuteStaysLinked
<1> QED
  BY <1>1, <1>2

-----------------------------------------------------------------------------
(* What the handlers make of a request and of what is stored.              *)

SameStore == \A j \in Keys : db'[j].value = db[j].value

Stores(k, p) ==
    /\ db'[k].value = p
    /\ \A j \in Keys \ {k} : db'[j].value = db[j].value

(* The record of a request that is queued. *)
Queued(t, op, k, v) ==
    /\ t \in Listed'
    /\ UNCHANGED <<db, s2c>>
    /\ internal_q'[t] = IF internal_q[t] # NoReq
                        THEN internal_q[t]
                        ELSE [op |-> op, key |-> k, val |-> v,
                              payload |-> PendingPayload(k, v)]

AnswersBy(t, k, m) ==
    /\ t \notin Listed'
    /\ m \in Reply /\ m.tid = t /\ m.key = k /\ server_post_send(m)

(* A set is queued, stored, or granted a buffer. *)
SetDone(t, k, v, p) ==
    \/ Queued(t, "SET", k, v)
    \/ EagerSet(k, v) /\ t \notin Listed' /\ UNCHANGED s2c /\ Stores(k, p)
    \/ /\ ~EagerSet(k, v) /\ SameStore
       /\ \E m \in Reply : AnswersBy(t, k, m) /\ m.op = "RDMA_RKEY_SET"

(* A get is queued, answered with the value, or granted a buffer. *)
GetDone(t, k) ==
    \/ Queued(t, "GET", k, Empty)
    \/ /\ SameStore /\ CanLockRd(db[k])
       /\ \E m \in Reply :
             /\ AnswersBy(t, k, m)
             /\ m.op = "GET_RESPONSE" /\ EagerGet(db[k].size)
             /\ m.val \in EagerContent(db[k])
    \/ /\ SameStore
       /\ \E m \in Reply : AnswersBy(t, k, m) /\ m.op = "RDMA_RKEY_GET"

(* A changed entry, and a lock given back. *)
LEMMA EntryStored ==
    ASSUME ServerTypeOK, NEW t \in Tids, NEW k \in Keys, NEW e \in Entry,
           db' = Released([db EXCEPT ![k] = e], t)
    PROVE  Stores(k, e.value)
<1> DEFINE d == [db EXCEPT ![k] = e]
<1>1. /\ d \in [Keys -> Entry] /\ d[k] = e
      /\ \A j \in Keys \ {k} : d[j] = db[j]
  BY DEF ServerTypeOK
<1>2. db' = Released(d, t)
  OBVIOUS
<1> HIDE DEF d
<1>3. \A j \in Keys : SameValue(d[j], db'[j])
  BY <1>1, <1>2, ReleasedKeepsValues
<1> QED
  BY <1>1, <1>3 DEF Stores, SameValue

(* A request that is pushed. *)
LEMMA PushQueues ==
    ASSUME ServerTypeOK, NEW t \in Tids, NEW op, NEW k, NEW v,
           NEW q \in Seq(Tids), IsInjective(q),
           push_pending_request(t, op, k, v, q)
    PROVE  Queued(t, op, k, v)
<1>1. ToSet(sorted_q') = ToSet(q) \cup {t}
  BY ListElements DEF push_pending_request
<1> QED
  BY <1>1 DEF Queued, Listed, push_pending_request, ServerTypeOK

LEMMA SetOutcome ==
    ASSUME ServerTypeOK, NEW t \in Tids, NEW k \in Keys, NEW v \in Contents,
           NEW p \in Contents, NEW q \in Seq(Tids), IsInjective(q),
           t \notin ToSet(q), handle_set_request(t, k, v, p, q)
    PROVE  SetDone(t, k, v, p)
<1>1. db[k] \in Entry /\ RemoveFirst(q, t) = q
  BY ListElements DEF ServerTypeOK
<1>2. CASE SetBlocked(t, k, v, q)
  BY <1>2, PushQueues DEF SetBlocked, SetDone
<1>3. CASE SetEager(t, k, v, p, q)
  <2>1. PICK e : e = Inserted(Opened(db[k]), p)
    OBVIOUS
  <2>2. e \in Entry /\ e.value = p
    <3>1. e \in Entry
      BY <1>1, <2>1, HandledEntries
    <3>2. PICK x : x = Reallocated(Opened(db[k]), StrLen[p] + 1)
      OBVIOUS
    <3>3. x \in Entry
      <4>1. Opened(db[k]) \in Entry /\ StrLen[p] + 1 \in Nat
        BY <1>1, LengthAssumption, OpenedProperties
      <4> QED
        BY <3>2, <4>1, ReallocatedProperties
    <3>4. e = [x EXCEPT !.value = p, !.filling = FALSE]
      BY <2>1, <3>2 DEF Inserted
    <3> QED
      BY <3>1, <3>3, <3>4 DEF Entry
  <2>3. /\ EagerSet(k, v) /\ UNCHANGED s2c /\ sorted_q' = q
        /\ db' = Released([db EXCEPT ![k] = e], t)
    BY <1>1, <1>3, <2>1 DEF SetEager, remove_server_pending_request,
       ServerTypeOK
  <2>4. Stores(k, p)
    BY <2>2, <2>3, EntryStored
  <2> QED
    BY <2>3, <2>4 DEF SetDone, Listed
<1>4. CASE SetRendezvous(t, k, v, q)
  <2>1. PICK e : e = Exposed(LockedWr(Opened(db[k])), v)
    OBVIOUS
  <2>2. PICK m : m = Message("RDMA_RKEY_SET", t, k, Empty, e.mr)
    OBVIOUS
  <2>3. /\ ~EagerSet(k, v) /\ server_post_send(m)
        /\ mark_rdma_fin_required(t, k, [db EXCEPT ![k] = e], q)
    BY <1>4, <2>1, <2>2 DEF SetRendezvous
  <2>4. e \in Entry /\ e.value = db[k].value
    <3>1. e \in Entry
      BY <1>1, <2>1, HandledEntries
    <3>2. PICK l : l = LockedWr(Opened(db[k]))
      OBVIOUS
    <3>3. l \in Entry /\ l.value = db[k].value
      <4>1. PICK o : o = Opened(db[k])
        OBVIOUS
      <4>2. o \in Entry /\ o.value = db[k].value
        BY <1>1, <4>1 DEF Opened, Entry
      <4> QED
        BY <3>2, <4>1, <4>2 DEF LockedWr, Entry
    <3>4. PICK x : x = Reallocated(l, StrLen[v])
      OBVIOUS
    <3>5. x \in Entry
      BY <3>3, <3>4, LengthAssumption, ReallocatedProperties
    <3>6. x.value = l.value
      BY <3>3, <3>4 DEF Reallocated, Entry
    <3>7. e = [x EXCEPT !.filling = TRUE]
      BY <2>1, <3>2, <3>4 DEF Exposed
    <3> QED
      BY <3>1, <3>3, <3>5, <3>6, <3>7 DEF Entry
  <2>5. db' = Released([db EXCEPT ![k] = e], t) /\ sorted_q' = q
    BY <1>1, <2>3 DEF mark_rdma_fin_required, Released
  <2>6. SameStore
    BY <2>4, <2>5, EntryStored DEF Stores, SameStore
  <2>7. m \in Reply /\ m.tid = t /\ m.key = k /\ m.op = "RDMA_RKEY_SET"
    BY <2>2, <2>4 DEF Message, Reply, ReplyOps, Contents, Entry
  <2>8. AnswersBy(t, k, m)
    BY <2>3, <2>5, <2>7 DEF AnswersBy, Listed
  <2> QED
    BY <2>3, <2>6, <2>7, <2>8 DEF SetDone
<1> QED
  BY <1>2, <1>3, <1>4 DEF handle_set_request

LEMMA GetOutcome ==
    ASSUME ServerTypeOK, NEW t \in Tids, NEW k \in Keys,
           NEW q \in Seq(Tids), IsInjective(q), t \notin ToSet(q),
           handle_get_request(t, k, q)
    PROVE  GetDone(t, k)
<1>1. db[k] \in Entry /\ RemoveFirst(q, t) = q
  BY ListElements DEF ServerTypeOK
<1>2. CASE GetBlocked(t, k, q)
  BY <1>2, PushQueues DEF GetBlocked, GetDone
<1>3. CASE GetEager(t, k, q)
  <2>8. PICK w \in EagerContent(db[k]) :
             server_post_send(Message("GET_RESPONSE", t, k, w, 0))
    BY <1>3 DEF GetEager
  <2>9. w \in Contents \cup {Torn}
    BY <1>1, <2>8 DEF EagerContent, Content, Entry
  <2>1. PICK m : m = Message("GET_RESPONSE", t, k, w, 0)
    OBVIOUS
  <2>2. PICK e : e = Opened(db[k])
    OBVIOUS
  <2>3. e \in Entry /\ e.value = db[k].value
    BY <1>1, <2>2 DEF Opened, Entry
  <2>4. /\ CanLockRd(db[k]) /\ EagerGet(db[k].size)
        /\ server_post_send(m) /\ sorted_q' = q
        /\ db' = Released([db EXCEPT ![k] = e], t)
    BY <1>1, <1>3, <2>1, <2>2, <2>8
    DEF GetEager, remove_server_pending_request
  <2>5. SameStore
    BY <2>3, <2>4, EntryStored DEF Stores, SameStore
  <2>6. /\ m \in Reply /\ m.tid = t /\ m.key = k
        /\ m.op = "GET_RESPONSE" /\ m.val \in EagerContent(db[k])
    BY <2>1, <2>8, <2>9 DEF Message, Reply, ReplyOps
  <2>7. AnswersBy(t, k, m)
    BY <2>4, <2>6 DEF AnswersBy, Listed
  <2> QED
    BY <2>4, <2>5, <2>6, <2>7 DEF GetDone
<1>4. CASE GetRendezvous(t, k, q)
  <2>1. PICK m : m = Message("RDMA_RKEY_GET", t, k, Empty, db[k].mr)
    OBVIOUS
  <2>2. PICK e : e = LockedRd(Opened(db[k]))
    OBVIOUS
  <2>3. e \in Entry /\ e.value = db[k].value
    <3>1. PICK o : o = Opened(db[k])
      OBVIOUS
    <3>2. o \in Entry /\ o.value = db[k].value
      BY <1>1, <3>1 DEF Opened, Entry
    <3> QED
      BY <2>2, <3>1, <3>2 DEF LockedRd, Entry
  <2>4. /\ server_post_send(m) /\ sorted_q' = q
        /\ db' = Released([db EXCEPT ![k] = e], t)
    BY <1>1, <1>4, <2>1, <2>2 DEF GetRendezvous
  <2>5. SameStore
    BY <2>3, <2>4, EntryStored DEF Stores, SameStore
  <2>6. m \in Reply /\ m.tid = t /\ m.key = k /\ m.op = "RDMA_RKEY_GET"
    BY <1>1, <2>1 DEF Message, Reply, ReplyOps, Contents, Entry
  <2>7. AnswersBy(t, k, m)
    BY <2>4, <2>6 DEF AnswersBy, Listed
  <2> QED
    BY <2>5, <2>6, <2>7 DEF GetDone
<1> QED
  BY <1>2, <1>3, <1>4 DEF handle_get_request

-----------------------------------------------------------------------------
(* A handler at work for the request t: it is linked in its next place. *)
Outcome(t, op, k, v, p) ==
    \/ op = "SET" /\ SetDone(t, k, v, p)
    \/ op = "GET" /\ GetDone(t, k)

LEMMA ServingStaysLinked ==
    ASSUME LInv, NEW c \in Clients, NEW t, NEW op, NEW k, NEW v, NEW q,
           NEW p, Serves(c, t, op, k, v, q), Outcome(t, op, k, v, p),
           Asked(t, op, k, v), internal_q[t] = NoReq \/ t \in Listed
    PROVE  (\A u \in Tids : Linked(u)') /\ \A b \in Clients : InGet(b)'
<1>1. /\ t \in Tids /\ Owner(t) = c
      /\ \A m \in Posted(c)' : m.tid # t
      /\ t \notin TidsIn(s2c[c]) \cup TidsIn(wcq'[c])
      /\ \A m \in Reply :
            AnsweredWith(t, k, q, m) => Replied(c)' = Replied(c) \cup {m}
      /\ Moves({t})
  BY LinkTypes, ServingMoves
<1>2. /\ UNCHANGED <<pending, tid, pc, wcq>>
      /\ ReadyToServe(c, t, op, k, v, q)
  BY DEF Serves
<1>3. /\ \A m \in Completed(c)' : m.tid # t
      /\ \A m \in Replied(c) : m.tid # t
  BY <1>1 DEF Completed, Replied, TidsIn
<1>4. \A m \in Replied(c)' : m.tid = t => Waits(t, Kind(m.op))'
  <2>1. ASSUME NEW m \in Reply, AnswersBy(t, k, m),
               \/ op = "SET" /\ ~EagerSet(k, v) /\ m.op = "RDMA_RKEY_SET"
               \/ op = "GET" /\ m.op \in {"GET_RESPONSE", "RDMA_RKEY_GET"}
        PROVE  \A n \in Replied(c)' : n.tid = t => Waits(t, Kind(n.op))'
    <3>1. s2c'[c] = Append(s2c[c], m) /\ s2c[c] \in Seq(Reply)
      BY <1>1, <2>1, LinkTypes DEF AnswersBy, server_post_send, ServerTypeOK
    <3>2. Replied(c)' = Replied(c) \cup {m}
      BY <2>1, <3>1, Added DEF Replied
    <3>3. Waits(t, Kind(m.op))'
      BY <1>2, <2>1 DEF Asked, Kind, Waits
    <3> QED
      BY <1>3, <3>2, <3>3
  <2>2. ASSUME UNCHANGED s2c
        PROVE  \A n \in Replied(c)' : n.tid = t => Waits(t, Kind(n.op))'
    BY <1>3, <2>2 DEF Replied
  <2> QED
    BY <2>1, <2>2 DEF Outcome, SetDone, GetDone, Queued
<1>5. t \in Listed' =>
        /\ AskedListed(t)'
        /\ internal_q'[t].op = "SET" =>
              internal_q'[t].payload
                = PendingPayload(internal_q'[t].key, internal_q'[t].val)
  <2> SUFFICES ASSUME t \in Listed'
               PROVE  /\ AskedListed(t)'
                      /\ internal_q'[t].op = "SET" =>
                            internal_q'[t].payload
                              = PendingPayload(internal_q'[t].key,
                                               internal_q'[t].val)
    OBVIOUS
  <2>1. \A o, j, w : Asked(t, o, j, w) => Asked(t, o, j, w)'
    BY <1>2 DEF Asked, Waits
  <2>2. \E w : Queued(t, op, k, w) /\ (op = "SET" => w = v)
    BY DEF Outcome, SetDone, GetDone, AnswersBy
  <2>3. PICK w : Queued(t, op, k, w) /\ (op = "SET" => w = v)
    BY <2>2
  <2>4. CASE internal_q[t] # NoReq
    <3>1. internal_q'[t] = internal_q[t]
      BY <2>3, <2>4 DEF Queued
    <3>2. Linked(t) /\ t \in Listed
      BY <1>1, <2>4 DEF LInv
    <3> QED
      BY <2>1, <3>1, <3>2 DEF Linked, AskedListed
  <2>5. CASE internal_q[t] = NoReq
    <3>1. /\ internal_q'[t].op = op /\ internal_q'[t].key = k
          /\ internal_q'[t].val = w
          /\ internal_q'[t].payload = PendingPayload(k, w)
      BY <2>3, <2>5 DEF Queued
    <3>2. Asked(t, op, k, w)
      BY <2>3 DEF Asked
    <3> QED
      BY <2>1, <3>1, <3>2 DEF AskedListed
  <2> QED
    BY <2>4, <2>5
<1>6. Linked(t)'
  BY <1>1, <1>3, <1>4, <1>5 DEF Linked
<1>7. Waits(t, "GET") => Waits(t, "GET")'
  BY <1>2 DEF Waits
<1> QED
  BY <1>1, <1>2, <1>6, <1>7, MovingStaysLinked

(* A received SET or GET. *)
LEMMA RecvOutcome ==
    ASSUME LInv, NEW c \in Clients, RecvSet(c) \/ RecvGet(c),
           NEW m, m = Head(c2s[c])
    PROVE  \E op, v, q :
             /\ op = m.op /\ m \in Posted(c) /\ internal_q[m.tid] = NoReq
             /\ m.tid \in Tids /\ m.key \in Keys /\ m.val \in Contents
             /\ Serves(c, m.tid, op, m.key, v, q)
             /\ Outcome(m.tid, op, m.key, v, v)
             /\ Asked(m.tid, op, m.key, v)
             /\ op = "SET" => v = m.val
<1>1. /\ m \in Posted(c)
      /\ m.tid \in Tids /\ m.key \in Keys /\ m.val \in Contents
      /\ internal_q[m.tid] = NoReq
      /\ \/ RecvSet(c) /\ m.op = "SET"
            /\ Serves(c, m.tid, "SET", m.key, m.val, sorted_q)
         \/ RecvGet(c) /\ m.op = "GET"
            /\ Serves(c, m.tid, "GET", m.key, Empty, sorted_q)
  BY LinkTypes, RecvServes
<1>2. Asked(m.tid, m.op, m.key, m.val)
  <2>1. Owner(m.tid) = c
    BY <1>1, LinkTypes DEF Serves, ReadyToServe, Session
  <2> QED
    BY <1>1, <2>1 DEF LInv, Linked
<1>3. CASE RecvSet(c) /\ m.op = "SET"
           /\ Serves(c, m.tid, "SET", m.key, m.val, sorted_q)
  <2>1. /\ handle_set_request(m.tid, m.key, m.val, m.val, sorted_q)
        /\ sorted_q \in Seq(Tids) /\ IsInjective(sorted_q)
        /\ m.tid \notin ToSet(sorted_q)
    BY <1>3 DEF RecvSet, Serves, ReadyToServe
  <2>2. SetDone(m.tid, m.key, m.val, m.val)
    BY <1>1, <2>1, LinkTypes, SetOutcome
  <2> QED
    BY <1>1, <1>2, <1>3, <2>2 DEF Outcome
<1>4. CASE RecvGet(c) /\ m.op = "GET"
           /\ Serves(c, m.tid, "GET", m.key, Empty, sorted_q)
  <2>1. /\ handle_get_request(m.tid, m.key, sorted_q)
        /\ sorted_q \in Seq(Tids) /\ IsInjective(sorted_q)
        /\ m.tid \notin ToSet(sorted_q)
    BY <1>4 DEF RecvGet, Serves, ReadyToServe
  <2>2. GetDone(m.tid, m.key)
    BY <1>1, <2>1, LinkTypes, GetOutcome
  <2>3. Asked(m.tid, "GET", m.key, Empty)
    BY <1>2, <1>4 DEF Asked
  <2> QED
    BY <1>1, <1>4, <2>2, <2>3 DEF Outcome
<1> QED
  BY <1>1, <1>3, <1>4

(* A queued request. *)
LEMMA PendingOutcome ==
    ASSUME LInv, ServePending, NEW t, t = Head(sorted_q),
           NEW r, r = internal_q[t]
    PROVE  \E q :
             /\ t \in Tids /\ t \in Listed /\ Owner(t) \in Clients
             /\ r \in Request /\ r # NoReq
             /\ Serves(Owner(t), t, r.op, r.key, r.val, q)
             /\ Outcome(t, r.op, r.key, r.val, r.payload)
             /\ Asked(t, r.op, r.key, r.val)
             /\ r.op = "SET" => r.payload = PendingPayload(r.key, r.val)
<1>1. PICK q : q = Tail(sorted_q)
  OBVIOUS
<1>2. /\ t \in Tids /\ t \in Listed /\ Owner(t) \in Clients
      /\ r \in Request /\ r # NoReq
      /\ \/ r.op = "SET" /\ handle_set_request(t, r.key, r.val, r.payload, q)
         \/ r.op = "GET" /\ handle_get_request(t, r.key, q)
      /\ Serves(Owner(t), t, r.op, r.key, r.val, q)
  BY <1>1, LinkTypes, PendingServes
<1>3. q \in Seq(Tids) /\ IsInjective(q) /\ t \notin ToSet(q)
  BY <1>2 DEF Serves, ReadyToServe
<1>4. r.key \in Keys /\ r.val \in Contents /\ r.payload \in Contents
  BY <1>2 DEF Request
<1>5. Outcome(t, r.op, r.key, r.val, r.payload)
  <2>1. CASE r.op = "SET" /\ handle_set_request(t, r.key, r.val, r.payload, q)
    BY <1>2, <1>3, <1>4, <2>1, LinkTypes, SetOutcome DEF Outcome
  <2>2. CASE r.op = "GET" /\ handle_get_request(t, r.key, q)
    BY <1>2, <1>3, <1>4, <2>2, LinkTypes, GetOutcome DEF Outcome
  <2> QED
    BY <1>2, <2>1, <2>2
<1>6. /\ Asked(t, r.op, r.key, r.val)
      /\ r.op = "SET" => r.payload = PendingPayload(r.key, r.val)
  BY <1>2 DEF LInv, Linked, AskedListed
<1> QED
  BY <1>2, <1>5, <1>6

(* The handlers. *)
LEMMA HandlersStayLinked ==
    ASSUME LInv,
           \/ \E c \in Clients : RecvSet(c) \/ RecvGet(c) \/ RecvFin(c)
           \/ ServePending
    PROVE  (\A u \in Tids : Linked(u)') /\ \A b \in Clients : InGet(b)'
<1>1. ASSUME NEW c \in Clients, RecvSet(c) \/ RecvGet(c)
      PROVE  (\A u \in Tids : Linked(u)') /\ \A b \in Clients : InGet(b)'
  <2>1. PICK m : m = Head(c2s[c])
    OBVIOUS
  <2>2. \E op, v, q :
           /\ op = m.op /\ m \in Posted(c) /\ internal_q[m.tid] = NoReq
           /\ m.tid \in Tids /\ m.key \in Keys /\ m.val \in Contents
           /\ Serves(c, m.tid, op, m.key, v, q)
           /\ Outcome(m.tid, op, m.key, v, v)
           /\ Asked(m.tid, op, m.key, v)
           /\ op = "SET" => v = m.val
    BY <1>1, <2>1, RecvOutcome
  <2>3. PICK op, v, q :
           /\ internal_q[m.tid] = NoReq
           /\ Serves(c, m.tid, op, m.key, v, q)
           /\ Outcome(m.tid, op, m.key, v, v)
           /\ Asked(m.tid, op, m.key, v)
    BY <2>2
  <2> QED
    BY <2>3, ServingStaysLinked
<1>2. ASSUME ServePending
      PROVE  (\A u \in Tids : Linked(u)') /\ \A b \in Clients : InGet(b)'
  <2>1. PICK t : t = Head(sorted_q)
    OBVIOUS
  <2>2. PICK r : r = internal_q[t]
    OBVIOUS
  <2>3. \E q :
           /\ t \in Tids /\ t \in Listed /\ Owner(t) \in Clients
           /\ r \in Request /\ r # NoReq
           /\ Serves(Owner(t), t, r.op, r.key, r.val, q)
           /\ Outcome(t, r.op, r.key, r.val, r.payload)
           /\ Asked(t, r.op, r.key, r.val)
           /\ r.op = "SET" => r.payload = PendingPayload(r.key, r.val)
    BY <1>2, <2>1, <2>2, PendingOutcome
  <2>4. PICK q :
           /\ t \in Listed /\ Owner(t) \in Clients
           /\ Serves(Owner(t), t, r.op, r.key, r.val, q)
           /\ Outcome(t, r.op, r.key, r.val, r.payload)
           /\ Asked(t, r.op, r.key, r.val)
    BY <2>3
  <2> QED
    BY <2>4, ServingStaysLinked
<1>3. ASSUME NEW c \in Clients, RecvFin(c)
      PROVE  (\A u \in Tids : Linked(u)') /\ \A b \in Clients : InGet(b)'
  <2>1. PICK m : m = Head(c2s[c])
    OBVIOUS
  <2>2. /\ m.tid \in Tids /\ Owner(m.tid) = c
        /\ \A n \in Posted(c)' : n.tid # m.tid
        /\ m.tid \notin TidsIn(s2c[c]) \cup TidsIn(wcq[c]) \cup Listed
        /\ UNCHANGED <<pending, tid, pc, wcq, s2c, sorted_q>>
        /\ Moves({m.tid})
    BY <1>3, <2>1, LinkTypes, FinMoves
  <2>3. \A n \in Replied(c)' \cup Completed(c)' : n.tid # m.tid
    BY <2>2 DEF Replied, Completed, TidsIn
  <2>4. Linked(m.tid)'
    BY <2>2, <2>3 DEF Linked, Listed
  <2>5. Waits(m.tid, "GET") => Waits(m.tid, "GET")'
    BY <2>2 DEF Waits
  <2> QED
    BY <2>2, <2>4, <2>5, MovingStaysLinked
<1> QED
  BY <1>1, <1>2, <1>3

(* Every step leaves all tids linked, as long as no client dies. *)
LEMMA LinkedStep ==
    ASSUME LInv, [Next]_vars, Unreliable = {}
    PROVE  (\A u \in Tids : Linked(u)') /\ \A b \in Clients : InGet(b)'
<1>1. ASSUME NEW c \in Clients, ClientStep(c)
      PROVE  (\A u \in Tids : Linked(u)') /\ \A b \in Clients : InGet(b)'
  <2>1. CASE \/ \E k \in Keys, v \in Values : kv_set(c, k, v)
             \/ \E k \in Keys : kv_get(c, k)
    BY <2>1, CallsStayLinked
  <2>2. CASE GetReturn(c)
    BY <2>2, ReturnStaysLinked
  <2>3. CASE kv_close(c) \/ CloseDone(c) \/ ClientDie(c)
    <3>1. Fades
      BY <2>3, FadingSteps
    <3> QED
      BY <3>1, FadingStaysLinked
  <2>4. CASE ClientPoll(c)
    BY <2>4, PollStaysLinked
  <2> QED
    BY <1>1, <2>1, <2>2, <2>3, <2>4 DEF ClientStep
<1>2. ASSUME NEW c \in Clients, RdmaWrite(c) \/ RdmaRead(c)
      PROVE  (\A u \in Tids : Linked(u)') /\ \A b \in Clients : InGet(b)'
  BY <1>2, RdmaStaysLinked
<1>3. ASSUME \/ \E c \in Clients : RecvSet(c) \/ RecvGet(c) \/ RecvFin(c)
             \/ ServePending
      PROVE  (\A u \in Tids : Linked(u)') /\ \A b \in Clients : InGet(b)'
  BY <1>3, HandlersStayLinked
<1>4. ASSUME \/ \E c \in Clients :
                   \/ QpError(c) \/ accept_new_connection(c)
                   \/ RecvShutdown(c) \/ RemoveFailedConnection(c)
                   \/ RemoveConnection(c)
             \/ InvalidateRequest \/ ibv_poll_cq \/ StartPass \/ EndPass
             \/ UNCHANGED vars
      PROVE  (\A u \in Tids : Linked(u)') /\ \A b \in Clients : InGet(b)'
  <2>1. Fades
    BY <1>4, FadingSteps
  <2> QED
    BY <2>1, FadingStaysLinked
<1> QED
  BY <1>1, <1>2, <1>3, <1>4
     DEF Next, NetworkStep, ServerStep, handle_recv_request

(* At the start there is nothing to link. *)
LEMMA InitLinked ==
    ASSUME Init
    PROVE  (\A t \in Tids : Linked(t)) /\ (\A c \in Clients : InGet(c))
<1>1. \A c \in Clients : Posted(c) = {} /\ Replied(c) = {} /\ Completed(c) = {}
  BY NoElements DEF Init, ServerInit, Posted, Replied, Completed
<1>2. Listed = {}
  BY NoElements DEF Init, ServerInit, Listed
<1>3. \A t \in Tids : Linked(t)
  BY <1>1, <1>2, OwnerType DEF Linked
<1>4. \A c \in Clients : InGet(c)
  BY DEF Init, InGet
<1> QED
  BY <1>3, <1>4

LEMMA LinkedInvariance ==
    ASSUME Unreliable = {}
    PROVE  Spec => []LInv
<1>1. Init => LInv
  BY InitAccounted, InitWhole, InitLinked DEF LInv
<1>2. ASSUME LInv, [Next]_vars, PlInv'
      PROVE  LInv'
  <2>1. Whole'
    BY <1>2, LinkTypes, WholeStep
  <2>2. (\A u \in Tids : Linked(u)') /\ \A b \in Clients : InGet(b)'
    BY <1>2, LinkedStep
  <2> QED
    BY <1>2, <2>1, <2>2 DEF LInv
<1> QED
  BY <1>1, <1>2, PlacesInvariance, PTL DEF Spec

-----------------------------------------------------------------------------
(* The strings that eager gets read.                                       *)

(* A value of a size that is read eagerly was stored eagerly, with its end, *)
(* and nobody writes to it.                                                *)
Sized(e) == EagerGet(e.size) => e.num_writers = 0 /\ Terminated(e)

SizesRight == \A k \in Keys : Sized(db[k])

(* What the handlers make of an entry. *)
LEMMA StoredIsSized ==
    ASSUME NEW e \in Entry, e.num_writers = 0, NEW v \in Contents
    PROVE  Sized(Inserted(Opened(e), v))
<1>1. StrLen[v] \in Nat
  BY LengthAssumption
<1>2. PICK o \in Entry : o = Opened(e) /\ o.num_writers = 0
  BY OpenedProperties
<1>3. PICK n \in Nat : n = StrLen[v] + 1
  BY <1>1
<1>4. PICK r : r = Reallocated(o, n)
  OBVIOUS
<1>5. r \in Entry /\ r.size = n /\ r.num_writers = 0
  BY <1>2, <1>4, ReallocatedProperties DEF Reallocated, Entry
<1>6. PICK f : f = [r EXCEPT !.value = v, !.filling = FALSE]
  OBVIOUS
<1>7. f = Inserted(Opened(e), v)
  BY <1>2, <1>3, <1>4, <1>6 DEF Inserted
<1>8. f.size = n /\ f.value = v /\ f.num_writers = 0
  BY <1>5, <1>6 DEF Entry
<1>9. Sized(f)
  BY <1>1, <1>3, <1>8 DEF Sized, Terminated
<1> QED
  BY <1>7, <1>9

LEMMA ExposedIsSized ==
    ASSUME ShortKeys, NEW e \in Entry, NEW k \in Keys, NEW v \in Contents,
           ~EagerSet(k, v)
    PROVE  Sized(Exposed(LockedWr(Opened(e)), v))
<1>1. StrLen[v] \in Nat /\ KeyLen[k] \in Nat /\ KeyLen[k] <= 55
  BY LengthAssumption DEF ShortKeys
<1>2. ~EagerGet(StrLen[v])
  BY <1>1 DEF EagerSet, EagerGet, CLIENT_REQUEST_PAYLOAD_LEN, BUFFER_SIZE,
     CLIENT_HEADER_LEN, SERVER_HEADER_LEN, SERVER_RESPONSE_PAYLOAD_LEN
<1>3. PICK o \in Entry : o = LockedWr(Opened(e))
  BY OpenedProperties, LockedWrProperties
<1>4. PICK r : r = Reallocated(o, StrLen[v])
  OBVIOUS
<1>5. r \in Entry /\ r.size = StrLen[v]
  BY <1>1, <1>3, <1>4, ReallocatedProperties DEF Reallocated, Entry
<1>6. PICK f : f = [r EXCEPT !.filling = TRUE]
  OBVIOUS
<1>7. f = Exposed(LockedWr(Opened(e)), v)
  BY <1>3, <1>4, <1>6 DEF Exposed
<1>8. f.size = StrLen[v]
  BY <1>5, <1>6 DEF Entry
<1>9. Sized(f)
  BY <1>2, <1>8 DEF Sized
<1> QED
  BY <1>7, <1>9

(* A lock that is given back or taken by a reader changes no size. *)
LEMMA SameSizeIsSized ==
    ASSUME NEW e \in Entry, NEW f, Sized(e), f.size = e.size,
           f.value = e.value, e.num_writers = 0 => f.num_writers = 0
    PROVE  Sized(f)
  BY DEF Sized, Terminated

LEMMA ReleasedStaysSized ==
    ASSUME ServerTypeOK, NEW t \in Tids, NEW d \in [Keys -> Entry],
           \A k \in Keys : Sized(d[k])
    PROVE  \A k \in Keys : Sized(Released(d, t)[k])
<1> SUFFICES ASSUME NEW k \in Keys
             PROVE  Sized(Released(d, t)[k])
  OBVIOUS
<1>1. Released(d, t)[k] = d[k] \/ Released(d, t)[k] = Unlocked(d[k])
  BY DEF Released, ServerTypeOK
<1>2. PICK f : f = Unlocked(d[k])
  OBVIOUS
<1>3. /\ f.size = d[k].size /\ f.value = d[k].value
      /\ d[k].num_writers = 0 => f.num_writers = 0
  BY <1>2 DEF Unlocked, Entry
<1>4. Sized(f)
  BY <1>3, SameSizeIsSized
<1> QED
  BY <1>1, <1>2, <1>4

LEMMA HandlersStaySized ==
    ASSUME ShortKeys, SizesRight, ServerTypeOK, NEW t \in Tids,
           NEW j \in Keys, NEW v \in Contents, NEW p \in Contents, NEW q,
           handle_set_request(t, j, v, p, q) \/ handle_get_request(t, j, q)
    PROVE  SizesRight'
<1>1. db \in [Keys -> Entry] /\ db[j] \in Entry /\ Sized(db[j])
  BY DEF ServerTypeOK, SizesRight
<1>2. ASSUME NEW e \in Entry, Sized(e), db' = Released([db EXCEPT ![j] = e], t)
      PROVE  SizesRight'
  <2>1. PICK d : d = [db EXCEPT ![j] = e]
    OBVIOUS
  <2>2. d \in [Keys -> Entry] /\ \A k \in Keys : Sized(d[k])
    BY <1>1, <1>2, <2>1 DEF SizesRight
  <2>3. \A k \in Keys : Sized(Released(d, t)[k])
    BY <2>2, ReleasedStaysSized
  <2>4. \A k \in Keys : Sized(db'[k])
    BY <1>2, <2>1, <2>3
  <2> QED
    BY <2>4 DEF SizesRight, Sized, Terminated
<1>3. CASE SetBlocked(t, j, v, q) \/ GetBlocked(t, j, q)
  <2>1. UNCHANGED db
    BY <1>3 DEF SetBlocked, GetBlocked, push_pending_request
  <2> QED
    BY <2>1 DEF SizesRight, Sized, Terminated
<1>4. CASE SetEager(t, j, v, p, q)
  <2>1. PICK e : e = Inserted(Opened(db[j]), p)
    OBVIOUS
  <2>2. CanLockWr(db[j]) /\ db' = Released([db EXCEPT ![j] = e], t)
    BY <1>1, <1>4, <2>1 DEF SetEager, remove_server_pending_request
  <2>3. e \in Entry
    BY <1>1, <2>1, HandledEntries
  <2>4. Sized(e)
    BY <1>1, <2>1, <2>2, StoredIsSized DEF CanLockWr
  <2> QED
    BY <1>2, <2>2, <2>3, <2>4
<1>5. CASE SetRendezvous(t, j, v, q)
  <2>1. PICK e : e = Exposed(LockedWr(Opened(db[j])), v)
    OBVIOUS
  <2>2. ~EagerSet(j, v)
        /\ mark_rdma_fin_required(t, j, [db EXCEPT ![j] = e], q)
    BY <1>1, <1>5, <2>1 DEF SetRendezvous
  <2>3. db' = Released([db EXCEPT ![j] = e], t)
    BY <2>2 DEF mark_rdma_fin_required, Released
  <2>4. e \in Entry
    BY <1>1, <2>1, HandledEntries
  <2>5. Sized(e)
    BY <1>1, <2>1, <2>2, ExposedIsSized
  <2> QED
    BY <1>2, <2>3, <2>4, <2>5
<1>6. CASE GetEager(t, j, q)
  <2>1. PICK e : e = Opened(db[j])
    OBVIOUS
  <2>2. /\ e \in Entry /\ e.size = db[j].size /\ e.value = db[j].value
        /\ e.num_writers = db[j].num_writers
    BY <1>1, <2>1 DEF Opened, Entry
  <2>3. db' = Released([db EXCEPT ![j] = e], t)
    BY <1>1, <1>6, <2>1 DEF GetEager, remove_server_pending_request
  <2>4. Sized(e)
    BY <1>1, <2>2, SameSizeIsSized
  <2> QED
    BY <1>2, <2>2, <2>3, <2>4
<1>7. CASE GetRendezvous(t, j, q)
  <2>6. PICK o : o = Opened(db[j])
    OBVIOUS
  <2>1. /\ o \in Entry
        /\ o.size = db[j].size /\ o.value = db[j].value
        /\ o.num_writers = db[j].num_writers
    BY <1>1, <2>6 DEF Opened, Entry
  <2>2. PICK e : e = LockedRd(o)
    OBVIOUS
  <2>3. /\ e \in Entry /\ e.size = db[j].size /\ e.value = db[j].value
        /\ e.num_writers = db[j].num_writers
    BY <2>1, <2>2 DEF LockedRd, Entry
  <2>4. db' = Released([db EXCEPT ![j] = e], t)
    BY <1>1, <1>7, <2>2, <2>6 DEF GetRendezvous
  <2>5. Sized(e)
    BY <1>1, <2>3, SameSizeIsSized
  <2> QED
    BY <1>2, <2>3, <2>4, <2>5
<1> QED
  BY <1>3, <1>4, <1>5, <1>6, <1>7 DEF handle_set_request, handle_get_request

(* A write goes to an entry that its SET keeps locked. *)
LEMMA WriteStaysSized ==
    ASSUME LInv, SizesRight, NEW c \in Clients, RdmaWrite(c)
    PROVE  SizesRight'
<1>1. /\ RInv /\ TypeOK /\ Whole /\ Orderly(c) /\ Secured(c)
      /\ db \in [Keys -> Entry]
  BY LinkTypes DEF ServerTypeOK
<1>2. PICK i :
        /\ RdmaExecute(c, i)
        /\ c2s[c][i].op = "WRITE"
        /\ \E v \in SentContent(c, c2s[c][i].val) :
              db' = [db EXCEPT ![c2s[c][i].key].value = v,
                               ![c2s[c][i].key].filling = FALSE]
  BY DEF RdmaWrite
<1>3. PICK m : m = c2s[c][i]
  OBVIOUS
<1>4. UNCHANGED polled
  BY DEF RdmaWrite, loopVars
<1>5. m \in Posted(c) /\ m.tid \in Tids /\ Owner(m.tid) = c /\ m.key \in Keys
  BY <1>1, <1>2, <1>3, <1>4, ExecuteTakes
<1>6. db[m.key].num_writers = 1
  <2>1. Waits(m.tid, "SET")
    BY <1>2, <1>3, <1>5 DEF LInv, Linked, Asked
  <2>2. Alive(c)
    BY <1>1, <1>5, <2>1 DEF Whole, RecordRight, Waits
  <2>3. PostedLocked(c, m) /\ c # closing
    BY <1>1, <1>5, <2>2, RunningSlots DEF Secured
  <2> QED
    BY <1>2, <1>3, <2>3 DEF PostedLocked, RdmaOps, Locked
<1>7. PICK v : db' = [db EXCEPT ![m.key].value = v, ![m.key].filling = FALSE]
  BY <1>2, <1>3
<1>8. PICK e : e = [db[m.key] EXCEPT !.value = v, !.filling = FALSE]
  OBVIOUS
<1>9. /\ db' = [db EXCEPT ![m.key] = e]
      /\ e.size = db[m.key].size
  BY <1>1, <1>5, <1>7, <1>8 DEF Entry
<1>10. ~EagerGet(e.size)
  BY <1>5, <1>6, <1>9 DEF SizesRight, Sized
<1>11. \A k \in Keys : Sized(db'[k])
  BY <1>1, <1>5, <1>9, <1>10 DEF SizesRight, Sized
<1> QED
  BY <1>11 DEF SizesRight, Sized, Terminated

LEMMA SizesStep ==
    ASSUME LInv, ShortKeys, SizesRight, [Next]_vars
    PROVE  SizesRight'
<1>1. /\ RInv /\ TypeOK /\ PolledAreSends /\ ServerTypeOK
      /\ \A b \in Clients : Orderly(b)
      /\ db \in [Keys -> Entry] /\ sorted_q \in Seq(Tids)
  BY LinkTypes DEF RInv, TInv, IInv, ServerTypeOK
<1>2. CASE UNCHANGED db
  BY <1>2 DEF SizesRight, Sized, Terminated
<1>3. ASSUME NEW t \in Tids, remove_server_pending_request(t, db, sorted_q)
      PROVE  SizesRight'
  <2>1. db' = Released(db, t)
    BY <1>3 DEF remove_server_pending_request
  <2>2. \A k \in Keys : Sized(db'[k])
    BY <1>1, <2>1, ReleasedStaysSized DEF SizesRight
  <2> QED
    BY <2>2 DEF SizesRight, Sized, Terminated
<1>5. ASSUME NEW c \in Clients, handle_recv_request(c)
      PROVE  SizesRight'
  <2>1. PICK m : m = Head(c2s[c])
    OBVIOUS
  <2>2. CASE RecvSet(c)
    <3>1. m.tid \in Tids /\ m.key \in Keys /\ m.val \in Contents
      BY <1>1, <2>1, <2>2, TakenFields DEF RecvSet, SendOps
    <3> QED
      BY <1>1, <2>1, <2>2, <3>1, HandlersStaySized DEF RecvSet
  <2>3. CASE RecvGet(c)
    <3>1. m.tid \in Tids /\ m.key \in Keys /\ m.val \in Contents
      BY <1>1, <2>1, <2>3, TakenFields DEF RecvGet, SendOps
    <3> QED
      BY <1>1, <2>1, <2>3, <3>1, HandlersStaySized DEF RecvGet
  <2>4. CASE RecvFin(c)
    <3>1. m.tid \in Tids
      BY <1>1, <2>1, <2>4, TakenFields DEF RecvFin, SendOps
    <3> QED
      BY <1>2, <1>3, <2>1, <2>4, <3>1 DEF RecvFin, serverVars
  <2>5. CASE RecvShutdown(c)
    BY <1>2, <2>5 DEF RecvShutdown, serverVars
  <2> QED
    BY <1>5, <2>2, <2>3, <2>4, <2>5 DEF handle_recv_request
<1>6. CASE ServePending
  <2>1. PICK t : t = Head(sorted_q)
    OBVIOUS
  <2>2. PICK r : r = internal_q[t]
    OBVIOUS
  <2>3. t \in Tids /\ r \in Request
    BY <1>1, <1>6, <2>1, <2>2, ServedRequest
  <2>4. r.key \in Keys /\ r.val \in Contents /\ r.payload \in Contents
    BY <2>3 DEF Request
  <2>5. \/ handle_set_request(t, r.key, r.val, r.payload, Tail(sorted_q))
        \/ handle_get_request(t, r.key, Tail(sorted_q))
    BY <1>6, <2>1, <2>2 DEF ServePending
  <2> QED
    BY <1>1, <2>3, <2>4, <2>5, HandlersStaySized
<1>7. CASE InvalidateRequest
  BY <1>3, <1>7 DEF InvalidateRequest, QueuedBy
<1>8. ASSUME NEW c \in Clients,
             \/ ClientStep(c) \/ RdmaRead(c) \/ QpError(c)
             \/ accept_new_connection(c) \/ RemoveFailedConnection(c)
             \/ RemoveConnection(c)
      PROVE  UNCHANGED db
  BY <1>8
  DEF ClientStep, kv_set, kv_get, GetReturn, kv_close, CloseDone, ClientDie,
      ClientPoll, client_handle_get_response,
      client_handle_recv_rdma_rkey_get, client_handle_recv_rdma_rkey_set,
      TakeReply, RdmaReadDone, RdmaWriteDone, RdmaRead, QpError,
      accept_new_connection, RemoveFailedConnection, RemoveConnection,
      serverVars
<1>9. CASE ibv_poll_cq \/ StartPass \/ EndPass \/ UNCHANGED vars
  BY <1>2, <1>9 DEF ibv_poll_cq, StartPass, EndPass, vars, serverVars
<1> QED
  BY <1>2, <1>5, <1>6, <1>7, <1>8, <1>9, WriteStaysSized
  DEF Next, NetworkStep, ServerStep

LEMMA SizesInvariance ==
    ASSUME Unreliable = {}, ShortKeys
    PROVE  Spec => []SizesRight
<1>1. Init => SizesRight
  BY LengthAssumption
  DEF Init, ServerInit, FreshEntry, SizesRight, Sized, Terminated
<1>2. LInv /\ SizesRight /\ [Next]_vars => SizesRight'
  BY SizesStep
<1> QED
  BY <1>1, <1>2, LinkedInvariance, PTL DEF Spec

-----------------------------------------------------------------------------
(* The steps of KvStore, in terms of the protocol's state.                 *)

SameCalls(B) == \A b \in B : CallOf(b)' = CallOf(b)

SameClients == \A b \in Clients : Alive(b)' <=> Alive(b)

LEMMA NothingHappens ==
    ASSUME SameStore, SetsUnderWay' = SetsUnderWay, SameClients,
           SameCalls(Clients)
    PROVE  UNCHANGED Abstract!kvVars
  BY DEF Abstract!kvVars, SameStore, SameClients, SameCalls

LEMMA SetTakesEffect ==
    ASSUME NEW s \in SetsUnderWay, s.key \in Keys, Stores(s.key, s.val),
           SetsUnderWay' = SetsUnderWay \ {s}, SameClients,
           SameCalls(Clients)
    PROVE  Abstract!KvNext
<1>1. [k \in Keys |-> db[k].value]'
        = [[k \in Keys |-> db[k].value] EXCEPT ![s.key] = s.val]
  BY DEF Stores
<1>2. Abstract!TakeEffect(s)
  BY <1>1 DEF Abstract!TakeEffect, SameClients, SameCalls
<1> QED
  BY <1>2 DEF Abstract!KvNext

LEMMA SetIsCalled ==
    ASSUME NEW s \in [tid : Tids, key : Keys, val : Contents],
           Owner(s.tid) \in Clients, Alive(Owner(s.tid)),
           \A r \in SetsUnderWay : r.tid # s.tid,
           SetsUnderWay' = SetsUnderWay \cup {s},
           SameStore, SameClients, SameCalls(Clients)
    PROVE  Abstract!KvNext
<1>1. Abstract!CallSet(s)
  BY DEF Abstract!CallSet, SameStore, SameClients, SameCalls
<1> QED
  BY <1>1 DEF Abstract!KvNext, Abstract!SetOp

LEMMA OneCallChanges ==
    ASSUME NEW c \in Clients, NEW r, CallOf(c)' = r, SameCalls(Clients \ {c})
    PROVE  [b \in Clients |-> CallOf(b)]'
             = [[b \in Clients |-> CallOf(b)] EXCEPT ![c] = r]
  BY DEF SameCalls

LEMMA GetIsCalled ==
    ASSUME NEW c \in Clients, NEW k \in Keys, Alive(c), CallOf(c) = NoReq,
           CallOf(c)' = [key |-> k, read |-> FALSE, val |-> Empty],
           SameCalls(Clients \ {c}), SameStore, SameClients,
           SetsUnderWay' = SetsUnderWay
    PROVE  Abstract!KvNext
<1>1. [b \in Clients |-> CallOf(b)]'
        = [[b \in Clients |-> CallOf(b)] EXCEPT ![c] =
             [key |-> k, read |-> FALSE, val |-> Empty]]
  BY OneCallChanges
<1>2. Abstract!CallGet(c, k)
  BY <1>1 DEF Abstract!CallGet, SameStore, SameClients
<1> QED
  BY <1>2 DEF Abstract!KvNext

(* The value is read in the state before the step. *)
LEMMA GetReads ==
    ASSUME NEW c \in Clients, NEW k \in Keys,
           CallOf(c) = [key |-> k, read |-> FALSE, val |-> Empty],
           CallOf(c) # NoReq,
           CallOf(c)' = [key |-> k, read |-> TRUE, val |-> db[k].value],
           SameCalls(Clients \ {c}), SameStore, SameClients,
           SetsUnderWay' = SetsUnderWay
    PROVE  Abstract!KvNext
<1> DEFINE call == [b \in Clients |-> CallOf(b)]
           store == [j \in Keys |-> db[j].value]
<1>1. /\ call[c] = [key |-> k, read |-> FALSE, val |-> Empty]
      /\ call[c] # NoReq
      /\ store[call[c].key] = db[k].value
  OBVIOUS
<1>2. call' = [call EXCEPT ![c] =
                 [key |-> k, read |-> TRUE, val |-> db[k].value]]
  BY OneCallChanges
<1>3. [call EXCEPT ![c].read = TRUE, ![c].val = store[call[c].key]]
        = [call EXCEPT ![c] =
             [key |-> k, read |-> TRUE, val |-> db[k].value]]
  <2>1. call = [b \in Clients |-> call[b]]
    OBVIOUS
  <2>2. PICK v : v = store[call[c].key]
    OBVIOUS
  <2> HIDE DEF call, store
  <2>3. PICK x, y : x = FALSE /\ y = TRUE
    OBVIOUS
  <2>4. PICK f : f = call
    OBVIOUS
  <2>5. f = [b \in Clients |-> f[b]]
    BY <2>1, <2>4
  <2>6. f[c] = [key |-> k, read |-> x, val |-> Empty]
    BY <1>1, <2>3, <2>4
  <2>7. [f EXCEPT ![c].read = y, ![c].val = v]
          = [f EXCEPT ![c] = [key |-> k, read |-> y, val |-> v]]
    <3>1. PICK g : g = [f EXCEPT ![c].read = y]
      OBVIOUS
    <3>2. [f[c] EXCEPT !.read = y] = [key |-> k, read |-> y, val |-> Empty]
      BY <2>6
    <3>3. /\ g = [b \in Clients |-> g[b]]
          /\ g[c] = [key |-> k, read |-> y, val |-> Empty]
          /\ \A b \in Clients \ {c} : g[b] = f[b]
      BY <2>5, <3>1, <3>2
    <3>4. PICK h : h = [g EXCEPT ![c].val = v]
      OBVIOUS
    <3>5. [g[c] EXCEPT !.val = v] = [key |-> k, read |-> y, val |-> v]
      BY <3>3
    <3>6. /\ h = [b \in Clients |-> h[b]]
          /\ h[c] = [key |-> k, read |-> y, val |-> v]
          /\ \A b \in Clients \ {c} : h[b] = f[b]
      BY <3>3, <3>4, <3>5
    <3>7. h = [f EXCEPT ![c] = [key |-> k, read |-> y, val |-> v]]
      BY <2>5, <3>6
    <3>8. [f EXCEPT ![c].read = y, ![c].val = v] = h
      BY <3>1, <3>4
    <3> QED
      BY <3>7, <3>8
  <2>8. v = db[k].value
    BY <1>1, <2>2
  <2>9. [call EXCEPT ![c].read = y, ![c].val = v]
          = [call EXCEPT ![c] = [key |-> k, read |-> y, val |-> v]]
    BY <2>4, <2>7
  <2> QED
    BY <2>2, <2>3, <2>8, <2>9
<1>4. ~call[c].read
  <2>1. PICK r : r = call[c]
    OBVIOUS
  <2>2. ~r.read
    BY <1>1, <2>1
  <2> QED
    BY <2>1, <2>2
<1>5. /\ store' = store
      /\ {b \in Clients : Alive(b)}' = {b \in Clients : Alive(b)}
  BY DEF SameStore, SameClients
<1>6. call' = [call EXCEPT ![c].read = TRUE, ![c].val = store[call[c].key]]
  BY <1>2, <1>3
<1>7. Abstract!Read(c) = ( /\ call[c] # NoReq
                           /\ ~call[c].read
                           /\ call' = [call EXCEPT ![c].read = TRUE,
                                                  ![c].val = store[call[c].key]]
                           /\ UNCHANGED <<store, SetsUnderWay,
                                          {b \in Clients : Alive(b)}>>)
  BY DEF Abstract!Read
<1>8. UNCHANGED <<store, SetsUnderWay, {b \in Clients : Alive(b)}>>
  BY <1>5
<1> HIDE DEF call, store
<1>9. Abstract!Read(c)
  BY <1>1, <1>4, <1>6, <1>7, <1>8, Zenon
<1> QED
  BY <1>9 DEF Abstract!KvNext

LEMMA GetReturns ==
    ASSUME NEW c \in Clients, NEW k, NEW v, CallOf(c) # NoReq,
           CallOf(c) = [key |-> k, read |-> TRUE, val |-> v],
           CallOf(c)' = NoReq,
           SameCalls(Clients \ {c}), SameStore, SameClients,
           SetsUnderWay' = SetsUnderWay
    PROVE  Abstract!KvNext
<1>1. [b \in Clients |-> CallOf(b)]'
        = [[b \in Clients |-> CallOf(b)] EXCEPT ![c] = NoReq]
  BY OneCallChanges
<1>2. [b \in Clients |-> CallOf(b)][c] = CallOf(c)
  OBVIOUS
<1> DEFINE call == [b \in Clients |-> CallOf(b)]
<1>3. call[c].read
  <2>1. PICK r : r = call[c]
    OBVIOUS
  <2>2. r.read
    BY <2>1
  <2> QED
    BY <2>1, <2>2
<1>4. UNCHANGED <<[k_1 \in Keys |-> db[k_1].value], SetsUnderWay,
                  {b \in Clients : Alive(b)}>>
  BY DEF SameStore, SameClients
<1>5. Abstract!ReturnGet(c)
        = ( /\ call[c] # NoReq
            /\ call[c].read
            /\ call' = [call EXCEPT ![c] = NoReq]
            /\ UNCHANGED <<[k_1 \in Keys |-> db[k_1].value], SetsUnderWay,
                           {b \in Clients : Alive(b)}>>)
  BY DEF Abstract!ReturnGet
<1>6. call[c] # NoReq /\ call' = [call EXCEPT ![c] = NoReq]
  BY <1>1, <1>2
<1> HIDE DEF call
<1>7. Abstract!ReturnGet(c)
  BY <1>3, <1>4, <1>5, <1>6, Zenon
<1> QED
  BY <1>7 DEF Abstract!KvNext

LEMMA HandleOpens ==
    ASSUME NEW c \in Clients, ~Alive(c), Alive(c)',
           \A b \in Clients \ {c} : Alive(b)' <=> Alive(b),
           SameCalls(Clients), SameStore, SetsUnderWay' = SetsUnderWay
    PROVE  Abstract!KvNext
<1>1. Abstract!Open(c)
  BY DEF Abstract!Open, SameStore, SameCalls
<1> QED
  BY <1>1 DEF Abstract!KvNext

LEMMA HandleCloses ==
    ASSUME NEW c \in Clients, Alive(c), ~Alive(c)', CallOf(c) = NoReq,
           \A b \in Clients \ {c} : Alive(b)' <=> Alive(b),
           SameCalls(Clients), SameStore, SetsUnderWay' \subseteq SetsUnderWay,
           \A s \in SetsUnderWay : Owner(s.tid) # c => s \in SetsUnderWay'
    PROVE  Abstract!KvNext
<1> DEFINE lost == SetsUnderWay \ SetsUnderWay'
<1>1. lost \in SUBSET Abstract!SetsOf(c)
  BY DEF Abstract!SetsOf
<1>2. SetsUnderWay' = SetsUnderWay \ lost
  OBVIOUS
<1> HIDE DEF lost
<1>3. /\ c \in {b \in Clients : Alive(b)}
      /\ {b \in Clients : Alive(b)}' = {b \in Clients : Alive(b)} \ {c}
  OBVIOUS
<1>4. [b \in Clients |-> CallOf(b)][c] = NoReq
  OBVIOUS
<1>5. Abstract!Close(c)
  BY <1>1, <1>2, <1>3, <1>4 DEF Abstract!Close, SameStore, SameCalls
<1> QED
  BY <1>5 DEF Abstract!KvNext

(* What is under way of a closed handle may be lost. *)
LEMMA SetsAreLost ==
    ASSUME NEW c \in Clients, ~Alive(c), SameClients, SameCalls(Clients),
           SameStore, SetsUnderWay' \subseteq SetsUnderWay,
           \A s \in SetsUnderWay : Owner(s.tid) # c => s \in SetsUnderWay'
    PROVE  Abstract!KvNext
<1> DEFINE lost == SetsUnderWay \ SetsUnderWay'
<1>1. lost \in SUBSET Abstract!SetsOf(c)
  BY DEF Abstract!SetsOf
<1>2. SetsUnderWay' = SetsUnderWay \ lost
  OBVIOUS
<1> HIDE DEF lost
<1>3. Abstract!Lose(c)
  BY <1>1, <1>2 DEF Abstract!Lose, SameStore, SameClients, SameCalls
<1> QED
  BY <1>3 DEF Abstract!KvNext

-----------------------------------------------------------------------------
(* The abstract state, tid by tid.                                         *)

(* The set of value v to key k that t has on its way. *)
Bears(t, k, v) ==
    \/ \E m \in Posted(Owner(t)) :
          m.tid = t /\ m.op \in {"SET", "WRITE"} /\ m.key = k /\ m.val = v
    \/ /\ pending[t].val = v
       /\ \E m \in Replied(Owner(t)) :
             m.tid = t /\ m.op = "RDMA_RKEY_SET" /\ m.key = k
    \/ /\ t \in Listed
       /\ internal_q[t].op = "SET"
       /\ internal_q[t].key = k /\ internal_q[t].val = v

SetOps == [tid : Tids, key : Keys, val : Contents]

SetsRight ==
    \A s : s \in SetsUnderWay <=> s \in SetOps /\ Bears(s.tid, s.key, s.val)

(* The value v that the get t was answered with. *)
Answer(t, v) ==
    \/ \E m \in Replied(Owner(t)) :
          m.tid = t /\ m.op = "GET_RESPONSE" /\ m.val = v
    \/ /\ pending[t].done \/ \E m \in Completed(Owner(t)) : m.tid = t
       /\ pending[t].val = v

GetRight(c, g) ==
    /\ (\A v : ~Answer(g, v)) =>
          CallOf(c) = [key |-> pending[g].key, read |-> FALSE, val |-> Empty]
    /\ \A v : Answer(g, v) =>
          /\ v \in Contents
          /\ CallOf(c) = [key |-> pending[g].key, read |-> TRUE, val |-> v]

CallRight(c) ==
    /\ pc[c] # "get" => CallOf(c) = NoReq
    /\ \A g \in Tids : pc[c] = "get" /\ g = GetOf(c) => GetRight(c, g)

(* A tid bears one set at most, and none while it is a get's. *)
BearsRight(t) ==
    /\ Waits(t, "GET") => \A k, v : ~Bears(t, k, v)
    /\ \A k, v, j, w : Bears(t, k, v) /\ Bears(t, j, w) => j = k /\ w = v

AInv ==
    /\ LInv /\ SetsRight
    /\ \A t \in Tids : BearsRight(t)
    /\ \A c \in Clients : CallRight(c)

(* The parts of SetsUnderWay are what the tids bear. *)
LEMMA SetsAreRight ==
    ASSUME LInv
    PROVE  SetsRight
<1>1. /\ TypeOK /\ RInv /\ PlInv
      /\ pending \in [Tids -> ClientRequest \cup {NoReq}]
      /\ \A c \in Clients : Orderly(c)
      /\ \A t \in Tids : Owner(t) \in Clients
  BY LinkTypes
<1>2. /\ \A t \in Listed : t \in Tids /\ internal_q[t] \in Request
      /\ Listed = ToSet(sorted_q)
  <2>1. \A t \in Listed : t \in Tids
    BY <1>1, WholeTypes
  <2>2. \A t \in Listed : internal_q[t] # NoReq
    BY <1>1, <2>1 DEF Orderly, QueuedRight
  <2> QED
    BY <1>1, <2>1, <2>2 DEF TypeOK, ServerTypeOK, Listed
<1>3. \A c \in Clients : \A m \in Posted(c) :
         m.op \in {"SET", "WRITE"} =>
            m.tid \in Tids /\ Owner(m.tid) = c /\ m.key \in Keys /\ m.val \in Contents
  BY <1>1, PlacedTids DEF Shutdown, WorkRequest, Session, Orderly
<1>4. \A c \in Clients : \A m \in Replied(c) :
         m.op = "RDMA_RKEY_SET" =>
            /\ m.tid \in Tids /\ Owner(m.tid) = c /\ m.key \in Keys
            /\ pending[m.tid].val \in Contents
  <2> SUFFICES ASSUME NEW c \in Clients, NEW m \in Replied(c),
                      m.op = "RDMA_RKEY_SET"
               PROVE  /\ m.tid \in Tids /\ Owner(m.tid) = c /\ m.key \in Keys
                      /\ pending[m.tid].val \in Contents
    OBVIOUS
  <2>1. m.tid \in Tids /\ Owner(m.tid) = c /\ m.key \in Keys
    BY <1>1, PlacedTids DEF Reply, Session
  <2>2. Waits(m.tid, "SET")
    BY <2>1 DEF LInv, Linked, Kind
  <2>3. pending[m.tid] \in ClientRequest /\ pending[m.tid].op = "SET"
    BY <1>1, <2>1, <2>2 DEF Waits
  <2> QED
    BY <2>1, <2>3 DEF ClientRequest
<1>5. \A s \in SetOps :
         s = [tid |-> s.tid, key |-> s.key, val |-> s.val]
  BY DEF SetOps
<1>6. ASSUME NEW s
      PROVE  s \in QueuedSets <=>
                s \in SetOps /\ s.tid \in Listed
                  /\ internal_q[s.tid].op = "SET"
                  /\ internal_q[s.tid].key = s.key
                  /\ internal_q[s.tid].val = s.val
  <2>1. s \in QueuedSets <=>
          \E t \in Listed :
             /\ internal_q[t].op = "SET"
             /\ s = [tid |-> t, key |-> internal_q[t].key,
                     val |-> internal_q[t].val]
    BY <1>2 DEF QueuedSets
  <2>2. ASSUME NEW t \in Listed,
               s = [tid |-> t, key |-> internal_q[t].key,
                    val |-> internal_q[t].val]
        PROVE  /\ s \in SetOps /\ s.tid = t
               /\ internal_q[s.tid].key = s.key
               /\ internal_q[s.tid].val = s.val
    BY <1>2, <2>2 DEF SetOps, Request
  <2> QED
    BY <1>5, <2>1, <2>2
<1>7. ASSUME NEW s
      PROVE  (\E c \in Clients : s \in PostedSets(c)) <=>
                s \in SetOps /\ \E m \in Posted(Owner(s.tid)) :
                   m.tid = s.tid /\ m.op \in {"SET", "WRITE"}
                     /\ m.key = s.key /\ m.val = s.val
  <2>1. \A c : s \in PostedSets(c) <=>
          \E m \in Posted(c) :
             /\ m.op \in {"SET", "WRITE"}
             /\ s = [tid |-> m.tid, key |-> m.key, val |-> m.val]
    BY DEF PostedSets, SetOf, Posted
  <2>2. ASSUME NEW c \in Clients, NEW m \in Posted(c),
               m.op \in {"SET", "WRITE"},
               s = [tid |-> m.tid, key |-> m.key, val |-> m.val]
        PROVE  /\ s \in SetOps /\ Owner(s.tid) = c
               /\ m.tid = s.tid /\ m.key = s.key /\ m.val = s.val
    BY <1>3, <2>2 DEF SetOps
  <2>3. s \in SetOps => Owner(s.tid) \in Clients
    BY <1>1 DEF SetOps
  <2> QED
    BY <1>5, <2>1, <2>2, <2>3
<1>8. ASSUME NEW s
      PROVE  (\E c \in Clients : s \in GrantedSets(c)) <=>
                s \in SetOps /\ pending[s.tid].val = s.val
                  /\ \E m \in Replied(Owner(s.tid)) :
                        m.tid = s.tid /\ m.op = "RDMA_RKEY_SET"
                          /\ m.key = s.key
  <2>1. \A c : s \in GrantedSets(c) <=>
          \E m \in Replied(c) :
             /\ m.op = "RDMA_RKEY_SET"
             /\ s = [tid |-> m.tid, key |-> m.key, val |-> pending[m.tid].val]
    BY DEF GrantedSets, SetOf, Replied
  <2>2. ASSUME NEW c \in Clients, NEW m \in Replied(c),
               m.op = "RDMA_RKEY_SET",
               s = [tid |-> m.tid, key |-> m.key, val |-> pending[m.tid].val]
        PROVE  /\ s \in SetOps /\ Owner(s.tid) = c
               /\ m.tid = s.tid /\ m.key = s.key
               /\ pending[s.tid].val = s.val
    BY <1>4, <2>2 DEF SetOps
  <2>3. s \in SetOps => Owner(s.tid) \in Clients
    BY <1>1 DEF SetOps
  <2> QED
    BY <1>5, <2>1, <2>2, <2>3
<1>9. ASSUME NEW s
      PROVE  s \in SetsUnderWay <=>
                \/ s \in QueuedSets
                \/ \E c \in Clients : s \in PostedSets(c)
                \/ \E c \in Clients : s \in GrantedSets(c)
  BY DEF SetsUnderWay
<1>10. ASSUME NEW s
       PROVE  s \in SetsUnderWay <=> s \in SetOps /\ Bears(s.tid, s.key, s.val)
  BY <1>6, <1>7, <1>8, <1>9 DEF Bears
<1> QED
  BY <1>10 DEF SetsRight

(* No two messages of a place have the same tid. *)
LEMMA MessageIsOne ==
    ASSUME RInv, NEW c \in Clients
    PROVE  /\ \A m, n \in Replied(c) : m.tid = n.tid => m = n
           /\ \A m, n \in Posted(c) : m.tid = n.tid => m = n
<1>1. /\ s2c[c] \in Seq(Reply) /\ Distinct(s2c[c])
      /\ c2s[c] \in Seq(WorkRequest) /\ Distinct(c2s[c])
  BY DEF RInv, TInv, IInv, TypeOK, ServerTypeOK, ClientTypeOK, Orderly, Apart
<1>2. \A m \in Replied(c) : \E i \in 1 .. Len(s2c[c]) : s2c[c][i] = m
  BY <1>1, Elements DEF Replied
<1>3. \A m \in Posted(c) : \E i \in 1 .. Len(c2s[c]) : c2s[c][i] = m
  BY <1>1, Elements DEF Posted
<1> QED
  BY <1>1, <1>2, <1>3 DEF Distinct

(* Where a tid is that waits for the answer to a get, there is no set. *)
LEMMA GetBearsNothing ==
    ASSUME LInv, NEW t \in Tids, Waits(t, "GET")
    PROVE  /\ \A m \in Posted(Owner(t)) :
                m.tid = t => m.op \notin {"SET", "WRITE"}
           /\ \A m \in Replied(Owner(t)) :
                m.tid = t => m.op # "RDMA_RKEY_SET"
           /\ t \in Listed => internal_q[t].op # "SET"
           /\ \A k, v : ~Bears(t, k, v)
<1>1. ~Waits(t, "SET") /\ pending[t] # NoReq
  BY DEF Waits
<1>2. Linked(t) /\ Accounted(t)
  BY DEF LInv, PlInv
<1>3. \A m \in Posted(Owner(t)) : m.tid = t => m.op \notin {"SET", "WRITE"}
  BY <1>1, <1>2 DEF Linked, Asked, Accounted, Forgotten
<1>4. \A m \in Replied(Owner(t)) : m.tid = t => m.op # "RDMA_RKEY_SET"
  BY <1>1, <1>2 DEF Linked, Kind
<1>5. t \in Listed => internal_q[t].op # "SET"
  BY <1>1, <1>2 DEF Linked, AskedListed, Asked, Accounted, ForgottenListed,
     Forgotten
<1> QED
  BY <1>3, <1>4, <1>5 DEF Bears

LEMMA BearsAreRight ==
    ASSUME LInv
    PROVE  \A t \in Tids : BearsRight(t)
<1> SUFFICES ASSUME NEW t \in Tids, NEW k, NEW v, NEW j, NEW w,
                    Bears(t, k, v), Bears(t, j, w)
             PROVE  j = k /\ w = v
  BY GetBearsNothing DEF BearsRight
<1>1. PICK c \in Clients : c = Owner(t)
  BY OwnerType
<1>2. RInv
  BY LinkTypes
<1>3. /\ \A m, n \in Replied(c) : m.tid = n.tid => m = n
      /\ \A m, n \in Posted(c) : m.tid = n.tid => m = n
  BY <1>2, MessageIsOne
<1>4. /\ (\E m \in Posted(c) : m.tid = t) =>
            t \notin Listed /\ ~ \E m \in Replied(c) : m.tid = t
      /\ (\E m \in Replied(c) : m.tid = t) => t \notin Listed
  BY <1>1, <1>2, LinkTypes
  DEF Orderly, Apart, TidsIn, Posted, Replied, Listed
<1> QED
  BY <1>1, <1>3, <1>4 DEF Bears

(* The answer of a get is in one place, and is not a value read in part.   *)
LEMMA AnswerIsOne ==
    ASSUME LInv, NEW g \in Tids, Waits(g, "GET"), NEW v, Answer(g, v)
    PROVE  /\ v \in Contents
           /\ \A w : Answer(g, w) => w = v
<1> DEFINE c == Owner(g)
<1>1. /\ c \in Clients /\ TypeOK /\ RInv /\ PlInv /\ Orderly(c) /\ Whole
      /\ pending[g] \in ClientRequest /\ pending[g].op = "GET"
      /\ pending[g] # NoReq
  BY LinkTypes DEF Waits
<1>2. pending[g].val \in Contents
  BY <1>1 DEF Whole, RecordRight, ClientRequest
<1>3. Alive(c)
  BY <1>1 DEF Whole, RecordRight
<1>4. (\E m \in Replied(c) : m.tid = g) =>
         /\ ~pending[g].done
         /\ ~ \E m \in Completed(c) : m.tid = g
  <2>1. IsReplied(g) <=> \E m \in Replied(c) : m.tid = g
    BY DEF IsReplied, TidsIn, Replied
  <2>2. IsCompleted(g) <=> \E m \in Completed(c) : m.tid = g
    BY DEF IsCompleted, TidsIn, Completed
  <2>3. IsReplied(g) => Undone(g) /\ ~IsCompleted(g)
    BY <1>1, <1>3, OnePlace, PlaceIsRight
  <2> QED
    BY <2>1, <2>2, <2>3 DEF Undone
<1>5. \A m \in Replied(c) : m \in Reply /\ m.val # Torn
  BY <1>1, PlacedTids DEF Whole
<1>6. \A m, n \in Replied(c) : m.tid = n.tid => m = n
  BY <1>1, MessageIsOne
<1>7. v \in Contents
  BY <1>2, <1>5 DEF Answer, Reply
<1>8. ASSUME NEW w, Answer(g, w)
      PROVE  w = v
  BY <1>4, <1>6, <1>8 DEF Answer
<1> QED
  BY <1>7, <1>8

LEMMA CallsAreRight ==
    ASSUME LInv
    PROVE  \A c \in Clients : CallRight(c)
<1> SUFFICES ASSUME NEW c \in Clients
             PROVE  CallRight(c)
  OBVIOUS
<1>1. pc[c] # "get" => CallOf(c) = NoReq
  BY DEF CallOf
<1>2. ASSUME NEW g \in Tids, pc[c] = "get", g = GetOf(c)
      PROVE  GetRight(c, g)
  <2>2. Waits(g, "GET") /\ Owner(g) = c /\ g = <<c, tid[c]>>
    BY <1>2 DEF LInv, InGet, GetOf, Owner
  <2>3. ASSUME NEW v
        PROVE  v \in AnswersTo(c) <=> Answer(g, v)
    <3>1. v \in {m.val : m \in {n \in ToSet(s2c[c]) : n.op = "GET_RESPONSE"}}
            <=> \E m \in Replied(c) : m.op = "GET_RESPONSE" /\ m.val = v
      BY DEF Replied
    <3>2. \A m \in Replied(c) : m.op = "GET_RESPONSE" => m.tid = g
      <4>1. SUFFICES ASSUME NEW m \in Replied(c), m.op = "GET_RESPONSE"
                     PROVE  m.tid = g
        OBVIOUS
      <4>2. m.tid \in Tids /\ Owner(m.tid) = c
        BY LinkTypes, PlacedTids DEF Session
      <4>3. Waits(m.tid, "GET")
        BY <4>1, <4>2 DEF LInv, Linked, Kind
      <4>4. m.tid[2] = tid[c]
        BY <4>2, <4>3 DEF LInv, Whole, RecordRight, Waits
      <4> QED
        BY <2>2, <4>2, <4>4 DEF Tids, Owner
    <3>3. v \in (IF pending[g].done \/ \E w \in ToSet(wcq[c]) : w.tid = g
                 THEN {pending[g].val} ELSE {})
            <=> /\ pending[g].done \/ \E m \in Completed(c) : m.tid = g
                /\ pending[g].val = v
      BY DEF Completed
    <3>4. AnswersTo(c) =
            {m.val : m \in {n \in ToSet(s2c[c]) : n.op = "GET_RESPONSE"}} \cup
            IF pending[g].done \/ \E w \in ToSet(wcq[c]) : w.tid = g
            THEN {pending[g].val} ELSE {}
      BY <2>2 DEF AnswersTo
    <3> QED
      BY <2>2, <3>1, <3>2, <3>3, <3>4 DEF Answer
  <2>4. CallOf(c) = [key  |-> pending[g].key,
                     read |-> AnswersTo(c) # {},
                     val  |-> IF AnswersTo(c) = {} THEN Empty
                              ELSE CHOOSE v \in AnswersTo(c) : TRUE]
    BY <1>2, <2>2 DEF CallOf
  <2>5. (\A v : ~Answer(g, v)) =>
           CallOf(c) = [key |-> pending[g].key, read |-> FALSE, val |-> Empty]
    <3>1. (\A v : ~Answer(g, v)) => AnswersTo(c) = {}
      BY <2>3
    <3> QED
      BY <2>4, <3>1
  <2>6. ASSUME NEW v, Answer(g, v)
        PROVE  /\ v \in Contents
               /\ CallOf(c) = [key |-> pending[g].key, read |-> TRUE, val |-> v]
    <3>1. v \in Contents /\ \A w : Answer(g, w) => w = v
      BY <2>2, <2>6, AnswerIsOne
    <3>2. AnswersTo(c) = {v}
      BY <2>3, <2>6, <3>1
    <3>3. (CHOOSE w \in AnswersTo(c) : TRUE) = v
      BY <3>2
    <3>4. (AnswersTo(c) # {}) = TRUE /\ AnswersTo(c) # {}
      BY <3>2
    <3> QED
      BY <2>4, <3>1, <3>3, <3>4
  <2> QED
    BY <2>5, <2>6 DEF GetRight
<1> QED
  BY <1>1, <1>2 DEF CallRight

LEMMA AbstractStateIsRight ==
    ASSUME Unreliable = {}
    PROVE  Spec => []AInv
<1>1. LInv => AInv
  BY SetsAreRight, BearsAreRight, CallsAreRight DEF AInv
<1> QED
  BY <1>1, LinkedInvariance, PTL

(* What a tid contributes when a step does not move it. *)
LEMMA OthersBearTheSame ==
    ASSUME NEW T, Moves(T), NEW t \in Tids \ T, Owner(t) \in Clients
    PROVE  /\ \A k, v : Bears(t, k, v)' <=> Bears(t, k, v)
           /\ \A v : Answer(t, v)' <=> Answer(t, v)
           /\ pending'[t] = pending[t]
<1>1. PICK c \in Clients : c = Owner(t)
  OBVIOUS
<1>2. /\ pending'[t] = pending[t] /\ internal_q'[t] = internal_q[t]
      /\ t \in Listed' <=> t \in Listed
  BY DEF Moves
<1>3. /\ \A m : m.tid = t => (m \in Posted(c)' <=> m \in Posted(c))
      /\ \A m : m.tid = t => (m \in Replied(c)' <=> m \in Replied(c))
      /\ \A m : m.tid = t => (m \in Completed(c)' <=> m \in Completed(c))
  BY DEF Moves
<1>4. ASSUME NEW k, NEW v
      PROVE  Bears(t, k, v)' <=> Bears(t, k, v)
  BY <1>1, <1>2, <1>3 DEF Bears
<1>5. ASSUME NEW v
      PROVE  Answer(t, v)' <=> Answer(t, v)
  BY <1>1, <1>2, <1>3 DEF Answer
<1> QED
  BY <1>2, <1>4, <1>5

LEMMA SetsStay ==
    ASSUME AInv, AInv', NEW T, Moves(T),
           \A t \in T \cap Tids : \A k \in Keys, v \in Contents :
              Bears(t, k, v)' <=> Bears(t, k, v)
    PROVE  SetsUnderWay' = SetsUnderWay
<1>1. ASSUME NEW s \in SetOps
      PROVE  Bears(s.tid, s.key, s.val)' <=> Bears(s.tid, s.key, s.val)
  <2>1. PICK t \in Tids, k \in Keys, v \in Contents :
           t = s.tid /\ k = s.key /\ v = s.val
    BY DEF SetOps
  <2>2. Bears(t, k, v)' <=> Bears(t, k, v)
    BY <2>1, OwnerType, OthersBearTheSame
  <2> QED
    BY <2>1, <2>2
<1>2. ASSUME NEW s
      PROVE  s \in SetsUnderWay' <=> s \in SetsUnderWay
  <2>1. SetsRight /\ SetsRight'
    BY DEF AInv
  <2>2. s \in SetsUnderWay' <=> s \in SetOps /\ Bears(s.tid, s.key, s.val)'
    BY <2>1 DEF SetsRight
  <2>3. s \in SetsUnderWay <=> s \in SetOps /\ Bears(s.tid, s.key, s.val)
    BY <2>1 DEF SetsRight
  <2> QED
    BY <1>1, <2>2, <2>3
<1> QED
  BY <1>2

(* A set of t is what it gains or loses. *)
LEMMA SetEnters ==
    ASSUME AInv, AInv', NEW t \in Tids, Moves({t}),
           NEW k \in Keys, NEW v \in Contents, Bears(t, k, v)',
           \A j, w : Bears(t, j, w)' => j = k /\ w = v,
           \A j, w : ~Bears(t, j, w)
    PROVE  /\ SetsUnderWay'
                = SetsUnderWay \cup {[tid |-> t, key |-> k, val |-> v]}
           /\ \A r \in SetsUnderWay : r.tid # t
<1> DEFINE e == [tid |-> t, key |-> k, val |-> v]
<1>1. /\ \A s : s \in SetsUnderWay' <=>
                s \in SetOps /\ Bears(s.tid, s.key, s.val)'
      /\ \A s : s \in SetsUnderWay <=>
                s \in SetOps /\ Bears(s.tid, s.key, s.val)
  BY DEF AInv, SetsRight
<1>2. ASSUME NEW s \in SetOps
      PROVE  s \in SetsUnderWay' <=> s \in SetsUnderWay \/ s = e
  <2>1. PICK u \in Tids, j \in Keys, w \in Contents :
           u = s.tid /\ j = s.key /\ w = s.val
    BY DEF SetOps
  <2>2. s = e <=> u = t /\ j = k /\ w = v
    BY <2>1 DEF SetOps
  <2>3. u # t => (Bears(u, j, w)' <=> Bears(u, j, w))
    BY OwnerType, OthersBearTheSame
  <2>4. u = t => ~Bears(u, j, w) /\ (Bears(u, j, w)' <=> j = k /\ w = v)
    OBVIOUS
  <2>5. /\ s \in SetsUnderWay' <=> Bears(u, j, w)'
        /\ s \in SetsUnderWay <=> Bears(u, j, w)
    BY <1>1, <2>1
  <2> HIDE DEF e
  <2> QED
    BY <2>2, <2>3, <2>4, <2>5
<1>3. e \in SetOps
  BY DEF SetOps
<1>4. \A s : s \in SetsUnderWay \/ s \in SetsUnderWay' => s \in SetOps
  BY <1>1
<1>5. SetsUnderWay' = SetsUnderWay \cup {e}
  <2> HIDE DEF e
  <2> QED
    BY <1>2, <1>3, <1>4
<1>6. \A r \in SetsUnderWay : r.tid # t
  BY <1>1
<1> QED
  BY <1>5, <1>6

LEMMA SetLeaves ==
    ASSUME AInv, AInv', NEW t \in Tids, Moves({t}),
           NEW k \in Keys, NEW v \in Contents, Bears(t, k, v),
           \A j, w : Bears(t, j, w) => j = k /\ w = v,
           \A j, w : ~Bears(t, j, w)'
    PROVE  /\ SetsUnderWay'
                = SetsUnderWay \ {[tid |-> t, key |-> k, val |-> v]}
           /\ [tid |-> t, key |-> k, val |-> v] \in SetsUnderWay
<1> DEFINE e == [tid |-> t, key |-> k, val |-> v]
<1>1. /\ \A s : s \in SetsUnderWay' <=>
                s \in SetOps /\ Bears(s.tid, s.key, s.val)'
      /\ \A s : s \in SetsUnderWay <=>
                s \in SetOps /\ Bears(s.tid, s.key, s.val)
  BY DEF AInv, SetsRight
<1>2. ASSUME NEW s \in SetOps
      PROVE  s \in SetsUnderWay' <=> s \in SetsUnderWay /\ s # e
  <2>1. PICK u \in Tids, j \in Keys, w \in Contents :
           u = s.tid /\ j = s.key /\ w = s.val
    BY DEF SetOps
  <2>2. s = e <=> u = t /\ j = k /\ w = v
    BY <2>1 DEF SetOps
  <2>3. u # t => (Bears(u, j, w)' <=> Bears(u, j, w))
    BY OwnerType, OthersBearTheSame
  <2>4. u = t => ~Bears(u, j, w)' /\ (Bears(u, j, w) <=> j = k /\ w = v)
    OBVIOUS
  <2>5. /\ s \in SetsUnderWay' <=> Bears(u, j, w)'
        /\ s \in SetsUnderWay <=> Bears(u, j, w)
    BY <1>1, <2>1
  <2> HIDE DEF e
  <2> QED
    BY <2>2, <2>3, <2>4, <2>5
<1>3. e \in SetsUnderWay
  BY <1>1 DEF SetOps
<1>4. \A s : s \in SetsUnderWay \/ s \in SetsUnderWay' => s \in SetOps
  BY <1>1
<1>5. SetsUnderWay' = SetsUnderWay \ {e}
  <2> HIDE DEF e
  <2> QED
    BY <1>2, <1>4
<1> QED
  BY <1>3, <1>5

LEMMA SetsMayLeave ==
    ASSUME AInv, AInv', NEW T \in SUBSET Tids, Moves(T),
           \A t \in T : \A k \in Keys, v \in Contents :
              Bears(t, k, v)' => Bears(t, k, v)
    PROVE  /\ SetsUnderWay' \subseteq SetsUnderWay
           /\ \A s \in SetsUnderWay : s.tid \notin T => s \in SetsUnderWay'
<1>1. /\ \A s : s \in SetsUnderWay' <=>
                s \in SetOps /\ Bears(s.tid, s.key, s.val)'
      /\ \A s : s \in SetsUnderWay <=>
                s \in SetOps /\ Bears(s.tid, s.key, s.val)
  BY DEF AInv, SetsRight
<1>2. ASSUME NEW s \in SetOps
      PROVE  /\ s \in SetsUnderWay' => s \in SetsUnderWay
             /\ s \in SetsUnderWay /\ s.tid \notin T => s \in SetsUnderWay'
  <2>1. PICK u \in Tids, j \in Keys, w \in Contents :
           u = s.tid /\ j = s.key /\ w = s.val
    BY DEF SetOps
  <2>2. u \notin T => (Bears(u, j, w)' <=> Bears(u, j, w))
    BY OwnerType, OthersBearTheSame
  <2>3. u \in T => (Bears(u, j, w)' => Bears(u, j, w))
    OBVIOUS
  <2>4. /\ s \in SetsUnderWay' <=> Bears(u, j, w)'
        /\ s \in SetsUnderWay <=> Bears(u, j, w)
    BY <1>1, <2>1
  <2> QED
    BY <2>1, <2>2, <2>3, <2>4
<1> QED
  BY <1>1, <1>2

(* The gets that a step leaves where they are. *)
LEMMA CallsStay ==
    ASSUME AInv, AInv', NEW T, Moves(T), NEW B \in SUBSET Clients,
           \A b \in B : /\ pc'[b] = "get" <=> pc[b] = "get"
                        /\ pc[b] = "get" => tid'[b] = tid[b],
           \A b \in B : \A g \in T \cap Tids :
              pc[b] = "get" /\ g = GetOf(b) /\ Waits(g, "GET") =>
                 /\ pending'[g].key = pending[g].key
                 /\ \A v : Answer(g, v)' <=> Answer(g, v)
    PROVE  SameCalls(B)
<1> SUFFICES ASSUME NEW b \in B
             PROVE  CallOf(b)' = CallOf(b)
  BY DEF SameCalls
<1>1. b \in Clients /\ CallRight(b) /\ CallRight(b)' /\ InGet(b)
  BY DEF AInv, LInv
<1>2. CASE pc[b] # "get"
  BY <1>1, <1>2 DEF CallRight
<1>3. CASE pc[b] = "get"
  <2>1. PICK g : g = GetOf(b)
    OBVIOUS
  <2>2. /\ g \in Tids /\ Waits(g, "GET") /\ Owner(g) = b
        /\ pc'[b] = "get" /\ g = GetOf(b)'
    BY <1>1, <1>3, <2>1 DEF InGet, GetOf, Owner
  <2>3. GetRight(b, g) /\ GetRight(b, g)'
    BY <1>1, <1>3, <2>1, <2>2 DEF CallRight
  <2>4. /\ pending'[g].key = pending[g].key
        /\ \A v : Answer(g, v)' <=> Answer(g, v)
    <3>1. CASE g \in T
      BY <1>3, <2>1, <2>2, <3>1
    <3>2. CASE g \notin T
      BY <1>1, <2>2, <3>2, OthersBearTheSame
    <3> QED
      BY <3>1, <3>2
  <2>5. CASE \A v : ~Answer(g, v)
    <3>1. \A v : ~Answer(g, v)'
      BY <2>4, <2>5
    <3> QED
      BY <2>3, <2>4, <2>5, <3>1 DEF GetRight
  <2>6. CASE \E v : Answer(g, v)
    <3>1. PICK v : Answer(g, v)
      BY <2>6
    <3>2. Answer(g, v)'
      BY <2>4, <3>1
    <3>3. CallOf(b) = [key |-> pending[g].key, read |-> TRUE, val |-> v]
      BY <2>3, <3>1 DEF GetRight
    <3>4. CallOf(b)' = [key |-> pending'[g].key, read |-> TRUE, val |-> v]
      BY <2>3, <3>2 DEF GetRight
    <3> QED
      BY <2>4, <3>3, <3>4
  <2> QED
    BY <2>5, <2>6
<1> QED
  BY <1>2, <1>3

-----------------------------------------------------------------------------
(* Each step of the protocol is one of KvStore, or none.                   *)

Simulates == Abstract!KvNext \/ UNCHANGED Abstract!kvVars

(* A step that posts, takes and stores nothing. *)
LEMMA NothingMoves ==
    ASSUME UNCHANGED <<db, internal_q, sorted_q, s2c, pending, c2s, wcq>>,
           \A b \in Clients : /\ pc'[b] = "get" <=> pc[b] = "get"
                              /\ pc[b] = "get" => tid'[b] = tid[b]
    PROVE  SameStore /\ SetsUnderWay' = SetsUnderWay /\ SameCalls(Clients)
<1>1. SetsUnderWay' = SetsUnderWay
  BY DEF SetsUnderWay, QueuedSets, PostedSets, GrantedSets, SetOf
<1>2. ASSUME NEW b \in Clients
      PROVE  CallOf(b)' = CallOf(b)
  <2>1. CASE pc[b] # "get"
    BY <2>1 DEF CallOf
  <2>2. CASE pc[b] = "get"
    BY <2>2 DEF CallOf, AnswersTo
  <2> QED
    BY <2>1, <2>2
<1> QED
  BY <1>1, <1>2 DEF SameStore, SameCalls

LEMMA QuietStepsSimulate ==
    ASSUME LInv,
           \/ \E c \in Clients :
                 kv_close(c) \/ QpError(c) \/ RemoveFailedConnection(c)
           \/ ibv_poll_cq \/ StartPass \/ EndPass \/ UNCHANGED vars
    PROVE  Simulates
<1>1. UNCHANGED <<db, internal_q, sorted_q, s2c, pending, c2s, wcq, tid>>
  BY DEF kv_close, QpError, RemoveFailedConnection, ibv_poll_cq, StartPass,
     EndPass, vars, serverVars, clientVars
<1>2. ASSUME NEW b \in Clients
      PROVE  (pc'[b] = "get" <=> pc[b] = "get") /\ (Alive(b)' <=> Alive(b))
  <2>1. CASE pc' = pc
    BY <2>1 DEF Alive
  <2>2. CASE \E c \in Clients : kv_close(c)
    BY <2>2, LinkTypes DEF kv_close, Alive
  <2> QED
    BY <2>1, <2>2 DEF QpError, RemoveFailedConnection, ibv_poll_cq, StartPass,
       EndPass, vars, clientVars
<1> QED
  BY <1>1, <1>2, NothingMoves, NothingHappens DEF SameClients, Simulates

LEMMA AcceptSimulates ==
    ASSUME LInv, NEW c \in Clients, accept_new_connection(c)
    PROVE  Simulates
<1>1. /\ UNCHANGED <<db, internal_q, sorted_q, s2c, pending, c2s, wcq>>
      /\ pc[c] = "out" /\ pc' = [pc EXCEPT ![c] = "app"]
      /\ tid' = [tid EXCEPT ![c] = 0]
  BY DEF accept_new_connection, serverVars
<1>2. /\ ~Alive(c) /\ Alive(c)'
      /\ \A b \in Clients \ {c} : Alive(b)' <=> Alive(b)
      /\ \A b \in Clients : /\ pc'[b] = "get" <=> pc[b] = "get"
                            /\ pc[b] = "get" => tid'[b] = tid[b]
  BY <1>1, LinkTypes DEF Alive
<1> QED
  BY <1>1, <1>2, NothingMoves, HandleOpens DEF Simulates

(* Nothing is under way of a client whose table is empty but the sets that *)
(* need no answer.  They stay where they are, or are lost with its QP.     *)
LEMMA CloseSimulates ==
    ASSUME AInv, AInv', NEW c \in Clients, CloseDone(c)
    PROVE  Simulates
<1>1. /\ TypeOK /\ RInv /\ Orderly(c)
      /\ UNCHANGED <<db, internal_q, sorted_q, s2c, pending, wcq, tid>>
      /\ pc[c] = "close" /\ pc' = [pc EXCEPT ![c] = "gone"]
  BY LinkTypes DEF AInv, CloseDone, serverVars
<1>2. \A m \in Posted(c)' : m \in Posted(c) \/ m = Shutdown
  BY <1>1, ShutdownIsPosted
<1>3. PICK T \in SUBSET Tids : T = {t \in Tids : Owner(t) = c}
  OBVIOUS
<1>4. Moves(T)
  BY <1>1, <1>3, EndsMove, SlotMovesAlone
<1>5. /\ Alive(c) /\ ~Alive(c)' /\ CallOf(c) = NoReq
      /\ \A b \in Clients \ {c} : Alive(b)' <=> Alive(b)
      /\ \A b \in Clients : /\ pc'[b] = "get" <=> pc[b] = "get"
                            /\ tid'[b] = tid[b]
  BY <1>1 DEF Alive, TypeOK, ClientTypeOK, CallOf
<1>6. ASSUME NEW t \in T
      PROVE  \A k, v : Bears(t, k, v)' => Bears(t, k, v)
  <2>1. Owner(t) = c /\ t # Shutdown.tid
    BY <1>3, LoopAssumption DEF Shutdown, Tids
  <2>2. \A m : m.tid = t => (m \in Posted(c)' => m \in Posted(c))
    BY <1>2, <2>1
  <2>3. Replied(c)' = Replied(c) /\ Listed' = Listed
    BY <1>1 DEF Replied, Listed
  <2> QED
    BY <1>1, <2>1, <2>2, <2>3 DEF Bears
<1>7. /\ SetsUnderWay' \subseteq SetsUnderWay
      /\ \A s \in SetsUnderWay : s.tid \notin T => s \in SetsUnderWay'
  BY <1>4, <1>6, SetsMayLeave
<1>8. \A s \in SetsUnderWay : Owner(s.tid) # c => s \in SetsUnderWay'
  BY <1>3, <1>7
<1>9. SameCalls(Clients)
  <2>1. \A b \in Clients : \A g \in T \cap Tids :
           ~(pc[b] = "get" /\ g = GetOf(b))
    BY <1>1, <1>3 DEF GetOf, Owner
  <2> QED
    BY <1>4, <1>5, <2>1, CallsStay
<1>10. SameStore
  BY <1>1 DEF SameStore
<1> QED
  BY <1>5, <1>7, <1>8, <1>9, <1>10, HandleCloses DEF Simulates

(* kv_set calls a set, kv_get a get. *)
LEMMA SetSimulates ==
    ASSUME AInv, AInv', NEW c \in Clients, NEW k \in Keys, NEW v \in Values,
           kv_set(c, k, v)
    PROVE  Simulates
<1>1. TypeOK /\ RInv
  BY LinkTypes DEF AInv
<1>2. PICK m : m = Message("SET", NextTid(c), k, v, 0)
  OBVIOUS
<1>3. PostsNew(c, m) /\ m.op = "SET" /\ m.key = k /\ m.val = v
  <2>1. PostsNew(c, m)
    BY <1>1, <1>2, SetPosts
  <2> QED
    BY <1>2, <2>1 DEF Message
<1>4. PICK t : t = m.tid
  OBVIOUS
<1>5. /\ t \in Tids /\ Owner(t) = c
      /\ t \notin TidsIn(c2s[c]) \cup TidsIn(s2c[c]) \cup Listed
      /\ Posted(c)' = Posted(c) \cup {m}
      /\ Moves({t})
  BY <1>1, <1>3, <1>4, PostingMoves
<1>6. /\ pc[c] = "app" /\ pc' = pc /\ get_new_tid(c)
      /\ UNCHANGED <<db, internal_q, sorted_q, s2c, wcq>>
  BY DEF kv_set, serverVars
<1>7. /\ \A n \in Posted(c) : n.tid # t
      /\ \A n \in Replied(c) : n.tid # t
      /\ Replied(c)' = Replied(c) /\ Listed' = Listed
  BY <1>5, <1>6 DEF TidsIn, Posted, Replied, Listed
<1>8. /\ \A j, w : ~Bears(t, j, w)
      /\ \A j, w : Bears(t, j, w)' <=> j = k /\ w = v
  BY <1>3, <1>4, <1>5, <1>7 DEF Bears
<1>9. v \in Contents
  BY DEF Contents
<1>10. PICK s : s = [tid |-> t, key |-> k, val |-> v]
  OBVIOUS
<1>11. /\ s \in [tid : Tids, key : Keys, val : Contents]
       /\ s.tid = t
       /\ SetsUnderWay' = SetsUnderWay \cup {s}
       /\ \A r \in SetsUnderWay : r.tid # s.tid
  BY <1>5, <1>8, <1>9, <1>10, SetEnters
<1>12. SameStore /\ SameClients /\ Alive(c)
  BY <1>6 DEF SameStore, SameClients, Alive
<1>13. SameCalls(Clients)
  <2>1. \A b \in Clients : pc[b] = "get" => b # c /\ tid'[b] = tid[b]
    BY <1>1, <1>6 DEF get_new_tid, TypeOK, ClientTypeOK
  <2>2. \A b \in Clients : \A g \in {t} \cap Tids :
           ~(pc[b] = "get" /\ g = GetOf(b))
    BY <1>5, <2>1 DEF GetOf, Owner
  <2> QED
    BY <1>5, <1>6, <2>1, <2>2, CallsStay
<1> QED
  BY <1>5, <1>11, <1>12, <1>13, SetIsCalled DEF Simulates

LEMMA GetSimulates ==
    ASSUME AInv, AInv', NEW c \in Clients, NEW k \in Keys, kv_get(c, k)
    PROVE  Simulates
<1>1. TypeOK /\ RInv
  BY LinkTypes DEF AInv
<1>2. PICK m : m = Message("GET", NextTid(c), k, Empty, 0)
  OBVIOUS
<1>3. /\ PostsNew(c, m) /\ m.op = "GET" /\ m.tid = NextTid(c)
      /\ pending' = [pending EXCEPT ![m.tid] =
                       [op |-> "GET", key |-> k, val |-> Empty,
                        done |-> FALSE]]
  BY <1>1, <1>2, GetPosts DEF PostsNew
<1>4. PICK t : t = m.tid
  OBVIOUS
<1>5. /\ t \in Tids /\ Owner(t) = c
      /\ t \notin TidsIn(c2s[c]) \cup TidsIn(s2c[c]) \cup TidsIn(wcq[c])
                    \cup Listed
      /\ Posted(c)' = Posted(c) \cup {m}
      /\ Moves({t})
  BY <1>1, <1>3, <1>4, PostingMoves
<1>6. /\ pc[c] = "app" /\ pc' = [pc EXCEPT ![c] = "get"] /\ get_new_tid(c)
      /\ UNCHANGED <<db, internal_q, sorted_q, s2c, wcq>>
  BY DEF kv_get, serverVars
<1>7. /\ \A n \in Posted(c) : n.tid # t
      /\ \A n \in Replied(c) : n.tid # t
      /\ \A n \in Completed(c) : n.tid # t
      /\ Replied(c)' = Replied(c) /\ Listed' = Listed
      /\ Completed(c)' = Completed(c)
  BY <1>5, <1>6 DEF TidsIn, Posted, Replied, Completed, Listed
<1>8. \A j, w : ~Bears(t, j, w) /\ ~Bears(t, j, w)'
  BY <1>3, <1>4, <1>5, <1>7 DEF Bears
<1>9. SetsUnderWay' = SetsUnderWay
  BY <1>5, <1>8, SetsStay
<1>10. SameStore /\ SameClients /\ Alive(c)
  BY <1>1, <1>6 DEF SameStore, SameClients, Alive, TypeOK, ClientTypeOK
<1>11. SameCalls(Clients \ {c})
  <2>1. \A b \in Clients \ {c} : pc'[b] = pc[b] /\ tid'[b] = tid[b]
    BY <1>1, <1>6 DEF get_new_tid, TypeOK, ClientTypeOK
  <2>2. \A b \in Clients \ {c} : \A g \in {t} \cap Tids : g # GetOf(b)
    BY <1>5 DEF GetOf, Owner
  <2> QED
    BY <1>5, <2>1, <2>2, CallsStay
<1>12. CallOf(c) = NoReq
  BY <1>6 DEF CallOf
<1>13. CallOf(c)' = [key |-> k, read |-> FALSE, val |-> Empty]
  <2>1. pc'[c] = "get" /\ t = GetOf(c)'
    BY <1>1, <1>3, <1>4, <1>5, <1>6
    DEF get_new_tid, TypeOK, ClientTypeOK, GetOf, NextTid
  <2>2. GetRight(c, t)'
    BY <1>5, <2>1 DEF AInv, CallRight
  <2>3. ~pending'[t].done /\ pending'[t].key = k
    <3>1. PICK r : r = [op |-> "GET", key |-> k, val |-> Empty,
                        done |-> FALSE]
      OBVIOUS
    <3>2. ~r.done /\ r.key = k
      BY <3>1
    <3>3. pending'[t] = r
      BY <1>1, <1>3, <1>4, <1>5, <3>1 DEF TypeOK, ClientTypeOK
    <3> QED
      BY <3>2, <3>3
  <2>4. \A v : ~Answer(t, v)'
    BY <1>5, <1>7, <2>3 DEF Answer
  <2> QED
    BY <2>2, <2>3, <2>4 DEF GetRight
<1> QED
  BY <1>9, <1>10, <1>11, <1>12, <1>13, GetIsCalled DEF Simulates

(* The end of a get. *)
LEMMA ReturnSimulates ==
    ASSUME AInv, AInv', NEW c \in Clients, GetReturn(c)
    PROVE  Simulates
<1>1. /\ TypeOK /\ RInv /\ InGet(c) /\ LInv
  BY LinkTypes DEF AInv, LInv
<1>2. PICK t : t = <<c, tid[c]>>
  OBVIOUS
<1>3. /\ pc[c] = "get" /\ pending[t].done
      /\ pc' = [pc EXCEPT ![c] = "app"]
      /\ pending' = [pending EXCEPT ![t] = NoReq]
      /\ UNCHANGED <<db, internal_q, sorted_q, s2c, tid, wcq, c2s>>
  BY <1>2 DEF GetReturn, serverVars
<1>4. t \in Tids /\ Owner(t) = c /\ t = GetOf(c) /\ Waits(t, "GET")
  BY <1>1, <1>2, <1>3 DEF InGet, GetOf, Owner
<1>5. /\ \A b \in Clients \ {c} : pc'[b] = pc[b]
      /\ pc'[c] = "app" /\ \A b \in Clients : Alive(b)' <=> Alive(b)
  BY <1>1, <1>3 DEF TypeOK, ClientTypeOK, Alive
<1>6. /\ \A b \in Clients : /\ Posted(b)' = Posted(b)
                            /\ Replied(b)' = Replied(b)
                            /\ Completed(b)' = Completed(b)
      /\ Listed' = Listed
  BY <1>3 DEF Posted, Replied, Completed, Listed
<1>7. Moves({t})
  <2>1. \A u \in Tids \ {t} : pending'[u] = pending[u]
    BY <1>1, <1>3, <1>4 DEF TypeOK, ClientTypeOK
  <2>2. \A b \in Clients : tid[b] <= tid'[b]
    BY <1>1, <1>3 DEF TypeOK, ClientTypeOK
  <2> QED
    BY <1>3, <1>5, <1>6, <2>1, <2>2, OwnerType DEF Moves
<1>8. \A k, v : ~Bears(t, k, v) /\ ~Bears(t, k, v)'
  BY <1>1, <1>3, <1>4, <1>6, GetBearsNothing DEF Bears
<1>9. SetsUnderWay' = SetsUnderWay
  BY <1>7, <1>8, SetsStay
<1>10. SameStore /\ SameClients
  BY <1>3, <1>5 DEF SameStore, SameClients
<1>11. SameCalls(Clients \ {c})
  <2>1. \A b \in Clients \ {c} : \A g \in {t} \cap Tids : g # GetOf(b)
    BY <1>4 DEF GetOf, Owner
  <2> QED
    BY <1>3, <1>5, <1>7, <2>1, CallsStay
<1>12. CallOf(c)' = NoReq
  BY <1>5 DEF CallOf
<1>13. PICK k, v : k = pending[t].key /\ v = pending[t].val
  OBVIOUS
<1>14. Answer(t, v)
  BY <1>3, <1>13 DEF Answer
<1>15. CallOf(c) = [key |-> k, read |-> TRUE, val |-> v] /\ v \in Contents
  <2>1. GetRight(c, t)
    BY <1>3, <1>4 DEF AInv, CallRight
  <2> QED
    BY <1>13, <1>14, <2>1 DEF GetRight
<1>16. CallOf(c) # NoReq
  <2>1. k \in Keys
    <3>1. pending[t] \in ClientRequest
      BY <1>1, <1>4 DEF TypeOK, ClientTypeOK, Waits
    <3> QED
      BY <1>13, <3>1 DEF ClientRequest
  <2>2. CallOf(c) \in [key : Keys, read : BOOLEAN, val : Contents]
    BY <1>15, <2>1
  <2> QED
    BY <2>2, CallAssumption
<1> QED
  BY <1>9, <1>10, <1>11, <1>12, <1>15, <1>16, GetReturns DEF Simulates

(* What a poll takes is a tid that afterwards bears the same set and has   *)
(* the same answer.                                                        *)
LEMMA TakingSimulates ==
    ASSUME AInv, AInv', NEW c \in Clients, NEW t, Takes(c, t),
           \A k \in Keys, v \in Contents : Bears(t, k, v)' <=> Bears(t, k, v),
           Waits(t, "GET") =>
              /\ pending'[t].key = pending[t].key
              /\ \A v : Answer(t, v)' <=> Answer(t, v)
    PROVE  Simulates
<1>1. RInv /\ Moves({t})
  BY LinkTypes, TakingMoves DEF AInv
<1>2. UNCHANGED <<db, tid, pc>>
  BY DEF Takes
<1>3. SetsUnderWay' = SetsUnderWay
  BY <1>1, SetsStay
<1>4. SameCalls(Clients)
  BY <1>1, <1>2, CallsStay
<1>5. SameStore /\ SameClients
  BY <1>2 DEF SameStore, SameClients, Alive
<1> QED
  BY <1>3, <1>4, <1>5, NothingHappens DEF Simulates

(* A value that the server sends, or that was read, is now the record's.   *)
LEMMA ResponseSimulates ==
    ASSUME AInv, AInv', NEW c \in Clients, client_handle_get_response(c)
    PROVE  Simulates
<1>1. LInv /\ RInv /\ TypeOK /\ Whole
  BY LinkTypes DEF AInv
<1>2. PICK r : r = Head(s2c[c])
  OBVIOUS
<1>3. PICK t : t = r.tid
  OBVIOUS
<1>4. /\ Takes(c, t) /\ r \in Replied(c) /\ r.op = "GET_RESPONSE"
      /\ pending[t] \in ClientRequest /\ pending[t].op = "GET"
      /\ pending'[t] = [pending[t] EXCEPT !.val = r.val, !.done = TRUE]
  BY <1>1, <1>2, <1>3, ResponseIsTaken
<1>5. /\ t \in Tids /\ Owner(t) = c
      /\ t \notin TidsIn(s2c'[c]) \cup TidsIn(wcq'[c])
  BY <1>1, <1>4, TakingMoves DEF Takes
<1>6. Waits(t, "GET")
  BY <1>4, ClientRequestAssumption DEF Waits
<1>7. r.val \in Contents
  BY <1>1, <1>4, PlacedTids, LinkTypes DEF Whole, Reply
<1>8. Waits(t, "GET")' /\ pending'[t].key = pending[t].key
  BY <1>1, <1>4, <1>5, <1>7, StillWaits
<1>9. \A k, v : ~Bears(t, k, v) /\ ~Bears(t, k, v)'
  BY <1>5, <1>6, <1>8 DEF AInv, BearsRight
<1>10. ASSUME NEW v
       PROVE  Answer(t, v)' <=> Answer(t, v)
  <2>1. Answer(t, v) <=> v = r.val
    <3>1. Answer(t, r.val)
      BY <1>3, <1>4, <1>5 DEF Answer
    <3> QED
      BY <1>1, <1>5, <1>6, <3>1, AnswerIsOne
  <2>2. pending'[t].done /\ pending'[t].val = r.val
    <3>1. PICK p : p = pending'[t]
      OBVIOUS
    <3>2. p.done /\ p.val = r.val
      BY <1>4, <3>1 DEF ClientRequest
    <3> QED
      BY <3>1, <3>2
  <2>3. \A m \in Replied(c)' : m.tid # t
    BY <1>5 DEF Replied, TidsIn
  <2>4. Answer(t, v)' <=> v = r.val
    BY <1>5, <2>2, <2>3 DEF Answer
  <2> QED
    BY <2>1, <2>4
<1> QED
  BY <1>4, <1>8, <1>9, <1>10, TakingSimulates

(* A remote key for a read, or for a write. *)
LEMMA KeySimulates ==
    ASSUME AInv, AInv', NEW c \in Clients,
           \/ client_handle_recv_rdma_rkey_get(c)
           \/ client_handle_recv_rdma_rkey_set(c)
    PROVE  Simulates
<1>1. LInv /\ RInv /\ TypeOK
  BY LinkTypes DEF AInv
<1>2. PICK r : r = Head(s2c[c])
  OBVIOUS
<1>3. PICK t : t = r.tid
  OBVIOUS
<1>4. /\ Takes(c, t) /\ UNCHANGED <<pending, wcq>> /\ r \in Replied(c)
      /\ \E m \in WorkRequest :
            /\ Post(c, m) /\ m.tid = t /\ m.key = r.key
            /\ \/ /\ r.op = "RDMA_RKEY_GET" /\ m.op = "READ"
                  /\ Waits(t, "GET")
               \/ /\ r.op = "RDMA_RKEY_SET" /\ m.op = "WRITE"
                  /\ Waits(t, "SET") /\ m.val = pending[t].val
  BY <1>1, <1>2, <1>3, KeyIsTaken
<1>5. PICK m \in WorkRequest :
         /\ Post(c, m) /\ m.tid = t /\ m.key = r.key
         /\ \/ /\ r.op = "RDMA_RKEY_GET" /\ m.op = "READ"
               /\ Waits(t, "GET")
            \/ /\ r.op = "RDMA_RKEY_SET" /\ m.op = "WRITE"
               /\ Waits(t, "SET") /\ m.val = pending[t].val
  BY <1>4
<1>6. /\ t \in Tids /\ Owner(t) = c
      /\ t \notin TidsIn(s2c'[c])
      /\ Posted(c)' = Posted(c) \cup {m}
  BY <1>1, <1>4, <1>5, TakingMoves DEF Takes
<1>7. /\ \A n \in Replied(c)' : n.tid # t
      /\ \A n \in Replied(c) : n.tid = t => n = r
      /\ Completed(c)' = Completed(c)
  BY <1>1, <1>3, <1>4, <1>6, MessageIsOne DEF Replied, TidsIn, Completed
<1>8. CASE Waits(t, "GET") /\ r.op = "RDMA_RKEY_GET"
  <2>1. Waits(t, "GET")'
    BY <1>4, <1>8 DEF Waits
  <2>2. \A k, v : ~Bears(t, k, v) /\ ~Bears(t, k, v)'
    BY <1>6, <1>8, <2>1 DEF AInv, BearsRight
  <2>3. \A v : Answer(t, v)' <=> Answer(t, v)
    BY <1>4, <1>6, <1>7, <1>8 DEF Answer
  <2> QED
    BY <1>4, <2>2, <2>3, TakingSimulates
<1>9. CASE Waits(t, "SET") /\ r.op = "RDMA_RKEY_SET"
  <2>1. m.op = "WRITE" /\ m.val = pending[t].val
    BY <1>5, <1>9
  <2>2. Bears(t, r.key, m.val) /\ Bears(t, r.key, m.val)'
    BY <1>3, <1>4, <1>5, <1>6, <1>9, <2>1 DEF Bears
  <2>3. BearsRight(t) /\ BearsRight(t)'
    BY <1>6 DEF AInv
  <2>4. \A k, v : Bears(t, k, v)' <=> Bears(t, k, v)
    BY <2>2, <2>3 DEF BearsRight
  <2>5. ~Waits(t, "GET")
    BY <1>9 DEF Waits
  <2> QED
    BY <1>4, <2>4, <2>5, TakingSimulates
<1> QED
  BY <1>5, <1>8, <1>9

(* The end of an RDMA read, or write. *)
LEMMA CompletionSimulates ==
    ASSUME AInv, AInv', NEW c \in Clients, RdmaReadDone(c) \/ RdmaWriteDone(c)
    PROVE  Simulates
<1>1. LInv /\ RInv /\ TypeOK /\ PlInv /\ Whole
  BY LinkTypes DEF AInv
<1>2. PICK t : t = Head(wcq[c]).tid
  OBVIOUS
<1>3. Completes(c, t)
  BY <1>1, <1>2, CompletionIsTaken
<1>4. /\ Takes(c, t) /\ UNCHANGED s2c /\ t \in TidsIn(wcq[c])
      /\ pending[t] \in ClientRequest
  BY <1>3 DEF Completes
<1>5. PICK m \in WorkRequest : Post(c, m) /\ m.tid = t /\ m.op = "FIN"
  BY <1>3 DEF Completes
<1>6. /\ t \in Tids /\ Owner(t) = c
      /\ t \notin TidsIn(s2c'[c]) \cup TidsIn(wcq'[c])
      /\ t \notin TidsIn(c2s[c]) /\ t \notin Listed
      /\ Posted(c)' = Posted(c) \cup {m}
  BY <1>1, <1>4, <1>5, TakingMoves DEF Takes
<1>7. /\ \A n \in Posted(c) : n.tid # t
      /\ \A n \in Replied(c) : n.tid # t
      /\ \A n \in Replied(c)' : n.tid # t
      /\ \E n \in Completed(c) : n.tid = t
      /\ Listed' = Listed
  BY <1>4, <1>6
  DEF Posted, Replied, Completed, TidsIn, Listed, QuietServer, Takes
<1>8. \A k, v : ~Bears(t, k, v) /\ ~Bears(t, k, v)'
  BY <1>5, <1>6, <1>7 DEF Bears
<1>9. ASSUME Waits(t, "GET")
      PROVE  /\ pending'[t].key = pending[t].key
             /\ \A v : Answer(t, v)' <=> Answer(t, v)
  <2>1. /\ pending[t].op = "GET"
        /\ pending'[t] = [pending[t] EXCEPT !.done = TRUE]
    BY <1>3, <1>9 DEF Completes, Waits
  <2>2. /\ pending'[t].done /\ pending'[t].val = pending[t].val
        /\ pending'[t].key = pending[t].key
    <3>1. PICK p : p = pending'[t]
      OBVIOUS
    <3>2. p.done /\ p.val = pending[t].val /\ p.key = pending[t].key
      BY <1>4, <2>1, <3>1 DEF ClientRequest
    <3> QED
      BY <3>1, <3>2
  <2>3. ASSUME NEW v
        PROVE  Answer(t, v)' <=> Answer(t, v)
    BY <1>6, <1>7, <2>2 DEF Answer
  <2> QED
    BY <2>2, <2>3
<1> QED
  BY <1>4, <1>8, <1>9, TakingSimulates

LEMMA PollSimulates ==
    ASSUME AInv, AInv', NEW c \in Clients, ClientPoll(c)
    PROVE  Simulates
  BY ResponseSimulates, KeySimulates, CompletionSimulates DEF ClientPoll

(* A write that lands is the set's effect, if it brings the value that the *)
(* set was called with.                                                    *)
LEMMA WriteSimulates ==
    ASSUME AInv, AInv', ValuesAreKept, NEW c \in Clients, RdmaWrite(c)
    PROVE  Simulates
<1>1. LInv /\ RInv /\ TypeOK /\ db \in [Keys -> Entry]
  BY LinkTypes DEF AInv, TypeOK, ServerTypeOK
<1>2. PICK i \in DOMAIN c2s[c] :
         /\ c2s[c][i].op = "WRITE" /\ RdmaExecute(c, i)
         /\ db' = [db EXCEPT ![c2s[c][i].key].value = c2s[c][i].val,
                             ![c2s[c][i].key].filling = FALSE]
         /\ UNCHANGED <<internal_q, sorted_q, waiting_fin_q, s2c, pc, tid,
                        pending, polled>>
  BY DEF RdmaWrite, loopVars, SentContent, ValuesAreKept
<1>3. PICK m : m = c2s[c][i]
  OBVIOUS
<1>4. PICK t : t = m.tid
  OBVIOUS
<1>5. /\ m \in Posted(c) /\ t \in Tids /\ Owner(t) = c /\ t \notin Listed
      /\ t \notin TidsIn(s2c[c])
      /\ \A n \in Posted(c)' : n.tid # t
      /\ Moves({t})
  <2>1. QuietServer /\ RdmaExecute(c, i)
    BY <1>2 DEF QuietServer
  <2>2. /\ m \in Posted(c) /\ m.tid \in Tids /\ Owner(m.tid) = c
        /\ m.tid \notin Listed /\ m.tid \notin TidsIn(s2c[c])
        /\ \A n \in Posted(c)' : n.tid # m.tid
        /\ Moves({m.tid})
    BY <1>1, <1>2, <1>3, <2>1, ExecuteMoves
  <2> QED
    BY <1>4, <2>2
<1>6. m.op = "WRITE" /\ m.key \in Keys /\ m.val \in Contents
  BY <1>1, <1>2, <1>3, <1>5, LinkTypes, PlacedTids DEF WorkRequest, Shutdown
<1>7. /\ \A n \in Replied(c)' : n.tid # t
      /\ t \notin Listed'
  BY <1>2, <1>5 DEF Replied, TidsIn, Listed
<1>8. Bears(t, m.key, m.val) /\ \A j, w : ~Bears(t, j, w)'
  BY <1>4, <1>5, <1>6, <1>7 DEF Bears
<1>9. \A j, w : Bears(t, j, w) => j = m.key /\ w = m.val
  BY <1>5, <1>8 DEF AInv, BearsRight
<1>10. PICK s : s = [tid |-> t, key |-> m.key, val |-> m.val]
  OBVIOUS
<1>11. /\ s \in SetsUnderWay /\ SetsUnderWay' = SetsUnderWay \ {s}
       /\ s.key = m.key /\ s.val = m.val
  BY <1>5, <1>6, <1>8, <1>9, <1>10, SetLeaves
<1>12. Stores(m.key, m.val)
  <2>1. PICK x : x = FALSE
    OBVIOUS
  <2>2. db' = [db EXCEPT ![m.key].value = m.val, ![m.key].filling = x]
    BY <1>2, <1>3, <2>1
  <2>3. db[m.key] \in Entry
    BY <1>1, <1>6
  <2>4. db'[m.key].value = m.val
    BY <1>1, <1>6, <2>2, <2>3 DEF Entry
  <2>5. \A j \in Keys \ {m.key} : db'[j].value = db[j].value
    BY <1>1, <1>6, <2>2
  <2> QED
    BY <2>4, <2>5 DEF Stores
<1>13. SameCalls(Clients)
  <2>1. Waits(t, "SET")
    BY <1>1, <1>4, <1>5, <1>6 DEF LInv, Linked, Asked
  <2>2. ~Waits(t, "GET")
    BY <2>1 DEF Waits
  <2> QED
    BY <1>2, <1>5, <2>2, CallsStay
<1>14. SameClients
  BY <1>2 DEF SameClients, Alive
<1> QED
  BY <1>6, <1>11, <1>12, <1>13, <1>14, SetTakesEffect DEF Simulates

(* A read that executes reads what is stored: its lock keeps writers away. *)
LEMMA ReadSimulates ==
    ASSUME AInv, AInv', NEW c \in Clients, RdmaRead(c)
    PROVE  Simulates
<1>1. /\ LInv /\ RInv /\ TypeOK /\ Whole /\ Orderly(c) /\ Secured(c)
      /\ db \in [Keys -> Entry]
      /\ pending \in [Tids -> ClientRequest \cup {NoReq}]
  BY LinkTypes DEF AInv, TypeOK, ServerTypeOK
<1>2. /\ QuietServer /\ UNCHANGED <<db, s2c, tid, pc, polled>>
      /\ \E i :
            LET m == c2s[c][i]
            IN  /\ RdmaExecute(c, i) /\ m.op = "READ" /\ m.tid \in Tids
                /\ \A u \in Tids \ {m.tid} : pending'[u] = pending[u]
                /\ pending'[m.tid]
                     = IF Waits(m.tid, "GET")
                       THEN [pending[m.tid] EXCEPT !.val = Content(db[m.key])]
                       ELSE pending[m.tid]
  BY <1>1, ReadExecutes
<1>3. PICK i, m :
         /\ m = c2s[c][i] /\ RdmaExecute(c, i) /\ m.op = "READ"
         /\ m.tid \in Tids
         /\ \A u \in Tids \ {m.tid} : pending'[u] = pending[u]
         /\ pending'[m.tid]
              = IF Waits(m.tid, "GET")
                THEN [pending[m.tid] EXCEPT !.val = Content(db[m.key])]
                ELSE pending[m.tid]
  BY <1>2
<1>4. PICK t : t = m.tid
  OBVIOUS
<1>5. /\ m \in Posted(c) /\ t \in Tids /\ Owner(t) = c
      /\ t \notin TidsIn(s2c[c]) \cup TidsIn(wcq[c])
      /\ Alive(c) => t \in TidsIn(wcq'[c])
      /\ Moves({t})
  <2>1. /\ m \in Posted(c) /\ m.tid \in Tids /\ Owner(m.tid) = c
        /\ m.tid \notin TidsIn(s2c[c]) \cup TidsIn(wcq[c])
        /\ Alive(c) => m.tid \in TidsIn(wcq'[c])
        /\ Moves({m.tid})
    <3>1. /\ RInv /\ QuietServer /\ UNCHANGED <<s2c, tid, pc, polled>>
          /\ \A u \in Tids \ {m.tid} : pending'[u] = pending[u]
      BY <1>1, <1>2, <1>3
    <3> QED
      BY <1>3, <3>1, ExecuteMoves
  <2> QED
    BY <1>4, <2>1
<1>6. Waits(t, "GET") /\ m.key \in Keys
  <2>1. Waits(t, "GET")
    BY <1>1, <1>3, <1>4, <1>5 DEF LInv, Linked, Asked
  <2> QED
    BY <1>1, <1>3, <1>5, <2>1, PlacedTids DEF WorkRequest, Shutdown
<1>7. /\ Alive(c) /\ pc[c] = "get" /\ t = GetOf(c)
      /\ pending[t] \in ClientRequest /\ pending[t].op = "GET"
      /\ pending[t].key = m.key /\ ~pending[t].done
  <2>1. pending[t] # NoReq /\ pending[t].op = "GET"
    BY <1>6 DEF Waits
  <2>2. RecordRight(t, pending[t])
    BY <1>1, <1>5, <2>1 DEF Whole
  <2>3. Alive(c) /\ pc[c] = "get" /\ t[2] = tid[c]
    BY <1>5, <2>1, <2>2 DEF RecordRight
  <2>4. UndoneFor(t, m.key)
    BY <1>1, <1>3, <1>4, <1>5, <2>3 DEF Orderly, PostedRight, RdmaOps
  <2>5. t = GetOf(c)
    BY <1>5, <2>3 DEF GetOf, Tids, Owner
  <2>6. pending[t] \in ClientRequest
    BY <1>1, <1>5, <2>1
  <2> QED
    BY <2>1, <2>3, <2>4, <2>5, <2>6 DEF UndoneFor, Undone
<1>8. PICK v : v = db[m.key].value
  OBVIOUS
<1>9. Content(db[m.key]) = v /\ v \in Contents
  <2>1. closing # c
    BY <1>1, <1>7, LoopAssumption DEF RInv, Closings, Alive
  <2>2. Locked(m)
    BY <1>1, <1>3, <1>5, <2>1 DEF Secured, PostedLocked, RdmaOps
  <2>3. db[m.key].num_writers = 0
    BY <1>3, <2>2 DEF Locked
  <2>4. ~db[m.key].filling
    BY <1>1, <1>6, <2>3 DEF Whole, FillingIsLocked
  <2>5. db[m.key] \in Entry
    BY <1>1, <1>6
  <2> QED
    BY <1>8, <2>4, <2>5 DEF Content, Entry
<1>10. pending'[t] = [pending[t] EXCEPT !.val = v]
  BY <1>3, <1>4, <1>6, <1>9
<1>11. /\ Waits(t, "GET")' /\ pending'[t].key = m.key
       /\ pending'[t].val = v
  <2>1. Waits(t, "GET")' /\ pending'[t].key = pending[t].key
    BY <1>1, <1>5, <1>7, <1>9, <1>10, StillWaits
  <2>2. pending'[t].val = v
    BY <1>7, <1>10 DEF ClientRequest
  <2> QED
    BY <1>7, <2>1, <2>2
<1>12. SetsUnderWay' = SetsUnderWay
  <2>1. \A k, w : ~Bears(t, k, w) /\ ~Bears(t, k, w)'
    BY <1>5, <1>6, <1>11 DEF AInv, BearsRight
  <2> QED
    BY <1>5, <2>1, SetsStay
<1>13. SameStore /\ SameClients
  BY <1>2 DEF SameStore, SameClients, Alive
<1>14. SameCalls(Clients \ {c})
  <2>1. \A b \in Clients \ {c} : \A g \in {t} \cap Tids : g # GetOf(b)
    BY <1>5 DEF GetOf, Owner
  <2> QED
    BY <1>2, <1>5, <2>1, CallsStay
<1>15. CallOf(c) = [key |-> m.key, read |-> FALSE, val |-> Empty]
  <2>1. GetRight(c, t)
    BY <1>5, <1>7 DEF AInv, CallRight
  <2>2. \A w : ~Answer(t, w)
    BY <1>5, <1>7 DEF Answer, Replied, Completed, TidsIn
  <2> QED
    BY <1>7, <2>1, <2>2 DEF GetRight
<1>16. CallOf(c)' = [key |-> m.key, read |-> TRUE, val |-> v]
  <2>1. GetRight(c, t)'
    <3>1. pc'[c] = "get" /\ t = GetOf(c)'
      BY <1>2, <1>7 DEF GetOf
    <3> QED
      BY <1>5, <3>1 DEF AInv, CallRight
  <2>2. Answer(t, v)'
    BY <1>5, <1>7, <1>11 DEF Answer, Completed, TidsIn
  <2> QED
    BY <1>11, <2>1, <2>2 DEF GetRight
<1>17. CallOf(c) # NoReq
  <2>1. CallOf(c) \in [key : Keys, read : BOOLEAN, val : Contents]
    BY <1>6, <1>15 DEF Contents
  <2> QED
    BY <2>1, CallAssumption
<1> QED
  BY <1>6, <1>8, <1>12, <1>13, <1>14, <1>15, <1>16, <1>17, GetReads
  DEF Simulates

(* A handler at work for the set of t: it stays in the queue, takes effect *)
(* or is on its way to the client.                                         *)
LEMMA ServedSetSimulates ==
    ASSUME AInv, AInv', NEW c \in Clients, NEW t, NEW k \in Keys,
           NEW v \in Contents, NEW q, NEW p,
           Serves(c, t, "SET", k, v, q), SetDone(t, k, v, p),
           Asked(t, "SET", k, v), Bears(t, k, v), EagerSet(k, v) => p = v
    PROVE  Simulates
<1>1. LInv /\ RInv /\ TypeOK
  BY LinkTypes DEF AInv
<1>2. /\ t \in Tids /\ Owner(t) = c
      /\ \A m \in Posted(c)' : m.tid # t
      /\ t \notin TidsIn(s2c[c])
      /\ Moves({t})
  BY <1>1, ServingMoves
<1>3. /\ UNCHANGED <<pending, tid, pc, wcq>>
      /\ internal_q[t] # NoReq =>
            /\ internal_q[t].op = "SET"
            /\ internal_q[t].key = k /\ internal_q[t].val = v
  BY DEF Serves, ReadyToServe
<1>4. BearsRight(t) /\ BearsRight(t)'
  BY <1>2 DEF AInv
<1>5. ~Waits(t, "GET")
  BY <1>4 DEF BearsRight
<1>6. SameCalls(Clients)
  BY <1>2, <1>3, <1>5, CallsStay
<1>7. SameClients
  BY <1>3 DEF SameClients, Alive
<1>8. ASSUME Bears(t, k, v)', SameStore
      PROVE  Simulates
  <2>1. \A j, w : Bears(t, j, w)' <=> Bears(t, j, w)
    BY <1>4, <1>8 DEF BearsRight
  <2>2. SetsUnderWay' = SetsUnderWay
    BY <1>2, <2>1, SetsStay
  <2> QED
    BY <1>6, <1>7, <1>8, <2>2, NothingHappens DEF Simulates
<1>9. CASE Queued(t, "SET", k, v)
  <2>1. PICK r : r = [op |-> "SET", key |-> k, val |-> v,
                      payload |-> PendingPayload(k, v)]
    OBVIOUS
  <2>2. r.op = "SET" /\ r.key = k /\ r.val = v
    BY <2>1
  <2>3. /\ t \in Listed'
        /\ internal_q'[t] = IF internal_q[t] # NoReq THEN internal_q[t] ELSE r
    BY <1>9, <2>1 DEF Queued
  <2>4. Bears(t, k, v)'
    BY <1>3, <2>2, <2>3 DEF Bears
  <2>5. SameStore
    BY <1>9 DEF Queued, SameStore
  <2> QED
    BY <1>8, <2>4, <2>5
<1>10. CASE EagerSet(k, v) /\ t \notin Listed' /\ UNCHANGED s2c /\ Stores(k, p)
  <2>1. \A m \in Replied(c)' : m.tid # t
    BY <1>2, <1>10 DEF Replied, TidsIn
  <2>2. \A j, w : ~Bears(t, j, w)'
    BY <1>2, <1>10, <2>1 DEF Bears
  <2>3. \A j, w : Bears(t, j, w) => j = k /\ w = v
    BY <1>4 DEF BearsRight
  <2>4. PICK s : s = [tid |-> t, key |-> k, val |-> v]
    OBVIOUS
  <2>5. /\ s \in SetsUnderWay /\ SetsUnderWay' = SetsUnderWay \ {s}
        /\ s.key = k /\ s.val = v
    BY <1>2, <2>2, <2>3, <2>4, SetLeaves
  <2>6. Stores(s.key, s.val)
    BY <1>10, <2>5
  <2> QED
    BY <1>6, <1>7, <2>5, <2>6, SetTakesEffect DEF Simulates
<1>11. CASE /\ ~EagerSet(k, v) /\ SameStore
            /\ \E m \in Reply : AnswersBy(t, k, m) /\ m.op = "RDMA_RKEY_SET"
  <2>1. PICK m \in Reply : AnswersBy(t, k, m) /\ m.op = "RDMA_RKEY_SET"
    BY <1>11
  <2>2. m.tid = t /\ m.key = k /\ server_post_send(m)
    BY <2>1 DEF AnswersBy
  <2>3. m \in Replied(c)'
    <3>1. s2c[c] \in Seq(Reply) /\ s2c'[c] = Append(s2c[c], m)
      BY <1>1, <1>2, <2>2 DEF server_post_send, TypeOK, ServerTypeOK
    <3> QED
      BY <3>1, Added DEF Replied
  <2>4. pending'[t].val = v
    BY <1>3, <1>11 DEF Asked
  <2>5. Bears(t, k, v)'
    BY <1>2, <2>1, <2>2, <2>3, <2>4 DEF Bears
  <2> QED
    BY <1>8, <1>11, <2>5
<1> QED
  BY <1>9, <1>10, <1>11 DEF SetDone

(* A handler at work for the get t: it stays unread, or reads what is      *)
(* stored; nobody is writing then, and the string it reads has an end.     *)
LEMMA ServedGetSimulates ==
    ASSUME AInv, AInv', SizesRight, NEW c \in Clients, NEW t, NEW k \in Keys, NEW v,
           NEW q, Serves(c, t, "GET", k, v, q), GetDone(t, k),
           Asked(t, "GET", k, v)
    PROVE  Simulates
<1>1. /\ LInv /\ RInv /\ TypeOK /\ Whole
      /\ db \in [Keys -> Entry]
      /\ pending \in [Tids -> ClientRequest \cup {NoReq}]
  BY LinkTypes DEF AInv, TypeOK, ServerTypeOK
<1>2. /\ t \in Tids /\ Owner(t) = c
      /\ t \notin TidsIn(s2c[c]) \cup TidsIn(wcq'[c])
      /\ Moves({t})
  BY <1>1, ServingMoves
<1>3. /\ UNCHANGED <<pending, tid, pc, wcq>>
      /\ Alive(c) => UndoneFor(t, k)
  BY DEF Serves, ReadyToServe, NeedsAnswer
<1>4. Waits(t, "GET") /\ Waits(t, "GET")'
  BY <1>3 DEF Asked, Waits
<1>5. SetsUnderWay' = SetsUnderWay
  <2>1. \A j, w : ~Bears(t, j, w) /\ ~Bears(t, j, w)'
    BY <1>2, <1>4 DEF AInv, BearsRight
  <2> QED
    BY <1>2, <2>1, SetsStay
<1>6. SameClients
  BY <1>3 DEF SameClients, Alive
<1>7. ASSUME SameStore, \A w : Answer(t, w)' <=> Answer(t, w)
      PROVE  Simulates
  <2>1. SameCalls(Clients)
    BY <1>2, <1>3, <1>7, CallsStay
  <2> QED
    BY <1>5, <1>6, <1>7, <2>1, NothingHappens DEF Simulates
<1>8. Completed(c)' = Completed(c)
  BY <1>3 DEF Completed
<1>9. CASE Queued(t, "GET", k, Empty)
  <2>1. Replied(c)' = Replied(c)
    BY <1>9 DEF Queued, Replied
  <2>2. \A w : Answer(t, w)' <=> Answer(t, w)
    BY <1>2, <1>3, <1>8, <2>1 DEF Answer
  <2>3. SameStore
    BY <1>9 DEF Queued, SameStore
  <2> QED
    BY <1>7, <2>2, <2>3
<1>10. ASSUME NEW m \in Reply, AnswersBy(t, k, m)
       PROVE  m.tid = t /\ m.key = k /\ Replied(c)' = Replied(c) \cup {m}
  <2>1. m.tid = t /\ m.key = k /\ server_post_send(m)
    BY <1>10 DEF AnswersBy
  <2>2. s2c[c] \in Seq(Reply) /\ s2c'[c] = Append(s2c[c], m)
    BY <1>1, <1>2, <2>1 DEF server_post_send, TypeOK, ServerTypeOK
  <2> QED
    BY <2>1, <2>2, Added DEF Replied
<1>11. CASE SameStore /\ \E m \in Reply :
               AnswersBy(t, k, m) /\ m.op = "RDMA_RKEY_GET"
  <2>1. PICK m \in Reply : AnswersBy(t, k, m) /\ m.op = "RDMA_RKEY_GET"
    BY <1>11
  <2>2. Replied(c)' = Replied(c) \cup {m}
    BY <1>10, <2>1
  <2>3. \A w : Answer(t, w)' <=> Answer(t, w)
    BY <1>2, <1>3, <1>8, <2>1, <2>2 DEF Answer
  <2> QED
    BY <1>7, <1>11, <2>3
<1>12. CASE /\ SameStore /\ CanLockRd(db[k])
            /\ \E m \in Reply :
                  /\ AnswersBy(t, k, m)
                  /\ m.op = "GET_RESPONSE" /\ EagerGet(db[k].size)
                  /\ m.val \in EagerContent(db[k])
  <2>1. PICK m \in Reply : /\ AnswersBy(t, k, m)
                           /\ m.op = "GET_RESPONSE" /\ EagerGet(db[k].size)
                           /\ m.val \in EagerContent(db[k])
    BY <1>12
  <2>2. m.tid = t /\ Replied(c)' = Replied(c) \cup {m}
    BY <1>10, <2>1
  <2>3. PICK v0 : v0 = db[k].value
    OBVIOUS
  <2>4. m.val = v0
    <3>1. db[k].num_writers = 0
      BY <1>12 DEF CanLockRd
    <3>2. ~db[k].filling
      BY <1>1, <3>1 DEF Whole, FillingIsLocked
    <3>3. Terminated(db[k])
      BY <2>1 DEF SizesRight, Sized
    <3> QED
      BY <2>1, <2>3, <3>2, <3>3 DEF EagerContent, Content
  <2>5. /\ Alive(c) /\ pc[c] = "get" /\ t = GetOf(c)
        /\ pending[t].key = k /\ ~pending[t].done
    <3>1. pending[t] # NoReq /\ pending[t].op = "GET"
      BY <1>4 DEF Waits
    <3>2. RecordRight(t, pending[t])
      BY <1>1, <1>2, <3>1 DEF Whole
    <3>3. Alive(c) /\ pc[c] = "get" /\ t[2] = tid[c]
      BY <1>2, <3>1, <3>2 DEF RecordRight
    <3>4. t = GetOf(c)
      BY <1>2, <3>3 DEF GetOf, Tids, Owner
    <3> QED
      BY <1>3, <3>3, <3>4 DEF UndoneFor, Undone
  <2>6. SameCalls(Clients \ {c})
    <3>1. \A b \in Clients \ {c} : \A g \in {t} \cap Tids : g # GetOf(b)
      BY <1>2 DEF GetOf, Owner
    <3> QED
      BY <1>2, <1>3, <3>1, CallsStay
  <2>7. CallOf(c) = [key |-> k, read |-> FALSE, val |-> Empty]
    <3>1. GetRight(c, t)
      BY <1>2, <2>5 DEF AInv, CallRight
    <3>2. \A w : ~Answer(t, w)
      <4>1. t \notin TidsIn(wcq[c])
        BY <1>2, <1>3
      <4> QED
        BY <1>2, <2>5, <4>1 DEF Answer, Replied, Completed, TidsIn
    <3> QED
      BY <2>5, <3>1, <3>2 DEF GetRight
  <2>8. CallOf(c)' = [key |-> k, read |-> TRUE, val |-> v0]
    <3>1. GetRight(c, t)'
      <4>1. pc'[c] = "get" /\ t = GetOf(c)'
        BY <1>3, <2>5 DEF GetOf
      <4> QED
        BY <1>2, <4>1 DEF AInv, CallRight
    <3>2. Answer(t, v0)'
      BY <1>2, <2>1, <2>2, <2>4 DEF Answer
    <3>3. pending'[t].key = k
      BY <1>3, <2>5
    <3> QED
      BY <3>1, <3>2, <3>3 DEF GetRight
  <2>9. CallOf(c) # NoReq
    <3>1. CallOf(c) \in [key : Keys, read : BOOLEAN, val : Contents]
      BY <2>7 DEF Contents
    <3> QED
      BY <3>1, CallAssumption
  <2> QED
    BY <1>5, <1>6, <1>12, <2>3, <2>6, <2>7, <2>8, <2>9, GetReads
    DEF Simulates
<1> QED
  BY <1>9, <1>11, <1>12 DEF GetDone

(* A received request, and a queued one. *)
LEMMA RecvSimulates ==
    ASSUME AInv, AInv', SizesRight, NEW c \in Clients, RecvSet(c) \/ RecvGet(c)
    PROVE  Simulates
<1>1. LInv
  BY DEF AInv
<1>2. PICK m : m = Head(c2s[c])
  OBVIOUS
<1>3. PICK op, v, q :
         /\ op = m.op /\ m \in Posted(c) /\ internal_q[m.tid] = NoReq
         /\ m.tid \in Tids /\ m.key \in Keys /\ m.val \in Contents
         /\ Serves(c, m.tid, op, m.key, v, q)
         /\ Outcome(m.tid, op, m.key, v, v)
         /\ Asked(m.tid, op, m.key, v)
         /\ op = "SET" => v = m.val
  BY <1>1, <1>2, RecvOutcome
<1>4. PICK t, k : t = m.tid /\ k = m.key
  OBVIOUS
<1>5. /\ k \in Keys /\ Serves(c, t, op, k, v, q) /\ Asked(t, op, k, v)
      /\ Outcome(t, op, k, v, v)
  BY <1>3, <1>4
<1>6. CASE op = "SET" /\ SetDone(t, k, v, v)
  <2>1. RInv
    BY <1>1, LinkTypes
  <2>2. Owner(t) = c
    BY <1>5, <2>1, ServingMoves
  <2>3. v \in Contents /\ Bears(t, k, v)
    BY <1>3, <1>4, <1>6, <2>2 DEF Bears
  <2> QED
    BY <1>5, <1>6, <2>3, ServedSetSimulates
<1>7. CASE op = "GET" /\ GetDone(t, k)
  BY <1>5, <1>7, ServedGetSimulates
<1> QED
  BY <1>5, <1>6, <1>7 DEF Outcome

LEMMA ServeSimulates ==
    ASSUME AInv, AInv', SizesRight, PayloadsAreKept, ServePending
    PROVE  Simulates
<1>1. LInv
  BY DEF AInv
<1>2. PICK t, r : t = Head(sorted_q) /\ r = internal_q[t]
  OBVIOUS
<1>3. PICK q :
         /\ t \in Tids /\ t \in Listed /\ Owner(t) \in Clients
         /\ r \in Request /\ r # NoReq
         /\ Serves(Owner(t), t, r.op, r.key, r.val, q)
         /\ Outcome(t, r.op, r.key, r.val, r.payload)
         /\ Asked(t, r.op, r.key, r.val)
         /\ r.op = "SET" => r.payload = PendingPayload(r.key, r.val)
  BY <1>1, <1>2, PendingOutcome
<1>4. PICK c \in Clients : c = Owner(t)
  BY <1>3
<1>5. PICK k \in Keys, v \in Contents : k = r.key /\ v = r.val
  BY <1>3 DEF Request
<1>5a. PICK p : p = r.payload
  OBVIOUS
<1>6. /\ Serves(c, t, r.op, k, v, q) /\ Asked(t, r.op, k, v)
      /\ Outcome(t, r.op, k, v, p)
  BY <1>3, <1>4, <1>5, <1>5a
<1>7. CASE r.op = "SET" /\ SetDone(t, k, v, p)
  <2>1. Bears(t, k, v)
    BY <1>2, <1>3, <1>5, <1>7 DEF Bears
  <2>2. EagerSet(k, v) => p = v
    <3>1. p = PendingPayload(k, v)
      BY <1>3, <1>5, <1>5a, <1>7
    <3> QED
      BY <3>1 DEF PayloadsAreKept, PendingPayload
  <2>3. Serves(c, t, "SET", k, v, q) /\ Asked(t, "SET", k, v)
    BY <1>6, <1>7
  <2> QED
    BY <1>7, <2>1, <2>2, <2>3, ServedSetSimulates
<1>8. CASE r.op = "GET" /\ GetDone(t, k)
  BY <1>6, <1>8, ServedGetSimulates
<1> QED
  BY <1>6, <1>7, <1>8 DEF Outcome

(* A FIN is no request any more, and gives back a lock. *)
LEMMA FinSimulates ==
    ASSUME AInv, AInv', NEW c \in Clients, RecvFin(c)
    PROVE  Simulates
<1>1. RInv /\ TypeOK /\ ServerTypeOK
  BY LinkTypes DEF AInv
<1>2. PICK m : m = Head(c2s[c])
  OBVIOUS
<1>3. PICK t : t = m.tid
  OBVIOUS
<1>4. /\ m \in Posted(c) /\ m.op = "FIN" /\ t \in Tids /\ Owner(t) = c
      /\ \A n \in Posted(c)' : n.tid # t
      /\ t \notin TidsIn(s2c[c]) \cup TidsIn(wcq[c]) \cup Listed
      /\ UNCHANGED <<pending, tid, pc, wcq, s2c, sorted_q>>
      /\ Moves({t})
  BY <1>1, <1>2, <1>3, FinMoves
<1>5. /\ \A n \in Posted(c) : n.tid = t => n.op = "FIN"
      /\ \A n \in Replied(c) : n.tid # t
      /\ Replied(c)' = Replied(c) /\ Completed(c)' = Completed(c)
      /\ Listed' = Listed
  BY <1>1, <1>3, <1>4, MessageIsOne DEF Replied, Completed, TidsIn, Listed
<1>6. \A k, v : ~Bears(t, k, v) /\ ~Bears(t, k, v)'
  BY <1>4, <1>5 DEF Bears
<1>7. SetsUnderWay' = SetsUnderWay
  BY <1>4, <1>6, SetsStay
<1>8. \A v : Answer(t, v)' <=> Answer(t, v)
  BY <1>4, <1>5 DEF Answer
<1>9. SameCalls(Clients)
  BY <1>4, <1>8, CallsStay
<1>10. SameStore
  <2>1. db' = db \/ db' = Released(db, t)
    BY <1>2, <1>3 DEF RecvFin, remove_server_pending_request, serverVars
  <2>2. ASSUME NEW k \in Keys
        PROVE  Released(db, t)[k].value = db[k].value
    <3>1. db \in [Keys -> Entry]
      BY <1>1 DEF ServerTypeOK
    <3> QED
      BY <1>1, <1>4, <3>1, ReleasedKeepsValues DEF SameValue
  <2> QED
    BY <2>1, <2>2 DEF SameStore
<1>11. SameClients
  BY <1>4 DEF SameClients, Alive
<1> QED
  BY <1>7, <1>9, <1>10, <1>11, NothingHappens DEF Simulates

(* The last message of a client says nothing of a set. *)
LEMMA ShutdownSimulates ==
    ASSUME AInv, AInv', NEW c \in Clients, RecvShutdown(c)
    PROVE  Simulates
<1>1. RInv
  BY LinkTypes DEF AInv
<1>2. /\ SlotMoves(c) /\ ~Alive(c)
      /\ \A n \in Posted(c) : n = Shutdown \/ n \in Posted(c)'
      /\ UNCHANGED <<db, internal_q, sorted_q, s2c, pending, tid, pc, wcq>>
  BY <1>1, ShutdownMoves DEF serverVars
<1>3. PICK T : T = {t \in Tids : Owner(t) = c}
  OBVIOUS
<1>4. Moves(T)
  BY <1>1, <1>2, <1>3, SlotMovesAlone
<1>5. ASSUME NEW t \in T
      PROVE  \A k, v : Bears(t, k, v)' <=> Bears(t, k, v)
  <2>1. Owner(t) = c /\ t # Shutdown.tid
    BY <1>3, LoopAssumption DEF Shutdown, Tids
  <2>2. \A m : m.tid = t => (m \in Posted(c)' <=> m \in Posted(c))
    BY <1>2, <2>1 DEF SlotMoves
  <2>3. Replied(c)' = Replied(c) /\ Listed' = Listed
    BY <1>2 DEF Replied, Listed
  <2> QED
    BY <1>2, <2>1, <2>2, <2>3 DEF Bears
<1>6. SetsUnderWay' = SetsUnderWay
  BY <1>4, <1>5, SetsStay
<1>7. SameCalls(Clients)
  <2>1. \A b \in Clients : \A g \in T \cap Tids :
           ~(pc[b] = "get" /\ g = GetOf(b))
    BY <1>2, <1>3 DEF GetOf, Owner, Alive
  <2> QED
    BY <1>2, <1>4, <2>1, CallsStay
<1>8. SameStore /\ SameClients
  BY <1>2 DEF SameStore, SameClients, Alive
<1> QED
  BY <1>6, <1>7, <1>8, NothingHappens DEF Simulates

(* What is queued of a connection, and what is posted on it, goes with it. *)
LEMMA RemovalSimulates ==
    ASSUME AInv, AInv',
           InvalidateRequest \/ \E c \in Clients : RemoveConnection(c)
    PROVE  Simulates
<1>1. RInv /\ TypeOK /\ ServerTypeOK
  BY LinkTypes DEF AInv
<1>2. PICK c : c = closing
  OBVIOUS
<1>3. /\ c \in Clients /\ SlotMoves(c) /\ ~Alive(c)
      /\ UNCHANGED <<wcq, tid, pending>>
      /\ \A b \in Clients : Alive(b)' <=> Alive(b)
      /\ Posted(c)' \subseteq Posted(c)
      /\ \A u \in Listed' : u \in Listed /\ internal_q'[u] = internal_q[u]
  BY <1>1, <1>2, RemovalMoves
<1>4. PICK T \in SUBSET Tids : T = {t \in Tids : Owner(t) = c}
  OBVIOUS
<1>5. Moves(T)
  BY <1>1, <1>3, <1>4, SlotMovesAlone
<1>6. ASSUME NEW t \in T
      PROVE  \A k, v : Bears(t, k, v)' => Bears(t, k, v)
  <2>1. Owner(t) = c /\ Replied(c)' \subseteq Replied(c)
    BY <1>3, <1>4 DEF SlotMoves
  <2> QED
    BY <1>3, <2>1 DEF Bears
<1>7. /\ SetsUnderWay' \subseteq SetsUnderWay
      /\ \A s \in SetsUnderWay : s.tid \notin T => s \in SetsUnderWay'
  BY <1>5, <1>6, SetsMayLeave
<1>8. \A s \in SetsUnderWay : Owner(s.tid) # c => s \in SetsUnderWay'
  BY <1>4, <1>7
<1>9. \A b \in Clients : pc'[b] = "get" <=> pc[b] = "get"
  BY <1>1 DEF InvalidateRequest, RemoveConnection, clientVars, TypeOK,
     ClientTypeOK
<1>10. SameCalls(Clients)
  <2>1. \A b \in Clients : \A g \in T \cap Tids :
           ~(pc[b] = "get" /\ g = GetOf(b))
    BY <1>3, <1>4 DEF GetOf, Owner, Alive
  <2> QED
    BY <1>3, <1>5, <1>9, <2>1, CallsStay
<1>11. SameStore
  <2>1. CASE UNCHANGED db
    BY <2>1 DEF SameStore
  <2>2. CASE InvalidateRequest
    <3>1. PICK t \in Tids : db' = Released(db, t)
      BY <2>2 DEF InvalidateRequest, QueuedBy, remove_server_pending_request
    <3>2. ASSUME NEW k \in Keys
          PROVE  Released(db, t)[k].value = db[k].value
      <4>1. db \in [Keys -> Entry]
        BY <1>1 DEF ServerTypeOK
      <4> QED
        BY <1>1, <4>1, ReleasedKeepsValues DEF SameValue
    <3> QED
      BY <3>1, <3>2 DEF SameStore
  <2> QED
    BY <2>1, <2>2 DEF RemoveConnection
<1>12. SameClients
  BY <1>3 DEF SameClients
<1> QED
  BY <1>3, <1>7, <1>8, <1>10, <1>11, <1>12, SetsAreLost DEF Simulates

LEMMA StepSimulates ==
    ASSUME AInv, AInv', SizesRight, [Next]_vars, Hypotheses
    PROVE  Simulates
<1>1. LInv
  BY DEF AInv
<1>2. ASSUME NEW c \in Clients, ClientStep(c)
      PROVE  Simulates
  BY <1>1, <1>2, SetSimulates, GetSimulates, ReturnSimulates,
     QuietStepsSimulate, CloseSimulates, PollSimulates
  DEF ClientStep, ClientDie, Hypotheses, NobodyDies
<1>3. ASSUME NEW c \in Clients, NetworkStep(c)
      PROVE  Simulates
  BY <1>1, <1>3, WriteSimulates, ReadSimulates, QuietStepsSimulate
  DEF NetworkStep, Hypotheses
<1>4. ASSUME NEW c \in Clients, accept_new_connection(c)
      PROVE  Simulates
  BY <1>1, <1>4, AcceptSimulates
<1>5. ASSUME ServerStep
      PROVE  Simulates
  <2>1. ASSUME NEW c \in Clients, handle_recv_request(c)
        PROVE  Simulates
    BY <2>1, RecvSimulates, FinSimulates, ShutdownSimulates
    DEF handle_recv_request
  <2> QED
    BY <1>1, <1>5, <2>1, QuietStepsSimulate, RemovalSimulates, ServeSimulates
    DEF ServerStep, Hypotheses
<1> QED
  BY <1>1, <1>2, <1>3, <1>4, <1>5, QuietStepsSimulate DEF Next

LEMMA InitSimulates ==
    ASSUME Init
    PROVE  Abstract!KvInit
<1>1. [k \in Keys |-> db[k].value] = [k \in Keys |-> Empty]
  BY DEF Init, ServerInit, FreshEntry
<1>2. SetsUnderWay = {}
  <2>1. /\ \A c \in Clients : Posted(c) = {} /\ Replied(c) = {}
        /\ Listed = {}
    BY NoElements DEF Init, ServerInit, Posted, Replied, Listed
  <2> QED
    BY <2>1 DEF SetsUnderWay, QueuedSets, PostedSets, GrantedSets, Posted,
       Replied, Listed
<1>3. {c \in Clients : Alive(c)} = {}
  BY DEF Init, Alive
<1>4. [c \in Clients |-> CallOf(c)] = [c \in Clients |-> NoReq]
  BY DEF Init, CallOf
<1> QED
  BY <1>1, <1>2, <1>3, <1>4 DEF Abstract!KvInit

(* Every behaviour of the protocol is one of the atomic registers of       *)
(* KvStore, whatever paths the requests take and whatever a kv_close loses *)
(* of the sends it does not wait for, under four conditions which the code *)
(* leaves to its users: nobody dies, the application keeps the memory of   *)
(* the values it has set, keys have at most 55 bytes, and no value has a   *)
(* length at which the server's queue drops the payload.                   *)
THEOREM RegistersAreAtomic == Hypotheses => (Spec => ImplementsKvStore)
<1> SUFFICES ASSUME Hypotheses
             PROVE  Spec => ImplementsKvStore
  OBVIOUS
<1>1. /\ AInv /\ AInv' /\ SizesRight /\ [Next]_vars
      => [Abstract!KvNext]_(Abstract!kvVars)
  BY StepSimulates DEF Simulates
<1>2. Init => Abstract!KvInit
  BY InitSimulates
<1>3. Spec => []AInv
  BY AbstractStateIsRight DEF Hypotheses, NobodyDies
<1>4. Spec => []SizesRight
  BY SizesInvariance DEF Hypotheses, NobodyDies
<1> QED
  BY <1>1, <1>2, <1>3, <1>4, PTL
  DEF Spec, ImplementsKvStore, Abstract!KvSpec

=============================================================================
