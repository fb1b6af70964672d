------------------------ MODULE ReceiveBuffersProofs ------------------------
(***************************************************************************)
(* No receive buffer is lost and the pool is large enough, for any number  *)
(* of connections and any sizes, whatever is released for the wrong        *)
(* connection in the meantime.                                             *)
(***************************************************************************)
EXTENDS ReceiveBuffers, FiniteSetTheorems, SequenceTheorems, TLAPS

RInv ==
    /\ ReceiveTypeOK
    /\ CountsAgree
    /\ UsedBuffersArePosted

-----------------------------------------------------------------------------
(* Queues of receives. *)

(* One receive more. *)
LEMMA AppendReceive ==
    ASSUME NEW q \in Seq(Buffers), NEW b \in Buffers
    PROVE  /\ Append(q, b) \in Seq(Buffers)
           /\ Len(Append(q, b)) = Len(q) + 1
           /\ {Append(q, b)[n] : n \in 1 .. Len(Append(q, b))}
                 = {q[n] : n \in 1 .. Len(q)} \cup {b}
<1> DEFINE r == Append(q, b)
<1>1. /\ r \in Seq(Buffers) /\ Len(r) = Len(q) + 1 /\ Len(q) \in Nat
      /\ \A n \in 1 .. Len(q) : r[n] = q[n]
      /\ r[Len(q) + 1] = b
  BY AppendProperties, LenProperties
<1> HIDE DEF r
<1>2. 1 .. Len(r) = (1 .. Len(q)) \cup {Len(q) + 1}
  BY <1>1
<1>3. {r[n] : n \in 1 .. Len(r)} = {q[n] : n \in 1 .. Len(q)} \cup {b}
  BY <1>1, <1>2
<1> QED
  BY <1>1, <1>3 DEF r

(* One receive less. *)
LEMMA TailReceive ==
    ASSUME NEW q \in Seq(Buffers), Len(q) > 0
    PROVE  /\ Head(q) \in Buffers
           /\ Tail(q) \in Seq(Buffers)
           /\ Len(Tail(q)) = Len(q) - 1
           /\ {q[n] : n \in 1 .. Len(q)}
                 = {Tail(q)[n] : n \in 1 .. Len(Tail(q))} \cup {Head(q)}
<1>1. q # <<>> /\ Len(q) \in Nat
  BY EmptySeq, LenProperties
<1>2. /\ Head(q) \in Buffers /\ Tail(q) \in Seq(Buffers)
      /\ Len(Tail(q)) = Len(q) - 1
      /\ \A n \in 1 .. Len(Tail(q)) : Tail(q)[n] = q[n + 1]
  BY <1>1, HeadTailProperties
<1>3. Head(q) = q[1]
  BY <1>1
<1> DEFINE r == Tail(q)
           h == Head(q)
<1>4. r \in Seq(Buffers) /\ Len(r) = Len(q) - 1 /\ h = q[1]
      /\ \A n \in 1 .. Len(r) : r[n] = q[n + 1]
  BY <1>2, <1>3
<1> HIDE DEF r, h
<1>5. \A n \in 1 .. Len(q) : n = 1 \/ (n - 1 \in 1 .. Len(r) /\ q[n] = r[n - 1])
  BY <1>1, <1>4
<1>6. \A n \in 1 .. Len(r) : n + 1 \in 1 .. Len(q) /\ r[n] = q[n + 1]
  BY <1>1, <1>4
<1>7. {q[n] : n \in 1 .. Len(q)} = {r[n] : n \in 1 .. Len(r)} \cup {h}
  BY <1>1, <1>4, <1>5, <1>6
<1> QED
  BY <1>2, <1>7 DEF r, h

(* What the invariant says of one connection, as the steps use it. *)
LEMMA QueueFacts ==
    ASSUME ReceiveTypeOK, CountsAgree, NEW i \in Slots
    PROVE  /\ wr[i] \in Seq(Buffers)
           /\ curr_recv_buff[i] = Len(wr[i])
           /\ curr_recv_buff[i] \in 0 .. MAX_RECV_BUFFS
           /\ landed[i] \in Nat /\ polled[i] \in Nat
           /\ polled[i] <= landed[i] /\ landed[i] <= Len(wr[i])
           /\ Receives(i) \subseteq buff_in_use[i]
           /\ Receives(i) \subseteq Posted
           /\ MAX_RECV_BUFFS \in Nat
  BY ReceiveAssumption, SlotsAssumption DEF ReceiveTypeOK, CountsAgree, QueueAgrees, Posted

-----------------------------------------------------------------------------
(* The invariant holds at the start. *)
LEMMA InitRInv == ReceiveInit => RInv
<1> SUFFICES ASSUME ReceiveInit PROVE RInv
  OBVIOUS
<1>1. <<>> \in Seq(Buffers) /\ Len(<<>>) = 0
  BY EmptySeq
<1>2. 0 \in Slots
  BY SlotsAssumption DEF Slots
<1>3. ReceiveTypeOK
  BY <1>1, <1>2, ReceiveAssumption, SlotsAssumption DEF ReceiveInit, ReceiveTypeOK
<1>4. CountsAgree
  BY <1>1 DEF ReceiveInit, CountsAgree, QueueAgrees, PhaseAgrees, Receives
<1> QED
  BY <1>3, <1>4 DEF ReceiveInit, RInv, UsedBuffersArePosted

-----------------------------------------------------------------------------
(* Each step keeps the invariant. *)

(* When the receives stay posted and none is marked as used, the used ones *)
(* stay accounted for.                                                     *)
LEMMA StillPosted ==
    ASSUME RInv, wr' = wr, in_use_recv' \subseteq in_use_recv, InHand \subseteq InHand'
    PROVE  UsedBuffersArePosted'
  BY DEF RInv, UsedBuffersArePosted, Posted, Receives

LEMMA LandKeepsInv ==
    ASSUME RInv, NEW i \in Slots, NEW op, Land(i, op),
           ended' = ended \/ ended' = ended \cup {i}
    PROVE  RInv'
<1> USE DEF RInv
<1>1. landed[i] \in Nat /\ Len(wr[i]) \in Nat /\ sent[i] \in Nat
  <2>1. sent \in [Slots -> Nat]
    BY DEF ReceiveTypeOK
  <2> QED
    BY <2>1, QueueFacts, LenProperties
<1>2. ReceiveTypeOK'
  <2>1. landed' \in [Slots -> Nat] /\ sent' \in [Slots -> Nat] /\ ended' \subseteq Slots
    <3>1. landed' = [landed EXCEPT ![i] = landed[i] + 1]
          /\ sent' = [sent EXCEPT ![i] = sent[i] + 1]
      BY DEF Land
    <3>2. /\ landed \in [Slots -> Nat] /\ sent \in [Slots -> Nat]
          /\ ended \subseteq Slots
      BY DEF ReceiveTypeOK
    <3>3. landed[i] + 1 \in Nat /\ sent[i] + 1 \in Nat
      BY <1>1
    <3> QED
      BY <3>1, <3>2, <3>3
  <2>2. UNCHANGED <<connected, curr_recv_buff, buff_in_use, ring, wr, polled,
                    doing, stale, conn, buff, left, sessions>>
    BY DEF Land
  <2> QED
    BY <2>1, <2>2 DEF ReceiveTypeOK, ring
<1>3. \A j \in Slots : QueueAgrees(j)'
  <2> TAKE j \in Slots
  <2>1. landed'[j] = landed[j] \/ (landed'[j] = landed[j] + 1 /\ landed[j] < Len(wr[j]))
    BY DEF Land, ReceiveTypeOK
  <2>2. landed[j] \in Nat /\ Len(wr[j]) \in Nat /\ polled[j] \in Nat
    BY QueueFacts, LenProperties
  <2> QED
    BY <2>1, <2>2 DEF Land, CountsAgree, QueueAgrees, Receives, ring
<1>4. PhaseAgrees'
  BY DEF Land, CountsAgree, PhaseAgrees
<1>5. UsedBuffersArePosted'
  BY StillPosted DEF Land, ring, InHand
<1> QED
  BY <1>2, <1>3, <1>4, <1>5 DEF CountsAgree

LEMMA PostKeepsInv ==
    ASSUME RInv, NEW b \in Buffers, server_post_recv(b)
    PROVE  RInv'
<1> USE DEF RInv
<1> DEFINE q == Append(wr[conn], b)
<1>1. conn \in Slots /\ left \in 0 .. MAX_RECV_BUFFS
      /\ curr_recv_buff[conn] + left = MAX_RECV_BUFFS /\ left > 0
  BY DEF server_post_recv, ReceiveTypeOK, CountsAgree, PhaseAgrees
<1>2. /\ q \in Seq(Buffers) /\ Len(q) = Len(wr[conn]) + 1
      /\ {q[n] : n \in 1 .. Len(q)} = Receives(conn) \cup {b}
  BY <1>1, QueueFacts, AppendReceive DEF Receives
<1>3. wr' = [wr EXCEPT ![conn] = q]
  BY DEF server_post_recv
<1> HIDE DEF q
<1>4. ReceiveTypeOK'
  <2>1. wr' \in [Slots -> Seq(Buffers)]
    <3>1. wr \in [Slots -> Seq(Buffers)]
      BY DEF ReceiveTypeOK
    <3> QED
      BY <1>2, <1>3, <3>1
  <2>2. /\ curr_recv_buff' \in [Slots -> 0 .. MAX_RECV_BUFFS]
        /\ left' \in 0 .. MAX_RECV_BUFFS
    <3>1. /\ curr_recv_buff' = [curr_recv_buff EXCEPT ![conn] = curr_recv_buff[conn] + 1]
          /\ left' = left - 1
      BY DEF server_post_recv
    <3>2. curr_recv_buff \in [Slots -> 0 .. MAX_RECV_BUFFS]
      BY DEF ReceiveTypeOK
    <3>3. MAX_RECV_BUFFS \in Nat /\ curr_recv_buff[conn] \in 0 .. MAX_RECV_BUFFS
      BY <1>1, QueueFacts
    <3>4. /\ curr_recv_buff[conn] + 1 \in 0 .. MAX_RECV_BUFFS
          /\ left - 1 \in 0 .. MAX_RECV_BUFFS
      BY <1>1, <3>3
    <3> QED
      BY <3>1, <3>2, <3>4
  <2>3. /\ buff_in_use' \in [Slots -> SUBSET Buffers]
        /\ in_use_recv' \subseteq Buffers
    BY DEF server_post_recv, ReceiveTypeOK
  <2>4. last_used_recv_buff' \in Int
    BY DEF server_post_recv, Buffers
  <2> QED
    BY <2>1, <2>2, <2>3, <2>4 DEF server_post_recv, ReceiveTypeOK, client
<1>5. \A j \in Slots : QueueAgrees(j)'
  <2> TAKE j \in Slots
  <2>1. CASE j = conn
    <3>1. wr'[j] = q /\ curr_recv_buff'[j] = curr_recv_buff[j] + 1
          /\ buff_in_use'[j] = buff_in_use[j] \cup {b}
      BY <1>1, <1>3, <2>1 DEF server_post_recv, ReceiveTypeOK
    <3> QED
      BY <1>2, <2>1, <3>1, QueueFacts, LenProperties
         DEF server_post_recv, QueueAgrees, Receives
  <2>2. CASE j # conn
    <3>1. wr'[j] = wr[j] /\ curr_recv_buff'[j] = curr_recv_buff[j]
          /\ buff_in_use'[j] = buff_in_use[j]
      BY <1>1, <1>3, <2>2 DEF server_post_recv, ReceiveTypeOK
    <3> QED
      BY <3>1 DEF server_post_recv, CountsAgree, QueueAgrees, Receives
  <2> QED
    BY <2>1, <2>2
<1>6. PhaseAgrees'
  <2>1. curr_recv_buff'[conn'] + left' = MAX_RECV_BUFFS
    BY <1>1, QueueFacts DEF server_post_recv, ReceiveTypeOK
  <2> QED
    BY <2>1 DEF server_post_recv, CountsAgree, PhaseAgrees
<1>7. UsedBuffersArePosted'
  <2>1. Posted \cup {b} \subseteq Posted'
    <3> DEFINE R(j) == {wr'[j][n] : n \in 1 .. Len(wr'[j])}
    <3>1. R(conn) = Receives(conn) \cup {b}
      <4>1. wr'[conn] = q
        BY <1>1, <1>3 DEF ReceiveTypeOK
      <4> QED
        BY <1>2, <4>1
    <3>2. \A j \in Slots \ {conn} : R(j) = Receives(j)
      BY <1>3 DEF Receives, ReceiveTypeOK
    <3>3. Posted' = UNION {R(j) : j \in Slots}
      BY DEF Posted, Receives
    <3> HIDE DEF R
    <3>4. \A j \in Slots : Receives(j) \subseteq R(j)
      BY <3>1, <3>2
    <3>5. b \in Posted'
      BY <1>1, <3>1, <3>3
    <3>6. \A j \in Slots : Receives(j) \subseteq Posted'
      BY <3>3, <3>4
    <3> QED
      BY <3>5, <3>6 DEF Posted
  <2>2. InHand' = InHand
    BY DEF InHand, server_post_recv
  <2> QED
    BY <2>1, <2>2 DEF UsedBuffersArePosted, server_post_recv
<1> QED
  BY <1>4, <1>5, <1>6, <1>7 DEF CountsAgree

LEMMA PostingEndsKeepsInv ==
    ASSUME RInv, PostingEnds
    PROVE  RInv'
<1> USE DEF RInv
<1>1. ReceiveTypeOK'
  <2>1. /\ doing' \in {"loop", "post", "batch", "handle", "down"}
        /\ left' \in 0 .. MAX_RECV_BUFFS
    BY ReceiveAssumption, SlotsAssumption DEF PostingEnds
  <2> QED
    BY <2>1 DEF PostingEnds, ReceiveTypeOK, ring, queue, client
<1>2. CountsAgree'
  <2>1. \A j \in Slots : QueueAgrees(j)'
    BY DEF PostingEnds, CountsAgree, QueueAgrees, Receives, queue
  <2>2. PhaseAgrees'
    BY DEF PostingEnds, CountsAgree, PhaseAgrees, queue
  <2> QED
    BY <2>1, <2>2 DEF CountsAgree
<1>3. UsedBuffersArePosted'
  BY StillPosted DEF PostingEnds, InHand, ring, queue
<1> QED
  BY <1>1, <1>2, <1>3

LEMMA ConnectKeepsInv ==
    ASSUME RInv, NEW i \in Slots, ConnectSlot(i)
    PROVE  RInv'
<1> USE DEF RInv
<1>1. curr_recv_buff[i] \in 0 .. MAX_RECV_BUFFS /\ sessions[i] \in Nat
      /\ MAX_RECV_BUFFS \in Nat
  BY ReceiveAssumption, SlotsAssumption DEF ReceiveTypeOK
<1>2. ReceiveTypeOK'
  <2>1. sent' \in [Slots -> Nat] /\ sessions' \in [Slots -> Nat]
    <3>1. /\ sent' = [sent EXCEPT ![i] = 0]
          /\ sessions' = [sessions EXCEPT ![i] = sessions[i] + 1]
      BY DEF ConnectSlot
    <3>2. sent \in [Slots -> Nat] /\ sessions \in [Slots -> Nat]
      BY DEF ReceiveTypeOK
    <3> QED
      BY <1>1, <3>1, <3>2
  <2>2. left' \in 0 .. MAX_RECV_BUFFS
    BY <1>1 DEF ConnectSlot
  <2> QED
    BY <2>1, <2>2 DEF ConnectSlot, ReceiveTypeOK, ring, queue
<1>3. CountsAgree'
  BY <1>1 DEF ConnectSlot, CountsAgree, QueueAgrees, PhaseAgrees, Receives, queue
<1>4. UsedBuffersArePosted'
  BY StillPosted DEF ConnectSlot, InHand, ring, queue
<1> QED
  BY <1>2, <1>3, <1>4

LEMMA PollKeepsInv ==
    ASSUME RInv, ibv_poll_cq
    PROVE  RInv'
<1> USE DEF RInv
<1>1. PICK taken \in [connected -> 0 .. MAX_RECV_BUFFS] :
         /\ \A i \in connected : taken[i] <= landed[i]
         /\ polled' = [i \in Slots |-> IF i \in connected THEN taken[i] ELSE 0]
  BY DEF ibv_poll_cq
<1>2. \A i \in Slots : polled'[i] \in Nat /\ polled'[i] <= landed[i]
  <2> TAKE i \in Slots
  <2>1. landed[i] \in Nat
    BY DEF ReceiveTypeOK
  <2> QED
    BY <1>1, <2>1, ReceiveAssumption, SlotsAssumption
<1>3. ReceiveTypeOK'
  <2>1. polled' \in [Slots -> Nat]
    BY <1>1, <1>2
  <2> QED
    BY <2>1 DEF ibv_poll_cq, ReceiveTypeOK, ring, client
<1>4. CountsAgree'
  BY <1>2 DEF ibv_poll_cq, CountsAgree, QueueAgrees, PhaseAgrees, Receives
<1>5. UsedBuffersArePosted'
  BY StillPosted DEF ibv_poll_cq, InHand, ring
<1> QED
  BY <1>3, <1>4, <1>5

LEMMA RecvKeepsInv ==
    ASSUME RInv, NEW i \in Slots, RecvRequest(i)
    PROVE  RInv'
<1> USE DEF RInv
<1> DEFINE q == Tail(wr[i])
           h == Head(wr[i])
<1>1. /\ polled[i] \in Nat /\ polled[i] > 0 /\ polled[i] <= landed[i]
      /\ landed[i] \in Nat /\ landed[i] <= Len(wr[i]) /\ Len(wr[i]) \in Nat
      /\ curr_recv_buff[i] = Len(wr[i]) /\ curr_recv_buff[i] \in 1 .. MAX_RECV_BUFFS
      /\ MAX_RECV_BUFFS \in Nat
  BY QueueFacts, LenProperties DEF RecvRequest
<1>2. /\ q \in Seq(Buffers) /\ h \in Buffers /\ Len(q) = Len(wr[i]) - 1
      /\ Receives(i) = {q[n] : n \in 1 .. Len(q)} \cup {h}
  <2>1. wr[i] \in Seq(Buffers) /\ Len(wr[i]) > 0
    BY <1>1, QueueFacts
  <2>2. {wr[i][n] : n \in 1 .. Len(wr[i])} = {q[n] : n \in 1 .. Len(q)} \cup {h}
    BY <2>1, TailReceive
  <2> QED
    BY <2>1, <2>2, TailReceive DEF Receives
<1>3. wr' = [wr EXCEPT ![i] = q] /\ buff' = h /\ conn' = i
  BY DEF RecvRequest
<1> HIDE DEF q, h
<1>4. ReceiveTypeOK'
  <2>1. wr' \in [Slots -> Seq(Buffers)] /\ buff' \in Buffers
    BY <1>2, <1>3 DEF ReceiveTypeOK
  <2>2. landed' \in [Slots -> Nat] /\ polled' \in [Slots -> Nat]
    <3>1. landed[i] - 1 \in Nat /\ polled[i] - 1 \in Nat
      BY <1>1
    <3> QED
      BY <3>1 DEF RecvRequest, ReceiveTypeOK
  <2>3. curr_recv_buff' \in [Slots -> 0 .. MAX_RECV_BUFFS]
    <3>1. curr_recv_buff[i] - 1 \in 0 .. MAX_RECV_BUFFS
      BY <1>1
    <3> QED
      BY <3>1 DEF RecvRequest, ReceiveTypeOK
  <2>4. left' \in 0 .. MAX_RECV_BUFFS /\ doing' \in {"post", "handle"}
    <3>1. /\ MAX_RECV_BUFFS - (curr_recv_buff[i] - 1) \in 0 .. MAX_RECV_BUFFS
          /\ 0 \in 0 .. MAX_RECV_BUFFS
      BY <1>1
    <3> QED
      BY <3>1 DEF RecvRequest
  <2>5. conn' \in Slots
    BY <1>3
  <2> QED
    BY <2>1, <2>2, <2>3, <2>4, <2>5
       DEF RecvRequest, ReceiveTypeOK, ring, client
<1>5. \A j \in Slots : QueueAgrees(j)'
  <2> TAKE j \in Slots
  <2>1. CASE j = i
    <3>1. /\ wr'[j] = q /\ curr_recv_buff'[j] = curr_recv_buff[j] - 1
          /\ landed'[j] = landed[j] - 1 /\ polled'[j] = polled[j] - 1
      BY <1>3, <2>1 DEF RecvRequest, ReceiveTypeOK
    <3> QED
      BY <1>1, <1>2, <2>1, <3>1, QueueFacts
         DEF RecvRequest, QueueAgrees, Receives
  <2>2. CASE j # i
    <3>1. /\ wr'[j] = wr[j] /\ curr_recv_buff'[j] = curr_recv_buff[j]
          /\ landed'[j] = landed[j] /\ polled'[j] = polled[j]
      BY <1>3, <2>2 DEF RecvRequest, ReceiveTypeOK
    <3> QED
      BY <3>1 DEF RecvRequest, CountsAgree, QueueAgrees, Receives
  <2> QED
    BY <2>1, <2>2
<1>6. PhaseAgrees'
  <2>1. buff' # NoBuff
    BY <1>2, <1>3 DEF Buffers, NoBuff
  <2>2. doing' = "post" => curr_recv_buff'[conn'] + left' = MAX_RECV_BUFFS
    BY <1>1, <1>3, ReceiveAssumption, SlotsAssumption DEF RecvRequest, ReceiveTypeOK
  <2>3. doing' \in {"post", "handle"}
    BY DEF RecvRequest
  <2> QED
    BY <2>1, <2>2, <2>3 DEF PhaseAgrees
<1>7. UsedBuffersArePosted'
  <2> DEFINE R(j) == {wr'[j][n] : n \in 1 .. Len(wr'[j])}
  <2>1. Receives(i) = R(i) \cup {h}
    <3>1. wr'[i] = q
      BY <1>3 DEF ReceiveTypeOK
    <3> QED
      BY <1>2, <3>1
  <2>2. \A j \in Slots \ {i} : R(j) = Receives(j)
    BY <1>3 DEF Receives, ReceiveTypeOK
  <2>3. Posted' = UNION {R(j) : j \in Slots}
    BY DEF Posted, Receives
  <2>4. h \in InHand' /\ InHand = {}
    BY <1>2, <1>3 DEF InHand, RecvRequest, Buffers, NoBuff
  <2> HIDE DEF R
  <2>5. \A j \in Slots : Receives(j) \subseteq R(j) \cup {h}
    BY <2>1, <2>2
  <2>6. \A j \in Slots : Receives(j) \subseteq Posted' \cup {h}
    BY <2>3, <2>5
  <2> QED
    BY <2>4, <2>6 DEF UsedBuffersArePosted, Posted, RecvRequest, ring
<1> QED
  BY <1>4, <1>5, <1>6, <1>7 DEF CountsAgree

(* A connection that is removed takes its receives along and gives back    *)
(* all buffers it ever used, which covers them.                            *)
LEMMA RemovalFacts ==
    ASSUME RInv, NEW i \in Slots, NEW also, NEW n \in 0 .. Len(wr[i]),
           remove_connection_buffers(i, also, n)
    PROVE  /\ connected' \subseteq Slots
           /\ curr_recv_buff' \in [Slots -> 0 .. MAX_RECV_BUFFS]
           /\ buff_in_use' \in [Slots -> SUBSET Buffers]
           /\ in_use_recv' \subseteq Buffers
           /\ wr' \in [Slots -> Seq(Buffers)]
           /\ landed' \in [Slots -> Nat]
           /\ polled' \in [Slots -> Nat]
           /\ stale' \subseteq Buffers
           /\ \A j \in Slots : QueueAgrees(j)'
           /\ in_use_recv' \subseteq Posted' \cup (InHand \ also)
<1> USE DEF RInv
<1>1. <<>> \in Seq(Buffers) /\ Len(<<>>) = 0
  BY EmptySeq
<1>2. wr' \in [Slots -> Seq(Buffers)]
  BY <1>1 DEF remove_connection_buffers, ReceiveTypeOK
<1>3. stale' \subseteq Buffers
  <2>1. \A k \in 1 .. n : wr[i][k] \in Buffers
    BY QueueFacts, ElementOfSeq, LenProperties
  <2> QED
    BY <2>1 DEF remove_connection_buffers, ReceiveTypeOK
<1>4. /\ curr_recv_buff' \in [Slots -> 0 .. MAX_RECV_BUFFS]
      /\ landed' \in [Slots -> Nat] /\ polled' \in [Slots -> Nat]
      /\ buff_in_use' \in [Slots -> SUBSET Buffers]
      /\ in_use_recv' \subseteq Buffers /\ connected' \subseteq Slots
  BY ReceiveAssumption, SlotsAssumption DEF remove_connection_buffers, ReceiveTypeOK
<1>5. \A j \in Slots : QueueAgrees(j)'
  <2> TAKE j \in Slots
  <2>1. CASE j = i
    <3>1. /\ wr'[j] = <<>> /\ curr_recv_buff'[j] = 0
          /\ landed'[j] = 0 /\ polled'[j] = 0
      BY <2>1 DEF remove_connection_buffers, ReceiveTypeOK
    <3> QED
      BY <1>1, <3>1 DEF QueueAgrees, Receives
  <2>2. CASE j # i
    <3>1. /\ wr'[j] = wr[j] /\ curr_recv_buff'[j] = curr_recv_buff[j]
          /\ landed'[j] = landed[j] /\ polled'[j] = polled[j]
          /\ buff_in_use'[j] = buff_in_use[j]
      BY <2>2 DEF remove_connection_buffers, ReceiveTypeOK
    <3> QED
      BY <3>1 DEF CountsAgree, QueueAgrees, Receives
  <2> QED
    BY <2>1, <2>2
<1>6. in_use_recv' \subseteq Posted' \cup (InHand \ also)
  <2> DEFINE R(j) == {wr'[j][k] : k \in 1 .. Len(wr'[j])}
  <2>1. \A j \in Slots \ {i} : R(j) = Receives(j)
    BY DEF remove_connection_buffers, Receives, ReceiveTypeOK
  <2>2. Posted' = UNION {R(j) : j \in Slots}
    BY DEF Posted, Receives
  <2> HIDE DEF R
  <2>3. \A j \in Slots \ {i} : Receives(j) \subseteq Posted'
    BY <2>1, <2>2
  <2>4. Posted \subseteq Posted' \cup buff_in_use[i]
    BY <2>3, QueueFacts DEF Posted
  <2> QED
    BY <2>4 DEF remove_connection_buffers, UsedBuffersArePosted
<1> QED
  BY <1>2, <1>3, <1>4, <1>5, <1>6

LEMMA ClosingKeepsInv ==
    ASSUME RInv, HandleClosing
    PROVE  RInv'
<1>1. /\ conn \in Slots /\ remove_connection_buffers(conn, {buff}, polled[conn])
      /\ polled[conn] \in 0 .. Len(wr[conn])
      /\ doing = "handle" /\ doing' = "batch"
  BY QueueFacts, LenProperties DEF RInv, HandleClosing, ReceiveTypeOK
<1>2. ReceiveTypeOK' /\ \A j \in Slots : QueueAgrees(j)'
  BY <1>1, RemovalFacts DEF RInv, HandleClosing, ReceiveTypeOK, client
<1>3. PhaseAgrees'
  BY <1>1 DEF PhaseAgrees
<1>4. UsedBuffersArePosted'
  BY <1>1, RemovalFacts DEF UsedBuffersArePosted, InHand
<1> QED
  BY <1>2, <1>3, <1>4 DEF RInv, CountsAgree

LEMMA RemoveFailedKeepsInv ==
    ASSUME RInv, NEW i \in Slots, RemoveFailedConnection(i)
    PROVE  RInv'
<1>1. PICK n \in 0 .. Len(wr[i]) :
         /\ remove_connection_buffers(i, {}, n)
         /\ doing \in {"loop", "batch"}
         /\ doing = "loop" => n = 0
  BY QueueFacts, LenProperties DEF RInv, RemoveFailedConnection
<1>2. ReceiveTypeOK' /\ \A j \in Slots : QueueAgrees(j)'
  BY <1>1, RemovalFacts DEF RInv, RemoveFailedConnection, ReceiveTypeOK, client
<1>3. PhaseAgrees'
  <2>1. doing' = doing /\ buff' = buff
    BY DEF RemoveFailedConnection
  <2>2. ASSUME doing = "loop"
        PROVE  (\A j \in Slots : polled'[j] = 0) /\ stale' = {}
    BY <1>1, <2>2 DEF RInv, CountsAgree, PhaseAgrees, ReceiveTypeOK, remove_connection_buffers
  <2> QED
    BY <1>1, <2>1, <2>2 DEF PhaseAgrees
<1>4. UsedBuffersArePosted'
  BY <1>1, RemovalFacts DEF UsedBuffersArePosted, InHand
<1> QED
  BY <1>2, <1>3, <1>4 DEF RInv, CountsAgree

LEMMA HandleKeepsInv ==
    ASSUME RInv, HandleMessage
    PROVE  RInv'
<1> USE DEF RInv
<1>1. ReceiveTypeOK' /\ CountsAgree'
  BY DEF HandleMessage, ReceiveTypeOK, CountsAgree, QueueAgrees, PhaseAgrees,
         Receives, queue, client
<1>2. UsedBuffersArePosted'
  BY DEF HandleMessage, UsedBuffersArePosted, Posted, Receives, InHand, queue
<1> QED
  BY <1>1, <1>2

LEMMA ReleaseStaleKeepsInv ==
    ASSUME RInv, NEW b \in Buffers, ReleaseStale(b)
    PROVE  RInv'
<1> USE DEF RInv
<1>1. ReceiveTypeOK' /\ CountsAgree'
  BY DEF ReleaseStale, ReceiveTypeOK, CountsAgree, QueueAgrees, PhaseAgrees,
         Receives, queue, client
<1>2. UsedBuffersArePosted'
  BY StillPosted DEF ReleaseStale, InHand, queue
<1> QED
  BY <1>1, <1>2

LEMMA BatchEndsKeepsInv ==
    ASSUME RInv, BatchEnds
    PROVE  RInv'
<1> USE DEF RInv
<1>1. ReceiveTypeOK' /\ CountsAgree'
  BY DEF BatchEnds, ReceiveTypeOK, CountsAgree, QueueAgrees, PhaseAgrees,
         Receives, ring, queue, client
<1>2. UsedBuffersArePosted'
  BY StillPosted DEF BatchEnds, InHand, ring, queue
<1> QED
  BY <1>1, <1>2

LEMMA NextKeepsRInv ==
    ASSUME RInv, [ReceiveNext]_receive_vars
    PROVE  RInv'
<1>1. CASE UNCHANGED receive_vars
  <2>1. ReceiveTypeOK'
    BY <1>1 DEF RInv, ReceiveTypeOK, receive_vars, ring, queue, client
  <2>2. \A i \in Slots : QueueAgrees(i)'
    BY <1>1 DEF RInv, CountsAgree, QueueAgrees, Receives, receive_vars, ring, queue
  <2>3. PhaseAgrees'
    BY <1>1 DEF RInv, CountsAgree, PhaseAgrees, receive_vars, queue
  <2>4. UsedBuffersArePosted'
    BY <1>1, StillPosted DEF RInv, InHand, receive_vars, ring, queue
  <2> QED
    BY <2>1, <2>2, <2>3, <2>4 DEF RInv, CountsAgree
<1>2. ASSUME NEW i \in Slots, LandRequest(i) \/ LandShutdown(i) PROVE RInv'
  BY <1>2, LandKeepsInv DEF LandRequest, LandShutdown
<1>3. CASE Posting
  BY <1>3, PostKeepsInv, PostingEndsKeepsInv DEF Posting
<1>4. CASE Batch
  BY <1>4, PollKeepsInv, RecvKeepsInv, HandleKeepsInv, ClosingKeepsInv,
     ReleaseStaleKeepsInv, BatchEndsKeepsInv DEF Batch
<1>5. ASSUME NEW i \in Slots, ConnectSlot(i) \/ RemoveFailedConnection(i) PROVE RInv'
  BY <1>5, ConnectKeepsInv, RemoveFailedKeepsInv
<1> QED
  BY <1>1, <1>2, <1>3, <1>4, <1>5 DEF ReceiveNext, Device

-----------------------------------------------------------------------------
(* The pool is large enough. *)

(* Two places of different connections are different. *)
LEMMA PlacesDiffer ==
    ASSUME NEW M \in Nat, NEW i \in Nat, NEW j \in Nat, i < j,
           NEW m \in 1 .. M, NEW n \in 1 .. M
    PROVE  i * M + m < j * M + n
<1>1. PICK k \in Nat : j = i + 1 + k
  <2>1. j - i - 1 \in Nat /\ j = i + 1 + (j - i - 1)
    OBVIOUS
  <2> QED
    BY <2>1
<1>2. j * M = i * M + M + k * M /\ k * M \in Nat /\ i * M \in Nat
  BY <1>1
<1> QED
  BY <1>2

(* The place of the n-th receive of connection i among all that may be     *)
(* posted.                                                                 *)
Place(i, n) == i * MAX_RECV_BUFFS + n

QueuePlaces == 1 .. MAX_CLIENTS_SUPPORTED * MAX_RECV_BUFFS

LEMMA PlaceType ==
    ASSUME NEW i \in Slots, NEW n \in 1 .. MAX_RECV_BUFFS
    PROVE  Place(i, n) \in QueuePlaces
<1> DEFINE M == MAX_RECV_BUFFS
           C == MAX_CLIENTS_SUPPORTED
<1>1. M \in Nat /\ C \in Nat /\ i \in Nat /\ i < C
  BY ReceiveAssumption, SlotsAssumption DEF Slots
<1> HIDE DEF M, C
<1>2. PICK k \in Nat : C = i + 1 + k
  <2>1. C - i - 1 \in Nat /\ C = i + 1 + (C - i - 1)
    BY <1>1
  <2> QED
    BY <2>1
<1>3. C * M = i * M + M + k * M /\ k * M \in Nat /\ i * M \in Nat
  BY <1>1, <1>2
<1>4. n \in 1 .. M
  BY DEF M
<1>5. i * M + n \in 1 .. C * M
  BY <1>1, <1>3, <1>4
<1> QED
  BY <1>5 DEF Place, QueuePlaces, M, C

LEMMA PlaceInjective ==
    ASSUME NEW i \in Slots, NEW n \in 1 .. MAX_RECV_BUFFS,
           NEW j \in Slots, NEW m \in 1 .. MAX_RECV_BUFFS,
           Place(i, n) = Place(j, m)
    PROVE  i = j /\ n = m
<1>1. i \in Nat /\ j \in Nat /\ MAX_RECV_BUFFS \in Nat
  BY ReceiveAssumption, SlotsAssumption DEF Slots
<1>2. i * MAX_RECV_BUFFS \in Int /\ j * MAX_RECV_BUFFS \in Int
  BY <1>1
<1>3. ~ i < j /\ ~ j < i
  BY <1>1, <1>2, PlacesDiffer DEF Place
<1>4. i = j
  BY <1>1, <1>3
<1> QED
  BY <1>1, <1>2, <1>4 DEF Place

(* When every buffer is used, no place is left over: otherwise there are   *)
(* fewer places than buffers, and two buffers share one.                   *)
LEMMA NoPlaceToSpare ==
    ASSUME RInv, doing = "post", FreeBuffers = {}
    PROVE  curr_recv_buff[conn] >= Wanted
<1> SUFFICES ASSUME curr_recv_buff[conn] < Wanted
             PROVE  FALSE
  BY QueueFacts, ReceiveAssumption, SlotsAssumption DEF RInv, ReceiveTypeOK, Wanted
<1> DEFINE C == MAX_CLIENTS_SUPPORTED
           M == MAX_RECV_BUFFS
           T == QueuePlaces \ {Place(conn, M)}
           held == Place(conn, M - 1)
           At(b, p) == \E i \in Slots : \E n \in 1 .. Len(wr[i]) :
                          wr[i][n] = b /\ p = Place(i, n)
           f == [b \in Buffers |-> IF b \in Posted THEN CHOOSE p \in T : At(b, p)
                                                   ELSE held]
<1>1. /\ conn \in Slots /\ M \in Nat /\ M > 0
      /\ curr_recv_buff[conn] = Len(wr[conn]) /\ Len(wr[conn]) \in Nat
      /\ Len(wr[conn]) < M
      /\ buff # NoBuff => Len(wr[conn]) < M - 1
  BY QueueFacts, LenProperties, ReceiveAssumption, SlotsAssumption DEF RInv, ReceiveTypeOK, Wanted
<1>2. \A i \in Slots : 1 .. Len(wr[i]) \subseteq 1 .. M
  BY QueueFacts, LenProperties DEF RInv
<1>3. IsFiniteSet(T) /\ Cardinality(T) = C * M - 1
  <2>1. C * M \in Nat
    BY ReceiveAssumption, SlotsAssumption
  <2>2. IsFiniteSet(QueuePlaces) /\ Cardinality(QueuePlaces) = C * M
    BY <2>1, FS_Interval DEF QueuePlaces
  <2>3. Place(conn, M) \in QueuePlaces
    BY <1>1, PlaceType
  <2> QED
    BY <2>2, <2>3, FS_RemoveElement
<1>4. IsFiniteSet(Buffers) /\ Cardinality(Buffers) = SERVER_NUM_RECV_BUFFS
  BY ReceiveAssumption, SlotsAssumption, FS_Interval DEF Buffers
<1>5. Cardinality(T) < Cardinality(Buffers)
  BY <1>3, <1>4, ReceiveAssumption, SlotsAssumption
<1>6. \A b \in Posted : \E p \in T : At(b, p)
  <2> SUFFICES ASSUME NEW i \in Slots, NEW n \in 1 .. Len(wr[i])
               PROVE  Place(i, n) \in T
    BY DEF Posted, Receives
  <2>1. n \in 1 .. M /\ Place(i, n) \in QueuePlaces
    BY <1>2, PlaceType
  <2>2. Place(i, n) # Place(conn, M)
    BY <1>1, <2>1, PlaceInjective
  <2> QED
    BY <2>1, <2>2
<1>7. \A b \in Buffers \ Posted : b = buff /\ buff # NoBuff
  BY DEF RInv, UsedBuffersArePosted, InHand, FreeBuffers
<1>8. ASSUME buff # NoBuff
      PROVE  /\ held \in T
             /\ \A i \in Slots : \A n \in 1 .. Len(wr[i]) : Place(i, n) # held
  <2>1. M - 1 \in 1 .. M /\ M \in 1 .. M /\ M - 1 # M
    BY <1>1, <1>8
  <2>2. held \in T
    BY <1>1, <2>1, PlaceType, PlaceInjective
  <2>3. ASSUME NEW i \in Slots, NEW n \in 1 .. Len(wr[i]), Place(i, n) = held
        PROVE  FALSE
    <3>1. i = conn /\ n = M - 1
      BY <1>1, <1>2, <2>1, <2>3, PlaceInjective
    <3> QED
      BY <1>1, <1>8, <3>1
  <2> QED
    BY <2>2, <2>3
<1> HIDE DEF T, held, At, f
<1>9. f \in [Buffers -> T]
  BY <1>6, <1>7, <1>8 DEF f
<1>10. PICK x \in Buffers, y \in Buffers : x # y /\ f[x] = f[y]
  BY <1>3, <1>4, <1>5, <1>9, FS_PigeonHole
<1>11. \A b \in Posted : b \in Buffers => At(b, f[b])
  BY <1>6 DEF f
<1>12. \A b \in Buffers \ Posted : f[b] = held
  BY DEF f
<1>13. CASE x \in Posted /\ y \in Posted
  <2>1. PICK i \in Slots : \E n \in 1 .. Len(wr[i]) : wr[i][n] = x /\ f[x] = Place(i, n)
    BY <1>11, <1>13 DEF At
  <2>2. PICK j \in Slots : \E m \in 1 .. Len(wr[j]) : wr[j][m] = y /\ f[y] = Place(j, m)
    BY <1>11, <1>13 DEF At
  <2>3. PICK n \in 1 .. Len(wr[i]) : wr[i][n] = x /\ f[x] = Place(i, n)
    BY <2>1
  <2>4. PICK m \in 1 .. Len(wr[j]) : wr[j][m] = y /\ f[y] = Place(j, m)
    BY <2>2
  <2>5. n \in 1 .. MAX_RECV_BUFFS /\ m \in 1 .. MAX_RECV_BUFFS
    BY <1>2
  <2>6. Place(i, n) = Place(j, m)
    BY <1>10, <2>3, <2>4
  <2>7. i = j /\ n = m
    BY <2>5, <2>6, PlaceInjective
  <2> QED
    BY <1>10, <2>3, <2>4, <2>7
<1>14. CASE x \notin Posted
  BY <1>7, <1>8, <1>10, <1>11, <1>12, <1>14 DEF At
<1>15. CASE y \notin Posted
  BY <1>7, <1>8, <1>10, <1>11, <1>12, <1>15 DEF At
<1> QED
  BY <1>13, <1>14, <1>15

LEMMA StaysUp ==
    ASSUME RInv, NeverRunsShort, [ReceiveNext]_receive_vars
    PROVE  NeverRunsShort'
<1>1. ASSUME PostingEnds PROVE doing' # "down"
  <2>1. curr_recv_buff[conn] >= Wanted
    <3>1. CASE left = 0
      BY <1>1, <3>1, ReceiveAssumption, SlotsAssumption
         DEF PostingEnds, RInv, ReceiveTypeOK, CountsAgree, PhaseAgrees, Wanted
    <3>2. CASE FreeBuffers = {}
      BY <1>1, <3>2, NoPlaceToSpare DEF PostingEnds
    <3> QED
      BY <1>1, <3>1, <3>2 DEF PostingEnds
  <2>2. ~(curr_recv_buff[conn] < Wanted)
    BY <2>1, QueueFacts, ReceiveAssumption, SlotsAssumption DEF RInv, ReceiveTypeOK, Wanted
  <2> QED
    BY <1>1, <2>2 DEF PostingEnds
<1> QED
  BY <1>1 DEF NeverRunsShort, ReceiveNext, Device, Posting, Batch, LandRequest,
              LandShutdown, Land, server_post_recv, ibv_poll_cq, RecvRequest,
              HandleMessage, HandleClosing, ReleaseStale, BatchEnds, ConnectSlot,
              RemoveFailedConnection, receive_vars

-----------------------------------------------------------------------------
(* The inductive invariant of the receive buffers - types, counters that   *)
(* agree with the queues, no lost buffer - holds in every reachable state. *)
THEOREM ReceiveInvariance == ReceiveSpec => []RInv
  BY InitRInv, NextKeepsRInv, PTL DEF ReceiveSpec

(* The counters of server.c always agree with what is posted. *)
THEOREM CountersAgree == ReceiveSpec => []CountsAgree
<1>1. RInv => CountsAgree
  BY DEF RInv
<1> QED
  BY <1>1, ReceiveInvariance, PTL

(* No receive buffer is ever lost. *)
THEOREM NoBufferIsLost == ReceiveSpec => []UsedBuffersArePosted
<1>1. RInv => UsedBuffersArePosted
  BY DEF RInv
<1> QED
  BY <1>1, ReceiveInvariance, PTL

(* The server never goes down because it lacks receive buffers. *)
THEOREM ReceivesSuffice == ReceiveSpec => []NeverRunsShort
<1>1. ReceiveInit => NeverRunsShort
  BY DEF ReceiveInit, NeverRunsShort
<1>2. RInv /\ NeverRunsShort /\ [ReceiveNext]_receive_vars => NeverRunsShort'
  BY StaysUp
<1> QED
  BY <1>1, <1>2, ReceiveInvariance, PTL DEF ReceiveSpec
-----------------------------------------------------------------------------
(* Until a connection is removed, no buffer is in two places.              *)

(* A connected slot has been taken, and a handler serves one of them; a    *)
(* slot that is not connected has nothing posted.                          *)
Taken ==
    /\ \A i \in connected : sessions[i] >= 1
    /\ doing \in {"post", "handle"} => conn \in connected
    /\ \A i \in Slots : i \notin connected => wr[i] = <<>>

(* Each posted buffer stands once in one queue, and is marked as used; the *)
(* one in the server's hand is too, and is not posted.                     *)
OncePosted ==
    /\ \A i, j \in Slots : \A m \in 1 .. Len(wr[i]), n \in 1 .. Len(wr[j]) :
          wr[i][m] = wr[j][n] => i = j /\ m = n
    /\ \A i \in Slots : \A n \in 1 .. Len(wr[i]) :
          wr[i][n] \in in_use_recv /\ wr[i][n] \notin InHand
    /\ InHand \subseteq in_use_recv
    /\ stale = {}

(* What RequestsAreIntact says of the messages. *)
HeldInOrder ==
    /\ \A i \in connected : \A n \in 1 .. landed[i] :
          Holds(wr[i][n], i, sent[i] - landed[i] + n)
    /\ InHand # {} => Holds(buff, conn, sent[conn] - landed[conn])

MInv ==
    /\ Taken
    /\ content \in [Buffers -> [op : {"NONE", "REQUEST", "SHUTDOWN"}, from : Int, n : Int]]
    /\ NobodyHasLeft => OncePosted /\ HeldInOrder

LEMMA InitMInv == ReceiveInit => MInv
<1> SUFFICES ASSUME ReceiveInit PROVE MInv
  OBVIOUS
<1>1. Taken
  BY DEF ReceiveInit, Taken
<1>2. \A i \in Slots : wr[i] = <<>> /\ Len(wr[i]) = 0
  BY DEF ReceiveInit
<1>3. InHand = {}
  BY DEF ReceiveInit, InHand
<1>4. OncePosted /\ HeldInOrder
  BY <1>2, <1>3 DEF ReceiveInit, OncePosted, HeldInOrder
<1>5. Blank \in [op : {"NONE", "REQUEST", "SHUTDOWN"}, from : Int, n : Int]
  BY DEF Blank, Message
<1>6. content \in [Buffers -> [op : {"NONE", "REQUEST", "SHUTDOWN"}, from : Int, n : Int]]
  BY <1>5 DEF ReceiveInit
<1> QED
  BY <1>1, <1>4, <1>6 DEF MInv

(* Nobody comes back to have never left. *)
LEMMA StillNobody ==
    ASSUME RInv, MInv, UNCHANGED <<connected, sessions>>
    PROVE  NobodyHasLeft' = NobodyHasLeft
  BY DEF NobodyHasLeft

(* A step that leaves the queues and the buffers as they are, and takes    *)
(* nothing up.                                                             *)
LEMMA QuietKeepsMInv ==
    ASSUME RInv, MInv,
           UNCHANGED <<connected, sessions, wr, in_use_recv, stale, content,
                       landed, sent, buff, conn>>,
           InHand' \subseteq InHand,
           doing' \in {"post", "handle"} => doing \in {"post", "handle"}
    PROVE  MInv'
<1>1. NobodyHasLeft' = NobodyHasLeft
  BY StillNobody
<1>2. Taken'
  BY DEF MInv, Taken
<1>3. OncePosted => OncePosted'
  BY DEF OncePosted
<1>4. HeldInOrder => HeldInOrder'
  BY DEF HeldInOrder, Holds
<1> QED
  BY <1>1, <1>2, <1>3, <1>4 DEF MInv

(* A message lands in a buffer that holds no other, and nobody looks at.   *)
LEMMA LandKeepsMInv ==
    ASSUME RInv, MInv, NEW i \in Slots, NEW op \in {"REQUEST", "SHUTDOWN"},
           Land(i, op)
    PROVE  MInv'
<1> DEFINE b == wr[i][landed[i] + 1]
           m == Message(op, i, sent[i] + 1)
<1>1. /\ i \in connected /\ landed[i] < Len(wr[i])
      /\ content' = [content EXCEPT ![b] = m]
      /\ landed' = [landed EXCEPT ![i] = landed[i] + 1]
      /\ sent' = [sent EXCEPT ![i] = sent[i] + 1]
      /\ UNCHANGED <<doing, connected, wr, in_use_recv, stale, conn, buff, sessions>>
  BY DEF Land, ring
<1>2. /\ wr[i] \in Seq(Buffers) /\ Len(wr[i]) \in Nat
      /\ landed \in [Slots -> Nat] /\ sent \in [Slots -> Nat]
      /\ conn \in Slots /\ connected \subseteq Slots
  BY QueueFacts, LenProperties DEF RInv, ReceiveTypeOK
<1>3. landed[i] + 1 \in 1 .. Len(wr[i])
  BY <1>1, <1>2
<1>4. b \in Buffers
  BY <1>2, <1>3
<1>5. m \in [op : {"NONE", "REQUEST", "SHUTDOWN"}, from : Int, n : Int]
      /\ m.from = i /\ m.n = sent[i] + 1
  BY <1>2 DEF Message, Slots
<1> HIDE DEF b, m
<1>6. content' \in [Buffers -> [op : {"NONE", "REQUEST", "SHUTDOWN"}, from : Int, n : Int]]
  BY <1>1, <1>5 DEF MInv
<1>7. content'[b] = m /\ \A c : c # b /\ c \in Buffers => content'[c] = content[c]
  BY <1>1, <1>4 DEF MInv
<1>8. NobodyHasLeft' = NobodyHasLeft
  BY <1>1, StillNobody
<1>9. Taken'
  BY <1>1 DEF MInv, Taken
<1>10. InHand' = InHand
  BY <1>1 DEF InHand
<1>11. OncePosted => OncePosted'
  BY <1>1, <1>10 DEF OncePosted
<1>12. ASSUME OncePosted, HeldInOrder PROVE HeldInOrder'
  <2>1. ASSUME NEW j \in connected, NEW n \in 1 .. landed'[j]
        PROVE  Holds(wr[j][n], j, sent[j] - landed[j] + n)'
    <3>1. j \in Slots /\ wr[j] \in Seq(Buffers) /\ Len(wr[j]) \in Nat
          /\ landed[j] \in Nat /\ landed[j] <= Len(wr[j]) /\ sent[j] \in Nat
      BY <1>2, QueueFacts, LenProperties DEF RInv
    <3>2. CASE j = i /\ n = landed[i] + 1
      <4>1. wr'[j][n] = b
        BY <1>1, <3>2 DEF b
      <4>2. sent'[j] - landed'[j] + n = sent[i] + 1
        BY <1>1, <1>2, <3>2
      <4> QED
        BY <1>5, <1>7, <3>2, <4>1, <4>2 DEF Holds
    <3>3. CASE ~(j = i /\ n = landed[i] + 1)
      <4>1. n \in 1 .. landed[j] /\ sent'[j] - landed'[j] + n = sent[j] - landed[j] + n
        <5>1. CASE j = i
          BY <1>1, <1>2, <3>1, <3>3, <5>1
        <5>2. CASE j # i
          BY <1>1, <1>2, <3>1, <5>2
        <5> QED
          BY <5>1, <5>2
      <4>2. n \in 1 .. Len(wr[j]) /\ wr[j][n] \in Buffers
        BY <3>1, <4>1
      <4>3. wr[j][n] # b
        BY <1>3, <1>12, <3>1, <3>3, <4>2 DEF OncePosted, b
      <4>4. content'[wr[j][n]] = content[wr[j][n]]
        BY <1>7, <4>2, <4>3
      <4>5. Holds(wr[j][n], j, sent[j] - landed[j] + n)
        BY <1>12, <4>1 DEF HeldInOrder
      <4> QED
        BY <1>1, <4>1, <4>4, <4>5 DEF Holds
    <3> QED
      BY <3>2, <3>3
  <2>2. ASSUME InHand # {}
        PROVE  Holds(buff, conn, sent[conn] - landed[conn])'
    <3>1. buff \in InHand /\ buff \in Buffers
      BY <2>2 DEF InHand, RInv, ReceiveTypeOK, NoBuff
    <3>2. buff # b
      BY <1>3, <1>12, <3>1 DEF OncePosted, b
    <3>3. content'[buff] = content[buff]
      BY <1>7, <3>1, <3>2
    <3>4. sent'[conn] - landed'[conn] = sent[conn] - landed[conn]
      BY <1>1, <1>2
    <3> QED
      BY <1>1, <1>12, <2>2, <3>3, <3>4 DEF HeldInOrder, Holds
  <2> QED
    BY <1>1, <1>10, <2>1, <2>2 DEF HeldInOrder
<1> QED
  BY <1>6, <1>8, <1>9, <1>11, <1>12 DEF MInv

(* A free buffer is posted. *)
LEMMA PostKeepsMInv ==
    ASSUME RInv, MInv, NEW b \in Buffers, server_post_recv(b)
    PROVE  MInv'
<1>1. /\ doing = "post" /\ b \notin in_use_recv
      /\ content' = [content EXCEPT ![b] = Blank]
      /\ wr' = [wr EXCEPT ![conn] = Append(wr[conn], b)]
      /\ in_use_recv' = in_use_recv \cup {b}
      /\ UNCHANGED <<doing, connected, landed, stale, conn, buff, sent, sessions>>
  BY DEF server_post_recv, get_free_recv_idx, FreeBuffers, client
<1>2. /\ wr \in [Slots -> Seq(Buffers)] /\ conn \in Slots /\ connected \subseteq Slots
      /\ conn \in connected
  BY <1>1 DEF RInv, ReceiveTypeOK, MInv, Taken
<1>3. /\ Append(wr[conn], b) \in Seq(Buffers) /\ Len(wr[conn]) \in Nat
      /\ Len(Append(wr[conn], b)) = Len(wr[conn]) + 1
      /\ \A n \in 1 .. Len(wr[conn]) : Append(wr[conn], b)[n] = wr[conn][n]
      /\ Append(wr[conn], b)[Len(wr[conn]) + 1] = b
  BY <1>2, AppendProperties, LenProperties
<1>4. ASSUME NEW i \in Slots, NEW n \in 1 .. Len(wr'[i])
      PROVE  \/ n \in 1 .. Len(wr[i]) /\ wr'[i][n] = wr[i][n]
             \/ i = conn /\ n = Len(wr[conn]) + 1 /\ wr'[i][n] = b
  <2>1. CASE i = conn
    BY <1>1, <1>2, <1>3, <2>1
  <2>2. CASE i # conn
    BY <1>1, <1>2, <2>2
  <2> QED
    BY <2>1, <2>2
<1>5. ASSUME NEW i \in Slots, NEW n \in 1 .. Len(wr[i])
      PROVE  wr'[i][n] = wr[i][n]
  <2>1. CASE i = conn
    BY <1>1, <1>2, <1>3, <2>1
  <2>2. CASE i # conn
    BY <1>1, <1>2, <2>2
  <2> QED
    BY <2>1, <2>2
<1>6. content' \in [Buffers -> [op : {"NONE", "REQUEST", "SHUTDOWN"}, from : Int, n : Int]]
  <2>1. Blank \in [op : {"NONE", "REQUEST", "SHUTDOWN"}, from : Int, n : Int]
    BY DEF Blank, Message
  <2> QED
    BY <1>1, <2>1 DEF MInv
<1>7. \A c \in in_use_recv : content'[c] = content[c]
  BY <1>1 DEF MInv, RInv, ReceiveTypeOK
<1>8. NobodyHasLeft' = NobodyHasLeft
  BY <1>1, StillNobody
<1>9. Taken'
  BY <1>1, <1>2 DEF MInv, Taken
<1>10. InHand' = InHand
  BY <1>1 DEF InHand
<1>11. ASSUME OncePosted PROVE OncePosted'
  <2>1. \A i \in Slots : \A n \in 1 .. Len(wr[i]) : wr[i][n] # b
    BY <1>1, <1>11 DEF OncePosted
  <2>2. ASSUME NEW i \in Slots, NEW j \in Slots,
               NEW m \in 1 .. Len(wr'[i]), NEW n \in 1 .. Len(wr'[j]),
               wr'[i][m] = wr'[j][n]
        PROVE  i = j /\ m = n
    BY <1>4, <1>11, <2>1, <2>2 DEF OncePosted
  <2>3. ASSUME NEW i \in Slots, NEW n \in 1 .. Len(wr'[i])
        PROVE  wr'[i][n] \in in_use_recv' /\ wr'[i][n] \notin InHand'
    BY <1>1, <1>4, <1>10, <1>11 DEF OncePosted
  <2> QED
    BY <1>1, <1>10, <1>11, <2>2, <2>3 DEF OncePosted
<1>12. ASSUME OncePosted, HeldInOrder PROVE HeldInOrder'
  <2>1. ASSUME NEW i \in connected, NEW n \in 1 .. landed[i]
        PROVE  Holds(wr[i][n], i, sent[i] - landed[i] + n)'
    <3>1. i \in Slots /\ n \in 1 .. Len(wr[i])
      BY <1>2, QueueFacts, LenProperties DEF RInv
    <3>2. wr'[i][n] = wr[i][n] /\ content'[wr[i][n]] = content[wr[i][n]]
      BY <1>5, <1>7, <1>12, <3>1 DEF OncePosted
    <3>3. Holds(wr[i][n], i, sent[i] - landed[i] + n)
      BY <1>12 DEF HeldInOrder
    <3> QED
      BY <1>1, <3>2, <3>3 DEF Holds
  <2>2. ASSUME InHand # {}
        PROVE  Holds(buff, conn, sent[conn] - landed[conn])'
    <3>1. buff \in in_use_recv
      BY <1>12, <2>2 DEF OncePosted, InHand
    <3> QED
      BY <1>1, <1>7, <1>12, <2>2, <3>1 DEF HeldInOrder, Holds
  <2> QED
    BY <1>1, <1>10, <2>1, <2>2 DEF HeldInOrder
<1> QED
  BY <1>6, <1>8, <1>9, <1>11, <1>12 DEF MInv

(* A new connection: whoever is new has sent nothing yet.                  *)
LEMMA ConnectKeepsMInv ==
    ASSUME RInv, MInv, NEW i \in Slots, ConnectSlot(i)
    PROVE  MInv'
<1>1. /\ i \notin connected /\ connected' = connected \cup {i} /\ doing = "loop"
      /\ doing' = "post" /\ conn' = i /\ buff' = NoBuff
      /\ sent' = [sent EXCEPT ![i] = 0]
      /\ sessions' = [sessions EXCEPT ![i] = sessions[i] + 1]
      /\ UNCHANGED <<wr, landed, in_use_recv, stale, content>>
  BY DEF ConnectSlot, ring, queue
<1>2. /\ sessions \in [Slots -> Nat] /\ sent \in [Slots -> Nat]
      /\ connected \subseteq Slots
  BY DEF RInv, ReceiveTypeOK
<1>3. /\ wr[i] = <<>> /\ landed[i] = 0
  <2>1. wr[i] = <<>> /\ Len(wr[i]) = 0
    BY <1>1 DEF MInv, Taken
  <2> QED
    BY <2>1, QueueFacts DEF RInv
<1>4. InHand = {} /\ InHand' = {}
  BY <1>1 DEF InHand
<1>5. Taken'
  <2>1. \A j \in connected' : sessions'[j] >= 1
    BY <1>1, <1>2 DEF MInv, Taken
  <2> QED
    BY <1>1, <2>1 DEF MInv, Taken
<1>6. NobodyHasLeft' => NobodyHasLeft
  <2> SUFFICES ASSUME NobodyHasLeft', NEW j \in Slots
               PROVE  sessions[j] = IF j \in connected THEN 1 ELSE 0
    BY DEF NobodyHasLeft
  <2>1. sessions'[j] = IF j \in connected' THEN 1 ELSE 0
    BY DEF NobodyHasLeft
  <2>2. CASE j = i
    BY <1>1, <1>2, <2>1, <2>2
  <2>3. CASE j # i
    BY <1>1, <1>2, <2>1, <2>3
  <2> QED
    BY <2>2, <2>3
<1>7. OncePosted => OncePosted'
  BY <1>1, <1>4 DEF OncePosted
<1>8. HeldInOrder => HeldInOrder'
  <2> SUFFICES ASSUME HeldInOrder, NEW j \in connected', NEW n \in 1 .. landed'[j]
               PROVE  Holds(wr[j][n], j, sent[j] - landed[j] + n)'
    BY <1>4 DEF HeldInOrder
  <2>1. j # i
    BY <1>1, <1>3
  <2>2. j \in connected /\ sent'[j] = sent[j] /\ n \in 1 .. landed[j]
    BY <1>1, <1>2, <2>1
  <2> QED
    BY <1>1, <2>2 DEF HeldInOrder, Holds
<1>9. content' \in [Buffers -> [op : {"NONE", "REQUEST", "SHUTDOWN"}, from : Int, n : Int]]
  BY <1>1 DEF MInv
<1> QED
  BY <1>5, <1>6, <1>7, <1>8, <1>9 DEF MInv

(* The oldest message of a connection is taken up.                         *)
LEMMA RecvKeepsMInv ==
    ASSUME RInv, MInv, NEW i \in Slots, RecvRequest(i)
    PROVE  MInv'
<1> DEFINE q == Tail(wr[i])
           h == Head(wr[i])
<1>1. /\ doing = "batch" /\ doing' \in {"post", "handle"}
      /\ wr' = [wr EXCEPT ![i] = q] /\ landed' = [landed EXCEPT ![i] = landed[i] - 1]
      /\ conn' = i /\ buff' = h
      /\ UNCHANGED <<connected, in_use_recv, stale, content, sent, sessions>>
  BY DEF RecvRequest, ring, client
<1>2. /\ wr \in [Slots -> Seq(Buffers)] /\ wr[i] \in Seq(Buffers) /\ Len(wr[i]) \in Nat
      /\ landed \in [Slots -> Nat] /\ sent \in [Slots -> Nat] /\ sent[i] \in Nat
      /\ landed[i] \in Nat /\ landed[i] > 0 /\ landed[i] <= Len(wr[i])
      /\ connected \subseteq Slots
  <2>1. /\ wr \in [Slots -> Seq(Buffers)] /\ landed \in [Slots -> Nat]
        /\ sent \in [Slots -> Nat] /\ connected \subseteq Slots
    BY DEF RInv, ReceiveTypeOK
  <2>2. wr[i] \in Seq(Buffers) /\ Len(wr[i]) \in Nat
    BY <2>1, LenProperties
  <2>3. landed[i] \in Nat /\ polled[i] \in Nat /\ polled[i] <= landed[i]
        /\ landed[i] <= Len(wr[i])
    BY QueueFacts DEF RInv
  <2>4. polled[i] > 0
    BY DEF RecvRequest
  <2> QED
    BY <2>1, <2>2, <2>3, <2>4
<1>3. /\ q \in Seq(Buffers) /\ Len(q) = Len(wr[i]) - 1 /\ h = wr[i][1]
      /\ \A n \in 1 .. Len(q) : q[n] = wr[i][n + 1]
  <2>1. wr[i] # <<>>
    BY <1>2
  <2>2. /\ q \in Seq(Buffers) /\ Len(q) = Len(wr[i]) - 1
        /\ \A n \in 1 .. Len(q) : q[n] = wr[i][n + 1]
    BY <1>2, <2>1, HeadTailProperties
  <2>3. h = wr[i][1]
    BY <1>2, <2>1
  <2> QED
    BY <2>2, <2>3
<1> HIDE DEF q, h
<1>4. i \in connected
  <2>1. wr[i] # <<>>
    BY <1>2
  <2> QED
    BY <2>1 DEF MInv, Taken
<1>5. h \in Buffers /\ h # NoBuff /\ InHand' = {h} /\ InHand = {}
  <2>1. h \in Buffers
    BY <1>2, <1>3
  <2> QED
    BY <1>1, <2>1 DEF InHand, Buffers, NoBuff
<1>6. Taken'
  <2>1. ASSUME NEW j \in Slots, j \notin connected PROVE wr'[j] = <<>>
    BY <1>1, <1>2, <1>4, <2>1 DEF MInv, Taken
  <2> QED
    BY <1>1, <1>4, <2>1 DEF MInv, Taken
<1>7. NobodyHasLeft' = NobodyHasLeft
  BY <1>1, StillNobody
<1>8. ASSUME NEW j \in Slots, NEW n \in 1 .. Len(wr'[j])
      PROVE  \/ j = i /\ n + 1 \in 1 .. Len(wr[j]) /\ wr'[j][n] = wr[j][n + 1]
             \/ j # i /\ n \in 1 .. Len(wr[j]) /\ wr'[j][n] = wr[j][n]
  <2>1. CASE j = i
    <3>1. wr'[j] = q
      BY <1>1, <1>2, <2>1
    <3> QED
      BY <1>2, <1>3, <2>1, <3>1
  <2>2. CASE j # i
    BY <1>1, <1>2, <2>2
  <2> QED
    BY <2>1, <2>2
<1>9. ASSUME OncePosted PROVE OncePosted'
  <2>1. ASSUME NEW j \in Slots, NEW k \in Slots,
               NEW m \in 1 .. Len(wr'[j]), NEW n \in 1 .. Len(wr'[k]),
               wr'[j][m] = wr'[k][n]
        PROVE  j = k /\ m = n
    <3>1. \A x, y \in Slots : \A m_ \in 1 .. Len(wr[x]), n_ \in 1 .. Len(wr[y]) :
             wr[x][m_] = wr[y][n_] => x = y /\ m_ = n_
      BY <1>9 DEF OncePosted
    <3>2. CASE j = i /\ k = i
      <4>1. /\ m + 1 \in 1 .. Len(wr[i]) /\ wr'[j][m] = wr[i][m + 1]
            /\ n + 1 \in 1 .. Len(wr[i]) /\ wr'[k][n] = wr[i][n + 1]
        BY <1>8, <3>2
      <4>2. wr[i][m + 1] = wr[i][n + 1]
        BY <2>1, <4>1
      <4>3. m + 1 = n + 1
        BY <3>1, <4>1, <4>2
      <4> QED
        BY <3>2, <4>3
    <3>3. CASE j = i /\ k # i
      BY <1>8, <2>1, <3>1, <3>3
    <3>4. CASE j # i /\ k = i
      BY <1>8, <2>1, <3>1, <3>4
    <3>5. CASE j # i /\ k # i
      BY <1>8, <2>1, <3>1, <3>5
    <3> QED
      BY <3>2, <3>3, <3>4, <3>5
  <2>2. ASSUME NEW j \in Slots, NEW n \in 1 .. Len(wr'[j])
        PROVE  wr'[j][n] \in in_use_recv /\ wr'[j][n] # h
    <3>1. /\ 1 \in 1 .. Len(wr[i])
          /\ \A x, y \in Slots : \A m_ \in 1 .. Len(wr[x]), n_ \in 1 .. Len(wr[y]) :
                wr[x][m_] = wr[y][n_] => x = y /\ m_ = n_
          /\ \A x \in Slots : \A m_ \in 1 .. Len(wr[x]) : wr[x][m_] \in in_use_recv
      BY <1>2, <1>9 DEF OncePosted
    <3>2. CASE j = i
      <4>1. n + 1 \in 1 .. Len(wr[i]) /\ wr'[j][n] = wr[i][n + 1] /\ n + 1 # 1
        BY <1>8, <3>2
      <4> QED
        BY <1>3, <3>1, <4>1
    <3>3. CASE j # i
      <4>1. n \in 1 .. Len(wr[j]) /\ wr'[j][n] = wr[j][n]
        BY <1>8, <3>3
      <4> QED
        BY <1>3, <3>1, <3>3, <4>1
    <3> QED
      BY <3>2, <3>3
  <2>3. h \in in_use_recv
    BY <1>2, <1>3, <1>9 DEF OncePosted
  <2> QED
    BY <1>1, <1>5, <1>9, <2>1, <2>2, <2>3 DEF OncePosted
<1>10. ASSUME HeldInOrder PROVE HeldInOrder'
  <2>1. ASSUME NEW j \in connected, NEW n \in 1 .. landed'[j]
        PROVE  Holds(wr[j][n], j, sent[j] - landed[j] + n)'
    <3>1. j \in Slots /\ landed[j] \in Nat /\ landed[j] <= Len(wr[j])
          /\ Len(wr[j]) \in Nat /\ sent[j] \in Nat
      BY <1>2, QueueFacts, LenProperties DEF RInv
    <3>2. CASE j = i
      <4>1. /\ n + 1 \in 1 .. landed[i] /\ n \in 1 .. Len(q)
            /\ sent[i] - landed[i] + (n + 1) = sent'[i] - landed'[i] + n
        BY <1>1, <1>2, <1>3, <3>2
      <4>2. wr'[i][n] = wr[i][n + 1]
        BY <1>1, <1>2, <1>3, <4>1
      <4>3. Holds(wr[i][n + 1], i, sent[i] - landed[i] + (n + 1))
        BY <1>4, <1>10, <4>1 DEF HeldInOrder
      <4> QED
        BY <1>1, <3>2, <4>1, <4>2, <4>3 DEF Holds
    <3>3. CASE j # i
      <4>1. landed'[j] = landed[j] /\ wr'[j] = wr[j]
        BY <1>1, <1>2, <3>1, <3>3
      <4> QED
        BY <1>1, <1>10, <4>1 DEF HeldInOrder, Holds
    <3> QED
      BY <3>2, <3>3
  <2>2. Holds(buff, conn, sent[conn] - landed[conn])'
    <3>1. Holds(wr[i][1], i, sent[i] - landed[i] + 1)
      BY <1>2, <1>4, <1>10 DEF HeldInOrder
    <3>2. sent[i] - landed[i] + 1 = sent[i] - (landed[i] - 1)
      BY <1>2
    <3>3. landed'[i] = landed[i] - 1
      BY <1>1, <1>2
    <3> QED
      BY <1>1, <1>3, <3>1, <3>2, <3>3 DEF Holds
  <2> QED
    BY <1>1, <2>1, <2>2 DEF HeldInOrder
<1>11. content' \in [Buffers -> [op : {"NONE", "REQUEST", "SHUTDOWN"}, from : Int, n : Int]]
  BY <1>1 DEF MInv
<1> QED
  BY <1>6, <1>7, <1>9, <1>10, <1>11 DEF MInv

(* A message has been handled, and its buffer is free again.               *)
LEMMA HandleKeepsMInv ==
    ASSUME RInv, MInv, HandleMessage
    PROVE  MInv'
<1>1. /\ doing = "handle" /\ doing' = "batch" /\ in_use_recv' = in_use_recv \ {buff}
      /\ UNCHANGED <<connected, wr, landed, stale, conn, buff, content, sent, sessions>>
  BY DEF HandleMessage, queue, client
<1>2. InHand = {buff} /\ InHand' = {}
  BY <1>1 DEF InHand, RInv, CountsAgree, PhaseAgrees
<1>3. NobodyHasLeft' = NobodyHasLeft
  BY <1>1, StillNobody
<1>4. Taken'
  BY <1>1 DEF MInv, Taken
<1>5. OncePosted => OncePosted'
  BY <1>1, <1>2 DEF OncePosted
<1>6. HeldInOrder => HeldInOrder'
  BY <1>1, <1>2 DEF HeldInOrder, Holds
<1>7. content' \in [Buffers -> [op : {"NONE", "REQUEST", "SHUTDOWN"}, from : Int, n : Int]]
  BY <1>1 DEF MInv
<1> QED
  BY <1>3, <1>4, <1>5, <1>6, <1>7 DEF MInv

(* Once a connection has been removed, nothing is promised any more.       *)
LEMMA RemovalKeepsMInv ==
    ASSUME RInv, MInv, NEW i \in connected, NEW also, NEW n,
           remove_connection_buffers(i, also, n),
           UNCHANGED <<sessions, content>>,
           doing' \notin {"post", "handle"}
    PROVE  MInv'
<1>1. /\ connected' = connected \ {i} /\ wr' = [wr EXCEPT ![i] = <<>>]
  BY DEF remove_connection_buffers
<1>2. i \in Slots /\ sessions[i] >= 1 /\ sessions[i] \in Nat
      /\ wr \in [Slots -> Seq(Buffers)]
  BY DEF RInv, ReceiveTypeOK, MInv, Taken
<1>3. ~NobodyHasLeft'
  <2>1. i \notin connected'
    BY <1>1
  <2>2. sessions'[i] # 0
    BY <1>2
  <2> QED
    BY <1>2, <2>1, <2>2 DEF NobodyHasLeft
<1>4. Taken'
  <2>1. ASSUME NEW j \in Slots, j \notin connected' PROVE wr'[j] = <<>>
    BY <1>1, <1>2, <2>1 DEF MInv, Taken
  <2> QED
    BY <1>1, <2>1 DEF MInv, Taken
<1>5. content' \in [Buffers -> [op : {"NONE", "REQUEST", "SHUTDOWN"}, from : Int, n : Int]]
  BY DEF MInv
<1> QED
  BY <1>3, <1>4, <1>5 DEF MInv

(* As long as everybody is there, no completion is stale.                  *)
LEMMA StaleKeepsMInv ==
    ASSUME RInv, MInv, NEW b \in Buffers, ReleaseStale(b)
    PROVE  MInv'
<1>1. /\ b \in stale
      /\ UNCHANGED <<doing, connected, wr, conn, content, sessions>>
  BY DEF ReleaseStale, queue, client
<1>2. NobodyHasLeft' = NobodyHasLeft
  BY <1>1, StillNobody
<1>3. ~NobodyHasLeft
  BY <1>1 DEF MInv, OncePosted
<1>4. Taken'
  BY <1>1 DEF MInv, Taken
<1> QED
  BY <1>1, <1>2, <1>3, <1>4 DEF MInv

LEMMA NextKeepsMInv ==
    ASSUME RInv, MInv, [ReceiveNext]_receive_vars
    PROVE  MInv'
<1>1. ASSUME NEW i \in Slots, LandRequest(i) \/ LandShutdown(i) PROVE MInv'
  BY <1>1, LandKeepsMInv DEF LandRequest, LandShutdown
<1>2. ASSUME NEW b \in Buffers, server_post_recv(b) PROVE MInv'
  BY <1>2, PostKeepsMInv
<1>3. ASSUME PostingEnds PROVE MInv'
  BY <1>3, QuietKeepsMInv DEF PostingEnds, InHand, ring, queue, client
<1>4. ASSUME ibv_poll_cq PROVE MInv'
  BY <1>4, QuietKeepsMInv DEF ibv_poll_cq, InHand, ring, client
<1>5. ASSUME NEW i \in Slots, RecvRequest(i) PROVE MInv'
  BY <1>5, RecvKeepsMInv
<1>6. ASSUME HandleMessage PROVE MInv'
  BY <1>6, HandleKeepsMInv
<1>7. ASSUME HandleClosing PROVE MInv'
  <2>1. /\ conn \in connected /\ remove_connection_buffers(conn, {buff}, polled[conn])
        /\ doing' = "batch" /\ UNCHANGED <<sessions, content>>
    BY <1>7 DEF HandleClosing, MInv, Taken, client
  <2> QED
    BY <2>1, RemovalKeepsMInv
<1>8. ASSUME NEW b \in Buffers, ReleaseStale(b) PROVE MInv'
  BY <1>8, StaleKeepsMInv
<1>9. ASSUME BatchEnds PROVE MInv'
  BY <1>9, QuietKeepsMInv DEF BatchEnds, InHand, ring, queue, client
<1>10. ASSUME NEW i \in Slots, ConnectSlot(i) PROVE MInv'
  BY <1>10, ConnectKeepsMInv
<1>11. ASSUME NEW i \in Slots, RemoveFailedConnection(i) PROVE MInv'
  <2>1. /\ i \in connected /\ doing' \in {"loop", "batch"}
        /\ UNCHANGED <<sessions, content>>
    BY <1>11 DEF RemoveFailedConnection, client
  <2>2. \/ remove_connection_buffers(i, {}, 0)
        \/ \E n \in polled[i] .. Len(wr[i]) : remove_connection_buffers(i, {}, n)
    BY <1>11 DEF RemoveFailedConnection
  <2> QED
    BY <2>1, <2>2, RemovalKeepsMInv
<1>12. ASSUME UNCHANGED receive_vars PROVE MInv'
  BY <1>12, QuietKeepsMInv DEF receive_vars, InHand, ring, queue, client
<1> QED
  BY <1>1, <1>2, <1>3, <1>4, <1>5, <1>6, <1>7, <1>8, <1>9, <1>10, <1>11, <1>12
     DEF ReceiveNext, Device, Posting, Batch

(* Until a connection is removed, a message stays in its buffer from the   *)
(* moment it lands until its handler has read it, and the messages of a    *)
(* connection are handled in the order in which they were sent.            *)
THEOREM RequestsStayIntact == ReceiveSpec => []RequestsAreIntact
<1>1. MInv => RequestsAreIntact
  BY DEF MInv, HeldInOrder, RequestsAreIntact
<1>2. RInv /\ MInv /\ [ReceiveNext]_receive_vars => MInv'
  BY NextKeepsMInv
<1> QED
  BY <1>1, <1>2, InitMInv, ReceiveInvariance, PTL DEF ReceiveSpec
=============================================================================
