------------------------- MODULE ConnectionsProofs -------------------------
(***************************************************************************)
(* The server counts its connections so that a client it answers always    *)
(* finds a slot, for any number of slots and of peers.                     *)
(***************************************************************************)
EXTENDS Connections, FiniteSetTheorems, TLAPS

(* The peer whose address is being received is no longer among the ones    *)
(* select looks at, so it is counted once.                                 *)
ServingIsTaken == phase = "recv" => serving \in Peers \ accepted

IInv ==
    /\ ConnectionsTypeOK
    /\ ServingIsTaken
    /\ SlotsAreCounted
    /\ NoSlotOverrun

-----------------------------------------------------------------------------
(* The slots and the candidates for them can be counted. *)
LEMMA FiniteSlots ==
    /\ IsFiniteSet(Slots)
    /\ Cardinality(Slots) = MAX_CLIENTS_SUPPORTED
    /\ IsFiniteSet(Served)
    /\ Cardinality(Served) \in Nat
<1>1. /\ IsFiniteSet(Slots)
      /\ Cardinality(Slots) = MAX_CLIENTS_SUPPORTED
  BY ConnectionsAssumption, SlotsAssumption, FS_Interval DEF Slots
<1>2. Served \in SUBSET Slots
  BY DEF Served
<1> QED
  BY <1>1, <1>2, FS_Subset, FS_CardinalityType

(* So can the peers that were accepted. *)
LEMMA FiniteCandidates ==
    ASSUME ConnectionsTypeOK, ServingIsTaken
    PROVE  /\ IsFiniteSet(accepted) /\ Cardinality(accepted) \in Nat
           /\ IsFiniteSet(Candidates) /\ Cardinality(Candidates) \in Nat
<1>1. accepted \in SUBSET Peers /\ Candidates \in SUBSET Peers
  BY DEF ConnectionsTypeOK, ServingIsTaken, Candidates
<1> QED
  BY <1>1, ConnectionsAssumption, SlotsAssumption, FS_Subset, FS_CardinalityType

(* The peer being received is one candidate more than the accepted ones. *)
LEMMA ReceivingCandidates ==
    ASSUME ConnectionsTypeOK, ServingIsTaken, phase = "recv"
    PROVE  Cardinality(Candidates) = Cardinality(accepted) + 1
<1>1. Candidates = accepted \cup {serving} /\ serving \notin accepted
  BY DEF Candidates, ServingIsTaken
<1> QED
  BY <1>1, FiniteCandidates, FS_AddElement

(* Closing sockets keeps the table of sockets. *)
LEMMA ClosedType ==
    ASSUME ConnectionsTypeOK, NEW P, Closed(P)
    PROVE  /\ sock' \in [Peers -> {"closed", "none", "part", "full", "done"}]
           /\ gone' \in [Peers -> BOOLEAN]
  BY DEF Closed, ConnectionsTypeOK

-----------------------------------------------------------------------------
(* The invariant holds at the start. *)
LEMMA InitInv == Init => IInv
<1> SUFFICES ASSUME Init
             PROVE  IInv
  OBVIOUS
<1>1. 0 \in Slots /\ 0 \in 0 .. MAX_CLIENTS_SUPPORTED
  BY ConnectionsAssumption, SlotsAssumption DEF Slots
<1>2. ConnectionsTypeOK
  BY <1>1 DEF Init, ConnectionsTypeOK
<1>3. Served = {} /\ Candidates = {}
  BY DEF Init, Served, Candidates
<1>4. SlotsAreCounted
  BY <1>3, FS_EmptySet, ConnectionsAssumption, SlotsAssumption DEF Init, SlotsAreCounted
<1> QED
  BY <1>2, <1>4 DEF Init, IInv, ServingIsTaken, NoSlotOverrun

(* A step that leaves the slots, the candidates and the count alone. *)
LEMMA CountUntouched ==
    ASSUME SlotsAreCounted, Served' = Served, Candidates' = Candidates,
           UNCHANGED current_number_conns
    PROVE  SlotsAreCounted'
  BY DEF SlotsAreCounted

(* The steps of the peers do not reach the server's count. *)
LEMMA PeerInv ==
    ASSUME IInv, NEW p \in Peers, PeerStep(p)
    PROVE  IInv'
<1>1. UNCHANGED serverSide
  BY DEF PeerStep, Connect, WriteAddress, WriteDone, Leave
<1>2. /\ Served' = Served /\ Candidates' = Candidates
      /\ UNCHANGED current_number_conns
  BY <1>1 DEF serverSide, Served, Candidates
<1>3. ConnectionsTypeOK'
  <2>1. ConnectionsTypeOK
    BY DEF IInv
  <2>2. CASE Connect(p)
    BY <1>1, <2>1, <2>2 DEF Connect, ConnectionsTypeOK, serverSide
  <2>3. CASE WriteAddress(p)
    BY <1>1, <2>1, <2>3 DEF WriteAddress, ConnectionsTypeOK, serverSide
  <2>4. CASE WriteDone(p)
    <3>1. last_client_id + 1 \in 0 .. MAX_CLIENTS_SUPPORTED
      BY <2>1, ConnectionsAssumption, SlotsAssumption DEF ConnectionsTypeOK, Slots
    <3> QED
      BY <1>1, <2>1, <2>4, <3>1 DEF WriteDone, ConnectionsTypeOK, serverSide
  <2>5. CASE Leave(p)
    <3>1. /\ sock' \in [Peers -> {"closed", "none", "part", "full", "done"}]
          /\ gone' \in [Peers -> BOOLEAN]
      <4>1. CASE Closed({p})
        BY <2>1, <4>1, ClosedType
      <4>2. CASE gone' = [gone EXCEPT ![p] = TRUE] /\ UNCHANGED sock
        BY <2>1, <4>2 DEF ConnectionsTypeOK
      <4> QED
        BY <2>5, <4>1, <4>2 DEF Leave
    <3> QED
      BY <1>1, <2>1, <2>5, <3>1 DEF Leave, ConnectionsTypeOK, serverSide
  <2> QED
    BY <2>2, <2>3, <2>4, <2>5 DEF PeerStep
<1>4. SlotsAreCounted'
  BY <1>2, CountUntouched DEF IInv
<1> QED
  BY <1>1, <1>3, <1>4
  DEF IInv, ServingIsTaken, NoSlotOverrun, serverSide

(* The accepts: each is counted before its peer becomes a candidate. *)
LEMMA AcceptInv ==
    ASSUME IInv, NEW p \in Peers, Accept(p) \/ Reject(p)
    PROVE  IInv'
<1>1. /\ ConnectionsTypeOK /\ ServingIsTaken
      /\ SlotsAreCounted /\ NoSlotOverrun
  BY DEF IInv
<1>2. /\ current_number_conns \in Nat
      /\ current_number_conns <= MAX_CLIENTS_SUPPORTED
      /\ MAX_CLIENTS_SUPPORTED \in Nat
      /\ Served' = Served
  BY <1>1, ConnectionsAssumption, SlotsAssumption
  DEF ConnectionsTypeOK, Accept, Reject, Served
<1>3. CASE Accept(p)
  <2>1. Candidates = accepted /\ Candidates' = accepted \cup {p}
    BY <1>3 DEF Accept, Candidates
  <2>2. /\ Cardinality(accepted \cup {p}) \in Nat
        /\ Cardinality(accepted \cup {p}) <= Cardinality(accepted) + 1
    <3>1. IsFiniteSet(accepted) /\ Cardinality(accepted) \in Nat
      BY <1>1, FiniteCandidates
    <3>2. /\ IsFiniteSet(accepted \cup {p})
          /\ \/ Cardinality(accepted \cup {p}) = Cardinality(accepted)
             \/ Cardinality(accepted \cup {p}) = Cardinality(accepted) + 1
      BY <3>1, FS_AddElement
    <3> QED
      BY <3>1, <3>2
  <2>3. /\ current_number_conns' = current_number_conns + 1
        /\ current_number_conns + 1 <= MAX_CLIENTS_SUPPORTED
    BY <1>2, <1>3 DEF Accept
  <2>4. /\ Cardinality(Candidates') \in Nat
        /\ Cardinality(Candidates') <= Cardinality(Candidates) + 1
    BY <2>1, <2>2
  <2>5. SlotsAreCounted'
    BY <1>1, <1>2, <2>3, <2>4, FiniteSlots, FiniteCandidates
    DEF SlotsAreCounted
  <2>6. ConnectionsTypeOK'
    BY <1>1, <1>2, <1>3, <2>3 DEF Accept, ConnectionsTypeOK
  <2> QED
    BY <1>3, <2>5, <2>6 DEF Accept, IInv, ServingIsTaken, NoSlotOverrun
<1>4. CASE Reject(p)
  <2>1. Candidates' = Candidates
    BY <1>4 DEF Reject, Candidates
  <2>2. SlotsAreCounted'
    BY <1>1, <1>2, <1>4, <2>1, CountUntouched DEF Reject
  <2>3. ConnectionsTypeOK'
    BY <1>1, <1>4, ClosedType DEF Reject, ConnectionsTypeOK
  <2> QED
    BY <1>4, <2>2, <2>3 DEF Reject, IInv, ServingIsTaken, NoSlotOverrun
<1> QED
  BY <1>3, <1>4

(* The steps that change neither a slot, nor a candidate, nor the count. *)
LEMMA LookInv ==
    ASSUME IInv,
           \/ accept_new_connection \/ SelectListener \/ AcceptWouldBlock
           \/ ReadDone \/ ReadDoneFails
    PROVE  IInv'
<1>1. /\ ConnectionsTypeOK /\ ServingIsTaken
      /\ SlotsAreCounted /\ NoSlotOverrun
  BY DEF IInv
<1>2. /\ Served' = Served /\ accepted' = accepted
      /\ UNCHANGED <<connections, current_number_conns>>
      /\ phase # "recv" /\ phase' # "recv" /\ phase' # "overrun"
  BY DEF accept_new_connection, SelectListener, AcceptWouldBlock, ReadDone,
         ReadDoneFails, Served
<1>3. Candidates' = Candidates
  BY <1>2 DEF Candidates
<1>4. SlotsAreCounted'
  BY <1>1, <1>2, <1>3, CountUntouched
<1>5. ConnectionsTypeOK'
  <2>1. CASE ReadDone
    BY <1>1, <2>1, ClosedType DEF ReadDone, ConnectionsTypeOK
  <2>2. CASE ~ReadDone
    BY <1>1, <2>2
    DEF accept_new_connection, SelectListener, AcceptWouldBlock,
        ReadDoneFails, ConnectionsTypeOK
  <2> QED
    BY <2>1, <2>2
<1> QED
  BY <1>2, <1>4, <1>5 DEF IInv, ServingIsTaken, NoSlotOverrun

(* The peer that select chooses stays a candidate while it is received. *)
LEMMA SelectPeerInv ==
    ASSUME IInv, NEW p \in Peers, SelectPeer(p)
    PROVE  IInv'
<1>1. /\ ConnectionsTypeOK /\ ServingIsTaken
      /\ SlotsAreCounted /\ NoSlotOverrun
  BY DEF IInv
<1>2. /\ Served' = Served /\ Candidates' = Candidates
      /\ UNCHANGED current_number_conns
  BY DEF SelectPeer, Served, Candidates
<1>3. SlotsAreCounted'
  BY <1>1, <1>2, CountUntouched
<1>4. ConnectionsTypeOK'
  BY <1>1 DEF SelectPeer, ConnectionsTypeOK
<1> QED
  BY <1>3, <1>4 DEF SelectPeer, IInv, ServingIsTaken, NoSlotOverrun

(* A peer that is dropped leaves its count behind: the slack in            *)
(* SlotsAreCounted grows.                                                  *)
LEMMA DropInv ==
    ASSUME IInv, RecvShort \/ ConnectQpFails \/ SelectTimeout
    PROVE  IInv'
<1>1. /\ ConnectionsTypeOK /\ ServingIsTaken
      /\ SlotsAreCounted /\ NoSlotOverrun
  BY DEF IInv
<1>2. /\ Served' = Served
      /\ UNCHANGED <<connections, current_number_conns>>
      /\ Candidates' \in SUBSET Candidates
      /\ phase' # "recv" /\ phase' # "overrun"
  BY DEF RecvShort, ConnectQpFails, SelectTimeout, Served, Candidates
<1>3. /\ IsFiniteSet(Candidates) /\ Cardinality(Candidates) \in Nat
      /\ Cardinality(Served) \in Nat
  BY <1>1, FiniteSlots, FiniteCandidates
<1>4. /\ Cardinality(Candidates') \in Nat
      /\ Cardinality(Candidates') <= Cardinality(Candidates)
  <2>1. /\ IsFiniteSet(Candidates')
        /\ Cardinality(Candidates') <= Cardinality(Candidates)
    BY <1>2, <1>3, FS_Subset
  <2> QED
    BY <2>1, FS_CardinalityType
<1>5. current_number_conns \in Nat /\ MAX_CLIENTS_SUPPORTED \in Nat
  BY <1>1, ConnectionsAssumption, SlotsAssumption DEF ConnectionsTypeOK
<1>6. SlotsAreCounted'
  BY <1>1, <1>2, <1>3, <1>4, <1>5 DEF SlotsAreCounted
<1>7. ConnectionsTypeOK'
  <2>1. PICK P : Closed(P)
    BY DEF RecvShort, ConnectQpFails, SelectTimeout
  <2>2. /\ sock' \in [Peers -> {"closed", "none", "part", "full", "done"}]
        /\ gone' \in [Peers -> BOOLEAN]
    BY <1>1, <2>1, ClosedType
  <2> QED
    BY <1>1, <2>2
    DEF RecvShort, ConnectQpFails, SelectTimeout, ConnectionsTypeOK
<1> QED
  BY <1>2, <1>6, <1>7 DEF IInv, ServingIsTaken, NoSlotOverrun

(* The peer that is answered was counted and holds no slot yet, so one is  *)
(* free; it turns from a candidate into a client.                          *)
LEMMA AddInv ==
    ASSUME IInv, add_new_connection
    PROVE  IInv'
<1>1. /\ ConnectionsTypeOK /\ ServingIsTaken
      /\ SlotsAreCounted /\ NoSlotOverrun
  BY DEF IInv
<1>2. /\ current_number_conns \in Nat /\ MAX_CLIENTS_SUPPORTED \in Nat
      /\ serving \in Peers
  BY <1>1, ConnectionsAssumption, SlotsAssumption
  DEF ConnectionsTypeOK, ServingIsTaken, add_new_connection
<1>3. /\ IsFiniteSet(accepted) /\ Cardinality(accepted) \in Nat
      /\ Cardinality(Candidates) = Cardinality(accepted) + 1
  BY <1>1, FiniteCandidates, ReceivingCandidates DEF add_new_connection
<1>4. Served # Slots
  BY <1>1, <1>2, <1>3, FiniteSlots DEF SlotsAreCounted
<1>5. PICK i \in Slots \ Served :
        /\ phase' = "done"
        /\ connections' = [connections EXCEPT ![i] = serving]
        /\ last_client_id' = i
        /\ UNCHANGED <<listening, current_number_conns, backlog, accepted,
                       serving, sock, gone, client_id>>
  BY <1>4 DEF add_new_connection
<1>6. Served' = Served \cup {i}
  BY <1>1, <1>2, <1>5, ConnectionsAssumption, SlotsAssumption
  DEF Served, ConnectionsTypeOK
<1>7. Cardinality(Served') = Cardinality(Served) + 1
  <2>1. IsFiniteSet(Served) /\ i \notin Served
    BY <1>5, FiniteSlots
  <2> QED
    BY <1>6, <2>1, FS_AddElement
<1>8. Candidates' = accepted
  BY <1>5 DEF Candidates
<1>9. SlotsAreCounted'
  BY <1>1, <1>2, <1>3, <1>5, <1>7, <1>8, FiniteSlots DEF SlotsAreCounted
<1>10. ConnectionsTypeOK'
  BY <1>1, <1>2, <1>5 DEF ConnectionsTypeOK
<1> QED
  BY <1>5, <1>9, <1>10 DEF IInv, ServingIsTaken, NoSlotOverrun

(* A slot is given back together with its count. *)
LEMMA RemoveInv ==
    ASSUME IInv, NEW i \in Slots, remove_connection(i)
    PROVE  IInv'
<1>1. /\ ConnectionsTypeOK /\ ServingIsTaken
      /\ SlotsAreCounted /\ NoSlotOverrun
  BY DEF IInv
<1>2. /\ current_number_conns \in Nat /\ MAX_CLIENTS_SUPPORTED \in Nat
      /\ current_number_conns' = current_number_conns - 1
      /\ i \in Served
  BY <1>1, ConnectionsAssumption, SlotsAssumption
  DEF ConnectionsTypeOK, remove_connection, Served
<1>3. Served' = Served \ {i}
  BY <1>1 DEF remove_connection, Served, ConnectionsTypeOK
<1>4. Cardinality(Served') = Cardinality(Served) - 1
  <2>1. IsFiniteSet(Served)
    BY FiniteSlots
  <2> QED
    BY <1>2, <1>3, <2>1, FS_RemoveElement
<1>5. Candidates' = Candidates /\ Cardinality(Candidates) \in Nat
  BY <1>1, FiniteCandidates DEF remove_connection, Candidates
<1>6. Cardinality(Served) >= 1
  <2>1. Cardinality(Served) # 0
    BY <1>2, FiniteSlots, FS_EmptySet
  <2> QED
    BY <2>1, FiniteSlots
<1>7. /\ SlotsAreCounted'
      /\ current_number_conns' \in 0 .. MAX_CLIENTS_SUPPORTED
  BY <1>1, <1>2, <1>4, <1>5, <1>6, FiniteSlots DEF SlotsAreCounted
<1>8. ConnectionsTypeOK'
  BY <1>1, <1>7 DEF remove_connection, ConnectionsTypeOK
<1> QED
  BY <1>7, <1>8
  DEF remove_connection, IInv, ServingIsTaken, NoSlotOverrun

-----------------------------------------------------------------------------
(* The invariant is inductive. *)
LEMMA StepInv == IInv /\ [Next]_vars => IInv'
<1> SUFFICES ASSUME IInv, [Next]_vars
             PROVE  IInv'
  OBVIOUS
<1>1. CASE UNCHANGED vars
  BY <1>1
  DEF vars, serverSide, IInv, ConnectionsTypeOK, ServingIsTaken,
      SlotsAreCounted, NoSlotOverrun, Served, Candidates
<1>2. ASSUME NEW p \in Peers, PeerStep(p)
      PROVE  IInv'
  BY <1>2, PeerInv
<1>3. CASE query_for_connections
  <2>1. ASSUME NEW p \in Peers, Accept(p) \/ Reject(p)
        PROVE  IInv'
    BY <2>1, AcceptInv
  <2>2. ASSUME NEW p \in Peers, SelectPeer(p)
        PROVE  IInv'
    BY <2>2, SelectPeerInv
  <2> QED
    BY <1>3, <2>1, <2>2, LookInv, DropInv, AddInv DEF query_for_connections
<1>4. ASSUME NEW i \in Slots, remove_connection(i)
      PROVE  IInv'
  BY <1>4, RemoveInv
<1> QED
  BY <1>1, <1>2, <1>3, <1>4, LookInv DEF Next

(* Every reachable state satisfies the invariant. *)
THEOREM ConnectionsInvariance == Spec => []IInv
  BY InitInv, StepInv, PTL DEF Spec

(* Every variable of the connection set-up keeps its type. *)
THEOREM ConnectionsTypeCorrect == Spec => []ConnectionsTypeOK
<1>1. IInv => ConnectionsTypeOK
  BY DEF IInv
<1> QED
  BY <1>1, ConnectionsInvariance, PTL

(* The server's count covers the slots taken and the peers that may still  *)
(* take one, and never exceeds the number of slots.                        *)
THEOREM SlotsCounted == Spec => []SlotsAreCounted
<1>1. IInv => SlotsAreCounted
  BY DEF IInv
<1> QED
  BY <1>1, ConnectionsInvariance, PTL

(* add_new_connection finds a free slot whenever it is called. *)
THEOREM SlotFound == Spec => []NoSlotOverrun
<1>1. IInv => NoSlotOverrun
  BY DEF IInv
<1> QED
  BY <1>1, ConnectionsInvariance, PTL
-----------------------------------------------------------------------------
(* The peers on their way to a slot: connected and not answered yet. *)
Arriving == backlog \cup Candidates

(* A peer on its way is counted once, holds a socket and no slot. *)
ArrivalsAreNew ==
    /\ backlog \cap accepted = {}
    /\ phase = "recv" => serving \notin backlog \cup accepted
    /\ \A p \in Arriving : /\ sock[p] # "closed"
                         /\ \A i \in Slots : connections[i] # p

(* No peer has two slots. *)
OneSlotEach ==
    \A i, j \in Served : connections[i] = connections[j] => i = j

(* The id that is sent is the one of the peer that is answered. *)
AnswersTheLast ==
    /\ phase = "done" =>
          serving \in Peers /\ connections[last_client_id] = serving
    /\ phase \in {"loop", "select", "accept"} => serving = NoPeer

KInv == ArrivalsAreNew /\ OneSlotEach /\ AnswersTheLast /\ ClientsKnowTheirSlots

(* It holds at the start, when nobody is there. *)
LEMMA InitKInv == Init => KInv
  BY DEF Init, KInv, Arriving, Candidates, ArrivalsAreNew, OneSlotEach,
         AnswersTheLast, ClientsKnowTheirSlots, Served

(* A peer connects only with its socket closed, so it is not on its way    *)
(* yet; and it takes the id while the server waits for it.                 *)
LEMMA PeerKInv ==
    ASSUME IInv, KInv, NEW p \in Peers, PeerStep(p)
    PROVE  KInv'
<1> USE DEF KInv
<1>1. ConnectionsTypeOK /\ ServingIsTaken
  BY DEF IInv
<1>2. /\ UNCHANGED serverSide
      /\ Served' = Served /\ Candidates' = Candidates
  BY DEF PeerStep, Connect, WriteAddress, WriteDone, Leave, serverSide,
         Served, Candidates
<1>3. OneSlotEach' /\ AnswersTheLast'
  BY <1>2 DEF serverSide, OneSlotEach, AnswersTheLast
<1>4. CASE Connect(p)
  <2>1. ArrivalsAreNew'
    BY <1>1, <1>2, <1>4
    DEF Connect, ArrivalsAreNew, Arriving, Candidates, serverSide,
        ConnectionsTypeOK
  <2>2. ClientsKnowTheirSlots'
    BY <1>1, <1>2, <1>4
    DEF Connect, ClientsKnowTheirSlots, serverSide, ConnectionsTypeOK, Served
  <2> QED
    BY <1>3, <2>1, <2>2
<1>5. CASE WriteAddress(p)
  <2>1. ArrivalsAreNew'
    <3>1. Arriving \subseteq Peers
      BY <1>1 DEF Arriving, Candidates, ServingIsTaken, ConnectionsTypeOK
    <3>2. Arriving' = Arriving
      BY <1>2, <1>5 DEF WriteAddress, Arriving
    <3>3. \A q \in Peers : sock[q] # "closed" => sock'[q] # "closed"
      BY <1>1, <1>5 DEF WriteAddress, ConnectionsTypeOK
    <3> QED
      BY <1>2, <1>5, <3>1, <3>3, <3>2
      DEF WriteAddress, ArrivalsAreNew, serverSide
  <2>2. \A q \in Peers : sock[q] # "done" => sock'[q] # "done"
    BY <1>1, <1>5 DEF WriteAddress, ConnectionsTypeOK
  <2>3. \A i \in Served : connections[i] \in Peers
    BY <1>1 DEF Served, ConnectionsTypeOK
  <2>4. ClientsKnowTheirSlots'
    BY <1>2, <1>5, <2>2, <2>3
    DEF WriteAddress, ClientsKnowTheirSlots, serverSide
  <2> QED
    BY <1>3, <2>1, <2>4
<1>6. CASE WriteDone(p)
  <2>1. ArrivalsAreNew'
    BY <1>1, <1>2, <1>6
    DEF WriteDone, ArrivalsAreNew, Arriving, Candidates, serverSide,
        ConnectionsTypeOK
  <2>2. ASSUME NEW i \in Served
        PROVE  \/ client_id'[connections[i]] = i + 1
               \/ serving = connections[i] /\ sock'[serving] # "done"
    <3>1. /\ last_client_id \in Slots /\ connections[last_client_id] = p
          /\ last_client_id \in Served
          /\ client_id' = [client_id EXCEPT ![p] = last_client_id + 1]
      BY <1>1, <1>6, ConnectionsAssumption
      DEF WriteDone, AnswersTheLast, ConnectionsTypeOK, Served
    <3>2. CASE connections[i] = p
      BY <1>1, <3>1, <3>2 DEF OneSlotEach, ConnectionsTypeOK
    <3>3. CASE connections[i] # p
      BY <1>1, <1>6, <3>1, <3>3
      DEF WriteDone, ClientsKnowTheirSlots, ConnectionsTypeOK
    <3> QED
      BY <3>2, <3>3
  <2>3. ClientsKnowTheirSlots'
    BY <1>2, <2>2 DEF ClientsKnowTheirSlots, serverSide
  <2> QED
    BY <1>3, <2>1, <2>3
<1>7. CASE Leave(p)
  <2>1. \/ sock' = sock
        \/ p \notin Held /\ \A q \in Peers \ {p} : sock'[q] = sock[q]
    BY <1>1, <1>7 DEF Leave, Closed, ConnectionsTypeOK
  <2>2. backlog' = backlog /\ client_id' = client_id
    BY <1>7 DEF Leave
  <2>3. Arriving \subseteq Peers /\ Arriving \subseteq Held
    BY <1>1 DEF Arriving, Candidates, Held, ConnectionsTypeOK, ServingIsTaken
  <2>4. ArrivalsAreNew'
    BY <1>2, <2>1, <2>2, <2>3 DEF ArrivalsAreNew, Arriving, serverSide
  <2>5. ClientsKnowTheirSlots'
    BY <1>1, <1>2, <2>1, <2>2, ConnectionsAssumption
    DEF ClientsKnowTheirSlots, serverSide, Held, Served, ConnectionsTypeOK
  <2> QED
    BY <1>3, <2>4, <2>5
<1> QED
  BY <1>4, <1>5, <1>6, <1>7 DEF PeerStep

(* Peers move from the backlog to the accepted ones and to the one served, *)
(* and some are dropped; nobody gets a slot.                               *)
LEMMA LookKInv ==
    ASSUME IInv, KInv,
           \/ accept_new_connection \/ SelectListener \/ AcceptWouldBlock
           \/ ReadDoneFails
           \/ \E p \in Peers : Accept(p) \/ Reject(p) \/ SelectPeer(p)
           \/ RecvShort \/ ConnectQpFails \/ SelectTimeout
    PROVE  KInv'
<1> USE DEF KInv
<1>1. ConnectionsTypeOK /\ ServingIsTaken
  BY DEF IInv
<1>2. /\ UNCHANGED <<connections, last_client_id, client_id>>
      /\ Served' = Served /\ phase' # "done"
  BY DEF accept_new_connection, SelectListener, AcceptWouldBlock,
         ReadDoneFails, Accept, Reject, SelectPeer, RecvShort,
         ConnectQpFails, SelectTimeout, Served
<1>3. OneSlotEach'
  BY <1>2 DEF OneSlotEach
<1>4. CASE \/ accept_new_connection \/ SelectListener \/ AcceptWouldBlock
           \/ ReadDoneFails
  BY <1>1, <1>2, <1>3, <1>4
  DEF accept_new_connection, SelectListener, AcceptWouldBlock, ReadDoneFails,
      ArrivalsAreNew, Arriving, Candidates, AnswersTheLast,
      ClientsKnowTheirSlots
<1>5. ASSUME NEW p \in Peers, Accept(p) PROVE KInv'
  BY <1>1, <1>2, <1>3, <1>5
  DEF Accept, ArrivalsAreNew, Arriving, Candidates, AnswersTheLast,
      ClientsKnowTheirSlots
<1>6. ASSUME NEW p \in Peers, SelectPeer(p) PROVE KInv'
  <2>1. ArrivalsAreNew' /\ AnswersTheLast'
    BY <1>1, <1>2, <1>6
    DEF SelectPeer, ArrivalsAreNew, Arriving, Candidates, AnswersTheLast
  <2>2. ClientsKnowTheirSlots'
    BY <1>1, <1>2, <1>6, ConnectionsAssumption
    DEF SelectPeer, AnswersTheLast, ClientsKnowTheirSlots, Served
  <2> QED
    BY <1>3, <2>1, <2>2
(* Before a peer is answered, every client in a slot knows its number. *)
<1>7. ASSUME NEW i \in Served, phase \in {"loop", "select", "accept", "recv"}
      PROVE  client_id[connections[i]] = i + 1
  <2>1. serving # connections[i]
    BY <1>7, ConnectionsAssumption
    DEF AnswersTheLast, ArrivalsAreNew, Arriving, Candidates, Served
  <2> QED
    BY <2>1 DEF ClientsKnowTheirSlots
<1>8. /\ phase \in {"loop", "select", "accept", "recv"} => ClientsKnowTheirSlots'
      /\ Arriving \subseteq Peers
  BY <1>1, <1>2, <1>7
  DEF ClientsKnowTheirSlots, Arriving, Candidates, ConnectionsTypeOK,
      ServingIsTaken
<1>9. ASSUME NEW p \in Peers, Reject(p) PROVE KInv'
  <2>1. \A q \in Peers \ {p} : sock'[q] = sock[q]
    BY <1>9 DEF Reject, Closed
  <2>2. Arriving' = Arriving \ {p}
    BY <1>9 DEF Reject, Arriving, Candidates, ArrivalsAreNew
  <2>3. ArrivalsAreNew' /\ AnswersTheLast'
    BY <1>2, <1>8, <1>9, <2>1, <2>2
    DEF Reject, ArrivalsAreNew, AnswersTheLast
  <2> QED
    BY <1>3, <1>8, <1>9, <2>3 DEF Reject
<1>10. CASE RecvShort \/ ConnectQpFails
  <2>1. \A q \in Peers \ {serving} : sock'[q] = sock[q]
    BY <1>10 DEF RecvShort, ConnectQpFails, Closed
  <2>2. Arriving' = Arriving \ {serving}
    BY <1>10 DEF RecvShort, ConnectQpFails, Arriving, Candidates, ArrivalsAreNew
  <2>3. ArrivalsAreNew' /\ AnswersTheLast'
    BY <1>2, <1>8, <1>10, <2>1, <2>2
    DEF RecvShort, ConnectQpFails, ArrivalsAreNew, AnswersTheLast
  <2> QED
    BY <1>3, <1>8, <1>10, <2>3 DEF RecvShort, ConnectQpFails
<1>11. CASE SelectTimeout
  <2>1. Arriving' = {}
    BY <1>11 DEF SelectTimeout, Arriving, Candidates
  <2>2. ArrivalsAreNew' /\ AnswersTheLast'
    BY <1>2, <1>11, <2>1 DEF SelectTimeout, ArrivalsAreNew, AnswersTheLast
  <2> QED
    BY <1>3, <1>8, <1>11, <2>2 DEF SelectTimeout
<1> QED
  BY <1>4, <1>5, <1>6, <1>9, <1>10, <1>11

(* The peer that is answered has no slot, is not on its way any more, and  *)
(* waits for its id.                                                       *)
LEMMA AddKInv ==
    ASSUME IInv, KInv, add_new_connection, IInv'
    PROVE  KInv'
<1> USE DEF KInv
<1>1. /\ ConnectionsTypeOK /\ ServingIsTaken /\ NoSlotOverrun'
      /\ serving \in Peers /\ phase = "recv" /\ sock[serving] = "full"
  BY DEF IInv, ServingIsTaken, add_new_connection
<1>2. PICK i \in Slots \ Served :
        /\ phase' = "done"
        /\ connections' = [connections EXCEPT ![i] = serving]
        /\ last_client_id' = i
        /\ UNCHANGED <<listening, current_number_conns, backlog, accepted,
                       serving, sock, gone, client_id>>
  BY <1>1 DEF add_new_connection, NoSlotOverrun
<1>3. \A j \in Served : connections[j] # serving
  BY <1>1 DEF ArrivalsAreNew, Arriving, Candidates, Served
<1>4. /\ Served' = Served \cup {i} /\ Served \subseteq Slots
      /\ connections'[i] = serving
      /\ \A j \in Slots \ {i} : connections'[j] = connections[j]
  BY <1>1, <1>2, ConnectionsAssumption DEF Served, ConnectionsTypeOK
<1>5. ArrivalsAreNew'
  <2>1. Arriving' = Arriving \ {serving} /\ backlog' \cap accepted' = {}
    BY <1>1, <1>2 DEF ArrivalsAreNew, Arriving, Candidates
  <2> QED
    BY <1>2, <1>4, <2>1 DEF ArrivalsAreNew
<1>6. OneSlotEach'
  BY <1>2, <1>3, <1>4 DEF OneSlotEach
<1>7. AnswersTheLast'
  BY <1>1, <1>2, <1>4 DEF AnswersTheLast
<1>8. ClientsKnowTheirSlots'
  BY <1>1, <1>2, <1>3, <1>4 DEF ClientsKnowTheirSlots
<1> QED
  BY <1>5, <1>6, <1>7, <1>8

(* The peer that has said "done" has taken its id with it. *)
LEMMA DoneKInv ==
    ASSUME IInv, KInv, ReadDone
    PROVE  KInv'
<1> USE DEF KInv
<1>1. ConnectionsTypeOK /\ serving \in Peers /\ phase = "done"
  BY DEF IInv, ReadDone, AnswersTheLast
<1>2. /\ UNCHANGED <<connections, backlog, accepted, client_id>>
      /\ phase' = "select" /\ serving' = NoPeer /\ sock[serving] = "done"
      /\ Served' = Served /\ Arriving' = Arriving
      /\ \A q \in Peers \ {serving} : sock'[q] = sock[q]
  BY DEF ReadDone, Served, Arriving, Candidates, Closed
<1>3. last_client_id \in Slots /\ connections[last_client_id] = serving
  BY <1>1 DEF AnswersTheLast, ConnectionsTypeOK
<1>4. serving \notin Arriving /\ Arriving \subseteq Peers
  BY <1>1, <1>3 DEF ArrivalsAreNew, Arriving, Candidates, ConnectionsTypeOK
<1>5. ArrivalsAreNew'
  BY <1>2, <1>4 DEF ArrivalsAreNew
<1>6. OneSlotEach' /\ AnswersTheLast'
  BY <1>2 DEF OneSlotEach, AnswersTheLast
<1>7. ClientsKnowTheirSlots'
  BY <1>2 DEF ClientsKnowTheirSlots
<1> QED
  BY <1>5, <1>6, <1>7

(* A slot that is given back takes no id from anybody. *)
LEMMA RemoveKInv ==
    ASSUME IInv, KInv, NEW i \in Slots, remove_connection(i)
    PROVE  KInv'
<1> USE DEF KInv
<1>1. ConnectionsTypeOK /\ phase = "loop"
  BY DEF IInv, remove_connection
<1>2. /\ UNCHANGED <<phase, last_client_id, backlog, accepted, serving, sock,
                     client_id>>
      /\ Arriving' = Arriving /\ Arriving \subseteq Peers
      /\ Served' = Served \ {i}
      /\ connections'[i] = NoPeer
      /\ \A j \in Slots \ {i} : connections'[j] = connections[j]
  BY <1>1 DEF remove_connection, Arriving, Candidates, Served, ConnectionsTypeOK
<1>3. ArrivalsAreNew'
  BY <1>1, <1>2, ConnectionsAssumption DEF ArrivalsAreNew
<1>4. OneSlotEach' /\ AnswersTheLast' /\ ClientsKnowTheirSlots'
  BY <1>1, <1>2
  DEF OneSlotEach, AnswersTheLast, ClientsKnowTheirSlots, Served
<1> QED
  BY <1>3, <1>4

(* The strengthened invariant is inductive, next to the one of the count.  *)
LEMMA StepKInv == IInv /\ KInv /\ [Next]_vars => KInv'
<1> SUFFICES ASSUME IInv, KInv, [Next]_vars
             PROVE  KInv'
  OBVIOUS
<1>1. CASE UNCHANGED vars
  BY <1>1
  DEF vars, serverSide, KInv, ArrivalsAreNew, Arriving, Candidates,
      OneSlotEach, AnswersTheLast, ClientsKnowTheirSlots, Served
<1>2. CASE query_for_connections
  <2>1. IInv'
    BY StepInv, <1>2 DEF Next
  <2> QED
    BY <1>2, <2>1, LookKInv, AddKInv, DoneKInv DEF query_for_connections
<1> QED
  BY <1>1, <1>2, PeerKInv, LookKInv, RemoveKInv DEF Next

(* Every client that has a slot knows its number, or is about to be told. *)
THEOREM SlotsKnown == Spec => []ClientsKnowTheirSlots
<1>1. KInv => ClientsKnowTheirSlots
  BY DEF KInv
<1> QED
  BY <1>1, InitKInv, StepKInv, ConnectionsInvariance, PTL DEF Spec
=============================================================================
