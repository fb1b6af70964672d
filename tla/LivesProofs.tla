------------------------------ MODULE LivesProofs ------------------------------
(***************************************************************************)
(* The proofs about the modules that follow one process from its start to  *)
(* its end, the server (ServerLife) and the client (ClientLife), and about *)
(* the exchange that connects the two (QueuePairs).                        *)
(***************************************************************************)
EXTENDS MCLives, FiniteSetTheorems, SequenceTheorems,
        WellFoundedInduction, TLAPS

-----------------------------------------------------------------------------
(* The exchange of a connection.                                           *)
(*                                                                         *)
(* The two queue pairs of a connection name each other and agree on their  *)
(* packet numbers, for any number of clients and of queue pairs.           *)
(* PairsMatch speaks of the end of an exchange.  What makes it inductive   *)
(* is what each side knows in the middle: the address that is on its way   *)
(* to the server is the client's own, the one that was sent back belongs   *)
(* to a queue pair already made for this client, and no other was.         *)

Dests == [qpn : Qpns \cup {NoQp}, psn : Psns \cup {0}]

(* What the addresses are, which QueuePairsTypeOK leaves open. *)
DestsTypeOK ==
    /\ my_dest \in [Clients \cup {NoClient} -> Dests]
    /\ msg \in [Clients -> Dests]
    /\ answer \in [Clients -> Dests]
    /\ sent \subseteq Clients

(* The server takes an address once, and it is the client's own. *)
AddressesAreOwn ==
    \A c \in Clients :
        /\ pc[c] = "out" => msg[c] = NoDest /\ answer[c] = NoDest
        /\ pc[c] # "out" => my_dest[c].qpn = c
        /\ msg[c] # NoDest => answer[c] = NoDest /\ msg[c] = my_dest[c]

(* Before a client is answered the server has no queue pair for it. *)
NoneBeforeAnswer ==
    \A c \in Clients : answer[c] = NoDest => \A n \in 1 .. made : qps[n].dest # c

(* Afterwards it has one, which the answer names. *)
AnsweredIsOurs(c) ==
    /\ answer[c].qpn \in 1 .. made
    /\ qps[answer[c].qpn].dest = c
    /\ qps[answer[c].qpn].rq_psn = my_dest[c].psn
    /\ qps[answer[c].qpn].sq_psn = answer[c].psn
    /\ \A n \in 1 .. made : qps[n].dest = c => n = answer[c].qpn

AnswersAreOurs == \A c \in Clients : answer[c] # NoDest => AnsweredIsOurs(c)

(* A client goes on only with an answer, and takes its numbers. *)
ClientsUseAnswers ==
    \A c \in Clients :
        /\ pc[c] \in {"done", "open"} => answer[c] # NoDest
        /\ pc[c] = "open" => /\ qps[c].dest = answer[c].qpn
                             /\ qps[c].sq_psn = my_dest[c].psn
                             /\ qps[c].rq_psn = answer[c].psn

PInv ==
    /\ QueuePairsTypeOK
    /\ DestsTypeOK
    /\ AddressesAreOwn
    /\ NoneBeforeAnswer
    /\ AnswersAreOurs
    /\ ClientsUseAnswers

-----------------------------------------------------------------------------
(* A queue pair, as QueuePairsTypeOK spells it. *)
QpType == [state : {"none", "INIT", "RTS", "ERR", "gone"},
           rq_psn : Psns \cup {0}, sq_psn : Psns \cup {0},
           dest : Qpns \cup {NoQp}, recvs : 0 .. RECV_BUFFS]

(* What else the variables hold. *)
OthersTypeOK ==
    /\ thread \in {"loop", "done", "recvs", "down"}
    /\ serving \in Clients \cup {NoClient}
    /\ made \in 0 .. MaxQps
    /\ pc \in [Clients -> {"out", "exchange", "done", "open", "gone",
                         "gone after done"}]
    /\ received \subseteq sent

(* QueuePairsTypeOK in two parts. *)
LEMMA TypeParts ==
    /\ QueuePairsTypeOK <=> qps \in [Qpns -> QpType] /\ OthersTypeOK
    /\ QueuePairsTypeOK' <=> qps' \in [Qpns -> QpType] /\ OthersTypeOK'
  BY DEF QueuePairsTypeOK, QpType, OthersTypeOK

(* A changed queue pair is one. *)
LEMMA QpChanges ==
    /\ NewQp \in QpType
    /\ [NewQp EXCEPT !.recvs = RECV_BUFFS] \in QpType
    /\ [NewQp EXCEPT !.state = "none"] \in QpType
    /\ \A r \in QpType :
          /\ [r EXCEPT !.state = "gone"] \in QpType
          /\ [r EXCEPT !.state = "ERR"] \in QpType
          /\ [r EXCEPT !.recvs = RECV_BUFFS] \in QpType
          /\ r.recvs > 0 => [r EXCEPT !.recvs = r.recvs - 1] \in QpType
          /\ \A psn \in Psns \cup {0}, dest \in Dests :
                connect_ctx(r, psn, dest) \in QpType
<1>1. 0 \in 0 .. RECV_BUFFS /\ RECV_BUFFS \in 0 .. RECV_BUFFS
  BY QueuePairsAssumption
<1>2. \A k \in 0 .. RECV_BUFFS : k > 0 => k - 1 \in 0 .. RECV_BUFFS
  BY QueuePairsAssumption
<1> QED
  BY <1>1, <1>2 DEF QpType, NewQp, connect_ctx, Dests

(* The rest stay as they are when one queue pair is replaced. *)
LEMMA QpReplaced ==
    ASSUME qps \in [Qpns -> QpType], NEW n, NEW r, n \in Qpns => r \in QpType,
           qps' = [qps EXCEPT ![n] = r]
    PROVE  /\ qps' \in [Qpns -> QpType]
           /\ \A q \in Qpns : qps'[q] = IF q = n THEN r ELSE qps[q]
  OBVIOUS

(* A new state or count of receives leaves its numbers alone. *)
LEMMA SameNumbers ==
    ASSUME qps \in [Qpns -> QpType], NEW n, NEW r,
           n \in Qpns => /\ r \in QpType
                        /\ r.dest = qps[n].dest
                        /\ r.rq_psn = qps[n].rq_psn
                        /\ r.sq_psn = qps[n].sq_psn,
           qps' = [qps EXCEPT ![n] = r]
    PROVE  /\ qps' \in [Qpns -> QpType]
           /\ \A q \in Qpns : /\ qps'[q].dest = qps[q].dest
                              /\ qps'[q].rq_psn = qps[q].rq_psn
                              /\ qps'[q].sq_psn = qps[q].sq_psn
  BY QpReplaced

(* Such changes of a record. *)
LEMMA OtherFields ==
    ASSUME NEW r \in QpType
    PROVE  /\ \A x : LET s == [r EXCEPT !.state = x]
                 IN s.dest = r.dest /\ s.rq_psn = r.rq_psn /\ s.sq_psn = r.sq_psn
           /\ \A x : LET s == [r EXCEPT !.recvs = x]
                 IN s.dest = r.dest /\ s.rq_psn = r.rq_psn /\ s.sq_psn = r.sq_psn
  BY DEF QpType

(* The numbers of the queue pairs that are made, and of the next one. *)
LEMMA Numbers ==
    ASSUME made \in 0 .. MaxQps
    PROVE  /\ 1 .. made \subseteq Qpns \ Clients
           /\ Clients \subseteq Qpns /\ NoQp \notin Qpns
           /\ made < MaxQps =>
                 /\ made + 1 \in Qpns \ Clients /\ made + 1 # NoQp
                 /\ made + 1 \notin 1 .. made
                 /\ 1 .. (made + 1) = (1 .. made) \cup {made + 1}
                 /\ made + 1 \in 0 .. MaxQps
<1>1. /\ \A n \in 1 .. MaxQps : n \in 0 .. MaxQps /\ n # 0
      /\ 0 \in 0 .. MaxQps /\ MaxQps \in Nat
      /\ \A n \in 1 .. made : n \in 1 .. MaxQps
      /\ made \in Nat
  BY QueuePairsAssumption
<1>2. \A n \in 0 .. MaxQps : n \notin Clients
  BY QueuePairsAssumption
<1>3. made < MaxQps => /\ made + 1 \in 1 .. MaxQps
                       /\ made + 1 \notin 1 .. made
                       /\ 1 .. (made + 1) = (1 .. made) \cup {made + 1}
  BY <1>1
<1> QED
  BY <1>1, <1>2, <1>3 DEF Qpns, NoQp

(* Nothing is connected at the start. *)
LEMMA PairsInitPInv == PairsInit => PInv
<1> SUFFICES ASSUME PairsInit PROVE PInv
  OBVIOUS
<1>1. QueuePairsTypeOK
  <2>1. qps \in [Qpns -> QpType]
    BY QpChanges DEF PairsInit
  <2>2. OthersTypeOK
    BY QueuePairsAssumption DEF PairsInit, OthersTypeOK
  <2> QED
    BY <2>1, <2>2, TypeParts
<1>2. DestsTypeOK
  BY DEF PairsInit, DestsTypeOK, Dests, NoDest
<1>3. /\ AddressesAreOwn /\ NoneBeforeAnswer
      /\ AnswersAreOurs /\ ClientsUseAnswers
  BY DEF PairsInit, AddressesAreOwn, NoneBeforeAnswer, AnswersAreOurs,
         ClientsUseAnswers
<1> QED
  BY <1>1, <1>2, <1>3 DEF PInv

(* The steps that leave numbers and addresses alone. *)
Quiet ==
    /\ UNCHANGED <<made, my_dest, msg, answer>>
    /\ \A q \in Qpns : /\ qps'[q].dest = qps[q].dest
                       /\ qps'[q].rq_psn = qps[q].rq_psn
                       /\ qps'[q].sq_psn = qps[q].sq_psn
    /\ \A c \in Clients :
          \/ pc'[c] = pc[c]
          \/ pc[c] # "out" /\ pc'[c] \in {"gone", "gone after done"}
          \/ pc[c] # "out" /\ pc'[c] = "done" /\ answer[c] # NoDest

(* They keep what is known of the numbers. *)
LEMMA QuietKeeps ==
    ASSUME PInv, Quiet
    PROVE  /\ AddressesAreOwn' /\ NoneBeforeAnswer'
           /\ AnswersAreOurs' /\ ClientsUseAnswers'
<1>1. \A n \in 1 .. made : n \in Qpns
  BY Numbers, TypeParts DEF PInv, OthersTypeOK
<1>2. Clients \subseteq Qpns
  BY DEF Qpns
<1>3. AddressesAreOwn'
  BY DEF PInv, Quiet, AddressesAreOwn
<1>4. NoneBeforeAnswer'
  BY <1>1 DEF PInv, Quiet, NoneBeforeAnswer
<1>5. AnswersAreOurs'
  BY <1>1 DEF PInv, Quiet, AnswersAreOurs, AnsweredIsOurs
<1>6. ClientsUseAnswers'
  BY <1>2 DEF PInv, Quiet, ClientsUseAnswers
<1> QED
  BY <1>3, <1>4, <1>5, <1>6

(* A change of a queue pair's state or of its receives is quiet. *)
LEMMA QuietSteps ==
    ASSUME PInv,
           \/ ReadDone \/ ReadDoneFails \/ server_post_recv_buffers
           \/ \E c \in Clients : WriteDone(c) \/ GivesUp(c) \/ FirstRequest(c)
                                   \/ Deliver(c) \/ RetriesRunOut(c)
    PROVE  PInv'
<1>1. qps \in [Qpns -> QpType] /\ OthersTypeOK /\ DestsTypeOK
  BY TypeParts DEF PInv
<1> SUFFICES qps' \in [Qpns -> QpType] /\ OthersTypeOK' /\ DestsTypeOK' /\ Quiet
  BY QuietKeeps, TypeParts DEF PInv
<1>2. CASE ReadDone \/ ReadDoneFails
  BY <1>1, <1>2
  DEF ReadDone, ReadDoneFails, OthersTypeOK, DestsTypeOK, Quiet
<1>3. CASE server_post_recv_buffers
  <2>1. PICK n : n = answer[serving].qpn
    OBVIOUS
  <2>2. qps' = [qps EXCEPT ![n] = [qps[n] EXCEPT !.recvs = RECV_BUFFS]]
    BY <1>3, <2>1 DEF server_post_recv_buffers
  <2> DEFINE r == [qps[n] EXCEPT !.recvs = RECV_BUFFS]
  <2>3. n \in Qpns => /\ r \in QpType
                     /\ r.dest = qps[n].dest
                     /\ r.rq_psn = qps[n].rq_psn
                     /\ r.sq_psn = qps[n].sq_psn
    BY <1>1, QpChanges, OtherFields
  <2> HIDE DEF r
  <2>4. /\ qps' \in [Qpns -> QpType]
        /\ \A q \in Qpns : /\ qps'[q].dest = qps[q].dest
                           /\ qps'[q].rq_psn = qps[q].rq_psn
                           /\ qps'[q].sq_psn = qps[q].sq_psn
    BY <1>1, <2>2, <2>3, SameNumbers DEF r
  <2>5. Quiet
    BY <1>3, <2>4 DEF server_post_recv_buffers, Quiet
  <2> QED
    BY <1>1, <1>3, <2>4, <2>5
    DEF server_post_recv_buffers, OthersTypeOK, DestsTypeOK
<1>4. ASSUME NEW c \in Clients, WriteDone(c) \/ FirstRequest(c)
      PROVE  qps' \in [Qpns -> QpType] /\ OthersTypeOK' /\ DestsTypeOK' /\ Quiet
  BY <1>1, <1>4
  DEF WriteDone, FirstRequest, OthersTypeOK, DestsTypeOK, Quiet
<1>5. ASSUME NEW c \in Clients, GivesUp(c) \/ RetriesRunOut(c)
      PROVE  qps' \in [Qpns -> QpType] /\ OthersTypeOK' /\ DestsTypeOK' /\ Quiet
  <2>1. c \in Qpns
    BY DEF Qpns
  <2>2. PICK x \in {"gone", "ERR"} :
            qps' = [qps EXCEPT ![c] = [qps[c] EXCEPT !.state = x]]
    BY <1>5 DEF GivesUp, RetriesRunOut
  <2> DEFINE r == [qps[c] EXCEPT !.state = x]
  <2>3. /\ r \in QpType
        /\ r.dest = qps[c].dest
        /\ r.rq_psn = qps[c].rq_psn
        /\ r.sq_psn = qps[c].sq_psn
    BY <1>1, <2>1, QpChanges, OtherFields
  <2> HIDE DEF r
  <2>4. /\ UNCHANGED <<made, my_dest, msg, answer>>
        /\ \A d \in Clients :
              \/ pc'[d] = pc[d]
              \/ pc[d] # "out" /\ pc'[d] \in {"gone", "gone after done"}
    BY <1>1, <1>5 DEF GivesUp, RetriesRunOut, OthersTypeOK
  <2>5. /\ qps' \in [Qpns -> QpType]
        /\ \A q \in Qpns : /\ qps'[q].dest = qps[q].dest
                           /\ qps'[q].rq_psn = qps[q].rq_psn
                           /\ qps'[q].sq_psn = qps[q].sq_psn
    BY <1>1, <2>2, <2>3, SameNumbers DEF r
  <2>6. Quiet
    BY <2>4, <2>5 DEF Quiet
  <2> QED
    BY <1>1, <1>5, <2>5, <2>6
    DEF GivesUp, RetriesRunOut, OthersTypeOK, DestsTypeOK
<1>6. ASSUME NEW c \in Clients, Deliver(c)
      PROVE  qps' \in [Qpns -> QpType] /\ OthersTypeOK' /\ DestsTypeOK' /\ Quiet
  <2>1. \/ UNCHANGED qps /\ received' = received
        \/ /\ qps[qps[c].dest].recvs > 0
           /\ qps' = [qps EXCEPT ![qps[c].dest].recvs = @ - 1]
           /\ received' = received \cup {c}
    BY <1>6 DEF Deliver, ReceiverNotReady
  <2>2. PICK n : n = qps[c].dest
    OBVIOUS
  <2>3. \/ qps' = qps
        \/ /\ qps[n].recvs > 0
           /\ qps' = [qps EXCEPT ![n] = [qps[n] EXCEPT !.recvs = qps[n].recvs - 1]]
    BY <2>1, <2>2
  <2> DEFINE r == [qps[n] EXCEPT !.recvs = qps[n].recvs - 1]
  <2>4. n \in Qpns /\ qps[n].recvs > 0 =>
            /\ r \in QpType
            /\ r.dest = qps[n].dest
            /\ r.rq_psn = qps[n].rq_psn
            /\ r.sq_psn = qps[n].sq_psn
    BY <1>1, QpChanges, OtherFields
  <2> HIDE DEF r
  <2>5. /\ qps' \in [Qpns -> QpType]
        /\ \A q \in Qpns : /\ qps'[q].dest = qps[q].dest
                           /\ qps'[q].rq_psn = qps[q].rq_psn
                           /\ qps'[q].sq_psn = qps[q].sq_psn
    BY <1>1, <2>3, <2>4, SameNumbers DEF r
  <2>6. Quiet
    BY <1>6, <2>5 DEF Deliver, Quiet
  <2> QED
    BY <1>1, <1>6, <2>1, <2>5, <2>6 DEF Deliver, OthersTypeOK, DestsTypeOK
<1> QED
  BY <1>2, <1>3, <1>4, <1>5, <1>6

-----------------------------------------------------------------------------
(* A client that starts has not been answered. *)
LEMMA WriteAddressPInv ==
    ASSUME PInv, NEW c \in Clients, WriteAddress(c)
    PROVE  PInv'
<1>1. /\ qps \in [Qpns -> QpType] /\ OthersTypeOK /\ DestsTypeOK
      /\ c \in Qpns
  BY TypeParts DEF PInv, Qpns
<1>2. PICK psn \in Psns :
        /\ my_dest' = [my_dest EXCEPT ![c] = [qpn |-> c, psn |-> psn]]
        /\ msg' = [msg EXCEPT ![c] = [qpn |-> c, psn |-> psn]]
  BY <1>1 DEF WriteAddress, DestsTypeOK
<1>3. /\ pc[c] = "out" /\ answer[c] = NoDest /\ msg[c] = NoDest
      /\ pc' = [pc EXCEPT ![c] = "exchange"]
      /\ UNCHANGED <<thread, serving, made, answer, sent, received>>
      /\ qps' = [qps EXCEPT ![c] = [NewQp EXCEPT !.recvs = RECV_BUFFS]]
  BY DEF WriteAddress, PInv, AddressesAreOwn
<1>4. QueuePairsTypeOK'
  <2>1. qps' \in [Qpns -> QpType]
    BY <1>1, <1>3, QpChanges, QpReplaced
  <2> QED
    BY <1>1, <1>3, <2>1, TypeParts DEF OthersTypeOK
<1>5. DestsTypeOK'
  BY <1>1, <1>2, <1>3 DEF DestsTypeOK, Dests
<1>6. AddressesAreOwn'
  BY <1>1, <1>2, <1>3 DEF PInv, AddressesAreOwn, OthersTypeOK, DestsTypeOK
(* The server's queue pairs are others. *)
<1>7. \A n \in 1 .. made : qps'[n] = qps[n]
  BY <1>1, <1>3, Numbers DEF OthersTypeOK
<1>8. NoneBeforeAnswer'
  BY <1>3, <1>7 DEF PInv, NoneBeforeAnswer
<1>9. \A d \in Clients \ {c} : /\ my_dest'[d] = my_dest[d]
                             /\ pc'[d] = pc[d]
                             /\ qps'[d] = qps[d]
  BY <1>1, <1>2, <1>3, Numbers DEF DestsTypeOK, OthersTypeOK
<1>10. AnswersAreOurs'
  <2>1. ASSUME NEW d \in Clients, answer[d] # NoDest
        PROVE  AnsweredIsOurs(d)'
    <3>1. d # c /\ AnsweredIsOurs(d)
      BY <1>3, <2>1 DEF PInv, AnswersAreOurs
    <3>2. my_dest'[d] = my_dest[d] /\ answer' = answer /\ made' = made
      BY <1>3, <1>9, <3>1
    <3> QED
      BY <1>7, <3>1, <3>2 DEF AnsweredIsOurs
  <2> QED
    BY <1>3, <2>1 DEF AnswersAreOurs
<1>11. ClientsUseAnswers'
  BY <1>1, <1>3, <1>9 DEF PInv, ClientsUseAnswers, OthersTypeOK
<1> QED
  BY <1>4, <1>5, <1>6, <1>8, <1>10, <1>11 DEF PInv

(* The client's queue pair gets its own numbers and those of the answer. *)
LEMMA ConnectQpPInv ==
    ASSUME PInv, NEW c \in Clients, ConnectQp(c)
    PROVE  PInv'
<1>1. /\ qps \in [Qpns -> QpType] /\ OthersTypeOK /\ DestsTypeOK
      /\ c \in Qpns
  BY TypeParts DEF PInv, Qpns
<1>2. /\ pc[c] = "done" /\ answer[c] # NoDest
      /\ pc' = [pc EXCEPT ![c] = "open"]
      /\ qps' = [qps EXCEPT ![c] = connect_ctx(@, my_dest[c].psn, answer[c])]
      /\ UNCHANGED <<my_dest, thread, serving, made, msg, answer, sent, received>>
  BY DEF ConnectQp, PInv, ClientsUseAnswers
<1>3. answer[c] \in Dests /\ my_dest[c].psn \in Psns \cup {0}
  BY <1>1 DEF DestsTypeOK, Dests
<1>4. QueuePairsTypeOK'
  BY <1>1, <1>2, <1>3, QpChanges, TypeParts DEF OthersTypeOK
<1>5. DestsTypeOK'
  BY <1>1, <1>2 DEF DestsTypeOK
<1>6. AddressesAreOwn'
  BY <1>1, <1>2 DEF PInv, AddressesAreOwn, OthersTypeOK
<1>7. \A n \in 1 .. made : qps'[n] = qps[n]
  BY <1>1, <1>2, Numbers DEF OthersTypeOK
<1>8. NoneBeforeAnswer' /\ AnswersAreOurs'
  BY <1>2, <1>7 DEF PInv, NoneBeforeAnswer, AnswersAreOurs, AnsweredIsOurs
<1>9. /\ qps'[c].dest = answer[c].qpn
      /\ qps'[c].sq_psn = my_dest[c].psn
      /\ qps'[c].rq_psn = answer[c].psn
  BY <1>1, <1>2 DEF QpType, connect_ctx
<1>10. \A d \in Clients \ {c} : pc'[d] = pc[d] /\ qps'[d] = qps[d]
  BY <1>1, <1>2, Numbers DEF OthersTypeOK
<1>11. ClientsUseAnswers'
  BY <1>2, <1>9, <1>10 DEF PInv, ClientsUseAnswers
<1> QED
  BY <1>4, <1>5, <1>6, <1>8, <1>11 DEF PInv

-----------------------------------------------------------------------------
(* The answer goes to the client whose address was taken, names the queue  *)
(* pair that was made for it, and carries the number this one got.         *)
LEMMA AnswerPInv ==
    ASSUME PInv, NEW c \in Clients, handle_received_connection_data(c)
    PROVE  PInv'
<1> DEFINE n == made + 1
<1>1. /\ qps \in [Qpns -> QpType] /\ OthersTypeOK /\ DestsTypeOK
      /\ c \in Qpns
  BY TypeParts DEF PInv, Qpns
<1>2. PICK psn \in Psns : AnswerAddress(c, psn)
  BY DEF handle_received_connection_data
<1>3. /\ msg[c] # NoDest /\ answer[c] = NoDest /\ msg[c] = my_dest[c]
      /\ pc[c] # "out" /\ my_dest[c].qpn = c
      /\ made' = n /\ msg' = [msg EXCEPT ![c] = NoDest] /\ serving' = c
      /\ thread' = "done" /\ UNCHANGED <<pc, sent, received>>
  BY DEF handle_received_connection_data, PInv, AddressesAreOwn
<1>4. /\ n \in Qpns /\ n # NoQp /\ n \notin Clients /\ n \notin 1 .. made
      /\ 1 .. n = (1 .. made) \cup {n} /\ n \in 0 .. MaxQps
      /\ 1 .. made \subseteq Qpns \ {n} /\ Clients \subseteq Qpns \ {n}
  BY <1>1, Numbers DEF OthersTypeOK, handle_received_connection_data
<1>5. /\ my_dest' = [my_dest EXCEPT ![NoClient] = [qpn |-> n, psn |-> psn]]
      /\ my_dest'[NoClient] = [qpn |-> n, psn |-> psn]
      /\ answer' = [answer EXCEPT ![c] = [qpn |-> n, psn |-> psn]]
      /\ qps' = [qps EXCEPT ![n] = connect_ctx(NewQp, psn, my_dest[c])]
  BY <1>1, <1>2, <1>3 DEF AnswerAddress, DestsTypeOK
<1>6. my_dest[c] \in Dests
  BY <1>1 DEF DestsTypeOK
<1>7. QueuePairsTypeOK'
  BY <1>1, <1>3, <1>4, <1>5, <1>6, QpChanges, TypeParts DEF OthersTypeOK
<1>8. DestsTypeOK'
  BY <1>1, <1>3, <1>4, <1>5 DEF DestsTypeOK, Dests, NoDest
<1>9. \A d \in Clients : my_dest'[d] = my_dest[d]
  BY <1>1, <1>5, QueuePairsAssumption DEF DestsTypeOK
<1>10. /\ answer'[c] = [qpn |-> n, psn |-> psn] /\ answer'[c] # NoDest
       /\ \A d \in Clients \ {c} : answer'[d] = answer[d] /\ msg'[d] = msg[d]
       /\ msg'[c] = NoDest
  BY <1>1, <1>3, <1>4, <1>5 DEF DestsTypeOK, NoDest
<1>11. /\ qps'[n].dest = c /\ qps'[n].rq_psn = my_dest[c].psn
       /\ qps'[n].sq_psn = psn
       /\ \A q \in Qpns \ {n} : qps'[q] = qps[q]
  BY <1>1, <1>3, <1>4, <1>5 DEF connect_ctx, NewQp
<1>12. AddressesAreOwn'
  BY <1>3, <1>9, <1>10 DEF PInv, AddressesAreOwn
<1>13. NoneBeforeAnswer'
  BY <1>3, <1>4, <1>10, <1>11 DEF PInv, NoneBeforeAnswer
<1>14. AnswersAreOurs'
  <2>1. AnsweredIsOurs(c)'
    BY <1>3, <1>4, <1>9, <1>10, <1>11
    DEF PInv, NoneBeforeAnswer, AnsweredIsOurs
  <2>2. ASSUME NEW d \in Clients \ {c}, answer[d] # NoDest
        PROVE  AnsweredIsOurs(d)'
    BY <1>3, <1>4, <1>9, <1>10, <1>11, <2>2
    DEF PInv, AnswersAreOurs, AnsweredIsOurs
  <2> QED
    BY <1>10, <2>1, <2>2 DEF AnswersAreOurs
<1>15. ClientsUseAnswers'
  BY <1>3, <1>4, <1>9, <1>10, <1>11 DEF PInv, ClientsUseAnswers
<1> QED
  BY <1>7, <1>8, <1>12, <1>13, <1>14, <1>15 DEF PInv

(* A queue pair that could not be connected names nobody. *)
LEMMA AnswerFailsPInv ==
    ASSUME PInv, NEW c \in Clients, AnswerFails(c)
    PROVE  PInv'
<1> DEFINE n == made + 1
<1>1. qps \in [Qpns -> QpType] /\ OthersTypeOK /\ DestsTypeOK
  BY TypeParts DEF PInv
<1>2. PICK psn \in Psns :
        my_dest' = [my_dest EXCEPT ![NoClient] = [qpn |-> n, psn |-> psn]]
  BY DEF AnswerFails
<1>3. /\ made' = n /\ msg' = [msg EXCEPT ![c] = NoDest]
      /\ qps' = [qps EXCEPT ![n] = NewQp]
      /\ UNCHANGED <<thread, serving, pc, answer, sent, received>>
  BY DEF AnswerFails
<1>4. /\ n \in Qpns /\ n # NoQp /\ n \notin Clients /\ n \notin 1 .. made
      /\ 1 .. n = (1 .. made) \cup {n} /\ n \in 0 .. MaxQps
      /\ 1 .. made \subseteq Qpns \ {n} /\ Clients \subseteq Qpns \ {n}
  BY <1>1, Numbers DEF OthersTypeOK, AnswerFails
<1>5. QueuePairsTypeOK'
  BY <1>1, <1>3, <1>4, QpChanges, TypeParts DEF OthersTypeOK
<1>6. DestsTypeOK'
  BY <1>1, <1>2, <1>3, <1>4 DEF DestsTypeOK, Dests, NoDest
<1>7. \A d \in Clients : my_dest'[d] = my_dest[d]
  BY <1>1, <1>2, QueuePairsAssumption DEF DestsTypeOK
<1>8. \A d \in Clients : msg'[d] = msg[d] \/ msg'[d] = NoDest
  BY <1>1, <1>3 DEF DestsTypeOK
<1>9. /\ qps'[n].dest \notin Clients
      /\ \A q \in Qpns \ {n} : qps'[q] = qps[q]
  BY <1>1, <1>3, <1>4, Numbers DEF OthersTypeOK, NewQp
<1>10. AddressesAreOwn'
  BY <1>3, <1>7, <1>8 DEF PInv, AddressesAreOwn
<1>11. NoneBeforeAnswer'
  BY <1>3, <1>4, <1>9 DEF PInv, NoneBeforeAnswer
<1>12. AnswersAreOurs'
  BY <1>3, <1>4, <1>7, <1>9 DEF PInv, AnswersAreOurs, AnsweredIsOurs
<1>13. ClientsUseAnswers'
  BY <1>3, <1>4, <1>7, <1>9 DEF PInv, ClientsUseAnswers
<1> QED
  BY <1>5, <1>6, <1>10, <1>11, <1>12, <1>13 DEF PInv

-----------------------------------------------------------------------------
(* Every step keeps PInv. *)
LEMMA PairsStepPInv == PInv /\ [PairsNext]_pairs_vars => PInv'
<1> SUFFICES ASSUME PInv, [PairsNext]_pairs_vars PROVE PInv'
  OBVIOUS
<1>1. CASE UNCHANGED pairs_vars
  <2>1. Quiet /\ QueuePairsTypeOK' /\ DestsTypeOK'
    BY <1>1 DEF pairs_vars, Quiet, PInv, QueuePairsTypeOK, DestsTypeOK
  <2> QED
    BY <2>1, QuietKeeps DEF PInv
<1>2. CASE PairsNext
  BY <1>2, QuietSteps, WriteAddressPInv, ConnectQpPInv, AnswerPInv,
     AnswerFailsPInv
  DEF PairsNext, ServerStep, OpeningStep
<1> QED
  BY <1>1, <1>2

(* PInv always holds. *)
THEOREM PairsInvariance == PairsSpec => []PInv
  BY PairsInitPInv, PairsStepPInv, PTL DEF PairsSpec

(* Every variable holds what its declaration says. *)
THEOREM PairsTypes == PairsSpec => []QueuePairsTypeOK
<1>1. PInv => QueuePairsTypeOK
  BY DEF PInv
<1> QED
  BY <1>1, PairsInvariance, PTL

(* connect_ctx on both sides: a client that kv_open has connected shares   *)
(* numbers with one queue pair of the server in both directions.           *)
THEOREM PairsAgree == PairsSpec => []PairsMatch
<1>1. PInv => PairsMatch
  BY DEF PInv, ClientsUseAnswers, AnswersAreOurs, AnsweredIsOurs, PairsMatch
<1> QED
  BY <1>1, PairsInvariance, PTL

-----------------------------------------------------------------------------
(* The server.                                                             *)

(* The calls of the server from its first line to its last. *)
At == ServerCalls \cup
        {"server_loop", "query_for_connections", "recv", "read",
         "teardown_server_connection", "server_close_ctx",
         "server_wait_completions", "exit", "crash"}

(* What the variables hold, but for the sum of the send buffers.           *)
ServerTypes ==
    /\ at \in At
    /\ immediate_shutdown \in BOOLEAN
    /\ alive \subseteq ServerObjects
    /\ pool \in BOOLEAN /\ db \in BOOLEAN
    /\ connections \in [Slots -> {"none", "RTS", "ERR"}]
    /\ current_number_conns \in Int
    /\ current_number_conns <= MAX_CLIENTS_SUPPORTED
    /\ sends \in [Slots -> Nat]
    /\ lost \in Nat
    /\ inbox \in [Slots -> SUBSET {"REQUEST", "FIN", "SHUTDOWN"}]
    /\ client \in [Slots -> {"idle", "waiting", "answered", "ended"}]
    /\ told \subseteq Slots
    /\ conn \in 0 .. MAX_CLIENTS_SUPPORTED
    /\ at = "server_wait_completions" => conn \in Slots

(* Every slot the teardown has passed is told, or is no working connection.*)
PassedAreTold ==
    at \in {"server_close_ctx", "server_wait_completions"} =>
        \A i \in Slots : i < conn /\ connections[i] = "RTS" => i \in told

SInv == ServerTypes /\ PassedAreTold

(* The slots begin with 0 and end before MAX_CLIENTS_SUPPORTED.            *)
LEMMA SlotNumbers ==
    /\ MAX_CLIENTS_SUPPORTED \in Nat \ {0}
    /\ \A i \in Slots : i \in Nat /\ i < MAX_CLIENTS_SUPPORTED
    /\ \A i \in Nat : i < MAX_CLIENTS_SUPPORTED => i \in Slots
BY SlotsAssumption DEF Slots

LEMMA ServerInitHoldsSInv == ServerInit => SInv
<1> SUFFICES ASSUME ServerInit PROVE SInv
  OBVIOUS
<1>1. /\ at \in At
      /\ immediate_shutdown \in BOOLEAN
      /\ alive \subseteq ServerObjects
      /\ pool \in BOOLEAN /\ db \in BOOLEAN
  BY DEF ServerInit, At, ServerCalls
<1>2. /\ connections \in [Slots -> {"none", "RTS", "ERR"}]
      /\ current_number_conns \in Int
      /\ current_number_conns <= MAX_CLIENTS_SUPPORTED
      /\ sends \in [Slots -> Nat]
      /\ lost \in Nat
  BY SlotNumbers DEF ServerInit
<1>3. /\ inbox \in [Slots -> SUBSET {"REQUEST", "FIN", "SHUTDOWN"}]
      /\ client \in [Slots -> {"idle", "waiting", "answered", "ended"}]
  BY DEF ServerInit
<1>4. /\ told \subseteq Slots
      /\ conn \in 0 .. MAX_CLIENTS_SUPPORTED
      /\ at = "server_wait_completions" => conn \in Slots
  BY SlotNumbers DEF ServerInit
<1>5. ServerTypes
  BY <1>1, <1>2, <1>3, <1>4 DEF ServerTypes
<1>6. PassedAreTold
  BY DEF ServerInit, PassedAreTold
<1> QED
  BY <1>5, <1>6 DEF SInv

(* A slot in the loop of server_close_ctx, and the one after it.           *)
LEMMA NextSlot ==
    ASSUME conn \in Slots, NextConnection
    PROVE  /\ conn' = conn + 1
           /\ conn' \in 0 .. MAX_CLIENTS_SUPPORTED
           /\ at' = "server_close_ctx"
           /\ \A i \in Slots : i < conn' => i < conn \/ i = conn
BY SlotNumbers DEF NextConnection

LEMMA RemovalTypes ==
    ASSUME ServerTypes, NEW i \in Slots, remove_connection(i)
    PROVE  /\ connections' \in [Slots -> {"none", "RTS", "ERR"}]
           /\ current_number_conns' \in Int
           /\ current_number_conns' <= MAX_CLIENTS_SUPPORTED
           /\ sends' \in [Slots -> Nat]
           /\ lost' \in Nat
           /\ inbox' \in [Slots -> SUBSET {"REQUEST", "FIN", "SHUTDOWN"}]
           /\ \A j \in Slots : connections'[j] = "RTS" => connections[j] = "RTS"
<1>1. /\ current_number_conns' \in Int
      /\ current_number_conns' <= MAX_CLIENTS_SUPPORTED
  BY SlotNumbers DEF ServerTypes, remove_connection
<1>2. /\ connections' \in [Slots -> {"none", "RTS", "ERR"}]
      /\ sends' \in [Slots -> Nat]
      /\ lost' \in Nat
      /\ inbox' \in [Slots -> SUBSET {"REQUEST", "FIN", "SHUTDOWN"}]
      /\ \A j \in Slots : connections'[j] = "RTS" => connections[j] = "RTS"
  BY DEF ServerTypes, remove_connection
<1> QED
  BY <1>1, <1>2

LEMMA SendsTypes ==
    ASSUME sends \in [Slots -> Nat], NEW i \in Slots,
           server_post_send(i) \/ SendEnds(i)
    PROVE  sends' \in [Slots -> Nat]
BY DEF server_post_send, SendEnds

(* PostShutdown crashes, or goes on with the next slot.                    *)
LEMMA PostShutdownTypes ==
    ASSUME ServerTypes, conn \in Slots, PostShutdown
    PROVE  /\ at' \in {"crash", "server_close_ctx"}
           /\ sends' \in [Slots -> Nat]
           /\ told' \subseteq Slots
           /\ conn' \in 0 .. MAX_CLIENTS_SUPPORTED
<1>1. CASE connections[conn] = "none"
  BY <1>1 DEF PostShutdown, ServerTypes
<1>2. CASE connections[conn] # "none"
  <2>1. server_post_send(conn) /\ told' = told \cup {conn} /\ NextConnection
    BY <1>2 DEF PostShutdown
  <2> QED
    BY <2>1, NextSlot, SendsTypes DEF ServerTypes
<1> QED
  BY <1>1, <1>2

(* Start-up and the loop. *)
LEMMA StartUpKeepsTypes ==
    ASSUME ServerTypes,
           StartUp \/ accept_new_connection \/ Exchange
    PROVE  ServerTypes'
<1> USE DEF ServerTypes, At, ServerCalls, resources, network, counts
<1>1. CASE FindDevice
  BY <1>1 DEF FindDevice, Succeeds
<1>2. CASE server_init_ctx
  BY <1>2 DEF server_init_ctx, Succeeds
<1>3. CASE QueryPort
  BY <1>3 DEF QueryPort, Succeeds
<1>4. ASSUME NEW call_ \in ServerCalls, Fails(call_) PROVE ServerTypes'
  BY <1>4 DEF Fails
<1>5. CASE accept_new_connection
  <2>1. /\ current_number_conns' \in Int
        /\ current_number_conns' <= MAX_CLIENTS_SUPPORTED
    BY <1>5, SlotNumbers DEF accept_new_connection
  <2> QED
    BY <1>5, <2>1 DEF accept_new_connection
<1>6. CASE AddressArrives
  BY <1>6 DEF AddressArrives
<1>7. CASE PeerAnswers \/ PeerLeaves \/ NobodyIsReady
  BY <1>7 DEF PeerAnswers, PeerLeaves, NobodyIsReady
<1>8. CASE AddressIsShort \/ ConnectFails
  BY <1>8 DEF AddressIsShort, ConnectFails
<1> QED
  BY <1>1, <1>2, <1>3, <1>4, <1>5, <1>6, <1>7, <1>8 DEF StartUp, Exchange

LEMMA HandleKeepsTypes ==
    ASSUME ServerTypes, NEW i \in Slots,
           Handle(i) \/ SendEnds(i) \/ HandleWhileClosing(i)
    PROVE  ServerTypes'
<1> USE DEF ServerTypes, resources, counts
<1>1. CASE RecvRequest(i)
  BY <1>1, SendsTypes DEF RecvRequest
<1>2. CASE RecvFin(i)
  BY <1>2 DEF RecvFin
<1>3. CASE CloseConnection(i)
  BY <1>3, RemovalTypes DEF CloseConnection
<1>4. CASE SendEnds(i)
  BY <1>4, SendsTypes DEF SendEnds
<1>5. CASE HandleWhileClosing(i)
  <2>1. CASE at' = "crash" /\ UNCHANGED <<connections, current_number_conns, sends, lost, inbox>>
    BY <1>5, <2>1 DEF HandleWhileClosing, At
  <2>2. CASE remove_connection(i) /\ UNCHANGED at
    BY <1>5, <2>2, RemovalTypes DEF HandleWhileClosing
  <2> QED
    BY <1>5, <2>1, <2>2 DEF HandleWhileClosing
<1> QED
  BY <1>1, <1>2, <1>3, <1>4, <1>5 DEF Handle

LEMMA TeardownKeepsTypes ==
    ASSUME ServerTypes, Teardown
    PROVE  ServerTypes'
<1> USE DEF ServerTypes, resources, network, counts
<1>1. CASE SignalLoop
  BY <1>1 DEF SignalLoop, At
<1>2. CASE DestroyTables
  <2>1. at' \in {"crash", "exit", "server_close_ctx"}
    BY <1>2 DEF DestroyTables
  <2>2. at' \in At /\ at' # "server_wait_completions"
    BY <2>1 DEF At
  <2>3. conn' \in 0 .. MAX_CLIENTS_SUPPORTED
    BY <1>2, SlotNumbers DEF DestroyTables
  <2> QED
    BY <1>2, <2>2, <2>3 DEF DestroyTables
<1>3. CASE CloseNext
  <2>1. conn \in Slots
    BY <1>3, SlotNumbers DEF CloseNext
  <2>2. CASE NextConnection /\ UNCHANGED <<sends, told>>
    BY <1>3, <2>1, <2>2, NextSlot DEF CloseNext, At
  <2>3. CASE PostShutdown
    BY <1>3, <2>1, <2>3, PostShutdownTypes DEF CloseNext, At
  <2>4. CASE at' = "server_wait_completions" /\ UNCHANGED <<sends, told, conn>>
    BY <1>3, <2>1, <2>4 DEF CloseNext, At
  <2> QED
    BY <1>3, <2>2, <2>3, <2>4 DEF CloseNext
<1>4. CASE GotBuffer
  BY <1>4, PostShutdownTypes DEF GotBuffer, At
<1>5. CASE DestroyServerObjects
  BY <1>5 DEF DestroyServerObjects, At
<1> QED
  BY <1>1, <1>2, <1>3, <1>4, <1>5 DEF Teardown

LEMMA SurroundingsKeepTypes ==
    ASSUME ServerTypes,
           \/ server_signal_handler
           \/ \E i \in Slots : ClientStep(i)
           \/ UNCHANGED server_vars
    PROVE  ServerTypes'
<1> USE DEF ServerTypes, resources, network, counts
<1>1. CASE server_signal_handler
  BY <1>1 DEF server_signal_handler
<1>2. ASSUME NEW i \in Slots, ClientStep(i) PROVE ServerTypes'
  <2>1. CASE Ask(i)
    BY <2>1 DEF Ask, ClientSends
  <2>2. CASE SendFin(i)
    BY <2>2 DEF SendFin, ClientSends
  <2>3. CASE ClientCloses(i)
    BY <2>3 DEF ClientCloses, ClientSends
  <2>4. CASE ClientDies(i)
    BY <2>4 DEF ClientDies
  <2>5. CASE ReceiveShutdown(i) \/ SendFails(i)
    BY <2>5 DEF ReceiveShutdown, SendFails
  <2> QED
    BY <1>2, <2>1, <2>2, <2>3, <2>4, <2>5 DEF ClientStep
<1>3. CASE UNCHANGED server_vars
  BY <1>3 DEF server_vars
<1> QED
  BY <1>1, <1>2, <1>3

LEMMA StepKeepsTypes == ServerTypes /\ [ServerNext]_server_vars => ServerTypes'
BY StartUpKeepsTypes, HandleKeepsTypes, TeardownKeepsTypes,
   SurroundingsKeepTypes DEF ServerNext

(* Steps that leave the call alone, or only end the server.                *)
LEMMA CallsOfTheLoop ==
    ASSUME NEW i \in Slots,
           Handle(i) \/ SendEnds(i) \/ HandleWhileClosing(i) \/ ClientStep(i)
    PROVE  at' \in {at, "crash"}
<1>1. CASE Handle(i)
  BY <1>1 DEF Handle, RecvRequest, RecvFin, CloseConnection
<1>2. CASE SendEnds(i) \/ HandleWhileClosing(i)
  BY <1>2 DEF SendEnds, HandleWhileClosing
<1>3. CASE ClientStep(i)
  BY <1>3 DEF ClientStep, Ask, SendFin, ClientCloses, ClientDies,
              ReceiveShutdown, SendFails, ClientSends
<1> QED
  BY <1>1, <1>2, <1>3

(* Without a step of the teardown's loop, the slots it has passed are the  *)
(* same, or fewer of them work.                                            *)
LEMMA OthersKeepTold ==
    ASSUME PassedAreTold,
           UNCHANGED <<told, conn>>,
           at' \in {at, "crash"},
           \A i \in Slots : connections'[i] = "RTS" => connections[i] = "RTS"
    PROVE  PassedAreTold'
BY DEF PassedAreTold

LEMMA PostKeepsTold ==
    ASSUME ServerTypes, PassedAreTold, PostShutdown, conn \in Slots,
           at \in {"server_close_ctx", "server_wait_completions"},
           UNCHANGED connections
    PROVE  PassedAreTold'
<1>1. CASE connections[conn] = "none"
  BY <1>1 DEF PostShutdown, PassedAreTold
<1>2. CASE connections[conn] # "none"
  <2>1. told' = told \cup {conn} /\ NextConnection
    BY <1>2 DEF PostShutdown
  <2> QED
    BY <2>1, NextSlot DEF PassedAreTold
<1> QED
  BY <1>1, <1>2

LEMMA StepKeepsTold ==
    SInv /\ [ServerNext]_server_vars => PassedAreTold'
<1> SUFFICES ASSUME ServerTypes, PassedAreTold, [ServerNext]_server_vars
             PROVE  PassedAreTold'
  BY DEF SInv
<1> USE DEF resources, network
<1>1. CASE StartUp
  BY <1>1 DEF StartUp, FindDevice, server_init_ctx, QueryPort, Fails, Succeeds,
              PassedAreTold
<1>2. CASE accept_new_connection \/ Exchange
  BY <1>2 DEF accept_new_connection, Exchange, AddressIsShort, ConnectFails,
              AddressArrives, PeerAnswers, PeerLeaves, NobodyIsReady, PassedAreTold
<1>3. ASSUME NEW i \in Slots,
             Handle(i) \/ SendEnds(i) \/ HandleWhileClosing(i)
      PROVE  PassedAreTold'
  <2>1. UNCHANGED <<told, conn>>
    BY <1>3 DEF Handle, RecvRequest, RecvFin, CloseConnection, SendEnds,
                HandleWhileClosing
  <2>2. connections' = connections \/ remove_connection(i)
    BY <1>3 DEF Handle, RecvRequest, RecvFin, CloseConnection, SendEnds,
                HandleWhileClosing
  <2> QED
    BY <1>3, <2>1, <2>2, RemovalTypes, CallsOfTheLoop, OthersKeepTold
<1>4. ASSUME NEW i \in Slots, ClientStep(i) PROVE PassedAreTold'
  <2>1. UNCHANGED <<told, conn>>
    BY <1>4 DEF ClientStep, Ask, SendFin, ClientCloses, ClientDies,
                ReceiveShutdown, SendFails, ClientSends
  <2>2. \/ connections' = connections
        \/ connections' = [connections EXCEPT ![i] = "ERR"]
    BY <1>4 DEF ClientStep, Ask, SendFin, ClientCloses, ClientDies,
                ReceiveShutdown, SendFails, ClientSends
  <2>3. \A j \in Slots : connections'[j] = "RTS" => connections[j] = "RTS"
    BY <2>2 DEF ServerTypes
  <2> QED
    BY <1>4, <2>1, <2>3, CallsOfTheLoop, OthersKeepTold
<1>5. CASE SignalLoop \/ DestroyTables
  BY <1>5, SlotNumbers DEF SignalLoop, DestroyTables, PassedAreTold
<1>6. CASE CloseNext
  <2>1. conn \in Slots
    BY <1>6, SlotNumbers DEF CloseNext, ServerTypes
  <2>2. CASE connections[conn] # "RTS" /\ NextConnection /\ UNCHANGED <<sends, told>>
    BY <1>6, <2>1, <2>2, NextSlot DEF CloseNext, PassedAreTold
  <2>3. CASE PostShutdown
    BY <1>6, <2>1, <2>3, PostKeepsTold DEF CloseNext
  <2>4. CASE at' = "server_wait_completions" /\ UNCHANGED <<sends, told, conn>>
    BY <1>6, <2>4 DEF CloseNext, PassedAreTold
  <2> QED
    BY <1>6, <2>2, <2>3, <2>4 DEF CloseNext
<1>7. CASE GotBuffer
  BY <1>7, PostKeepsTold DEF GotBuffer, ServerTypes
<1>8. CASE DestroyServerObjects
  BY <1>8 DEF DestroyServerObjects, PassedAreTold
<1>9. CASE server_signal_handler \/ UNCHANGED server_vars
  BY <1>9 DEF server_signal_handler, server_vars, PassedAreTold
<1> QED
  BY <1>1, <1>2, <1>3, <1>4, <1>5, <1>6, <1>7, <1>8, <1>9
     DEF ServerNext, Teardown

-----------------------------------------------------------------------------
(* The server's send buffers.                                              *)

(* The buffers posted to slot i's queue pair, and to all of them.          *)
Row(i, f) == {p \in {i} \X (1 .. SERVER_NUM_SEND_BUFFS) : p[2] <= f[i]}
Posted(f) == {p \in Slots \X (1 .. SERVER_NUM_SEND_BUFFS) : p[2] <= f[p[1]]}

(* No more buffers are in use than there are.                              *)
SendsCounted ==
    /\ sends \in [Slots -> 0 .. SERVER_NUM_SEND_BUFFS]
    /\ Used \in 0 .. SERVER_NUM_SEND_BUFFS

LEMMA PostedIsFinite ==
    /\ SERVER_NUM_SEND_BUFFS \in Nat \ {0}
    /\ \A f : IsFiniteSet(Posted(f)) /\ Cardinality(Posted(f)) \in Nat
<1>1. SERVER_NUM_SEND_BUFFS \in Nat \ {0}
  BY ServerLifeAssumption
<1>2. IsFiniteSet(Slots) /\ IsFiniteSet(1 .. SERVER_NUM_SEND_BUFFS)
  BY <1>1, SlotsAssumption, FS_Interval DEF Slots
<1>3. IsFiniteSet(Slots \X (1 .. SERVER_NUM_SEND_BUFFS))
  BY <1>2, FS_Product
<1>4. ASSUME NEW f PROVE IsFiniteSet(Posted(f)) /\ Cardinality(Posted(f)) \in Nat
  <2>1. Posted(f) \in SUBSET (Slots \X (1 .. SERVER_NUM_SEND_BUFFS))
    BY DEF Posted
  <2> QED
    BY <1>3, <2>1, FS_Subset, FS_CardinalityType
<1> QED
  BY <1>1, <1>4

(* A slot with n buffers posted has a row of n. *)
LEMMA RowCount ==
    ASSUME NEW f \in [Slots -> 0 .. SERVER_NUM_SEND_BUFFS], NEW i \in Slots
    PROVE  IsFiniteSet(Row(i, f)) /\ Cardinality(Row(i, f)) = f[i]
<1> DEFINE g == [k \in 1 .. f[i] |-> <<i, k>>]
<1>1. SERVER_NUM_SEND_BUFFS \in Nat /\ f[i] \in Nat /\ f[i] <= SERVER_NUM_SEND_BUFFS
  BY PostedIsFinite
<1>2. IsFiniteSet(1 .. f[i]) /\ Cardinality(1 .. f[i]) = f[i]
  BY <1>1, FS_Interval
<1>3. \A k \in 1 .. f[i] : <<i, k>> \in Row(i, f)
  BY <1>1 DEF Row
<1>4. \A p \in Row(i, f) : p[2] \in 1 .. f[i] /\ p = <<i, p[2]>>
  BY <1>1 DEF Row
<1>5. g \in [1 .. f[i] -> Row(i, f)]
  BY <1>3
<1>6. \A k, l \in 1 .. f[i] : g[k] = g[l] => k = l
  OBVIOUS
<1>7. \A p \in Row(i, f) : g[p[2]] = p
  BY <1>4
<1> HIDE DEF g
<1>8. g \in Injection(1 .. f[i], Row(i, f))
  BY <1>5, <1>6 DEF Injection, IsInjective
<1>9. g \in Surjection(1 .. f[i], Row(i, f))
  BY <1>4, <1>5, <1>7 DEF Surjection
<1>10. ExistsBijection(1 .. f[i], Row(i, f))
  BY <1>8, <1>9 DEF ExistsBijection, Bijection
<1> QED
  BY <1>2, <1>10, FS_Bijection

(* A post adds one, when one is free. *)
LEMMA PostCounts ==
    ASSUME SendsCounted, lost \in Nat, HasBuffer, NEW i \in Slots,
           server_post_send(i), UNCHANGED lost
    PROVE  SendsCounted'
<1> DEFINE N == SERVER_NUM_SEND_BUFFS
<1>1. N \in Nat \ {0} /\ sends \in [Slots -> 0 .. N] /\ sends[i] \in Nat /\ sends[i] <= N
  BY PostedIsFinite DEF SendsCounted
<1>2. Used = lost + Cardinality(Posted(sends)) /\ Cardinality(Posted(sends)) \in Nat
      /\ IsFiniteSet(Posted(sends))
  BY PostedIsFinite DEF Used, Posted
<1>3. Row(i, sends) \in SUBSET Posted(sends)
  BY DEF Row, Posted
<1>4. sends[i] <= Cardinality(Posted(sends))
  BY <1>1, <1>2, <1>3, RowCount, FS_Subset
<1>5. sends[i] + 1 \in 1 .. N
  BY <1>1, <1>2, <1>4 DEF HasBuffer
<1>6. sends' = [sends EXCEPT ![i] = sends[i] + 1]
  BY DEF server_post_send
<1>7. sends' \in [Slots -> 0 .. N]
  BY <1>1, <1>5, <1>6
<1>8. Posted(sends') = Posted(sends) \cup {<<i, sends[i] + 1>>}
  <2>1. ASSUME NEW p \in Slots \X (1 .. N)
        PROVE  p[2] <= sends'[p[1]] <=> (p[2] <= sends[p[1]] \/ p = <<i, sends[i] + 1>>)
    <3>1. CASE p[1] = i
      BY <1>1, <1>6, <3>1
    <3>2. CASE p[1] # i
      BY <1>1, <1>6, <3>2
    <3> QED
      BY <3>1, <3>2
  <2>2. <<i, sends[i] + 1>> \in Slots \X (1 .. N)
    BY <1>5
  <2> QED
    BY <2>1, <2>2 DEF Posted
<1>9. <<i, sends[i] + 1>> \notin Posted(sends)
  BY <1>1 DEF Posted
<1>10. Cardinality(Posted(sends')) = Cardinality(Posted(sends)) + 1
  BY <1>2, <1>8, <1>9, FS_AddElement
<1>11. Used' = lost' + Cardinality(Posted(sends'))
  BY DEF Used, Posted
<1> QED
  BY <1>1, <1>2, <1>7, <1>10, <1>11 DEF SendsCounted, HasBuffer

(* A completion takes one away. *)
LEMMA CompletionCounts ==
    ASSUME SendsCounted, lost \in Nat, NEW i \in Slots, sends[i] > 0,
           sends' = [sends EXCEPT ![i] = @ - 1], UNCHANGED lost
    PROVE  SendsCounted'
<1> DEFINE N == SERVER_NUM_SEND_BUFFS
<1>1. N \in Nat \ {0} /\ sends \in [Slots -> 0 .. N] /\ sends[i] \in 1 .. N
  BY PostedIsFinite DEF SendsCounted
<1>2. Used = lost + Cardinality(Posted(sends)) /\ Cardinality(Posted(sends)) \in Nat
      /\ IsFiniteSet(Posted(sends))
  BY PostedIsFinite DEF Used, Posted
<1>3. sends' \in [Slots -> 0 .. N]
  BY <1>1
<1>4. Posted(sends') \in SUBSET Posted(sends)
  <2>1. \A j \in Slots : sends'[j] <= sends[j]
    BY <1>1
  <2> QED
    BY <1>1, <1>3, <2>1 DEF Posted
<1>5. Cardinality(Posted(sends')) <= Cardinality(Posted(sends))
  BY <1>2, <1>4, FS_Subset
<1>6. Cardinality(Posted(sends')) \in Nat
  BY PostedIsFinite
<1>7. Used' = lost' + Cardinality(Posted(sends'))
  BY DEF Used, Posted
<1> QED
  BY <1>1, <1>2, <1>3, <1>5, <1>6, <1>7 DEF SendsCounted

(* What a removed connection had posted is lost, and stays in use. *)
LEMMA RemovalCounts ==
    ASSUME SendsCounted, lost \in Nat, NEW i \in Slots, remove_connection(i)
    PROVE  SendsCounted'
<1> DEFINE N == SERVER_NUM_SEND_BUFFS
<1>1. N \in Nat \ {0} /\ sends \in [Slots -> 0 .. N] /\ sends[i] \in 0 .. N
  BY PostedIsFinite DEF SendsCounted
<1>2. sends' = [sends EXCEPT ![i] = 0] /\ lost' = lost + sends[i]
  BY DEF remove_connection
<1>3. sends' \in [Slots -> 0 .. N]
  BY <1>1, <1>2
<1>4. \A j \in Slots : sends'[j] = IF j = i THEN 0 ELSE sends[j]
  BY <1>1, <1>2
<1>5. Posted(sends) = Posted(sends') \cup Row(i, sends)
  <2>1. Posted(sends) \subseteq Posted(sends') \cup Row(i, sends)
    BY <1>4 DEF Posted, Row
  <2>2. Row(i, sends) \subseteq Posted(sends)
    BY DEF Posted, Row
  <2>3. ASSUME NEW p \in Posted(sends') PROVE p \in Posted(sends)
    <3>1. p \in Slots \X (1 .. N) /\ p[2] <= sends'[p[1]] /\ p[1] \in Slots
      BY DEF Posted
    <3>2. p[1] # i
      BY <1>1, <1>4, <3>1
    <3> QED
      BY <1>4, <3>1, <3>2 DEF Posted
  <2> QED
    BY <2>1, <2>2, <2>3
<1>6. Posted(sends') \cap Row(i, sends) = {}
  BY <1>1, <1>4 DEF Posted, Row
<1>7. /\ IsFiniteSet(Posted(sends')) /\ Cardinality(Posted(sends')) \in Nat
      /\ IsFiniteSet(Row(i, sends)) /\ Cardinality(Row(i, sends)) = sends[i]
  BY <1>1, PostedIsFinite, RowCount
<1>8. Cardinality(Posted(sends)) = Cardinality(Posted(sends')) + sends[i]
  <2>1. Cardinality(Posted(sends') \cap Row(i, sends)) = 0
    BY <1>6, FS_EmptySet
  <2>2. Cardinality(Posted(sends') \cup Row(i, sends)) =
           Cardinality(Posted(sends')) + Cardinality(Row(i, sends))
              - Cardinality(Posted(sends') \cap Row(i, sends))
    BY <1>7, FS_Union
  <2> QED
    BY <1>1, <1>5, <1>7, <2>1, <2>2
<1>9. Used = lost + Cardinality(Posted(sends)) /\ Used' = lost' + Cardinality(Posted(sends'))
  BY DEF Used, Posted
<1> QED
  BY <1>1, <1>2, <1>3, <1>7, <1>8, <1>9 DEF SendsCounted

(* What a step of the server does to its send buffers. *)
LEMMA StepOnSends ==
    ASSUME [ServerNext]_server_vars
    PROVE  \/ UNCHANGED <<sends, lost>>
           \/ \E i \in Slots :
                 /\ sends[i] > 0 /\ UNCHANGED lost
                 /\ sends' = [sends EXCEPT ![i] = @ - 1]
           \/ \E i \in Slots : remove_connection(i)
           \/ \E i \in Slots : HasBuffer /\ server_post_send(i) /\ UNCHANGED lost
           \/ HasBuffer /\ PostShutdown /\ UNCHANGED lost
                 /\ (at = "server_close_ctx" => conn < MAX_CLIENTS_SUPPORTED)
                 /\ at \in {"server_close_ctx", "server_wait_completions"}
<1> USE DEF network
<1>1. CASE StartUp
  BY <1>1 DEF StartUp, FindDevice, server_init_ctx, QueryPort, Fails
<1>2. CASE accept_new_connection \/ Exchange
  BY <1>2 DEF accept_new_connection, Exchange, AddressIsShort, ConnectFails,
              AddressArrives, PeerAnswers, PeerLeaves, NobodyIsReady
<1>3. ASSUME NEW i \in Slots, Handle(i)
      PROVE  \/ UNCHANGED <<sends, lost>>
             \/ remove_connection(i)
             \/ HasBuffer /\ server_post_send(i) /\ UNCHANGED lost
  BY <1>3 DEF Handle, RecvRequest, RecvFin, CloseConnection
<1>4. ASSUME NEW i \in Slots, SendEnds(i)
      PROVE  sends[i] > 0 /\ UNCHANGED lost /\ sends' = [sends EXCEPT ![i] = @ - 1]
  BY <1>4 DEF SendEnds
<1>5. ASSUME NEW i \in Slots, HandleWhileClosing(i)
      PROVE  UNCHANGED <<sends, lost>> \/ remove_connection(i)
  BY <1>5 DEF HandleWhileClosing
<1>6. CASE SignalLoop \/ DestroyTables \/ DestroyServerObjects
  BY <1>6 DEF SignalLoop, DestroyTables, DestroyServerObjects
<1>7. CASE CloseNext
  BY <1>7 DEF CloseNext
<1>8. CASE GotBuffer
  BY <1>8 DEF GotBuffer
<1>9. CASE server_signal_handler \/ UNCHANGED server_vars
  BY <1>9 DEF server_signal_handler, server_vars
<1>10. ASSUME NEW i \in Slots, ClientStep(i) PROVE UNCHANGED <<sends, lost>>
  BY <1>10 DEF ClientStep, Ask, SendFin, ClientCloses, ClientDies,
               ReceiveShutdown, SendFails, ClientSends
<1>11. CASE \E i \in Slots : Handle(i) \/ SendEnds(i) \/ HandleWhileClosing(i)
  BY <1>3, <1>4, <1>5, <1>11
<1>12. CASE Teardown
  BY <1>6, <1>7, <1>8, <1>12 DEF Teardown
<1>13. CASE \E i \in Slots : ClientStep(i)
  BY <1>10, <1>13
<1> QED
  BY <1>1, <1>2, <1>9, <1>11, <1>12, <1>13 DEF ServerNext

LEMMA StepKeepsCounts ==
    ServerTypes /\ SendsCounted /\ [ServerNext]_server_vars => SendsCounted'
<1> SUFFICES ASSUME ServerTypes, SendsCounted, [ServerNext]_server_vars
             PROVE  SendsCounted'
  OBVIOUS
<1>1. lost \in Nat
  BY DEF ServerTypes
<1>2. CASE UNCHANGED <<sends, lost>>
  BY <1>2 DEF SendsCounted, Used
<1>3. ASSUME NEW i \in Slots, sends[i] > 0, UNCHANGED lost,
             sends' = [sends EXCEPT ![i] = @ - 1]
      PROVE  SendsCounted'
  BY <1>1, <1>3, CompletionCounts
<1>4. ASSUME NEW i \in Slots, remove_connection(i) PROVE SendsCounted'
  BY <1>1, <1>4, RemovalCounts
<1>5. ASSUME NEW i \in Slots, HasBuffer, server_post_send(i), UNCHANGED lost
      PROVE  SendsCounted'
  BY <1>1, <1>5, PostCounts
<1>6. ASSUME HasBuffer, PostShutdown, UNCHANGED lost,
             at = "server_close_ctx" => conn < MAX_CLIENTS_SUPPORTED,
             at \in {"server_close_ctx", "server_wait_completions"}
      PROVE  SendsCounted'
  <2>1. conn \in Slots
    BY <1>6, SlotNumbers DEF ServerTypes
  <2>2. UNCHANGED sends \/ server_post_send(conn)
    BY <1>6 DEF PostShutdown
  <2> QED
    BY <1>2, <1>5, <1>6, <2>1, <2>2
<1> QED
  BY <1>2, <1>3, <1>4, <1>5, <1>6, StepOnSends

LEMMA ServerInitCounts == ServerInit => SendsCounted
<1> SUFFICES ASSUME ServerInit PROVE SendsCounted
  OBVIOUS
<1>1. SERVER_NUM_SEND_BUFFS \in Nat \ {0}
  BY PostedIsFinite
<1>2. sends = [i \in Slots |-> 0] /\ lost = 0
  BY DEF ServerInit
<1>3. Posted(sends) = {}
  BY <1>1, <1>2 DEF Posted
<1>4. Used = 0
  BY <1>2, <1>3, FS_EmptySet DEF Used, Posted
<1> QED
  BY <1>1, <1>2, <1>4 DEF SendsCounted

(***************************************************************************)
(* The server's variables hold what they are declared to, its send buffers *)
(* are counted, and the loop of server_close_ctx leaves only told          *)
(* connections behind.                                                     *)
(***************************************************************************)
THEOREM ServerInvariance == ServerSpec => [](SInv /\ SendsCounted)
<1>1. SInv /\ SendsCounted /\ [ServerNext]_server_vars => (SInv /\ SendsCounted)'
  BY StepKeepsTypes, StepKeepsTold, StepKeepsCounts DEF SInv
<1> QED
  BY ServerInitHoldsSInv, ServerInitCounts, <1>1, PTL DEF ServerSpec

(***************************************************************************)
(* Every variable of the server holds what its declaration says, and among *)
(* others no more send buffers are in use than there are (server.c, the    *)
(* ring in_use of buffers_management.c), the lost ones included.           *)
(***************************************************************************)
THEOREM ServerTypeCorrect == ServerSpec => []ServerLifeTypeOK
<1>1. SInv /\ SendsCounted => ServerLifeTypeOK
  BY DEF SInv, SendsCounted, ServerTypes, At, ServerLifeTypeOK
<1> QED
  BY <1>1, ServerInvariance, PTL

(***************************************************************************)
(* server.c:473-520: whatever the order of failures, signals, deaths of    *)
(* clients and waits for buffers, every working connection that the loop   *)
(* has passed was sent a SERVER_SHUTDOWN.                                  *)
(***************************************************************************)
THEOREM ClientsAlwaysTold == ServerSpec => []ClientsAreTold
<1>1. SInv => ClientsAreTold
  BY SlotNumbers DEF SInv, ServerTypes, PassedAreTold, ClientsAreTold
<1> QED
  BY <1>1, ServerInvariance, PTL

-----------------------------------------------------------------------------
(* Sequences: what is appended, and what is left when the head is taken.   *)

LEMMA AppendedTo ==
    ASSUME NEW S, NEW s \in Seq(S), NEW e \in S
    PROVE  /\ Append(s, e) \in Seq(S)
           /\ Len(s) \in Nat
           /\ Len(Append(s, e)) = Len(s) + 1
           /\ \A i \in 1 .. Len(s) : Append(s, e)[i] = s[i]
           /\ Append(s, e)[Len(s) + 1] = e
OBVIOUS

LEMMA HeadTaken ==
    ASSUME NEW S, NEW s \in Seq(S), s # <<>>
    PROVE  /\ Tail(s) \in Seq(S)
           /\ Len(s) \in Nat \ {0}
           /\ Len(Tail(s)) = Len(s) - 1
           /\ Head(s) = s[1] /\ Head(s) \in S
           /\ \A i \in 1 .. Len(Tail(s)) : Tail(s)[i] = s[i + 1]
           /\ \A i \in 1 .. Len(Tail(s)) : i + 1 \in 1 .. Len(s)
           /\ \A i \in 1 .. Len(s) :
                 i = 1 \/ (i - 1 \in 1 .. Len(Tail(s)) /\ s[i] = Tail(s)[i - 1])
BY EmptySeq, HeadTailProperties

-----------------------------------------------------------------------------
(* The client's requests.                                                  *)

(* What a work request of the client is. *)
WorkRequests ==
    {w \in [wr : {"SEND", "RDMA_WRITE", "RDMA_READ"}, buff : Buffers \cup {NoBuff},
            msg : Messages \cup ({"RDMA_WRITE", "RDMA_READ"} \X Tids)] :
        /\ w.wr # "SEND" => w.msg[2] \in Tids
        /\ w.wr = "SEND" => w.buff \in Buffers}

(* The requests whose write or read is posted and not done. *)
TransfersOf(s) ==
    {t \in Tids : \E i \in 1 .. Len(s) : s[i].wr # "SEND" /\ s[i].msg[2] = t}

(* No request is written or read twice. *)
OneTransferEach(s) ==
    \A i, j \in 1 .. Len(s) :
        s[i].wr # "SEND" /\ s[j].wr # "SEND" /\ s[i].msg[2] = s[j].msg[2] => i = j

(* What is posted to write or read the value of request t. *)
Transfer(e, t) == e \in WorkRequests /\ e.wr # "SEND" /\ e.msg[2] = t

LEMMA MessageSets ==
    /\ Shutdown \in Messages /\ Zeroes \in Messages
    /\ Requests \subseteq Messages
    /\ \A t \in Tids : <<"RDMA_FIN", t>> \in Messages
    /\ \A m \in Requests : m[2] \in Tids
    /\ \A t \in Tids : Transfer(Write(t), t) /\ Transfer(Read(t), t)
    /\ \A b \in Buffers, m \in Messages :
          [wr |-> "SEND", buff |-> b, msg |-> m] \in WorkRequests
<1>1. \A t \in Tids : <<"RDMA_FIN", t>> \in Requests
  BY DEF Requests
<1>2. Requests \subseteq Messages /\ Shutdown \in Messages /\ Zeroes \in Messages
  BY DEF Messages
<1>3. \A m \in Requests : m[2] \in Tids
  BY DEF Requests
<1>4. ASSUME NEW t \in Tids PROVE Transfer(Write(t), t) /\ Transfer(Read(t), t)
  BY DEF Transfer, Write, Read, WorkRequests
<1>5. ASSUME NEW b \in Buffers, NEW m \in Messages
      PROVE  [wr |-> "SEND", buff |-> b, msg |-> m] \in WorkRequests
  BY DEF WorkRequests
<1> QED
  BY <1>1, <1>2, <1>3, <1>4, <1>5

LEMMA TransferIsPosted ==
    ASSUME NEW s \in Seq(WorkRequests), NEW t \in Tids, NEW e, Transfer(e, t),
           t \notin TransfersOf(s), OneTransferEach(s)
    PROVE  /\ Append(s, e) \in Seq(WorkRequests)
           /\ TransfersOf(Append(s, e)) = TransfersOf(s) \cup {t}
           /\ OneTransferEach(Append(s, e))
<1> DEFINE a == Append(s, e)
<1>1. e \in WorkRequests /\ e.wr # "SEND" /\ e.msg[2] = t
  BY DEF Transfer
<1>2. /\ a \in Seq(WorkRequests) /\ Len(s) \in Nat /\ Len(a) = Len(s) + 1
      /\ \A i \in 1 .. Len(s) : a[i] = s[i]
      /\ a[Len(s) + 1] = e
  BY <1>1, AppendedTo
<1> HIDE DEF a
<1>3. \A i \in 1 .. Len(a) : i \in 1 .. Len(s) \/ i = Len(s) + 1
  BY <1>2
<1>4. \A i \in 1 .. Len(s) : i \in 1 .. Len(a)
  BY <1>2
<1>5. Len(s) + 1 \in 1 .. Len(a)
  BY <1>2
<1>6. TransfersOf(a) = TransfersOf(s) \cup {t}
  BY <1>1, <1>2, <1>3, <1>4, <1>5 DEF TransfersOf
<1>7. \A i \in 1 .. Len(s) : s[i].wr # "SEND" => s[i].msg[2] # t
  BY DEF TransfersOf
<1>8. OneTransferEach(a)
  BY <1>1, <1>2, <1>3, <1>7 DEF OneTransferEach
<1> QED
  BY <1>2, <1>6, <1>8 DEF a

LEMMA SendIsPosted ==
    ASSUME NEW s \in Seq(WorkRequests), NEW w \in WorkRequests, w.wr = "SEND",
           OneTransferEach(s)
    PROVE  /\ Append(s, w) \in Seq(WorkRequests)
           /\ TransfersOf(Append(s, w)) = TransfersOf(s)
           /\ OneTransferEach(Append(s, w))
<1> DEFINE a == Append(s, w)
<1>2. /\ a \in Seq(WorkRequests) /\ Len(s) \in Nat /\ Len(a) = Len(s) + 1
      /\ \A i \in 1 .. Len(s) : a[i] = s[i]
      /\ a[Len(s) + 1] = w
  BY AppendedTo
<1> HIDE DEF a
<1>3. \A i \in 1 .. Len(a) : i \in 1 .. Len(s) \/ i = Len(s) + 1
  BY <1>2
<1>4. \A i \in 1 .. Len(s) : i \in 1 .. Len(a)
  BY <1>2
<1>6. TransfersOf(a) = TransfersOf(s)
  BY <1>2, <1>3, <1>4 DEF TransfersOf
<1>8. OneTransferEach(a)
  BY <1>2, <1>3 DEF OneTransferEach
<1> QED
  BY <1>2, <1>6, <1>8 DEF a

LEMMA HeadIsDone ==
    ASSUME NEW s \in Seq(WorkRequests), s # <<>>, OneTransferEach(s)
    PROVE  /\ Tail(s) \in Seq(WorkRequests)
           /\ Head(s) \in WorkRequests
           /\ OneTransferEach(Tail(s))
           /\ Head(s).wr = "SEND" => TransfersOf(Tail(s)) = TransfersOf(s)
           /\ Head(s).wr # "SEND" =>
                 /\ Head(s).msg[2] \in TransfersOf(s)
                 /\ TransfersOf(Tail(s)) = TransfersOf(s) \ {Head(s).msg[2]}
<1> DEFINE a == Tail(s)
           h == Head(s)
<1>1. /\ a \in Seq(WorkRequests)
      /\ Len(s) \in Nat \ {0}
      /\ Len(a) = Len(s) - 1
      /\ h = s[1] /\ h \in WorkRequests
      /\ \A i \in 1 .. Len(a) : a[i] = s[i + 1]
      /\ \A i \in 1 .. Len(a) : i + 1 \in 1 .. Len(s)
      /\ \A i \in 1 .. Len(s) :
            i = 1 \/ (i - 1 \in 1 .. Len(a) /\ s[i] = a[i - 1])
  BY HeadTaken
<1> HIDE DEF a, h
<1>2. OneTransferEach(a)
  BY <1>1 DEF OneTransferEach
<1>3. TransfersOf(a) \subseteq TransfersOf(s)
  BY <1>1 DEF TransfersOf
<1>4. h.wr = "SEND" => TransfersOf(s) \subseteq TransfersOf(a)
  BY <1>1 DEF TransfersOf
<1>5. ASSUME h.wr # "SEND"
      PROVE  h.msg[2] \in TransfersOf(s) /\ TransfersOf(a) = TransfersOf(s) \ {h.msg[2]}
  <2>1. h.msg[2] \in Tids /\ 1 \in 1 .. Len(s)
    BY <1>1, <1>5 DEF WorkRequests
  <2>2. h.msg[2] \in TransfersOf(s)
    BY <1>1, <1>5, <2>1 DEF TransfersOf
  <2>3. TransfersOf(s) \subseteq TransfersOf(a) \cup {h.msg[2]}
    BY <1>1 DEF TransfersOf
  <2>4. \A i \in 1 .. Len(a) : a[i].wr # "SEND" => a[i].msg[2] # h.msg[2]
    <3> SUFFICES ASSUME NEW i \in 1 .. Len(a), a[i].wr # "SEND",
                        a[i].msg[2] = h.msg[2]
                 PROVE  FALSE
      OBVIOUS
    <3>1. i + 1 = 1
      BY <1>1, <1>5, <2>1 DEF OneTransferEach
    <3> QED
      BY <3>1, <1>1
  <2>5. h.msg[2] \notin TransfersOf(a)
    BY <2>4 DEF TransfersOf
  <2> QED
    BY <1>3, <2>2, <2>3, <2>5
<1> QED
  BY <1>1, <1>2, <1>3, <1>4, <1>5 DEF a, h

-----------------------------------------------------------------------------
(* The client's send buffers.                                              *)

LEMMA BufferNumbers ==
    /\ CLIENT_NUM_SEND_BUFFS \in Nat \ {0}
    /\ NoBuff \notin Buffers
    /\ \A k \in Int : k % CLIENT_NUM_SEND_BUFFS \in Buffers
    /\ Buffers \subseteq Nat
BY ClientLifeAssumption DEF Buffers, NoBuff

(* A set of numbers has a least one, and it is the one that is chosen.     *)
LEMMA LeastNumber ==
    ASSUME NEW I, I \subseteq Nat, I # {}
    PROVE  (CHOOSE k \in I : \A j \in I : k <= j) \in I
<1>1. \E k \in I : \A j \in I : ~(<<j, k>> \in OpToRel(<, Nat))
  BY NatLessThanWellFounded, WFMin
<1>2. \A j, k \in I : ~(<<j, k>> \in OpToRel(<, Nat)) => k <= j
  BY DEF OpToRel
<1>3. \E k \in I : \A j \in I : k <= j
  BY <1>1, <1>2
<1> QED
  BY <1>3

(* The search finds a free buffer, or there is none. *)
LEMMA FreeBuffer ==
    ASSUME last_used_send_buff \in Buffers
    PROVE  \/ get_free_send_idx = NoBuff
           \/ get_free_send_idx \in Buffers \ in_use_send
<1> DEFINE From(k) == (last_used_send_buff + k) % CLIENT_NUM_SEND_BUFFS
           Free == {k \in Buffers : From(k) \notin in_use_send}
           least == CHOOSE k \in Free : \A j \in Free : k <= j
<1>1. get_free_send_idx = IF Free = {} THEN NoBuff ELSE From(least)
  BY DEF get_free_send_idx
<1>2. CASE Free = {}
  BY <1>1, <1>2
<1>3. CASE Free # {}
  <2>1. Free \subseteq Nat
    BY BufferNumbers
  <2>2. least \in Free
    <3> HIDE DEF Free
    <3> QED
      BY <1>3, <2>1, LeastNumber
  <2> HIDE DEF least
  <2>3. least \in Nat /\ From(least) \notin in_use_send
    BY <2>1, <2>2
  <2>4. From(least) \in Buffers
    BY <2>3, BufferNumbers
  <2> QED
    BY <1>1, <1>3, <2>3, <2>4
<1> QED
  BY <1>2, <1>3
(* From its posting to its completion a message is in its buffer, no two   *)
(* in one, and no other buffer is in use.                                  *)
SendsHeld(s, used, m) ==
    /\ \A i \in 1 .. Len(s) :
          s[i].wr = "SEND" => s[i].buff \in used /\ m[s[i].buff] = s[i].msg
    /\ \A i, j \in 1 .. Len(s) :
          s[i].wr = "SEND" /\ s[j].wr = "SEND" /\ s[i].buff = s[j].buff => i = j
    /\ \A b \in used : \E i \in 1 .. Len(s) : s[i].wr = "SEND" /\ s[i].buff = b

LEMMA SendIsHeld ==
    ASSUME NEW s \in Seq(WorkRequests), NEW used, NEW m,
           m \in [Buffers -> Messages], used \subseteq Buffers,
           SendsHeld(s, used, m),
           NEW b \in Buffers \ used, NEW x \in Messages
    PROVE  SendsHeld(Append(s, [wr |-> "SEND", buff |-> b, msg |-> x]),
                     used \cup {b}, [m EXCEPT ![b] = x])
<1> DEFINE w == [wr |-> "SEND", buff |-> b, msg |-> x]
           a == Append(s, w)
           n == [m EXCEPT ![b] = x]
<1>1. w \in WorkRequests /\ w.wr = "SEND" /\ w.buff = b /\ w.msg = x
  BY MessageSets
<1>2. /\ Len(s) \in Nat /\ Len(a) = Len(s) + 1
      /\ \A i \in 1 .. Len(s) : a[i] = s[i]
      /\ a[Len(s) + 1] = w
  BY <1>1, AppendedTo
<1>3. n[b] = x /\ \A c \in used : n[c] = m[c]
  OBVIOUS
<1> HIDE DEF a, w, n
<1>4. \A i \in 1 .. Len(a) : i \in 1 .. Len(s) \/ i = Len(s) + 1
  BY <1>2
<1>5. (\A i \in 1 .. Len(s) : i \in 1 .. Len(a)) /\ Len(s) + 1 \in 1 .. Len(a)
  BY <1>2
<1>6. ASSUME NEW i \in 1 .. Len(a), a[i].wr = "SEND"
      PROVE  a[i].buff \in used \cup {b} /\ n[a[i].buff] = a[i].msg
  BY <1>1, <1>2, <1>3, <1>4, <1>6 DEF SendsHeld
<1>7. ASSUME NEW i \in 1 .. Len(a), NEW j \in 1 .. Len(a),
             a[i].wr = "SEND", a[j].wr = "SEND", a[i].buff = a[j].buff
      PROVE  i = j
  BY <1>1, <1>2, <1>4, <1>7 DEF SendsHeld
<1>8. ASSUME NEW c \in used \cup {b}
      PROVE  \E i \in 1 .. Len(a) : a[i].wr = "SEND" /\ a[i].buff = c
  BY <1>1, <1>2, <1>5 DEF SendsHeld
<1>9. SendsHeld(a, used \cup {b}, n)
  BY <1>6, <1>7, <1>8 DEF SendsHeld
<1> QED
  BY <1>9 DEF a, w, n

LEMMA TransferIsHeld ==
    ASSUME NEW s \in Seq(WorkRequests), NEW used, NEW m, SendsHeld(s, used, m),
           NEW t \in Tids, NEW e, Transfer(e, t)
    PROVE  SendsHeld(Append(s, e), used, m)
<1> DEFINE a == Append(s, e)
<1>1. e \in WorkRequests /\ e.wr # "SEND"
  BY DEF Transfer
<1>2. /\ Len(s) \in Nat /\ Len(a) = Len(s) + 1
      /\ \A i \in 1 .. Len(s) : a[i] = s[i]
      /\ a[Len(s) + 1] = e
  BY <1>1, AppendedTo
<1> HIDE DEF a
<1>4. \A i \in 1 .. Len(a) : i \in 1 .. Len(s) \/ i = Len(s) + 1
  BY <1>2
<1>5. \A i \in 1 .. Len(s) : i \in 1 .. Len(a)
  BY <1>2
<1>6. SendsHeld(a, used, m)
  BY <1>1, <1>2, <1>4, <1>5 DEF SendsHeld
<1> QED
  BY <1>6 DEF a

(* A completed send gives its buffer back. *)
LEMMA SendIsFreed ==
    ASSUME NEW s \in Seq(WorkRequests), NEW used, NEW m, s # <<>>,
           m \in [Buffers -> Messages], used \subseteq Buffers,
           SendsHeld(s, used, m), Head(s).wr = "SEND"
    PROVE  SendsHeld(Tail(s), used \ {Head(s).buff},
                     [m EXCEPT ![Head(s).buff] = Zeroes])
<1> DEFINE a == Tail(s)
           b == Head(s).buff
           n == [m EXCEPT ![b] = Zeroes]
<1>1. /\ Len(s) \in Nat \ {0}
      /\ Len(a) = Len(s) - 1
      /\ s[1].wr = "SEND" /\ b = s[1].buff
      /\ 1 \in 1 .. Len(s)
      /\ \A i \in 1 .. Len(a) : a[i] = s[i + 1]
      /\ \A i \in 1 .. Len(a) : i + 1 \in 1 .. Len(s)
      /\ \A i \in 1 .. Len(s) :
            i = 1 \/ (i - 1 \in 1 .. Len(a) /\ s[i] = a[i - 1])
  BY HeadTaken
<1>2. \A c \in used : c # b => n[c] = m[c]
  OBVIOUS
<1> HIDE DEF a, b, n
<1>3. ASSUME NEW i \in 1 .. Len(a), a[i].wr = "SEND" PROVE a[i].buff # b
  <2> SUFFICES ASSUME a[i].buff = b PROVE FALSE
    OBVIOUS
  <2>1. i + 1 = 1
    BY <1>1, <1>3 DEF SendsHeld
  <2> QED
    BY <2>1
<1>4. ASSUME NEW i \in 1 .. Len(a), a[i].wr = "SEND"
      PROVE  a[i].buff \in used \ {b} /\ n[a[i].buff] = a[i].msg
  BY <1>1, <1>2, <1>3, <1>4 DEF SendsHeld
<1>5. ASSUME NEW i \in 1 .. Len(a), NEW j \in 1 .. Len(a),
             a[i].wr = "SEND", a[j].wr = "SEND", a[i].buff = a[j].buff
      PROVE  i = j
  <2>1. /\ i + 1 \in 1 .. Len(s) /\ j + 1 \in 1 .. Len(s)
        /\ s[i + 1].wr = "SEND" /\ s[j + 1].wr = "SEND"
        /\ s[i + 1].buff = s[j + 1].buff
    BY <1>1, <1>5
  <2>2. i + 1 = j + 1
    BY <2>1 DEF SendsHeld
  <2> QED
    BY <2>2
<1>6. ASSUME NEW c \in used \ {b}
      PROVE  \E i \in 1 .. Len(a) : a[i].wr = "SEND" /\ a[i].buff = c
  <2>1. PICK i \in 1 .. Len(s) : s[i].wr = "SEND" /\ s[i].buff = c
    BY DEF SendsHeld
  <2>2. i # 1
    BY <1>1, <2>1
  <2> QED
    BY <1>1, <2>1, <2>2
<1>7. SendsHeld(a, used \ {b}, n)
  BY <1>4, <1>5, <1>6 DEF SendsHeld
<1> QED
  BY <1>7 DEF a, b, n

(* A completed write or read leaves the buffers as they are. *)
LEMMA TransferIsDone ==
    ASSUME NEW s \in Seq(WorkRequests), NEW used, NEW m, s # <<>>,
           SendsHeld(s, used, m), Head(s).wr # "SEND"
    PROVE  SendsHeld(Tail(s), used, m)
<1> DEFINE a == Tail(s)
<1>1. /\ Len(s) \in Nat \ {0}
      /\ Len(a) = Len(s) - 1
      /\ s[1].wr # "SEND"
      /\ \A i \in 1 .. Len(a) : a[i] = s[i + 1]
      /\ \A i \in 1 .. Len(a) : i + 1 \in 1 .. Len(s)
      /\ \A i \in 1 .. Len(s) :
            i = 1 \/ (i - 1 \in 1 .. Len(a) /\ s[i] = a[i - 1])
  BY HeadTaken
<1> HIDE DEF a
<1>4. ASSUME NEW i \in 1 .. Len(a), a[i].wr = "SEND"
      PROVE  a[i].buff \in used /\ m[a[i].buff] = a[i].msg
  BY <1>1, <1>4 DEF SendsHeld
<1>5. ASSUME NEW i \in 1 .. Len(a), NEW j \in 1 .. Len(a),
             a[i].wr = "SEND", a[j].wr = "SEND", a[i].buff = a[j].buff
      PROVE  i = j
  <2>1. /\ i + 1 \in 1 .. Len(s) /\ j + 1 \in 1 .. Len(s)
        /\ s[i + 1].wr = "SEND" /\ s[j + 1].wr = "SEND"
        /\ s[i + 1].buff = s[j + 1].buff
    BY <1>1, <1>5
  <2>2. i + 1 = j + 1
    BY <2>1 DEF SendsHeld
  <2> QED
    BY <2>2
<1>6. ASSUME NEW c \in used
      PROVE  \E i \in 1 .. Len(a) : a[i].wr = "SEND" /\ a[i].buff = c
  <2>1. PICK i \in 1 .. Len(s) : s[i].wr = "SEND" /\ s[i].buff = c
    BY DEF SendsHeld
  <2> QED
    BY <1>1, <2>1
<1>7. SendsHeld(a, used, m)
  BY <1>4, <1>5, <1>6 DEF SendsHeld
<1> QED
  BY <1>7 DEF a

(* So there are no more buffers in use than work requests posted.          *)
LEMMA NoMoreThanPosted ==
    ASSUME NEW s \in Seq(WorkRequests), NEW used, NEW m, SendsHeld(s, used, m)
    PROVE  Cardinality(used) <= Len(s)
<1> DEFINE f == [b \in used |-> CHOOSE i \in 1 .. Len(s) :
                                   s[i].wr = "SEND" /\ s[i].buff = b]
<1>1. Len(s) \in Nat
  OBVIOUS
<1>2. IsFiniteSet(1 .. Len(s)) /\ Cardinality(1 .. Len(s)) = Len(s)
  BY <1>1, FS_Interval
<1>3. ASSUME NEW b \in used
      PROVE  f[b] \in 1 .. Len(s) /\ s[f[b]].buff = b
  BY DEF SendsHeld
<1>4. f \in [used -> 1 .. Len(s)]
  BY <1>3
<1> HIDE DEF f
<1>5. \A b, c \in used : f[b] = f[c] => b = c
  BY <1>3
<1>6. f \in Injection(used, 1 .. Len(s))
  BY <1>4, <1>5 DEF Injection, IsInjective
<1> QED
  BY <1>2, <1>6, FS_Injection
-----------------------------------------------------------------------------
(* The client's inductive invariant.                                       *)

(* The client is in the call, or waits for a completion in the midst of it.*)
In(step) ==
    in_call = step \/ (in_call = "client_wait_completions" /\ back = step)

(* kv_set or kv_get has a new tid, and has not posted its request.         *)
Making == In("kv_set") \/ In("kv_get") \/ In("remaining_requests")

(* kv_open has not come to its end. *)
Opening == in_call \in ClientCalls \cup {"connecting", "socket"}

(* The client was told to end at once, and will not poll any more.         *)
LastCalls ==
    /\ client_shutdown
    /\ in_call \in {"client_close_ctx", "ibv_destroy_qp", "exit"}

ClientTypes ==
    /\ ClientLifeTypeOK
    /\ back \in {"idle", "kv_set", "kv_get", "remaining_requests",
                 "is_pending", "kv_close", "ibv_destroy_qp"}
    /\ sq \in Seq(WorkRequests)
    /\ cur \in [msg : Messages, buff : Buffers \cup {NoBuff}]
    /\ ops \in 0 .. MaxOps
    /\ asked \subseteq Tids
    /\ incoming \subseteq Tids \cup {0}

(* A request is owed an answer, or its answer has arrived, or its value is *)
(* written or read, or its GET has been answered: one of these.            *)
OneStage ==
    /\ \A t \in Tids :
          /\ t \in asked => t \notin incoming \cup TransfersOf(sq) \cup answered
          /\ t \in incoming => t \notin TransfersOf(sq) \cup answered
          /\ t \in TransfersOf(sq) => t \notin answered
    /\ OneTransferEach(sq)

(* What is to come for a request finds its record, unless the client ends. *)
RecordsKept ==
    \/ LastCalls
    \/ \A t \in Tids :
          t \in asked \cup incoming \cup TransfersOf(sq) => t \in internal_q

(* Every tid in use was given by get_new_tid, and not the one in the hand. *)
TidsAreGiven ==
    /\ \A t \in Tids :
          t \in internal_q \cup asked \cup incoming \cup answered \cup TransfersOf(sq)
             => t <= ops /\ (Making => t # ops)
    /\ Making => cur.msg \in Requests /\ Tid = ops

NothingAskedYet == Opening => asked = {} /\ incoming \subseteq {0} /\ sq = <<>>

RecordsInv ==
    /\ OneStage /\ RecordsKept /\ TidsAreGiven /\ NothingAskedYet
    /\ in_call # "crash"

(* Until kv_set has waited with a buffer in its hand, that buffer is free. *)
SendsInv ==
    /\ In("remaining_requests") => cur.buff \in Buffers
    /\ waited \in BOOLEAN
    /\ ~waited =>
          /\ In("remaining_requests") =>
                in_call = "remaining_requests" /\ cur.buff \notin in_use_send
          /\ SendsHeld(sq, in_use_send, mem)

CInv == ClientTypes /\ RecordsInv /\ SendsInv

LEMMA ClientInitHoldsCInv == ClientInit => CInv
<1> SUFFICES ASSUME ClientInit PROVE CInv
  OBVIOUS
<1>1. /\ Buffers # {} /\ 0 \in Buffers /\ Zeroes \in Messages
      /\ MaxOps \in Nat
  BY ClientLifeAssumption DEF Buffers, Messages
<1>2. ClientLifeTypeOK
  BY <1>1 DEF ClientInit, ClientLifeTypeOK, ClientCalls
<1>3. sq \in Seq(WorkRequests) /\ Len(sq) = 0
  BY DEF ClientInit
<1>4. ClientTypes
  BY <1>1, <1>2, <1>3 DEF ClientInit, ClientTypes
<1>5. TransfersOf(sq) = {} /\ OneTransferEach(sq) /\ SendsHeld(sq, {}, mem)
  BY <1>3 DEF TransfersOf, OneTransferEach, SendsHeld
<1>6. ~Making /\ ~In("remaining_requests")
  BY DEF ClientInit, Making, In
<1>7. OneStage /\ RecordsKept /\ TidsAreGiven
  BY <1>5, <1>6 DEF ClientInit, OneStage, RecordsKept, TidsAreGiven
<1>8. RecordsInv
  BY <1>7 DEF ClientInit, RecordsInv, NothingAskedYet
<1>9. SendsInv
  BY <1>5, <1>6 DEF ClientInit, SendsInv
<1> QED
  BY <1>4, <1>8, <1>9 DEF CInv

(* A step that touches neither the requests nor the buffers keeps what is  *)
(* said of them, if it leads into no call it should not.                   *)
LEMMA QuietRecords ==
    ASSUME RecordsInv,
           UNCHANGED <<sq, internal_q, answered, asked, ops>>,
           incoming' \subseteq incoming \cup {0},
           Making' => Making /\ cur'.msg = cur.msg,
           Opening' => Opening,
           LastCalls => LastCalls',
           in_call' # "crash"
    PROVE  RecordsInv'
<1>1. \A t \in Tids : t \in incoming' => t \in incoming
  BY DEF Tids
<1>2. OneStage'
  BY <1>1 DEF RecordsInv, OneStage
<1>3. RecordsKept'
  BY <1>1 DEF RecordsInv, RecordsKept
<1>4. TidsAreGiven'
  BY <1>1 DEF RecordsInv, TidsAreGiven, Tid
<1>5. NothingAskedYet'
  BY DEF RecordsInv, NothingAskedYet
<1> QED
  BY <1>2, <1>3, <1>4, <1>5 DEF RecordsInv

LEMMA QuietSends ==
    ASSUME SendsInv,
           UNCHANGED <<sq, in_use_send, mem, cur, waited>>,
           In("remaining_requests")' => In("remaining_requests"),
           ~waited /\ In("remaining_requests")' => in_call' = "remaining_requests"
    PROVE  SendsInv'
BY DEF SendsInv

(* The calls of the client, told apart. *)
LEMMA ClientCallNames ==
    ASSUME ClientTypes
    PROVE  /\ in_call \in ClientCalls \cup
                 {"connecting", "socket", "idle", "kv_set", "kv_get",
                  "remaining_requests", "is_pending", "kv_close",
                  "client_wait_completions", "client_close_ctx",
                  "ibv_destroy_qp", "exit", "crash"}
           /\ client_shutdown \in BOOLEAN /\ ctx \in BOOLEAN
BY DEF ClientTypes, ClientLifeTypeOK
-----------------------------------------------------------------------------
(* The steps of the client.                                                *)

(* The steps that neither make a request, nor post or complete one.        *)
QuietStep ==
    \/ GetDeviceList \/ client_init_ctx \/ InitFails \/ PostReceives
    \/ Connecting \/ ReadAddress \/ ReadFails \/ OpenFails
    \/ LoopHead \/ EndedByPeer \/ Finish
    \/ NoShutdownMessage \/ DestroyClientObjects
    \/ client_signal_handler \/ ServerEnds \/ QpError

(* What such a step does to the calls. *)
QuietCalls ==
    /\ UNCHANGED <<sq, internal_q, answered, asked, ops, in_use_send,
                   last_used_send_buff, mem, cur, waited, back>>
    /\ incoming' \subseteq incoming \cup {0}
    /\ Making' => Making
    /\ Opening' => Opening
    /\ LastCalls => LastCalls'
    /\ in_call' \notin {"crash", "client_wait_completions"} \/ in_call' = in_call
    /\ In("remaining_requests")' => In("remaining_requests")

LEMMA QuietStepCalls == ClientTypes /\ QuietStep => QuietCalls
<1> SUFFICES ASSUME ClientTypes, QuietStep PROVE QuietCalls
  OBVIOUS
<1> USE DEF Making, In, Opening, LastCalls, QuietCalls, ClientCalls,
            call, process, queue, records, buffs, peer, Opens
<1>1. CASE GetDeviceList \/ client_init_ctx \/ PostReceives
  BY <1>1 DEF GetDeviceList, client_init_ctx, PostReceives
<1>2. CASE InitFails \/ ReadAddress \/ ReadFails
  BY <1>2 DEF InitFails, ReadAddress, ReadFails
<1>3. CASE Connecting
  BY <1>3 DEF Connecting
<1>4. CASE OpenFails
  BY <1>4, ClientLifeAssumption DEF OpenFails
<1>5. CASE LoopHead
  BY <1>5 DEF LoopHead, ClientTypes
<1>6. CASE EndedByPeer
  BY <1>6 DEF EndedByPeer
<1>7. CASE Finish \/ NoShutdownMessage \/ DestroyClientObjects
  BY <1>7 DEF Finish, NoShutdownMessage, DestroyClientObjects
<1>8. CASE client_signal_handler
  BY <1>8 DEF client_signal_handler
<1>9. CASE ServerEnds \/ QpError
  BY <1>9 DEF ServerEnds, QpError
<1> QED
  BY <1>1, <1>2, <1>3, <1>4, <1>5, <1>6, <1>7, <1>8, <1>9 DEF QuietStep

LEMMA QuietStepTypes == ClientTypes /\ QuietStep => ClientTypes'
<1> SUFFICES ASSUME ClientTypes, QuietStep PROVE ClientTypes'
  OBVIOUS
<1>1. QuietCalls
  BY QuietStepCalls
<1>2. /\ in_call' \in ClientCalls \cup
            {"connecting", "socket", "idle", "kv_set", "kv_get",
             "remaining_requests", "is_pending", "kv_close",
             "client_wait_completions", "client_close_ctx", "ibv_destroy_qp",
             "exit", "crash"}
      /\ client_shutdown' \in BOOLEAN /\ ctx' \in BOOLEAN
      /\ qp' \in {"none", "INIT", "RTS", "ERR"}
  <2> USE DEF ClientTypes, ClientLifeTypeOK, ClientCalls, call, process, queue,
              Opens
  <2>1. CASE GetDeviceList \/ client_init_ctx \/ PostReceives
    BY <2>1 DEF GetDeviceList, client_init_ctx, PostReceives
  <2>2. CASE InitFails \/ ReadAddress \/ ReadFails
    BY <2>2 DEF InitFails, ReadAddress, ReadFails
  <2>3. CASE Connecting
    BY <2>3 DEF Connecting
  <2>4. CASE OpenFails
    BY <2>4 DEF OpenFails
  <2>5. CASE LoopHead
    BY <2>5 DEF LoopHead
  <2>6. CASE EndedByPeer
    BY <2>6 DEF EndedByPeer
  <2>7. CASE Finish \/ NoShutdownMessage \/ DestroyClientObjects
    BY <2>7 DEF Finish, NoShutdownMessage, DestroyClientObjects
  <2>8. CASE client_signal_handler
    BY <2>8 DEF client_signal_handler
  <2>9. CASE ServerEnds \/ QpError
    BY <2>9 DEF ServerEnds, QpError
  <2> QED
    BY <2>1, <2>2, <2>3, <2>4, <2>5, <2>6, <2>7, <2>8, <2>9 DEF QuietStep
<1>3. /\ back' = back /\ sq' = sq /\ cur' = cur /\ ops' = ops /\ asked' = asked
      /\ internal_q' = internal_q /\ answered' = answered
      /\ in_use_send' = in_use_send /\ mem' = mem
      /\ last_used_send_buff' = last_used_send_buff
      /\ incoming' \subseteq Tids \cup {0}
  BY <1>1 DEF QuietCalls, ClientTypes
<1>4. ClientLifeTypeOK'
  BY <1>2, <1>3 DEF ClientLifeTypeOK, ClientTypes
<1> QED
  BY <1>3, <1>4 DEF ClientTypes

LEMMA QuietStepKeepsCInv == CInv /\ QuietStep => CInv'
<1> SUFFICES ASSUME CInv, QuietStep PROVE CInv'
  OBVIOUS
<1>1. QuietCalls /\ ClientTypes'
  BY QuietStepCalls, QuietStepTypes DEF CInv
<1>2. in_call' # "crash"
  BY <1>1 DEF QuietCalls, CInv, RecordsInv
<1>3. RecordsInv'
  BY <1>1, <1>2, QuietRecords DEF QuietCalls, CInv
<1>4. ~waited /\ In("remaining_requests")' => in_call' = "remaining_requests"
  BY <1>1 DEF QuietCalls, CInv, SendsInv, In
<1>5. SendsInv'
  BY <1>1, <1>4, QuietSends DEF QuietCalls, CInv
<1> QED
  BY <1>1, <1>3, <1>5 DEF CInv
(* A call begins. *)
LEMMA StartKeepsCInv ==
    ASSUME CInv,
           Start("SET", "kv_set") \/ Start("EAGER_SET", "kv_set")
              \/ Start("GET", "kv_get")
    PROVE  CInv'
<1>1. PICK kind \in {"SET", "EAGER_SET", "GET"}, where \in {"kv_set", "kv_get"} :
         Start(kind, where)
  OBVIOUS
<1>2. /\ in_call = "idle" /\ in_call' = where /\ ops < MaxOps /\ ops' = ops + 1
      /\ cur' = [msg |-> <<kind, ops + 1>>, buff |-> NoBuff]
      /\ UNCHANGED <<back, waited, process, queue, records, buffs, peer>>
  BY <1>1 DEF Start
<1>3. MaxOps \in Nat /\ ops \in 0 .. MaxOps
  BY ClientLifeAssumption DEF CInv, ClientTypes
<1>4. ops' \in Tids /\ ops' \in 0 .. MaxOps
  BY <1>2, <1>3 DEF Tids
<1>5. <<kind, ops'>> \in Requests
  BY <1>4 DEF Requests
<1>6. cur' \in [msg : Messages, buff : Buffers \cup {NoBuff}] /\ cur'.msg = <<kind, ops'>>
  BY <1>2, <1>5, MessageSets
<1>7. ClientTypes'
  BY <1>2, <1>4, <1>6
     DEF CInv, ClientTypes, ClientLifeTypeOK, process, queue, records, buffs, peer
<1>8. RecordsInv'
  <2>1. OneStage' /\ RecordsKept'
    BY <1>2 DEF CInv, RecordsInv, OneStage, RecordsKept, LastCalls, queue, records,
                peer, process
  <2>2. \A t \in Tids : t <= ops => t <= ops' /\ t # ops'
    BY <1>2, <1>3 DEF Tids
  <2>3. TidsAreGiven'
    BY <1>2, <1>5, <1>6, <2>2
       DEF CInv, RecordsInv, TidsAreGiven, Tid, queue, records, peer
  <2>4. ~Opening' /\ in_call' # "crash"
    BY <1>2 DEF Opening, ClientCalls
  <2> QED
    BY <2>1, <2>3, <2>4 DEF RecordsInv, NothingAskedYet
<1>9. SendsInv'
  BY <1>2 DEF CInv, SendsInv, In, queue, buffs
<1> QED
  BY <1>7, <1>8, <1>9 DEF CInv

(* kv_set finds its buffer. *)
LEMMA FindBufferKeepsCInv == CInv /\ FindBuffer => CInv'
<1> SUFFICES ASSUME CInv, FindBuffer PROVE CInv'
  OBVIOUS
<1>1. last_used_send_buff \in Buffers
  BY DEF CInv, ClientTypes, ClientLifeTypeOK
<1>2. /\ in_call = "kv_set"
      /\ UNCHANGED <<waited, ops, process, queue, records, in_use_send, mem, peer>>
      /\ \/ /\ in_call' = "client_wait_completions" /\ back' = "kv_set"
            /\ UNCHANGED <<cur, last_used_send_buff>>
         \/ /\ in_call' = "remaining_requests" /\ UNCHANGED back
            /\ cur' = [cur EXCEPT !.buff = get_free_send_idx]
            /\ last_used_send_buff' = get_free_send_idx
            /\ get_free_send_idx \in Buffers \ in_use_send
  BY <1>1, FreeBuffer DEF FindBuffer, Wait
<1>3. /\ cur' \in [msg : Messages, buff : Buffers \cup {NoBuff}]
      /\ cur'.msg = cur.msg
      /\ last_used_send_buff' \in Buffers
      /\ in_call' = "remaining_requests" => cur'.buff \in Buffers \ in_use_send
  BY <1>1, <1>2 DEF CInv, ClientTypes
<1>4. ClientTypes'
  BY <1>2, <1>3 DEF CInv, ClientTypes, ClientLifeTypeOK, process, queue, records, peer
<1>5. RecordsInv'
  <2>1. Making /\ ~Opening' /\ ~LastCalls /\ in_call' # "crash"
    BY <1>2 DEF Making, In, Opening, LastCalls, ClientCalls
  <2> QED
    BY <1>2, <1>3, <2>1, QuietRecords DEF CInv, queue, records, peer
<1>6. SendsInv'
  BY <1>2, <1>3 DEF CInv, SendsInv, In, queue
<1> QED
  BY <1>4, <1>5, <1>6 DEF CInv

(* A message goes out from a buffer. *)
LEMMA PostedTypes ==
    ASSUME ClientTypes, NEW b \in Buffers, NEW m \in Messages,
           client_post_send(b, m)
    PROVE  /\ in_use_send' \subseteq Buffers
           /\ mem' \in [Buffers -> Messages]
           /\ sq' \in Seq(WorkRequests)
<1>1. [wr |-> "SEND", buff |-> b, msg |-> m] \in WorkRequests
  BY MessageSets
<1> QED
  BY <1>1, AppendedTo DEF ClientTypes, ClientLifeTypeOK, client_post_send

LEMMA PostedSends ==
    ASSUME ClientTypes, SendsInv, NEW b \in Buffers, NEW m \in Messages,
           client_post_send(b, m), b \notin in_use_send \/ waited,
           UNCHANGED waited, ~In("remaining_requests")'
    PROVE  SendsInv'
<1>1. ~waited => SendsHeld(sq', in_use_send', mem')
  BY SendIsHeld DEF client_post_send, SendsInv, ClientTypes, ClientLifeTypeOK
<1> QED
  BY <1>1 DEF SendsInv

LEMMA PostedWrites ==
    ASSUME ClientTypes, OneTransferEach(sq), NEW b \in Buffers, NEW m \in Messages,
           client_post_send(b, m)
    PROVE  TransfersOf(sq') = TransfersOf(sq) /\ OneTransferEach(sq')
<1>1. [wr |-> "SEND", buff |-> b, msg |-> m] \in WorkRequests
  BY MessageSets
<1> QED
  BY <1>1, SendIsPosted DEF ClientTypes, client_post_send

(* A request goes out, and but for an eager SET it is recorded. *)
LEMMA RequestPosted ==
    ASSUME CInv, NEW b \in Buffers, NEW where \in {"idle", "is_pending"},
           Post(b, where), b \notin in_use_send \/ waited, Making,
           in_call \notin {"client_close_ctx", "ibv_destroy_qp", "exit"},
           UNCHANGED <<cur, waited, ops, process, qp, arrived, answered,
                       incoming, server>>,
           last_used_send_buff' \in Buffers
    PROVE  CInv'
<1>1. /\ client_post_send(b, cur.msg) /\ in_call' = where /\ UNCHANGED back
      /\ \/ UNCHANGED <<internal_q, asked>>
         \/ internal_q' = internal_q \cup {Tid} /\ asked' = asked \cup {Tid}
  BY DEF Post
<1>2. cur.msg \in Requests /\ Tid = ops /\ cur.msg \in Messages /\ Tid \in Tids
  BY MessageSets DEF CInv, RecordsInv, TidsAreGiven, Tid
<1>3. ClientTypes'
  BY <1>1, <1>2, PostedTypes DEF CInv, ClientTypes, ClientLifeTypeOK, process
<1>4. ~Making' /\ ~In("remaining_requests")' /\ ~Opening' /\ in_call' # "crash"
  BY <1>1 DEF Making, In, Opening, ClientCalls
<1>5. TransfersOf(sq') = TransfersOf(sq) /\ OneTransferEach(sq')
  BY <1>1, <1>2, PostedWrites DEF CInv, RecordsInv, OneStage
<1>6. Tid \notin internal_q \cup asked \cup incoming \cup answered \cup TransfersOf(sq)
  BY <1>2 DEF CInv, RecordsInv, TidsAreGiven
<1>7. RecordsInv'
  <2>1. OneStage'
    BY <1>1, <1>5, <1>6 DEF CInv, RecordsInv, OneStage
  <2>2. RecordsKept'
    BY <1>1, <1>5 DEF CInv, RecordsInv, RecordsKept, LastCalls
  <2>3. TidsAreGiven'
    <3>1. ops \in Int
      BY DEF CInv, ClientTypes
    <3> QED
      BY <1>1, <1>2, <1>4, <1>5, <3>1 DEF CInv, RecordsInv, TidsAreGiven
  <2> QED
    BY <1>4, <2>1, <2>2, <2>3 DEF RecordsInv, NothingAskedYet
<1>8. SendsInv'
  BY <1>1, <1>2, <1>4, PostedSends DEF CInv
<1> QED
  BY <1>3, <1>7, <1>8 DEF CInv

LEMMA KvSetKeepsCInv == CInv /\ kv_set => CInv'
<1> SUFFICES ASSUME CInv, kv_set PROVE CInv'
  OBVIOUS
<1>1. /\ in_call = "remaining_requests"
      /\ UNCHANGED <<cur, ops, process, qp, arrived, answered,
                     last_used_send_buff, incoming, server>>
  BY DEF kv_set
<1>2. Making
  BY <1>1 DEF Making, In
<1>3. CASE /\ Wait(Iters, "remaining_requests")
           /\ waited' = TRUE
           /\ UNCHANGED <<sq, internal_q, asked, in_use_send, mem>>
  <2>1. in_call' = "client_wait_completions" /\ back' = "remaining_requests"
    BY <1>3 DEF Wait
  <2>2. ClientTypes'
    BY <1>1, <1>3, <2>1 DEF CInv, ClientTypes, ClientLifeTypeOK, process
  <2>3. ~Opening' /\ in_call' # "crash" /\ ~LastCalls
    BY <1>1, <2>1 DEF Opening, ClientCalls, LastCalls
  <2>4. RecordsInv'
    BY <1>1, <1>2, <1>3, <2>3, QuietRecords DEF CInv
  <2>5. SendsInv'
    BY <1>1, <1>3 DEF CInv, SendsInv, In
  <2> QED
    BY <2>2, <2>4, <2>5 DEF CInv
<1>4. CASE Post(cur.buff, "idle") /\ UNCHANGED waited
  <2>1. cur.buff \in Buffers /\ (cur.buff \notin in_use_send \/ waited)
        /\ last_used_send_buff' \in Buffers
    BY <1>1 DEF CInv, SendsInv, In, ClientTypes, ClientLifeTypeOK
  <2> QED
    BY <1>1, <1>2, <1>4, <2>1, RequestPosted
<1> QED
  BY <1>3, <1>4 DEF kv_set

LEMMA KvGetKeepsCInv == CInv /\ kv_get => CInv'
<1> SUFFICES ASSUME CInv, kv_get PROVE CInv'
  OBVIOUS
<1>1. /\ in_call = "kv_get"
      /\ UNCHANGED <<cur, waited, ops, process, qp, arrived, answered,
                     incoming, server>>
  BY DEF kv_get
<1>2. Making
  BY <1>1 DEF Making, In
<1>3. last_used_send_buff \in Buffers
  BY DEF CInv, ClientTypes, ClientLifeTypeOK
<1>4. CASE Wait(1, "kv_get") /\ UNCHANGED <<sq, internal_q, asked, buffs>>
  <2>1. in_call' = "client_wait_completions" /\ back' = "kv_get"
    BY <1>4 DEF Wait
  <2>2. ClientTypes'
    BY <1>1, <1>4, <2>1 DEF CInv, ClientTypes, ClientLifeTypeOK, process, buffs
  <2>3. ~Opening' /\ in_call' # "crash" /\ ~LastCalls
    BY <1>1, <2>1 DEF Opening, ClientCalls, LastCalls
  <2>4. RecordsInv'
    BY <1>1, <1>2, <1>4, <2>3, QuietRecords DEF CInv
  <2>5. ~In("remaining_requests")'
    BY <2>1 DEF In
  <2>6. SendsInv'
    BY <1>1, <1>4, <2>5, QuietSends DEF CInv, buffs
  <2> QED
    BY <2>2, <2>4, <2>6 DEF CInv
<1>5. CASE /\ get_free_send_idx # NoBuff
           /\ Post(get_free_send_idx, "is_pending")
           /\ last_used_send_buff' = get_free_send_idx
  <2>1. get_free_send_idx \in Buffers \ in_use_send
    BY <1>3, <1>5, FreeBuffer
  <2> QED
    BY <1>1, <1>2, <1>5, <2>1, RequestPosted
<1> QED
  BY <1>4, <1>5 DEF kv_get

(* kv_get waits for its answer, or has it and takes the record away.       *)
LEMMA GetPendingKeepsCInv == CInv /\ GetPending => CInv'
<1> SUFFICES ASSUME CInv, GetPending PROVE CInv'
  OBVIOUS
<1>1. /\ in_call = "is_pending"
      /\ UNCHANGED <<cur, waited, ops, process, queue, buffs, peer>>
      /\ \/ in_call' = "idle" /\ Tid \in answered
            /\ internal_q' = internal_q \ {Tid}
            /\ answered' = answered \ {Tid} /\ UNCHANGED back
         \/ in_call' = "client_wait_completions" /\ back' = "is_pending"
            /\ UNCHANGED <<internal_q, answered>>
  BY DEF GetPending, Wait, records
<1>2. ClientTypes'
  BY <1>1 DEF CInv, ClientTypes, ClientLifeTypeOK, process, queue, buffs, peer
<1>3. ~Making' /\ ~Opening' /\ in_call' # "crash" /\ ~LastCalls
      /\ ~In("remaining_requests")'
  BY <1>1 DEF Making, In, Opening, ClientCalls, LastCalls
<1>4. Tid \in answered => Tid \notin asked \cup incoming \cup TransfersOf(sq)
  BY DEF CInv, RecordsInv, OneStage, ClientTypes, ClientLifeTypeOK
<1>5. RecordsInv'
  <2>1. OneStage'
    BY <1>1 DEF CInv, RecordsInv, OneStage, queue, peer
  <2>2. RecordsKept'
    BY <1>1, <1>3, <1>4 DEF CInv, RecordsInv, RecordsKept, queue, peer
  <2>3. TidsAreGiven'
    BY <1>1, <1>3 DEF CInv, RecordsInv, TidsAreGiven, queue, peer
  <2> QED
    BY <1>3, <2>1, <2>2, <2>3 DEF RecordsInv, NothingAskedYet
<1>6. SendsInv'
  BY <1>1, <1>3, QuietSends DEF CInv, queue, buffs
<1> QED
  BY <1>2, <1>5, <1>6 DEF CInv
(* The last thing kv_open does is to make its table. *)
LEMMA OpenEndsKeepsCInv == CInv /\ OpenEnds => CInv'
<1> SUFFICES ASSUME CInv, OpenEnds PROVE CInv'
  OBVIOUS
<1>1. /\ in_call = "connect_ctx" /\ in_call' = "idle" /\ qp' = "RTS"
      /\ internal_q' = {}
      /\ UNCHANGED <<call, process, sq, arrived, answered, buffs, peer>>
  BY DEF OpenEnds, Opens
<1>2. asked = {} /\ incoming \subseteq {0} /\ sq = <<>>
  BY <1>1 DEF CInv, RecordsInv, NothingAskedYet, Opening, ClientCalls
<1>3. ClientTypes'
  BY <1>1 DEF CInv, ClientTypes, ClientLifeTypeOK, call, process, buffs, peer
<1>4. ~Making' /\ ~Opening' /\ in_call' # "crash" /\ ~In("remaining_requests")'
  BY <1>1 DEF Making, In, Opening, ClientCalls
<1>5. RecordsInv'
  <2>1. OneStage'
    BY <1>1 DEF CInv, RecordsInv, OneStage, peer
  <2>2. TransfersOf(sq') = {}
    BY <1>1, <1>2 DEF TransfersOf
  <2>3. \A t \in Tids : t \notin incoming
    BY <1>2 DEF Tids
  <2>4. RecordsKept'
    BY <1>1, <1>2, <2>2, <2>3 DEF RecordsKept, peer
  <2>5. TidsAreGiven'
    BY <1>1, <1>2, <1>4, <2>2, <2>3 DEF CInv, RecordsInv, TidsAreGiven, peer, call
  <2> QED
    BY <1>4, <2>1, <2>4, <2>5 DEF RecordsInv, NothingAskedYet
<1>6. SendsInv'
  BY <1>1, <1>4, QuietSends DEF CInv, call, buffs
<1> QED
  BY <1>3, <1>5, <1>6 DEF CInv

LEMMA NoRecordIsLeft ==
    ASSUME internal_q \subseteq Tids, ~(num_pending_requests > 1)
    PROVE  internal_q = {}
<1>1. IsFiniteSet(Tids)
  BY ClientLifeAssumption, FS_Interval DEF Tids
<1>2. IsFiniteSet(internal_q) /\ Cardinality(internal_q) \in Nat
  BY <1>1, FS_Subset, FS_CardinalityType
<1>3. Cardinality(internal_q) = 0
  BY <1>2 DEF num_pending_requests
<1> QED
  BY <1>2, <1>3, FS_EmptySet

(* kv_close waits, or empties a table that is empty or not needed again.   *)
LEMMA KvCloseKeepsCInv == CInv /\ kv_close => CInv'
<1> SUFFICES ASSUME CInv, kv_close PROVE CInv'
  OBVIOUS
<1>1. /\ in_call = "kv_close"
      /\ UNCHANGED <<cur, waited, ops, client_shutdown, ctx, queue, answered,
                     buffs, peer>>
      /\ \/ /\ in_call' = "client_wait_completions" /\ back' = "kv_close"
            /\ UNCHANGED internal_q
         \/ /\ ~(num_pending_requests > 1) \/ client_shutdown
            /\ in_call' = "client_close_ctx"
            /\ internal_q' = {} /\ UNCHANGED back
  BY DEF kv_close, Wait
<1>2. ClientTypes'
  BY <1>1 DEF CInv, ClientTypes, ClientLifeTypeOK, queue, buffs, peer
<1>3. /\ ~Making' /\ ~Opening' /\ in_call' # "crash" /\ ~LastCalls
      /\ ~In("remaining_requests")'
  BY <1>1 DEF Making, In, Opening, ClientCalls, LastCalls
<1>4. UNCHANGED internal_q \/ LastCalls'
  <2>1. ~(num_pending_requests > 1) => internal_q = {}
    BY NoRecordIsLeft DEF CInv, ClientTypes, ClientLifeTypeOK
  <2> QED
    BY <1>1, <2>1 DEF LastCalls
<1>5. RecordsInv'
  <2>1. OneStage'
    BY <1>1 DEF CInv, RecordsInv, OneStage, queue, peer
  <2>2. RecordsKept'
    BY <1>1, <1>3, <1>4 DEF CInv, RecordsInv, RecordsKept, queue, peer
  <2>3. TidsAreGiven'
    BY <1>1, <1>3 DEF CInv, RecordsInv, TidsAreGiven, queue, peer
  <2> QED
    BY <1>3, <2>1, <2>2, <2>3 DEF RecordsInv, NothingAskedYet
<1>6. SendsInv'
  BY <1>1, <1>3, QuietSends DEF CInv, queue, buffs
<1> QED
  BY <1>2, <1>5, <1>6 DEF CInv

LEMMA ShutdownMessageKeepsCInv == CInv /\ send_client_shutdown_message => CInv'
<1> SUFFICES ASSUME CInv, send_client_shutdown_message PROVE CInv'
  OBVIOUS
<1> DEFINE b == get_free_send_idx
<1>1. /\ in_call = "client_close_ctx"
      /\ b # NoBuff /\ client_post_send(b, Shutdown) /\ last_used_send_buff' = b
      /\ UNCHANGED <<cur, waited, ops, process, qp, arrived, records, peer>>
      /\ \/ client_shutdown /\ in_call' = "ibv_destroy_qp" /\ UNCHANGED back
         \/ in_call' = "client_wait_completions" /\ back' = "ibv_destroy_qp"
            /\ ~client_shutdown
  BY DEF send_client_shutdown_message, Wait
<1>2. b \in Buffers \ in_use_send
  BY <1>1, FreeBuffer DEF CInv, ClientTypes, ClientLifeTypeOK
<1> HIDE DEF b
<1>3. Shutdown \in Messages
  BY MessageSets
<1>4. ClientTypes'
  BY <1>1, <1>2, <1>3, PostedTypes
     DEF CInv, ClientTypes, ClientLifeTypeOK, process, records, peer
<1>5. /\ ~Making' /\ ~Opening' /\ in_call' # "crash" /\ (LastCalls => LastCalls')
      /\ ~In("remaining_requests")'
  BY <1>1 DEF Making, In, Opening, ClientCalls, LastCalls, process
<1>6. TransfersOf(sq') = TransfersOf(sq) /\ OneTransferEach(sq')
  BY <1>1, <1>2, <1>3, PostedWrites DEF CInv, RecordsInv, OneStage
<1>7. RecordsInv'
  <2>1. OneStage'
    BY <1>1, <1>6 DEF CInv, RecordsInv, OneStage, records, peer
  <2>2. RecordsKept'
    BY <1>1, <1>5, <1>6 DEF CInv, RecordsInv, RecordsKept, records, peer
  <2>3. TidsAreGiven'
    BY <1>1, <1>5, <1>6 DEF CInv, RecordsInv, TidsAreGiven, records, peer
  <2> QED
    BY <1>5, <2>1, <2>2, <2>3 DEF RecordsInv, NothingAskedYet
<1>8. SendsInv'
  BY <1>1, <1>2, <1>3, <1>5, PostedSends DEF CInv
<1> QED
  BY <1>4, <1>7, <1>8 DEF CInv

(* A send is done. *)
LEMMA SendCompletesKeepsCInv == CInv /\ SendCompletes => CInv'
<1> SUFFICES ASSUME CInv, SendCompletes PROVE CInv'
  OBVIOUS
<1>1. /\ in_call = "client_wait_completions" /\ sq # <<>> /\ Head(sq).wr = "SEND"
      /\ in_use_send' = in_use_send \ {Head(sq).buff}
      /\ mem' = [mem EXCEPT ![Head(sq).buff] = Zeroes]
      /\ sq' = Tail(sq)
      /\ UNCHANGED <<in_call, back, cur, waited, ops, process, qp, records,
                     last_used_send_buff, peer>>
  BY DEF SendCompletes, Polls, Completes, free_send_buffer, Counted
<1>2. /\ sq' \in Seq(WorkRequests)
      /\ TransfersOf(sq') = TransfersOf(sq) /\ OneTransferEach(sq')
  BY <1>1, HeadIsDone DEF CInv, ClientTypes, RecordsInv, OneStage
<1>3. ClientTypes'
  BY <1>1, <1>2, MessageSets
     DEF CInv, ClientTypes, ClientLifeTypeOK, process, records, peer
<1>4. /\ Making' => Making
      /\ ~Opening' /\ in_call' # "crash" /\ ~LastCalls
      /\ In("remaining_requests")' => In("remaining_requests")
  BY <1>1 DEF Making, In, Opening, ClientCalls, LastCalls
<1>5. RecordsInv'
  <2>1. OneStage'
    BY <1>1, <1>2 DEF CInv, RecordsInv, OneStage, records, peer
  <2>2. RecordsKept'
    BY <1>1, <1>2, <1>4 DEF CInv, RecordsInv, RecordsKept, records, peer
  <2>3. TidsAreGiven'
    BY <1>1, <1>2, <1>4 DEF CInv, RecordsInv, TidsAreGiven, Tid, records, peer
  <2> QED
    BY <1>4, <2>1, <2>2, <2>3 DEF RecordsInv, NothingAskedYet
<1>6. ~waited => SendsHeld(sq', in_use_send', mem')
  BY <1>1, SendIsFreed DEF CInv, SendsInv, ClientTypes, ClientLifeTypeOK
<1>7. SendsInv'
  BY <1>1, <1>4, <1>6 DEF CInv, SendsInv, In
<1> QED
  BY <1>3, <1>5, <1>7 DEF CInv

(* A write or a read is done, and its FIN finds no buffer. *)
LEMMA NoBufferKeepsCInv ==
    ASSUME CInv, in_call = "client_wait_completions", sq # <<>>,
           Head(sq).wr # "SEND", FinHasNoBuffer, UNCHANGED <<process, qp, peer>>
    PROVE  CInv'
<1>1. /\ in_call' = "kv_close" /\ sq' = Tail(sq)
      /\ UNCHANGED <<internal_q, answered, buffs, call>>
  BY DEF FinHasNoBuffer, records
<1>2. /\ sq' \in Seq(WorkRequests) /\ OneTransferEach(sq')
      /\ TransfersOf(sq') \subseteq TransfersOf(sq)
  BY <1>1, HeadIsDone DEF CInv, ClientTypes, RecordsInv, OneStage
<1>3. ~waited => SendsHeld(sq', in_use_send, mem)
  BY <1>1, TransferIsDone DEF CInv, SendsInv, ClientTypes
<1>4. ClientTypes'
  BY <1>1, <1>2 DEF CInv, ClientTypes, ClientLifeTypeOK, process, buffs, call, peer
<1>5. /\ ~Making' /\ ~Opening' /\ in_call' # "crash" /\ ~LastCalls
      /\ ~In("remaining_requests")'
  BY <1>1 DEF Making, In, Opening, ClientCalls, LastCalls
<1>6. OneStage'
  BY <1>1, <1>2 DEF CInv, RecordsInv, OneStage, peer
<1>7. RecordsKept'
  BY <1>1, <1>2, <1>5 DEF CInv, RecordsInv, RecordsKept, peer
<1>8. TidsAreGiven'
  BY <1>1, <1>2, <1>5 DEF CInv, RecordsInv, TidsAreGiven, peer, call
<1>9. RecordsInv'
  BY <1>5, <1>6, <1>7, <1>8 DEF RecordsInv, NothingAskedYet
<1>10. SendsInv'
  BY <1>1, <1>3, <1>5 DEF CInv, SendsInv, buffs, call
<1> QED
  BY <1>4, <1>9, <1>10 DEF CInv

(* It finds one: the record of a SET goes, a GET is marked as answered.    *)
LEMMA FinKeepsCInv ==
    ASSUME CInv, in_call = "client_wait_completions", sq # <<>>,
           Head(sq).wr # "SEND",
           NEW t, t = Head(sq).msg[2],
           NEW b, b = get_free_send_idx, b # NoBuff,
           client_send_rdma_fin(t, b),
           \/ internal_q' = internal_q \ {t} /\ UNCHANGED answered
           \/ answered' = answered \cup {t} /\ UNCHANGED internal_q,
           UNCHANGED <<back, cur, waited, ops, process, qp, peer>>
    PROVE  CInv'
<1> DEFINE w == [wr |-> "SEND", buff |-> b, msg |-> <<"RDMA_FIN", t>>]
<1>1. /\ in_call' = IF t \in internal_q THEN in_call ELSE "crash"
      /\ in_use_send' = in_use_send \cup {b}
      /\ mem' = [mem EXCEPT ![b] = <<"RDMA_FIN", t>>]
      /\ sq' = Append(Tail(sq), w)
      /\ last_used_send_buff' = b
  BY DEF client_send_rdma_fin
<1>2. /\ Tail(sq) \in Seq(WorkRequests) /\ OneTransferEach(Tail(sq))
      /\ t \in TransfersOf(sq) /\ TransfersOf(Tail(sq)) = TransfersOf(sq) \ {t}
  BY HeadIsDone DEF CInv, ClientTypes, RecordsInv, OneStage
<1>3. t \in Tids
  BY <1>2 DEF TransfersOf
<1>4. ~waited => SendsHeld(Tail(sq), in_use_send, mem)
  BY TransferIsDone DEF CInv, SendsInv, ClientTypes
<1>5. b \in Buffers \ in_use_send
  BY FreeBuffer DEF CInv, ClientTypes, ClientLifeTypeOK
<1>6. <<"RDMA_FIN", t>> \in Messages
  BY <1>3, MessageSets
<1>7. w \in WorkRequests /\ w.wr = "SEND"
  BY <1>5, <1>6, MessageSets
<1>8. sq' \in Seq(WorkRequests) /\ OneTransferEach(sq')
      /\ TransfersOf(sq') = TransfersOf(sq) \ {t}
  <2> HIDE DEF w
  <2> QED
    BY <1>1, <1>2, <1>7, SendIsPosted
<1>9. ~LastCalls
  BY DEF LastCalls
<1>10. t \in internal_q
  BY <1>2, <1>3, <1>9 DEF CInv, RecordsInv, RecordsKept
<1>11. in_call' = in_call
  BY <1>1, <1>10
<1>12. ~waited => SendsHeld(sq', in_use_send', mem')
  BY <1>1, <1>2, <1>4, <1>5, <1>6, SendIsHeld DEF CInv, ClientTypes, ClientLifeTypeOK
<1> HIDE DEF w
<1>13. ClientTypes'
  BY <1>1, <1>3, <1>5, <1>6, <1>8, <1>11
     DEF CInv, ClientTypes, ClientLifeTypeOK, process, peer
<1>14. /\ Making' => Making
       /\ ~Opening' /\ in_call' # "crash"
       /\ In("remaining_requests")' => In("remaining_requests")
  BY <1>11 DEF Making, In, Opening, ClientCalls
<1>15. t \notin asked \cup incoming
  BY <1>2, <1>3 DEF CInv, RecordsInv, OneStage
<1>16. OneStage'
  BY <1>8, <1>15 DEF CInv, RecordsInv, OneStage, peer
<1>17. RecordsKept'
  BY <1>8, <1>9, <1>15 DEF CInv, RecordsInv, RecordsKept, peer
<1>18. TidsAreGiven'
  BY <1>2, <1>8, <1>14 DEF CInv, RecordsInv, TidsAreGiven, Tid, peer
<1>19. RecordsInv'
  BY <1>14, <1>16, <1>17, <1>18 DEF RecordsInv, NothingAskedYet
<1>20. ~In("remaining_requests") \/ waited
  BY DEF CInv, SendsInv
<1>21. SendsInv'
  BY <1>12, <1>14, <1>20 DEF CInv, SendsInv
<1> QED
  BY <1>13, <1>19, <1>21 DEF CInv

LEMMA TransferCompletesKeepsCInv ==
    CInv /\ (WriteCompletes \/ ReadCompletes) => CInv'
<1> SUFFICES ASSUME CInv, WriteCompletes \/ ReadCompletes PROVE CInv'
  OBVIOUS
<1> DEFINE t == Head(sq).msg[2]
           b == get_free_send_idx
<1>1. /\ in_call = "client_wait_completions" /\ sq # <<>> /\ Head(sq).wr # "SEND"
      /\ UNCHANGED <<process, qp, peer>>
  BY DEF WriteCompletes, ReadCompletes, Polls, Completes
<1>2. CASE FinHasNoBuffer
  BY <1>1, <1>2, NoBufferKeepsCInv
<1>3. CASE ~FinHasNoBuffer
  <2>1. /\ b # NoBuff /\ client_send_rdma_fin(t, b)
        /\ \/ internal_q' = internal_q \ {t} /\ UNCHANGED answered
           \/ answered' = answered \cup {t} /\ UNCHANGED internal_q
        /\ UNCHANGED <<back, cur, waited, ops>>
    BY <1>3 DEF WriteCompletes, ReadCompletes, Counted
  <2> HIDE DEF t, b
  <2>2. t = Head(sq).msg[2] /\ b = get_free_send_idx
    BY DEF t, b
  <2> QED
    BY <1>1, <2>1, <2>2, FinKeepsCInv
<1> QED
  BY <1>2, <1>3

(* An answer is handled: the GET is marked, or the value read, or written. *)
LEMMA HandleRecvKeepsCInv ==
    ASSUME CInv, NEW t \in Tids, client_handle_recv(t)
    PROVE  CInv'
<1>1. /\ in_call = "client_wait_completions" /\ t \in incoming
      /\ incoming' = incoming \ {t}
      /\ in_call' = IF t \in internal_q THEN in_call ELSE "crash"
      /\ \/ answered' = answered \cup {t} /\ UNCHANGED sq
         \/ sq' = Append(sq, Read(t)) /\ UNCHANGED answered
         \/ sq' = Append(sq, Write(t)) /\ UNCHANGED answered
      /\ UNCHANGED <<back, cur, waited, ops, process, qp, arrived, internal_q,
                     buffs, asked, server>>
  BY DEF client_handle_recv, Polls, Counted
<1>2. ~LastCalls
  BY <1>1 DEF LastCalls
<1>3. in_call' = in_call
  BY <1>1, <1>2 DEF CInv, RecordsInv, RecordsKept
<1>4. t \notin TransfersOf(sq) \cup answered \cup asked /\ OneTransferEach(sq)
  BY <1>1 DEF CInv, RecordsInv, OneStage
<1>5. sq \in Seq(WorkRequests) /\ Transfer(Read(t), t) /\ Transfer(Write(t), t)
  BY MessageSets DEF CInv, ClientTypes
<1>6. /\ sq' \in Seq(WorkRequests) /\ OneTransferEach(sq')
      /\ \/ TransfersOf(sq') = TransfersOf(sq) /\ answered' = answered \cup {t}
         \/ TransfersOf(sq') = TransfersOf(sq) \cup {t} /\ UNCHANGED answered
  <2>1. CASE answered' = answered \cup {t} /\ sq' = sq
    BY <1>4, <1>5, <2>1
  <2>2. CASE sq' = Append(sq, Read(t)) /\ UNCHANGED answered
    BY <1>4, <1>5, <2>2, TransferIsPosted
  <2>3. CASE sq' = Append(sq, Write(t)) /\ UNCHANGED answered
    BY <1>4, <1>5, <2>3, TransferIsPosted
  <2> QED
    BY <1>1, <2>1, <2>2, <2>3
<1>7. ClientTypes'
  BY <1>1, <1>3, <1>6 DEF CInv, ClientTypes, ClientLifeTypeOK, process, buffs
<1>8. /\ Making' => Making
      /\ ~Opening' /\ in_call' # "crash"
      /\ In("remaining_requests")' => In("remaining_requests")
  BY <1>1, <1>3 DEF Making, In, Opening, ClientCalls
<1>9. OneStage'
  BY <1>1, <1>4, <1>6 DEF CInv, RecordsInv, OneStage
<1>10. RecordsKept'
  BY <1>1, <1>2, <1>6 DEF CInv, RecordsInv, RecordsKept
<1>11. TidsAreGiven'
  BY <1>1, <1>6, <1>8 DEF CInv, RecordsInv, TidsAreGiven, Tid
<1>12. RecordsInv'
  BY <1>8, <1>9, <1>10, <1>11 DEF RecordsInv, NothingAskedYet
<1>13. ~waited => SendsHeld(sq', in_use_send', mem')
  BY <1>1, <1>5, TransferIsHeld DEF CInv, SendsInv, buffs
<1>14. ~In("remaining_requests") \/ waited
  BY <1>1 DEF CInv, SendsInv
<1>15. SendsInv'
  BY <1>1, <1>8, <1>13, <1>14 DEF CInv, SendsInv
<1> QED
  BY <1>7, <1>12, <1>15 DEF CInv

(* The server answers. *)
LEMMA AnswerKeepsCInv ==
    ASSUME CInv, NEW t \in Tids, Answer(t)
    PROVE  CInv'
<1>1. /\ t \in asked /\ asked' = asked \ {t} /\ incoming' = incoming \cup {t}
      /\ UNCHANGED <<in_call, call, process, queue, records, buffs, server>>
  BY DEF Answer
<1>2. ClientTypes'
  BY <1>1 DEF CInv, ClientTypes, ClientLifeTypeOK, call, process, queue, records, buffs
<1>3. /\ Making' = Making /\ Opening' = Opening /\ LastCalls' = LastCalls
      /\ In("remaining_requests")' = In("remaining_requests")
  BY <1>1 DEF Making, In, Opening, LastCalls, call, process
<1>4. OneStage'
  BY <1>1 DEF CInv, RecordsInv, OneStage, queue, records
<1>5. RecordsKept'
  BY <1>1, <1>3 DEF CInv, RecordsInv, RecordsKept, queue, records
<1>6. TidsAreGiven'
  BY <1>1, <1>3 DEF CInv, RecordsInv, TidsAreGiven, Tid, queue, records, call
<1>7. NothingAskedYet'
  BY <1>1, <1>3 DEF CInv, RecordsInv, NothingAskedYet
<1>8. RecordsInv'
  BY <1>1, <1>4, <1>5, <1>6, <1>7 DEF CInv, RecordsInv
<1>9. SendsInv'
  BY <1>1, <1>3 DEF CInv, SendsInv, call, queue, buffs
<1> QED
  BY <1>2, <1>8, <1>9 DEF CInv

LEMMA StutterKeepsCInv == CInv /\ UNCHANGED client_vars => CInv'
<1> SUFFICES ASSUME CInv, UNCHANGED client_vars PROVE CInv'
  OBVIOUS
<1> USE DEF client_vars, call, process, queue, records, buffs, peer
<1>1. /\ Making' = Making /\ Opening' = Opening /\ LastCalls' = LastCalls
      /\ In("remaining_requests")' = In("remaining_requests")
  BY DEF Making, In, Opening, LastCalls
<1>2. ClientTypes'
  BY DEF CInv, ClientTypes, ClientLifeTypeOK
<1>3. RecordsInv'
  BY <1>1, QuietRecords DEF CInv, RecordsInv
<1>4. SendsInv'
  BY <1>1 DEF CInv, SendsInv
<1> QED
  BY <1>2, <1>3, <1>4 DEF CInv

(***************************************************************************)
(* What holds of the client from kv_open to its exit: types, one stage per *)
(* request, and one buffer per send.                                       *)
(***************************************************************************)
THEOREM ClientInvariance == ClientSpec => []CInv
<1>1. ASSUME CInv, [ClientNext]_client_vars PROVE CInv'
  <2>1. CASE QuietStep
    BY <1>1, <2>1, QuietStepKeepsCInv
  <2>2. CASE Start("SET", "kv_set") \/ Start("EAGER_SET", "kv_set")
                \/ Start("GET", "kv_get")
    BY <1>1, <2>2, StartKeepsCInv
  <2>3. CASE FindBuffer \/ kv_set \/ kv_get \/ GetPending
    BY <1>1, <2>3, FindBufferKeepsCInv, KvSetKeepsCInv, KvGetKeepsCInv,
       GetPendingKeepsCInv
  <2>4. CASE OpenEnds \/ kv_close \/ send_client_shutdown_message
    BY <1>1, <2>4, OpenEndsKeepsCInv, KvCloseKeepsCInv, ShutdownMessageKeepsCInv
  <2>5. CASE SendCompletes \/ WriteCompletes \/ ReadCompletes
    BY <1>1, <2>5, SendCompletesKeepsCInv, TransferCompletesKeepsCInv
  <2>6. ASSUME NEW t \in Tids, client_handle_recv(t) \/ Answer(t) PROVE CInv'
    BY <1>1, <2>6, HandleRecvKeepsCInv, AnswerKeepsCInv
  <2>7. CASE UNCHANGED client_vars
    BY <1>1, <2>7, StutterKeepsCInv
  <2>8. kv_open => QuietStep \/ OpenEnds
    BY DEF kv_open, QuietStep
  <2>9. Program => QuietStep \/ Start("SET", "kv_set")
                   \/ Start("EAGER_SET", "kv_set") \/ Start("GET", "kv_get")
    BY DEF Program, QuietStep
  <2>10. client_wait_completions =>
            QuietStep \/ SendCompletes \/ WriteCompletes \/ ReadCompletes
            \/ \E t \in Tids : client_handle_recv(t)
    BY DEF client_wait_completions, QuietStep
  <2>11. Close => QuietStep \/ kv_close \/ send_client_shutdown_message
    BY DEF Close, QuietStep
  <2>12. ReadFails \/ ReadAddress \/ InitFails \/ OpenFails
         \/ client_signal_handler \/ ServerEnds \/ QpError => QuietStep
    BY DEF QuietStep
  <2> QED
    BY <1>1, <2>1, <2>2, <2>3, <2>4, <2>5, <2>6, <2>7, <2>8, <2>9, <2>10,
       <2>11, <2>12 DEF ClientNext, Thread
<1> QED
  BY ClientInitHoldsCInv, <1>1, PTL DEF ClientSpec

(***************************************************************************)
(* client.c:613-656, 745-757: whatever is answered or completes, and       *)
(* whenever kv_close empties the table, the record that is used without a  *)
(* question is there.                                                      *)
(***************************************************************************)
THEOREM RecordsAlwaysThere == ClientSpec => []RecordsAreThere
<1>1. CInv => RecordsAreThere
  BY DEF CInv, RecordsInv, RecordsAreThere
<1> QED
  BY <1>1, ClientInvariance, PTL

(***************************************************************************)
(* client.c:506-512, buffers_management.c:49-61: until kv_set has waited   *)
(* with a buffer in its hand, no message is overwritten before it is sent, *)
(* and no buffer stays in use that no posted send holds.                   *)
(***************************************************************************)
THEOREM SendsAlwaysIntact == ClientSpec => []SendsAreIntact
<1>1. CInv => SendsAreIntact
  <2> SUFFICES ASSUME CInv, ~waited
               PROVE  /\ \A i \in DOMAIN sq :
                            sq[i].wr = "SEND" =>
                               sq[i].buff \in in_use_send /\ mem[sq[i].buff] = sq[i].msg
                      /\ Cardinality(in_use_send) <= Len(sq)
    BY DEF SendsAreIntact
  <2>1. SendsHeld(sq, in_use_send, mem) /\ sq \in Seq(WorkRequests)
    BY DEF CInv, SendsInv, ClientTypes
  <2>2. DOMAIN sq = 1 .. Len(sq)
    BY <2>1
  <2> QED
    BY <2>1, <2>2, NoMoreThanPosted DEF SendsHeld
<1> QED
  BY <1>1, ClientInvariance, PTL

(* Every variable of the client holds what its declaration says.           *)
THEOREM ClientTypeCorrect == ClientSpec => []ClientLifeTypeOK
<1>1. CInv => ClientLifeTypeOK
  BY DEF CInv, ClientTypes
<1> QED
  BY <1>1, ClientInvariance, PTL
-----------------------------------------------------------------------------
(* The three of them, side by side as MCLives runs them.                   *)

LEMMA PartsMoveAlone ==
    [LivesNext]_lives =>
        [PairsNext]_pairs_vars /\ [ServerNext]_server_vars /\ [ClientNext]_client_vars
BY DEF LivesNext, lives

(***************************************************************************)
(* The variables of the queue pairs, of the server and of the client hold  *)
(* what their declarations say.                                            *)
(***************************************************************************)
THEOREM LivesTypeCorrect == LivesSpec => []LivesTypeOK
<1>1. LivesInit => PairsInit /\ ServerInit /\ ClientInit
  BY DEF LivesInit
<1>2. LivesSpec => PairsSpec /\ ServerSpec /\ ClientSpec
  BY <1>1, PartsMoveAlone, PTL DEF LivesSpec, PairsSpec, ServerSpec, ClientSpec
<1>3. PairsSpec /\ ServerSpec /\ ClientSpec => []LivesTypeOK
  <2>1. QueuePairsTypeOK /\ ServerLifeTypeOK /\ ClientLifeTypeOK => LivesTypeOK
    BY DEF LivesTypeOK
  <2> QED
    BY <2>1, PairsTypes, ServerTypeCorrect, ClientTypeCorrect, PTL
<1> QED
  BY <1>2, <1>3

=============================================================================
