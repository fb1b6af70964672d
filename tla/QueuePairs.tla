----------------------------- MODULE QueuePairs -----------------------------
(***************************************************************************)
(* How a client's queue pair and one of the server's become a connection:  *)
(* both are made, the sides tell each other queue pair number and starting *)
(* packet number over TCP, each modifies its own to ready-to-receive and   *)
(* ready-to-send with what it was told, and the server posts its receives  *)
(* last (src/common/connection.c, kv_open and client_exch_dest of          *)
(* src/client.c, handle_received_connection_data of src/server.c).  Slots  *)
(* are the business of Connections; here no client leaves once connected.  *)
(***************************************************************************)
EXTENDS Integers, FiniteSets

CONSTANTS
    Clients,
    NoClient,
    Psns,       \* the packet numbers a side may draw
    MaxQps,     \* bound: how many queue pairs the server makes
    RECV_BUFFS  \* receives that the server posts for a connection

ASSUME QueuePairsAssumption ==
    /\ IsFiniteSet(Clients)
    /\ NoClient \notin Clients
    /\ MaxQps \in Nat
    /\ Clients \cap 0 .. MaxQps = {}
    /\ RECV_BUFFS \in Nat \ {0}

(* A client has one queue pair, named after it; the server's have numbers. *)
Qpns   == Clients \cup 1 .. MaxQps
NoQp   == 0
NoDest == [qpn |-> NoQp, psn |-> 0]

VARIABLES
    qps,      \* the queue pairs: state, packet numbers, destination, receives
    my_dest,  \* ctx->my_dest of the server, and my_dest of each kv_open
    thread,   \* where the server is: "loop", "done", "recvs" or "down"
    serving,  \* the client whose address the server has taken
    made,     \* how many queue pairs the server has made
    pc,       \* where the client is in kv_open
    msg,      \* the address a client has written, until the server takes it
    answer,   \* the address the server has sent
    sent,     \* clients whose first request is with their device
    received  \* clients whose first request has reached the server

pairs_vars == <<qps, my_dest, thread, serving, made, pc, msg, answer, sent,
                received>>

-----------------------------------------------------------------------------
(* A queue pair right after ibv_create_qp and ibv_modify_qp to INIT. *)
NewQp == [state |-> "INIT", rq_psn |-> 0, sq_psn |-> 0, dest |-> NoQp, recvs |-> 0]

(* connect_ctx: INIT to RTR with what the other side said, then to RTS.    *)
connect_ctx(q, my_psn, rem_dest) ==
    [q EXCEPT !.state = "RTS", !.dest = rem_dest.qpn,
              !.rq_psn = rem_dest.psn, !.sq_psn = my_psn]

-----------------------------------------------------------------------------
(* The client: kv_open.                                                    *)

(* client_init_ctx and the receives, all posted before anybody knows of    *)
(* the queue pair; then the address goes out.                              *)
WriteAddress(c) ==
    /\ pc[c] = "out"
    /\ \E psn \in Psns :
          /\ my_dest' = [my_dest EXCEPT ![c] = [qpn |-> c, psn |-> psn]]
          /\ msg' = [msg EXCEPT ![c] = my_dest'[c]]
    /\ qps' = [qps EXCEPT ![c] = [NewQp EXCEPT !.recvs = RECV_BUFFS]]
    /\ pc' = [pc EXCEPT ![c] = "exchange"]
    /\ UNCHANGED <<thread, serving, made, answer, sent, received>>

(* client_exch_dest has read the answer and writes "done" at once: before  *)
(* the client's own queue pair is connected.                               *)
WriteDone(c) ==
    /\ pc[c] = "exchange"
    /\ answer[c] # NoDest
    /\ pc' = [pc EXCEPT ![c] = "done"]
    /\ UNCHANGED <<qps, my_dest, thread, serving, made, msg, answer, sent, received>>

ConnectQp(c) ==
    /\ pc[c] = "done"
    /\ qps' = [qps EXCEPT ![c] = connect_ctx(@, my_dest[c].psn, answer[c])]
    /\ pc' = [pc EXCEPT ![c] = "open"]
    /\ UNCHANGED <<my_dest, thread, serving, made, msg, answer, sent, received>>

(* ibv_modify_qp fails, or the exchange does: kv_close, and the process    *)
(* ends.  Its end of the TCP connection is closed with it.                 *)
GivesUp(c) ==
    /\ \/ pc[c] = "exchange" /\ pc' = [pc EXCEPT ![c] = "gone"]
       \/ pc[c] = "done" /\ pc' = [pc EXCEPT ![c] = "gone after done"]
    /\ qps' = [qps EXCEPT ![c].state = "gone"]
    /\ UNCHANGED <<my_dest, thread, serving, made, msg, answer, sent, received>>

(* The application's first request, at any time after kv_open. *)
FirstRequest(c) ==
    /\ pc[c] = "open"
    /\ c \notin sent
    /\ sent' = sent \cup {c}
    /\ UNCHANGED <<qps, my_dest, thread, serving, made, pc, msg, answer, received>>

-----------------------------------------------------------------------------
(* The server: handle_received_connection_data.                            *)

(* Mutant: the answer is written before the new address is in my_dest.     *)
AnswerBeforeAddress(c, psn) ==
    LET n == made + 1 IN
    /\ answer' = [answer EXCEPT ![c] = my_dest[NoClient]]
    /\ my_dest' = [my_dest EXCEPT ![NoClient] = [qpn |-> n, psn |-> psn]]
    /\ qps' = [qps EXCEPT ![n] = connect_ctx(NewQp, psn, msg[c])]

(* The address of the new queue pair goes into the context that all        *)
(* connections share, from there into the queue pair and into the answer.  *)
AnswerAddress(c, psn) ==
    LET n == made + 1 IN
    /\ my_dest' = [my_dest EXCEPT ![NoClient] = [qpn |-> n, psn |-> psn]]
    /\ qps' = [qps EXCEPT ![n] = connect_ctx(NewQp, my_dest'[NoClient].psn, msg[c])]
    /\ answer' = [answer EXCEPT ![c] = my_dest'[NoClient]]

(* The server takes the address of one client, answers, and blocks. *)
handle_received_connection_data(c) ==
    /\ thread = "loop"
    /\ msg[c] # NoDest
    /\ made < MaxQps
    /\ \E psn \in Psns : AnswerAddress(c, psn)
    /\ made' = made + 1
    /\ msg' = [msg EXCEPT ![c] = NoDest]
    /\ serving' = c
    /\ thread' = "done"
    /\ UNCHANGED <<pc, sent, received>>

(* ibv_modify_qp fails: the queue pair stays as it is, nobody destroys it, *)
(* and the client is not answered.                                         *)
AnswerFails(c) ==
    /\ thread = "loop"
    /\ msg[c] # NoDest
    /\ made < MaxQps
    /\ \E psn \in Psns :
          my_dest' = [my_dest EXCEPT ![NoClient] = [qpn |-> made + 1, psn |-> psn]]
    /\ qps' = [qps EXCEPT ![made + 1] = NewQp]
    /\ made' = made + 1
    /\ msg' = [msg EXCEPT ![c] = NoDest]
    /\ UNCHANGED <<thread, serving, pc, answer, sent, received>>

(* send_address_back_to_client has read "done". *)
ReadDone ==
    /\ thread = "done"
    /\ pc[serving] \in {"done", "open", "gone after done"}
    /\ thread' = "recvs"
    /\ UNCHANGED <<qps, my_dest, serving, made, pc, msg, answer, sent, received>>

(* It finds the connection closed before: the server exits. *)
ReadDoneFails ==
    /\ thread = "done"
    /\ pc[serving] = "gone"
    /\ thread' = "down"
    /\ UNCHANGED <<qps, my_dest, serving, made, pc, msg, answer, sent, received>>

(* server_post_recv_buffers, the last thing done for a new connection. *)
server_post_recv_buffers ==
    /\ thread = "recvs"
    /\ qps' = [qps EXCEPT ![answer[serving].qpn].recvs = RECV_BUFFS]
    /\ serving' = NoClient
    /\ thread' = "loop"
    /\ UNCHANGED <<my_dest, made, pc, msg, answer, sent, received>>

-----------------------------------------------------------------------------
(* The devices.                                                            *)

(* Packets of queue pair q are taken by the one it names when that is      *)
(* ready to receive, names q, and expects q's packet number.               *)
Matches(q) ==
    LET there == qps[q].dest IN
    /\ qps[q].state = "RTS"
    /\ there # NoQp
    /\ qps[there].state = "RTS"
    /\ qps[there].dest = q
    /\ qps[there].rq_psn = qps[q].sq_psn

(* Mutant: the sender gives up when the receiver is not ready yet. *)
ReceiverNotReadyEnds(c) ==
    /\ qps' = [qps EXCEPT ![c].state = "ERR"]
    /\ UNCHANGED received

(* A request that meets no posted receive is sent again later: rnr_retry   *)
(* is 7, which means without end.                                          *)
ReceiverNotReady(c) == UNCHANGED <<qps, received>>

(* The first request of c reaches the server's queue pair. *)
Deliver(c) ==
    /\ c \in sent \ received
    /\ thread # "down"
    /\ Matches(c)
    /\ \/ /\ qps[qps[c].dest].recvs > 0
          /\ qps' = [qps EXCEPT ![qps[c].dest].recvs = @ - 1]
          /\ received' = received \cup {c}
       \/ /\ qps[qps[c].dest].recvs = 0
          /\ ReceiverNotReady(c)
    /\ UNCHANGED <<my_dest, thread, serving, made, pc, msg, answer, sent>>

(* Nothing takes the packets: the retries run out. *)
RetriesRunOut(c) ==
    /\ c \in sent \ received
    /\ qps[c].state = "RTS"
    /\ thread = "down" \/ ~Matches(c)
    /\ qps' = [qps EXCEPT ![c].state = "ERR"]
    /\ UNCHANGED <<my_dest, thread, serving, made, pc, msg, answer, sent, received>>

-----------------------------------------------------------------------------
PairsInit ==
    /\ qps = [q \in Qpns |-> [NewQp EXCEPT !.state = "none"]]
    /\ my_dest = [c \in Clients \cup {NoClient} |-> NoDest]
    /\ thread = "loop"
    /\ serving = NoClient
    /\ made = 0
    /\ pc = [c \in Clients |-> "out"]
    /\ msg = [c \in Clients |-> NoDest]
    /\ answer = [c \in Clients |-> NoDest]
    /\ sent = {}
    /\ received = {}

ServerStep ==
    \/ \E c \in Clients : handle_received_connection_data(c) \/ AnswerFails(c)
    \/ ReadDone
    \/ ReadDoneFails
    \/ server_post_recv_buffers

OpeningStep(c) == WriteAddress(c) \/ WriteDone(c) \/ ConnectQp(c) \/ FirstRequest(c)

PairsNext ==
    \/ ServerStep
    \/ \E c \in Clients :
          OpeningStep(c) \/ GivesUp(c) \/ Deliver(c) \/ RetriesRunOut(c)

PairsSpec == PairsInit /\ [][PairsNext]_pairs_vars

-----------------------------------------------------------------------------
(* Every variable holds what its declaration says. *)
QueuePairsTypeOK ==
    /\ qps \in [Qpns -> [state : {"none", "INIT", "RTS", "ERR", "gone"},
                        rq_psn : Psns \cup {0}, sq_psn : Psns \cup {0},
                        dest : Qpns \cup {NoQp}, recvs : 0 .. RECV_BUFFS]]
    /\ thread \in {"loop", "done", "recvs", "down"}
    /\ serving \in Clients \cup {NoClient}
    /\ made \in 0 .. MaxQps
    /\ pc \in [Clients -> {"out", "exchange", "done", "open", "gone",
                         "gone after done"}]
    /\ received \subseteq sent

(***************************************************************************)
(* connection.c:33-83, server.c:57-73: a client that kv_open has connected *)
(* shares numbers with one queue pair of the server in both directions,    *)
(* and with no other; although the server keeps its own address in a       *)
(* context that every new connection overwrites.                           *)
(***************************************************************************)
PairsMatch ==
    \A c \in Clients :
        pc[c] = "open" =>
            /\ qps[c].dest \in 1 .. made
            /\ qps[qps[c].dest].dest = c
            /\ qps[qps[c].dest].rq_psn = qps[c].sq_psn
            /\ qps[c].rq_psn = qps[qps[c].dest].sq_psn
            /\ \A n \in 1 .. made : qps[n].dest = c => n = qps[c].dest

(***************************************************************************)
(* A client's first request reaches the server unless the server exits,    *)
(* although the client may send before the server has read "done", and so  *)
(* before there is a receive for it: what connects the two is the endless  *)
(* retry that connection.c:69 asks for.                                    *)
(***************************************************************************)
FirstRequestArrives ==
    \A c \in Clients : c \in sent ~> (c \in received \/ thread = "down")
=============================================================================
