------------------------------ MODULE MCLives ------------------------------
(***************************************************************************)
(* Small instances, in one run, of the modules that follow one process or  *)
(* one connection from its start to its end: a connection's two queue      *)
(* pairs, the server, the client.  They share no variable: each behaviour  *)
(* moves one of them and leaves the others at their start.                 *)
(***************************************************************************)
EXTENDS QueuePairs, ServerLife, ClientLife

CONSTANTS c1, c2

VARIABLE part  \* the part that moves

lives == <<part, pairs_vars, server_vars, client_vars>>

LivesInit ==
    /\ part \in {"queue pairs", "server", "client"}
    /\ PairsInit /\ ServerInit /\ ClientInit

LivesNext ==
    /\ UNCHANGED part
    /\ \/ /\ part = "queue pairs"
          /\ PairsNext
          /\ UNCHANGED <<server_vars, client_vars>>
       \/ /\ part = "server"
          /\ ServerNext
          /\ UNCHANGED <<pairs_vars, client_vars>>
       \/ /\ part = "client"
          /\ ClientNext
          /\ UNCHANGED <<pairs_vars, server_vars>>

(***************************************************************************)
(* A connection: the server's thread goes on, a client in the middle of    *)
(* kv_open does, and a device tries again.  No client has to send.         *)
(***************************************************************************)
PairsFairness ==
    /\ WF_pairs_vars(part = "queue pairs" /\ ServerStep)
    /\ \A c \in Clients :
          /\ WF_pairs_vars(part = "queue pairs" /\ WriteDone(c))
          /\ WF_pairs_vars(part = "queue pairs" /\ ConnectQp(c))
          /\ WF_pairs_vars(part = "queue pairs" /\ Deliver(c))

(***************************************************************************)
(* The server: its thread goes on and sends complete; no more peers come   *)
(* after the last that is accepted.  No client has to send a request, to   *)
(* finish the exchange of addresses, or to leave it.                       *)
(***************************************************************************)
ServerFairness ==
    /\ WF_server_vars(part = "server" /\ StartUp)
    /\ WF_server_vars(part = "server" /\ Teardown)
    /\ WF_server_vars(part = "server" /\ NobodyIsReady)
    /\ \A i \in Slots : WF_server_vars(part = "server" /\ SendEnds(i))

(***************************************************************************)
(* The client: its one thread goes on; the server that has been connected  *)
(* to sends its address or goes, and it answers; a send that cannot arrive *)
(* fails.                                                                  *)
(***************************************************************************)
ClientFairness ==
    /\ WF_client_vars(part = "client" /\ Thread)
    /\ WF_client_vars(part = "client" /\ ReadAddress)
    /\ WF_client_vars(part = "client" /\ QpError)
    /\ \A t \in Tids : WF_client_vars(part = "client" /\ Answer(t))

LivesSpec ==
    /\ LivesInit
    /\ [][LivesNext]_lives
    /\ PairsFairness
    /\ ServerFairness
    /\ ClientFairness

(* The variables of every part hold what their declarations say; among     *)
(* others a send buffer that is taken is one of the ring                   *)
(* (buffers_management.c:49-61), and no more are used than there are.      *)
LivesTypeOK == QueuePairsTypeOK /\ ServerLifeTypeOK /\ ClientLifeTypeOK
=============================================================================
