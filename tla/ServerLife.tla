----------------------------- MODULE ServerLife -----------------------------
(***************************************************************************)
(* The server from main to exit: start-up with its failures, a loop whose  *)
(* requests are reduced to what matters to the end, and the teardown that  *)
(* a signal leads to (src/server.c, init_server_connection, server_loop,   *)
(* teardown_server_connection, server_close_ctx; db_destroy and            *)
(* server_pending_requests_destroy).  A client asks, waits for the answer, *)
(* and sends a FIN.                                                        *)
(***************************************************************************)
EXTENDS ServerSlots, FiniteSets

CONSTANTS
    SERVER_NUM_SEND_BUFFS,
    ServerMayFail,  \* the calls that may fail at start-up
    MaxConns,       \* bound: how many connections are made
    MaxAsks         \* bound: how many requests are sent

ServerCalls == {"ibv_get_device_list", "device", "server_init_ctx",
                "get_port_info", "lid", "connect_ctx"}

ASSUME ServerLifeAssumption ==
    /\ SERVER_NUM_SEND_BUFFS \in Nat \ {0}
    /\ ServerMayFail \subseteq ServerCalls
    /\ MaxConns \in Nat
    /\ MaxAsks \in Nat

(* The objects of the verbs library that outlive a connection. *)
ServerObjects == {"cq", "mr_in", "mr_out", "pd"}

VARIABLES
    at,          \* the call the server is in
    immediate_shutdown,
    alive,       \* the objects that were made and not destroyed
    pool,        \* preallocated_entries of db.c is an array, or NULL
    db,          \* internal_db is a table with entries, or NULL
    connections, \* state of the queue pair in each slot; "none" is NULL
    orphans,     \* queue pairs that no slot names
    current_number_conns, \* the server's count of its connections
    conns,       \* how many connections were accepted
    asks,        \* how many requests were sent
    sends,       \* sends[i]: send buffers posted to slot i's queue pair
    lost,        \* send buffers whose completion will never come
    inbox,       \* inbox[i]: what slot i's client has sent and is not polled
    client,      \* what slot i's client does
    told,        \* the slots a SERVER_SHUTDOWN was posted to
    conn         \* the loop variable of server_close_ctx

resources == <<alive, pool, db, orphans>>
network   == <<sends, lost, inbox, client, asks>>
counts    == <<current_number_conns, conns>>
server_vars == <<at, immediate_shutdown, resources, connections, counts, network,
                 told, conn>>

(* The send buffers in use: the lost ones, and sends[i] for every slot i.  *)
Used ==
    lost + Cardinality({p \in Slots \X (1 .. SERVER_NUM_SEND_BUFFS) :
                           p[2] <= sends[p[1]]})

QueuePairs == {i \in Slots : connections[i] # "none"}

-----------------------------------------------------------------------------
(* Start-up: init_server_connection.                                       *)

Succeeds(call, next) ==
    /\ at = call
    /\ at' = next

(* Every failure is answered with teardown_server_connection. *)
Fails(call) ==
    /\ at = call
    /\ call \in ServerMayFail
    /\ at' = "teardown_server_connection"
    /\ UNCHANGED <<immediate_shutdown, resources, connections, counts, network,
                   told, conn>>

FindDevice ==
    /\ \/ Succeeds("ibv_get_device_list", "device")
       \/ Succeeds("device", "server_init_ctx")
    /\ UNCHANGED <<immediate_shutdown, resources, connections, counts, network,
                   told, conn>>

(* server_pending_requests_init, server_init_ctx and db_init in a row. *)
server_init_ctx ==
    /\ Succeeds("server_init_ctx", "get_port_info")
    /\ alive' = ServerObjects
    /\ pool' = TRUE
    /\ db' = TRUE
    /\ UNCHANGED <<immediate_shutdown, connections, orphans, counts,
                   network, told, conn>>

QueryPort ==
    /\ \/ Succeeds("get_port_info", "lid")
       \/ Succeeds("lid", "server_loop")
    /\ UNCHANGED <<immediate_shutdown, resources, connections, counts, network,
                   told, conn>>

-----------------------------------------------------------------------------
(* The loop.                                                               *)

(* A peer is accepted as long as the count allows it, in the loop or right *)
(* after another one, where the signal's flag is not read; the server then *)
(* waits for its address.                                                  *)
accept_new_connection ==
    /\ \/ at = "server_loop" /\ ~immediate_shutdown
       \/ at = "query_for_connections"
    /\ conns < MaxConns
    /\ current_number_conns < MAX_CLIENTS_SUPPORTED
    /\ conns' = conns + 1
    /\ current_number_conns' = current_number_conns + 1
    /\ at' = "recv"
    /\ UNCHANGED <<immediate_shutdown, resources, connections, network, told, conn>>

(* The peer sends less than an address and leaves, or nothing before       *)
(* select gives up: the server goes on, and the count keeps it.            *)
AddressIsShort ==
    /\ at = "recv"
    /\ at' = "query_for_connections"
    /\ UNCHANGED <<immediate_shutdown, resources, connections, counts, network,
                   told, conn>>

(* create_new_qp or connect_ctx fails: the new queue pair stays, in no     *)
(* slot, and the count keeps it.                                           *)
ConnectFails ==
    /\ at = "recv"
    /\ "connect_ctx" \in ServerMayFail
    /\ at' = "query_for_connections"
    /\ orphans' = orphans + 1
    /\ UNCHANGED <<immediate_shutdown, alive, pool, db, connections,
                   counts, network, told, conn>>

(* The whole address has come: the peer gets the first free slot and the   *)
(* server's address, and may send at once; the server waits for its "done". *)
AddressArrives ==
    /\ at = "recv"
    /\ at' = "read"
    /\ \E i \in Slots \ QueuePairs :
          /\ \A j \in Slots \ QueuePairs : i <= j
          /\ connections' = [connections EXCEPT ![i] = "RTS"]
          /\ client' = [client EXCEPT ![i] = "idle"]
          /\ told' = told \ {i}
    /\ UNCHANGED <<immediate_shutdown, resources, counts, sends, lost, inbox, asks, conn>>

PeerAnswers ==
    /\ at = "read"
    /\ at' = "query_for_connections"
    /\ UNCHANGED <<immediate_shutdown, resources, connections, counts, network,
                   told, conn>>

(* The peer leaves instead: the server exits at once, without a teardown.  *)
PeerLeaves ==
    /\ at = "read"
    /\ at' = "exit"
    /\ UNCHANGED <<immediate_shutdown, resources, connections, counts, network,
                   told, conn>>

(* select finds nobody else who is ready. *)
NobodyIsReady ==
    /\ at = "query_for_connections"
    /\ at' = "server_loop"
    /\ UNCHANGED <<immediate_shutdown, resources, connections, counts, network,
                   told, conn>>

(* remove_connection, given the number of slot i's queue pair. *)
remove_connection(i) ==
    /\ connections' = [connections EXCEPT ![i] = "none"]
    /\ current_number_conns' = current_number_conns - 1
    /\ lost' = lost + sends[i]
    /\ sends' = [sends EXCEPT ![i] = 0]
    /\ inbox' = [inbox EXCEPT ![i] = {}]

(* server_post_send takes a free buffer. *)
server_post_send(i) == sends' = [sends EXCEPT ![i] = @ + 1]

HasBuffer == Used < SERVER_NUM_SEND_BUFFS

(* One request that is answered, and whose entry stays locked for a FIN.   *)
RecvRequest(i) ==
    /\ at = "server_loop"
    /\ ~immediate_shutdown
    /\ "REQUEST" \in inbox[i]
    /\ HasBuffer
    /\ server_post_send(i)
    /\ inbox' = [inbox EXCEPT ![i] = @ \ {"REQUEST"}]
    /\ client' = [client EXCEPT ![i] = "answered"]
    /\ UNCHANGED <<at, immediate_shutdown, resources, connections, counts, lost,
                   asks, told, conn>>

RecvFin(i) ==
    /\ at = "server_loop"
    /\ ~immediate_shutdown
    /\ "FIN" \in inbox[i]
    /\ inbox' = [inbox EXCEPT ![i] = @ \ {"FIN"}]
    /\ UNCHANGED <<at, immediate_shutdown, resources, connections, counts, sends,
                   lost, client, asks, told, conn>>

(* CLIENT_SHUTDOWN, or the queue pair was found in error. *)
CloseConnection(i) ==
    /\ at = "server_loop"
    /\ ~immediate_shutdown
    /\ "SHUTDOWN" \in inbox[i] \/ connections[i] = "ERR"
    /\ remove_connection(i)
    /\ UNCHANGED <<at, immediate_shutdown, resources, conns, client, asks, told, conn>>

(* A SEND completion gives its buffer back, in the loop or in the teardown. *)
SendEnds(i) ==
    /\ at \in {"server_loop", "server_wait_completions"}
    /\ sends[i] > 0
    /\ sends' = [sends EXCEPT ![i] = @ - 1]
    /\ UNCHANGED <<at, immediate_shutdown, resources, connections, counts, lost,
                   inbox, client, asks, told, conn>>

Handle(i) == RecvRequest(i) \/ RecvFin(i) \/ CloseConnection(i)

-----------------------------------------------------------------------------
(* The end: teardown_server_connection.                                    *)

(* Mutant: the loop goes on as long as a client is connected. *)
SignalLoopWhenAlone ==
    /\ at = "server_loop"
    /\ immediate_shutdown
    /\ QueuePairs = {}
    /\ at' = "teardown_server_connection"
    /\ UNCHANGED <<immediate_shutdown, resources, connections, counts, network,
                   told, conn>>

(* The signal's flag is read at the head of the loop. *)
SignalLoop ==
    /\ at = "server_loop"
    /\ immediate_shutdown
    /\ at' = "teardown_server_connection"
    /\ UNCHANGED <<immediate_shutdown, resources, connections, counts, network,
                   told, conn>>

(* The records of requests go, then the entries and their pool.  What      *)
(* clears the pool of db.c does not ask whether there is one.              *)
DestroyTables ==
    /\ at = "teardown_server_connection"
    /\ IF ~pool THEN at' = "crash"
       ELSE IF alive = {} THEN at' = "exit"
       ELSE at' = "server_close_ctx"
    /\ db' = FALSE
    /\ pool' = FALSE
    /\ conn' = 0
    /\ UNCHANGED <<immediate_shutdown, alive, connections, orphans,
                   counts, network, told>>

(* Mutant: the queue pair in error ends the loop. *)
NextConnectionWhileReady ==
    /\ conn' = IF connections[conn] = "ERR" THEN MAX_CLIENTS_SUPPORTED ELSE conn + 1
    /\ at' = "server_close_ctx"

(* remove_connection is given the slot where it takes the number of a      *)
(* queue pair, finds none with it, and leaves all as it is.                *)
NextConnection ==
    /\ conn' = conn + 1
    /\ at' = "server_close_ctx"

(* The message is posted on the pointer read before the wait for a buffer. *)
PostShutdown ==
    IF connections[conn] = "none"
    THEN /\ at' = "crash"
         /\ UNCHANGED <<sends, told, conn>>
    ELSE /\ server_post_send(conn)
         /\ told' = told \cup {conn}
         /\ NextConnection

(* One turn of the loop over the connections. *)
CloseNext ==
    /\ at = "server_close_ctx"
    /\ conn < MAX_CLIENTS_SUPPORTED
    /\ \/ /\ connections[conn] # "RTS"
          /\ NextConnection
          /\ UNCHANGED <<sends, told>>
       \/ /\ connections[conn] = "RTS"
          /\ HasBuffer
          /\ PostShutdown
       \/ /\ connections[conn] = "RTS"
          /\ ~HasBuffer
          /\ at' = "server_wait_completions"
          /\ UNCHANGED <<sends, told, conn>>
    /\ UNCHANGED <<immediate_shutdown, resources, connections, counts, lost,
                   inbox, client, asks>>

(* get_free_send_buffer has a buffer after all. *)
GotBuffer ==
    /\ at = "server_wait_completions"
    /\ HasBuffer
    /\ PostShutdown
    /\ UNCHANGED <<immediate_shutdown, resources, connections, counts, lost,
                   inbox, client, asks>>

(* While the teardown waits for a send buffer it handles what arrives: a   *)
(* request needs the tables that are gone, a FIN finds no entry and closes *)
(* the connection, and so does a SHUTDOWN or a queue pair in error.        *)
HandleWhileClosing(i) ==
    /\ at = "server_wait_completions"
    /\ \/ /\ "REQUEST" \in inbox[i]
          /\ at' = "crash"
          /\ UNCHANGED <<connections, current_number_conns, sends, lost, inbox>>
       \/ /\ "FIN" \in inbox[i] \/ "SHUTDOWN" \in inbox[i] \/ connections[i] = "ERR"
          /\ remove_connection(i)
          /\ UNCHANGED at
    /\ UNCHANGED <<immediate_shutdown, resources, conns, client, asks, told, conn>>

(* What the library destroys: a completion queue and a protection domain   *)
(* only when no queue pair uses them any more.                             *)
Destroyed ==
    {o \in ServerObjects :
        CASE o = "cq" -> QueuePairs = {} /\ orphans = 0
          [] o = "pd" -> QueuePairs = {} /\ orphans = 0
          [] OTHER    -> TRUE}

(* The rest of server_close_ctx; refusals are printed and passed over. *)
DestroyServerObjects ==
    /\ at = "server_close_ctx"
    /\ conn = MAX_CLIENTS_SUPPORTED
    /\ alive' = alive \ Destroyed
    /\ at' = "exit"
    /\ UNCHANGED <<immediate_shutdown, pool, db, connections, orphans, counts,
                   network, told, conn>>

-----------------------------------------------------------------------------
(* The surroundings.                                                       *)

ServerRunning == at \notin {"exit", "crash"}

server_signal_handler ==
    /\ ServerRunning
    /\ ~immediate_shutdown
    /\ immediate_shutdown' = TRUE
    /\ UNCHANGED <<at, resources, connections, counts, network, told, conn>>

ClientSends(i, message, next) ==
    /\ ServerRunning
    /\ connections[i] = "RTS"
    /\ inbox' = [inbox EXCEPT ![i] = @ \cup {message}]
    /\ client' = [client EXCEPT ![i] = next]
    /\ UNCHANGED <<at, immediate_shutdown, resources, connections, counts, sends,
                   lost, told, conn>>

Ask(i) ==
    /\ client[i] = "idle"
    /\ asks < MaxAsks
    /\ asks' = asks + 1
    /\ ClientSends(i, "REQUEST", "waiting")

SendFin(i) ==
    /\ client[i] = "answered"
    /\ ClientSends(i, "FIN", "idle")
    /\ UNCHANGED asks

ClientCloses(i) ==
    /\ client[i] = "idle"
    /\ ClientSends(i, "SHUTDOWN", "ended")
    /\ UNCHANGED asks

(* The client's process dies, and its queue pair fails. *)
ClientDies(i) ==
    /\ ServerRunning
    /\ connections[i] = "RTS"
    /\ connections' = [connections EXCEPT ![i] = "ERR"]
    /\ client' = [client EXCEPT ![i] = "ended"]
    /\ UNCHANGED <<at, immediate_shutdown, resources, counts, sends, lost, inbox,
                   asks, told, conn>>

(* The client reads the shutdown message and ends. *)
ReceiveShutdown(i) ==
    /\ i \in told
    /\ client[i] \in {"idle", "waiting", "answered"}
    /\ ServerRunning
    /\ connections[i] = "RTS"
    /\ client' = [client EXCEPT ![i] = "ended"]
    /\ UNCHANGED <<at, immediate_shutdown, resources, connections, counts, sends,
                   lost, inbox, asks, told, conn>>

(* A client that sends to a server that has gone gets an error completion. *)
SendFails(i) ==
    /\ ~ServerRunning
    /\ client[i] \in {"idle", "answered"}
    /\ client' = [client EXCEPT ![i] = "ended"]
    /\ UNCHANGED <<at, immediate_shutdown, resources, connections, counts, sends,
                   lost, inbox, asks, told, conn>>

ClientStep(i) ==
    \/ Ask(i) \/ SendFin(i) \/ ClientCloses(i) \/ ClientDies(i)
    \/ ReceiveShutdown(i) \/ SendFails(i)

-----------------------------------------------------------------------------
ServerInit ==
    /\ at = "ibv_get_device_list"
    /\ immediate_shutdown = FALSE
    /\ alive = {}
    /\ pool = FALSE
    /\ db = FALSE
    /\ connections = [i \in Slots |-> "none"]
    /\ orphans = 0
    /\ current_number_conns = 0
    /\ conns = 0
    /\ asks = 0
    /\ sends = [i \in Slots |-> 0]
    /\ lost = 0
    /\ inbox = [i \in Slots |-> {}]
    /\ client = [i \in Slots |-> "ended"]
    /\ told = {}
    /\ conn = 0

StartUp ==
    \/ FindDevice \/ server_init_ctx \/ QueryPort
    \/ \E call \in ServerCalls : Fails(call)

Exchange ==
    \/ AddressIsShort \/ ConnectFails \/ AddressArrives
    \/ PeerAnswers \/ PeerLeaves \/ NobodyIsReady

Teardown ==
    \/ SignalLoop \/ DestroyTables \/ CloseNext \/ GotBuffer
    \/ DestroyServerObjects

ServerNext ==
    \/ StartUp
    \/ accept_new_connection \/ Exchange
    \/ \E i \in Slots : Handle(i) \/ SendEnds(i) \/ HandleWhileClosing(i)
    \/ Teardown
    \/ server_signal_handler
    \/ \E i \in Slots : ClientStep(i)

ServerSpec == ServerInit /\ [][ServerNext]_server_vars

-----------------------------------------------------------------------------
(* Every variable holds what its declaration says. *)
ServerLifeTypeOK ==
    /\ at \in ServerCalls \cup
          {"server_loop", "query_for_connections", "recv", "read",
           "teardown_server_connection", "server_close_ctx",
           "server_wait_completions", "exit", "crash"}
    /\ immediate_shutdown \in BOOLEAN
    /\ alive \subseteq ServerObjects
    /\ pool \in BOOLEAN /\ db \in BOOLEAN
    /\ connections \in [Slots -> {"none", "RTS", "ERR"}]
    /\ current_number_conns \in Int
    /\ current_number_conns <= MAX_CLIENTS_SUPPORTED
    /\ Used \in 0 .. SERVER_NUM_SEND_BUFFS
    /\ inbox \in [Slots -> SUBSET {"REQUEST", "FIN", "SHUTDOWN"}]
    /\ client \in [Slots -> {"idle", "waiting", "answered", "ended"}]
    /\ told \subseteq Slots
    /\ conn \in 0 .. MAX_CLIENTS_SUPPORTED

(***************************************************************************)
(* server.c:513, "disconnect from clients": when the server has closed its *)
(* context, every client whose queue pair still worked has been sent a     *)
(* SERVER_SHUTDOWN, whatever state the others were in.                     *)
(***************************************************************************)
ClientsAreTold ==
    at = "server_close_ctx" =>
        \A i \in 0 .. conn - 1 : connections[i] = "RTS" => i \in told

(***************************************************************************)
(* server.c:912-923: SIGINT and SIGTERM end the server, whatever requests, *)
(* closes and deaths are under way.  Two things may still keep it.  It     *)
(* polls for ever in get_free_send_buffer when all send buffers were lost  *)
(* with connections that it removed.  And it waits for ever for a peer     *)
(* that neither goes on with the exchange of addresses nor leaves: recv    *)
(* and read (server.c:246, 288) have no timeout, and the signal does not   *)
(* have to interrupt them.  A server that comes out of an exchange goes    *)
(* through those of peers that are ready, as many as the count allows, and *)
(* then ends as well.                                                      *)
(***************************************************************************)
SignalEndsServer ==
    immediate_shutdown ~>
        (~ServerRunning \/ lost = SERVER_NUM_SEND_BUFFS \/ at \in {"recv", "read"})
=============================================================================
