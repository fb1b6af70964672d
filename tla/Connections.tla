----------------------------- MODULE Connections -----------------------------
(***************************************************************************)
(* How a client gets a connection slot: the server's accept_new_connection *)
(* with everything it calls (src/server.c), and the client's side of the   *)
(* same exchange (src/client.c, client_exch_dest).                         *)
(*                                                                         *)
(* A peer connects over TCP, writes its address (52 bytes), reads the      *)
(* server's and writes "done".  query_for_connections accepts and          *)
(* answers peers until a select of one microsecond finds nothing to do;    *)
(* it then closes what it has accepted and not answered.  Which of several *)
(* ready descriptors comes first is left open.                             *)
(***************************************************************************)
EXTENDS ServerSlots, FiniteSets

CONSTANTS
    Peers,                  \* the processes that call kv_open
    NoPeer                  \* no peer in this slot, no peer being answered

ASSUME ConnectionsAssumption ==
    /\ IsFiniteSet(Peers)
    /\ NoPeer \notin Peers

VARIABLES
    phase,      \* where the server is
    listening,  \* listen_sd is a socket
    current_number_conns,
    connections,     \* connections[i]: the peer whose QP is in slot i
    last_client_id,
    backlog,    \* peers that the kernel has connected and nobody accepted
    accepted,   \* the descriptors of query_for_connections
    serving,    \* the peer whose address is being received or answered
    sock,       \* how far peer p is in the exchange
    gone,       \* peer p has closed its end of the socket
    client_id   \* the id that peer p was told

serverSide == <<phase, listening, current_number_conns, connections,
                last_client_id, accepted, serving>>
vars == <<serverSide, backlog, sock, gone, client_id>>

Served == {i \in Slots : connections[i] # NoPeer}

(* Peers whose socket the server, or its kernel, still holds. *)
Held == backlog \cup accepted \cup {serving}

Readable(p) == sock[p] \in {"part", "full"} \/ gone[p]

(* The server closes the socket of every peer in P, or forgets it. *)
Closed(P) ==
    /\ sock' = [p \in Peers |-> IF p \in P THEN "closed" ELSE sock[p]]
    /\ gone' = [p \in Peers |-> IF p \in P THEN FALSE ELSE gone[p]]

-----------------------------------------------------------------------------
(* The peers: client_exch_dest.                                            *)

(* connect; it is tried again until the server listens. *)
Connect(p) ==
    /\ listening
    /\ sock[p] = "closed"
    /\ \A i \in Slots : connections[i] # p
    /\ sock' = [sock EXCEPT ![p] = "none"]
    /\ backlog' = backlog \cup {p}
    /\ UNCHANGED <<serverSide, gone, client_id>>

(* write of the address, of which a part may arrive first. *)
WriteAddress(p) ==
    /\ ~gone[p]
    /\ \/ sock[p] = "none" /\ sock' = [sock EXCEPT ![p] = "part"]
       \/ sock[p] \in {"none", "part"} /\ sock' = [sock EXCEPT ![p] = "full"]
    /\ UNCHANGED <<serverSide, backlog, gone, client_id>>

(* The peer reads the server's address, with its id in it, and writes      *)
(* "done".                                                                 *)
WriteDone(p) ==
    /\ phase = "done"
    /\ serving = p
    /\ ~gone[p]
    /\ sock[p] = "full"
    /\ client_id' = [client_id EXCEPT ![p] = last_client_id + 1]
    /\ sock' = [sock EXCEPT ![p] = "done"]
    /\ UNCHANGED <<serverSide, backlog, gone>>

(* The peer ends, or gives up. *)
Leave(p) ==
    /\ sock[p] # "closed"
    /\ ~gone[p]
    /\ IF p \in Held
       THEN gone' = [gone EXCEPT ![p] = TRUE] /\ UNCHANGED sock
       ELSE Closed({p})
    /\ UNCHANGED <<serverSide, backlog, client_id>>

-----------------------------------------------------------------------------
(* The server.                                                             *)

check_available_connection_slots ==
    current_number_conns < MAX_CLIENTS_SUPPORTED

(* accept_new_connection, once per round of the main loop. *)
accept_new_connection ==
    /\ phase = "loop"
    /\ check_available_connection_slots
    /\ listening' = TRUE
    /\ phase' = "select"
    /\ UNCHANGED <<current_number_conns, connections, last_client_id, backlog,
                   accepted, serving, sock, gone, client_id>>

SelectListener ==
    /\ phase = "select"
    /\ backlog # {}
    /\ phase' = "accept"
    /\ UNCHANGED <<listening, current_number_conns, connections,
                   last_client_id, backlog, accepted, serving, sock, gone,
                   client_id>>

(* Mutant: the accept is not counted. *)
AcceptUncounted(p) ==
    /\ phase = "accept"
    /\ p \in backlog
    /\ current_number_conns # MAX_CLIENTS_SUPPORTED
    /\ backlog' = backlog \ {p}
    /\ accepted' = accepted \cup {p}
    /\ UNCHANGED <<phase, listening, current_number_conns, connections,
                   last_client_id, serving, sock, gone, client_id>>

(* One accept.  When every slot is counted as taken the peer is rejected,  *)
(* and the loop of accepts ends.                                           *)
Accept(p) ==
    /\ phase = "accept"
    /\ p \in backlog
    /\ current_number_conns # MAX_CLIENTS_SUPPORTED
    /\ backlog' = backlog \ {p}
    /\ accepted' = accepted \cup {p}
    /\ current_number_conns' = current_number_conns + 1
    /\ UNCHANGED <<phase, listening, connections, last_client_id, serving,
                   sock, gone, client_id>>

Reject(p) ==
    /\ phase = "accept"
    /\ p \in backlog
    /\ current_number_conns = MAX_CLIENTS_SUPPORTED
    /\ backlog' = backlog \ {p}
    /\ Closed({p})
    /\ phase' = "select"
    /\ UNCHANGED <<listening, current_number_conns, connections,
                   last_client_id, accepted, serving, client_id>>

AcceptWouldBlock ==
    /\ phase = "accept"
    /\ backlog = {}
    /\ phase' = "select"
    /\ UNCHANGED <<listening, current_number_conns, connections,
                   last_client_id, backlog, accepted, serving, sock, gone,
                   client_id>>

(* The server starts to receive the address of p, and waits for all of it. *)
SelectPeer(p) ==
    /\ phase = "select"
    /\ p \in accepted
    /\ Readable(p)
    /\ phase' = "recv"
    /\ serving' = p
    /\ accepted' = accepted \ {p}
    /\ UNCHANGED <<listening, current_number_conns, connections,
                   last_client_id, backlog, sock, gone, client_id>>

(* "Didn't recv all data": the descriptor is dropped. *)
RecvShort ==
    /\ phase = "recv"
    /\ sock[serving] # "full"
    /\ gone[serving]
    /\ phase' = "select"
    /\ serving' = NoPeer
    /\ Closed({serving})
    /\ UNCHANGED <<listening, current_number_conns, connections,
                   last_client_id, backlog, accepted, client_id>>

(* create_new_qp or connect_ctx fails; the descriptor is dropped. *)
ConnectQpFails ==
    /\ phase = "recv"
    /\ sock[serving] = "full"
    /\ phase' = "select"
    /\ serving' = NoPeer
    /\ Closed(IF gone[serving] THEN {serving} ELSE {})
    /\ UNCHANGED <<listening, current_number_conns, connections,
                   last_client_id, backlog, accepted, client_id>>

(* Mutant: the id that will be sent is still the one of the client before. *)
add_new_connection_old_id ==
    /\ phase = "recv"
    /\ sock[serving] = "full"
    /\ IF Served = Slots
       THEN /\ phase' = "overrun"
            /\ UNCHANGED connections
       ELSE /\ phase' = "done"
            /\ \E i \in Slots \ Served :
                  /\ \A j \in Slots \ Served : i <= j
                  /\ connections' = [connections EXCEPT ![i] = serving]
    /\ UNCHANGED <<listening, current_number_conns, last_client_id, backlog,
                   accepted, serving, sock, gone, client_id>>

(* add_new_connection takes the first free slot.  With none free it writes *)
(* behind the array.                                                       *)
add_new_connection ==
    /\ phase = "recv"
    /\ sock[serving] = "full"
    /\ IF Served = Slots
       THEN /\ phase' = "overrun"
            /\ UNCHANGED <<connections, last_client_id>>
       ELSE /\ phase' = "done"
            /\ \E i \in Slots \ Served :
                  /\ \A j \in Slots \ Served : i <= j
                  /\ connections' = [connections EXCEPT ![i] = serving]
                  /\ last_client_id' = i
    /\ UNCHANGED <<listening, current_number_conns, backlog, accepted,
                   serving, sock, gone, client_id>>

(* send_address_back_to_client: the server reads until it has "done", and  *)
(* exits when the client is gone before.                                   *)
ReadDone ==
    /\ phase = "done"
    /\ sock[serving] = "done"
    /\ phase' = "select"
    /\ serving' = NoPeer
    /\ Closed({serving})
    /\ UNCHANGED <<listening, current_number_conns, connections,
                   last_client_id, backlog, accepted, client_id>>

ReadDoneFails ==
    /\ phase = "done"
    /\ sock[serving] # "done"
    /\ gone[serving]
    /\ phase' = "down"
    /\ UNCHANGED <<listening, current_number_conns, connections,
                   last_client_id, backlog, accepted, serving, sock, gone,
                   client_id>>

(* select times out: query_for_connections closes what is left. *)
SelectTimeout ==
    /\ phase = "select"
    /\ backlog = {}
    /\ \A p \in accepted : ~Readable(p)
    /\ phase' = "loop"
    /\ Closed(accepted)
    /\ accepted' = {}
    /\ UNCHANGED <<listening, current_number_conns, connections,
                   last_client_id, backlog, serving, client_id>>

(* remove_connection, from the rest of the main loop: the client of slot i *)
(* has shut down or its QP has failed.                                     *)
remove_connection(i) ==
    /\ phase = "loop"
    /\ connections[i] # NoPeer
    /\ connections' = [connections EXCEPT ![i] = NoPeer]
    /\ current_number_conns' = current_number_conns - 1
    /\ UNCHANGED <<phase, listening, last_client_id, backlog, accepted,
                   serving, sock, gone, client_id>>

-----------------------------------------------------------------------------
Init ==
    /\ phase = "loop"
    /\ listening = FALSE
    /\ current_number_conns = 0
    /\ connections = [i \in Slots |-> NoPeer]
    /\ last_client_id = 0
    /\ backlog = {}
    /\ accepted = {}
    /\ serving = NoPeer
    /\ sock = [p \in Peers |-> "closed"]
    /\ gone = [p \in Peers |-> FALSE]
    /\ client_id = [p \in Peers |-> 0]

PeerStep(p) == Connect(p) \/ WriteAddress(p) \/ WriteDone(p) \/ Leave(p)

query_for_connections ==
    \/ SelectListener
    \/ \E p \in Peers : Accept(p) \/ Reject(p) \/ SelectPeer(p)
    \/ AcceptWouldBlock
    \/ RecvShort
    \/ ConnectQpFails
    \/ add_new_connection
    \/ ReadDone
    \/ ReadDoneFails
    \/ SelectTimeout

Next ==
    \/ \E p \in Peers : PeerStep(p)
    \/ accept_new_connection
    \/ query_for_connections
    \/ \E i \in Slots : remove_connection(i)

Spec == Init /\ [][Next]_vars

-----------------------------------------------------------------------------
(* Every variable holds what its declaration says. *)
ConnectionsTypeOK ==
    /\ phase \in {"loop", "select", "accept", "recv", "done", "down",
                  "overrun"}
    /\ listening \in BOOLEAN
    /\ current_number_conns \in 0 .. MAX_CLIENTS_SUPPORTED
    /\ connections \in [Slots -> Peers \cup {NoPeer}]
    /\ last_client_id \in Slots
    /\ backlog \subseteq Peers
    /\ accepted \subseteq Peers
    /\ serving \in Peers \cup {NoPeer}
    /\ sock \in [Peers -> {"closed", "none", "part", "full", "done"}]
    /\ gone \in [Peers -> BOOLEAN]
    /\ client_id \in [Peers -> 0 .. MAX_CLIENTS_SUPPORTED]

(* The peers that were accepted and are not answered yet. *)
Candidates == accepted \cup IF phase = "recv" THEN {serving} ELSE {}

(***************************************************************************)
(* current_number_conns counts at least the slots that are taken and the   *)
(* peers that were accepted and may still take one, although both the      *)
(* accepts and the answers are many steps away from the check.             *)
(***************************************************************************)
SlotsAreCounted ==
    /\ Cardinality(Served) + Cardinality(Candidates) <= current_number_conns
    /\ current_number_conns <= MAX_CLIENTS_SUPPORTED

(* add_new_connection never writes behind the array of connections: a peer *)
(* that is answered finds a free slot.                                     *)
NoSlotOverrun == phase # "overrun"

(***************************************************************************)
(* The id that a client was told, and puts into its tids, is the number of *)
(* its slot plus one, from the end of the exchange until the slot is freed *)
(* - so the tids of two connected clients never meet in the server's       *)
(* tables.                                                                 *)
(***************************************************************************)
ClientsKnowTheirSlots ==
    \A i \in Served :
        \/ client_id[connections[i]] = i + 1
        \/ serving = connections[i] /\ sock[serving] # "done"

(***************************************************************************)
(* README.md: the server works for "up to four clients simultaneously".  A *)
(* server that turns clients away has that many.                           *)
(***************************************************************************)
TurnsAwayOnlyWhenFull ==
    phase = "loop" /\ ~check_available_connection_slots => Served = Slots
=============================================================================
