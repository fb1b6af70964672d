--------------------------- MODULE ReceiveBuffers ---------------------------
(***************************************************************************)
(* The server's receive buffers: one pool for all connections              *)
(* (src/common/buffers_management.c), posted one by one when a client      *)
(* connects and again in bulk when few are left (src/server.c,             *)
(* server_post_recv_buffers, handle_recv_request), and given back when a   *)
(* message has been handled or its connection is removed.                  *)
(*                                                                         *)
(* The server is one thread and doing says where it is; messages land in   *)
(* posted buffers at any time.  What a handler does with a message is the  *)
(* business of Rendezvous; here a message is its sender and its number.    *)
(***************************************************************************)
EXTENDS ServerSlots, FiniteSets, Sequences

CONSTANTS
    SERVER_NUM_RECV_BUFFS,  \* buffers of the pool
    MAX_RECV_BUFFS,         \* buffers posted for one connection
    FEW_RECEIVES,           \* few enough to post again (100 in the code)
    Leavers,                \* slots whose client may shut down or fail
    MaxSends,               \* messages of one client in one session
    MaxSessions             \* how often a slot is taken

ASSUME ReceiveAssumption ==
    /\ MAX_RECV_BUFFS \in Nat \ {0}
    /\ SERVER_NUM_RECV_BUFFS \in Nat
    /\ MAX_CLIENTS_SUPPORTED * MAX_RECV_BUFFS <= SERVER_NUM_RECV_BUFFS
    /\ FEW_RECEIVES \in Nat /\ FEW_RECEIVES < MAX_RECV_BUFFS
    /\ Leavers \subseteq Int
    /\ MaxSends \in Nat /\ MaxSessions \in Nat

Buffers == 0 .. SERVER_NUM_RECV_BUFFS - 1
NoBuff  == -1

VARIABLES
    doing,           \* where the server's thread is
    connected,       \* the slots with a QP
    curr_recv_buff,  \* curr_recv_buff[i]: receives posted and not handled
    buff_in_use,     \* buff_in_use[i]: buffers ever posted for connection i
    in_use_recv,     \* the buffers of the pool that are marked as used
    last_used_recv_buff,
    wr,       \* wr[i]: the receives of i's QP that are not handled, oldest first
    landed,   \* landed[i]: how many of them hold a message
    polled,   \* polled[i]: how many of those are in the server's batch
    stale,    \* buffers in the batch whose connection was removed
    conn,     \* the connection being served
    buff,     \* the buffer of its message, NoBuff while it is connecting
    left,     \* receives still to post in this call
    content,  \* content[b]: the message in buffer b
    sent,     \* sent[i]: messages of i's client that have landed
    ended,    \* the connections whose client has sent its shutdown message
    sessions  \* sessions[i]: how often slot i was taken

ring   == <<in_use_recv, last_used_recv_buff>>
queue  == <<wr, landed, polled>>
client == <<sent, ended, sessions>>
receive_vars ==
    <<doing, connected, curr_recv_buff, buff_in_use, ring, queue, stale, conn,
      buff, left, content, client>>

(* A message.  Blank is a buffer of zeroes, which no client ever sends.    *)
Message(op, i, n) == [op |-> op, from |-> i, n |-> n]

Blank == Message("NONE", 0, 0)

-----------------------------------------------------------------------------
(* buffers_management.c                                                    *)

FreeBuffers == Buffers \ in_use_recv

(* get_free_recv_idx finds b: the first free buffer from the last one used *)
(* on, around the ring.                                                    *)
get_free_recv_idx(b) ==
    /\ b \in FreeBuffers
    /\ \A f \in FreeBuffers : (b - last_used_recv_buff) % SERVER_NUM_RECV_BUFFS
                       <= (f - last_used_recv_buff) % SERVER_NUM_RECV_BUFFS

-----------------------------------------------------------------------------
(* The devices: the oldest receive of a QP that is still empty takes the   *)
(* next message of its client.                                             *)
Land(i, op) ==
    /\ i \in connected \ ended
    /\ landed[i] < Len(wr[i])
    /\ sent[i] < MaxSends
    /\ content' = [content EXCEPT ![wr[i][landed[i] + 1]] =
                                    Message(op, i, sent[i] + 1)]
    /\ landed' = [landed EXCEPT ![i] = @ + 1]
    /\ sent' = [sent EXCEPT ![i] = @ + 1]
    /\ UNCHANGED <<doing, connected, curr_recv_buff, buff_in_use, ring, wr,
                   polled, stale, conn, buff, left, sessions>>

LandRequest(i) == Land(i, "REQUEST") /\ UNCHANGED ended

LandShutdown(i) ==
    /\ i \in Leavers
    /\ Land(i, "SHUTDOWN")
    /\ ended' = ended \cup {i}

-----------------------------------------------------------------------------
(* server_post_recv_buffers: one pass of its loop.  The count of the       *)
(* connection is raised with each buffer; the code adds the sum at the     *)
(* end, and nothing reads it before.                                       *)

server_post_recv(b) ==
    /\ doing = "post"
    /\ left > 0
    /\ get_free_recv_idx(b)
    /\ content' = [content EXCEPT ![b] = Blank]
    /\ wr' = [wr EXCEPT ![conn] = Append(@, b)]
    /\ in_use_recv' = in_use_recv \cup {b}
    /\ buff_in_use' = [buff_in_use EXCEPT ![conn] = @ \cup {b}]
    /\ curr_recv_buff' = [curr_recv_buff EXCEPT ![conn] = @ + 1]
    /\ last_used_recv_buff' = b
    /\ left' = left - 1
    /\ UNCHANGED <<doing, connected, landed, polled, stale, conn, buff, client>>

(* All are posted, or none is free.  A new connection must have all its    *)
(* buffers and one that is being refilled all but one; otherwise the       *)
(* server goes down.                                                       *)
Wanted == IF buff = NoBuff THEN MAX_RECV_BUFFS ELSE MAX_RECV_BUFFS - 1

PostingEnds ==
    /\ doing = "post"
    /\ left = 0 \/ FreeBuffers = {}
    /\ doing' = CASE curr_recv_buff[conn] < Wanted -> "down"
                  [] buff = NoBuff -> "loop"
                  [] OTHER -> "handle"
    /\ left' = 0
    /\ UNCHANGED <<connected, curr_recv_buff, buff_in_use, ring, queue, stale,
                   conn, buff, content, client>>

-----------------------------------------------------------------------------
(* handle_received_connection_data, once the addresses are exchanged.      *)
ConnectSlot(i) ==
    /\ doing = "loop"
    /\ i \notin connected
    /\ sessions[i] < MaxSessions
    /\ doing' = "post"
    /\ connected' = connected \cup {i}
    /\ conn' = i
    /\ buff' = NoBuff
    /\ left' = MAX_RECV_BUFFS - curr_recv_buff[i]
    /\ sent' = [sent EXCEPT ![i] = 0]
    /\ ended' = ended \ {i}
    /\ sessions' = [sessions EXCEPT ![i] = @ + 1]
    /\ UNCHANGED <<curr_recv_buff, buff_in_use, ring, queue, stale, content>>

(* ibv_poll_cq takes some of the messages that have landed, of each        *)
(* connection the oldest.  Which ones depends on the order of arrival and  *)
(* on the size of the batch, and is left open.                             *)
ibv_poll_cq ==
    /\ doing = "loop"
    /\ \E taken \in [connected -> 0 .. MAX_RECV_BUFFS] :
          /\ \A i \in connected : taken[i] <= landed[i]
          /\ \E i \in connected : taken[i] > 0
          /\ polled' = [i \in Slots |-> IF i \in connected THEN taken[i]
                                                           ELSE 0]
    /\ doing' = "batch"
    /\ UNCHANGED <<connected, curr_recv_buff, buff_in_use, ring, wr, landed,
                   stale, conn, buff, left, content, client>>

(* Mutant: the buffer is given back before the message is looked at. *)
RecvRequestReleased(i) ==
    /\ doing = "batch"
    /\ polled[i] > 0
    /\ wr' = [wr EXCEPT ![i] = Tail(@)]
    /\ landed' = [landed EXCEPT ![i] = @ - 1]
    /\ polled' = [polled EXCEPT ![i] = @ - 1]
    /\ curr_recv_buff' = [curr_recv_buff EXCEPT ![i] = @ - 1]
    /\ in_use_recv' = in_use_recv \ {Head(wr[i])}
    /\ conn' = i
    /\ buff' = Head(wr[i])
    /\ IF curr_recv_buff[i] - 1 <= FEW_RECEIVES
       THEN doing' = "post" /\ left' = MAX_RECV_BUFFS - (curr_recv_buff[i] - 1)
       ELSE doing' = "handle" /\ left' = 0
    /\ UNCHANGED <<connected, buff_in_use, last_used_recv_buff, stale,
                   content, client>>

(* Mutant: what is still posted is not subtracted. *)
RecvRequestFullRefill(i) ==
    /\ doing = "batch"
    /\ polled[i] > 0
    /\ wr' = [wr EXCEPT ![i] = Tail(@)]
    /\ landed' = [landed EXCEPT ![i] = @ - 1]
    /\ polled' = [polled EXCEPT ![i] = @ - 1]
    /\ curr_recv_buff' = [curr_recv_buff EXCEPT ![i] = @ - 1]
    /\ conn' = i
    /\ buff' = Head(wr[i])
    /\ IF curr_recv_buff[i] - 1 <= FEW_RECEIVES
       THEN doing' = "post" /\ left' = MAX_RECV_BUFFS
       ELSE doing' = "handle" /\ left' = 0
    /\ UNCHANGED <<connected, buff_in_use, ring, stale, content, client>>

(* handle_recv_request up to the point where it looks at the message.      *)
RecvRequest(i) ==
    /\ doing = "batch"
    /\ polled[i] > 0
    /\ wr' = [wr EXCEPT ![i] = Tail(@)]
    /\ landed' = [landed EXCEPT ![i] = @ - 1]
    /\ polled' = [polled EXCEPT ![i] = @ - 1]
    /\ curr_recv_buff' = [curr_recv_buff EXCEPT ![i] = @ - 1]
    /\ conn' = i
    /\ buff' = Head(wr[i])
    /\ IF curr_recv_buff[i] - 1 <= FEW_RECEIVES
       THEN doing' = "post" /\ left' = MAX_RECV_BUFFS - (curr_recv_buff[i] - 1)
       ELSE doing' = "handle" /\ left' = 0
    /\ UNCHANGED <<connected, buff_in_use, ring, stale, content, client>>

(* Mutant: the buffers of the removed connection stay marked as used. *)
remove_connection_keeping_buffers(i, also, n) ==
    /\ connected' = connected \ {i}
    /\ curr_recv_buff' = [curr_recv_buff EXCEPT ![i] = 0]
    /\ in_use_recv' = in_use_recv \ also
    /\ buff_in_use' = [buff_in_use EXCEPT ![i] = {}]
    /\ stale' = stale \cup {wr[i][k] : k \in 1 .. n}
    /\ wr' = [wr EXCEPT ![i] = <<>>]
    /\ landed' = [landed EXCEPT ![i] = 0]
    /\ polled' = [polled EXCEPT ![i] = 0]

(* remove_connection: the QP goes with all its receives, and every buffer  *)
(* the connection has ever used is marked as free.  Completions of its     *)
(* first n receives are in the batch and stay there.                       *)
remove_connection_buffers(i, also, n) ==
    /\ connected' = connected \ {i}
    /\ curr_recv_buff' = [curr_recv_buff EXCEPT ![i] = 0]
    /\ in_use_recv' = (in_use_recv \ buff_in_use[i]) \ also
    /\ buff_in_use' = [buff_in_use EXCEPT ![i] = {}]
    /\ stale' = stale \cup {wr[i][k] : k \in 1 .. n}
    /\ wr' = [wr EXCEPT ![i] = <<>>]
    /\ landed' = [landed EXCEPT ![i] = 0]
    /\ polled' = [polled EXCEPT ![i] = 0]

(* The message is handled and its buffer released.  A shutdown removes the *)
(* connection first, and so does an opcode that is none.                   *)
Closes(m) == m.op # "REQUEST"

(* Mutant: the buffer of a handled message is not given back. *)
HandleMessageKept ==
    /\ doing = "handle"
    /\ ~Closes(content[buff])
    /\ doing' = "batch"
    /\ UNCHANGED <<connected, curr_recv_buff, buff_in_use, ring, queue, stale,
                   conn, buff, left, content, client>>

HandleMessage ==
    /\ doing = "handle"
    /\ ~Closes(content[buff])
    /\ doing' = "batch"
    /\ in_use_recv' = in_use_recv \ {buff}
    /\ UNCHANGED <<connected, curr_recv_buff, buff_in_use,
                   last_used_recv_buff, queue, stale, conn, buff, left,
                   content, client>>

HandleClosing ==
    /\ doing = "handle"
    /\ Closes(content[buff])
    /\ doing' = "batch"
    /\ remove_connection_buffers(conn, {buff}, polled[conn])
    /\ UNCHANGED <<last_used_recv_buff, conn, buff, left, content, client>>

(* A completion with an error - of a send, or of a receive that the device *)
(* gave up, which follows those that hold messages - or the check of the   *)
(* QPs between two rounds.                                                 *)
RemoveFailedConnection(i) ==
    /\ i \in connected \cap Leavers
    /\ \/ doing = "loop" /\ remove_connection_buffers(i, {}, 0)
       \/ /\ doing = "batch"
          /\ \E n \in polled[i] .. Len(wr[i]) :
                remove_connection_buffers(i, {}, n)
    /\ UNCHANGED <<doing, last_used_recv_buff, conn, buff, left, content,
                   client>>

(* "Connection not found": the buffer is released all the same. *)
ReleaseStale(b) ==
    /\ doing = "batch"
    /\ b \in stale
    /\ in_use_recv' = in_use_recv \ {b}
    /\ stale' = stale \ {b}
    /\ UNCHANGED <<doing, connected, curr_recv_buff, buff_in_use,
                   last_used_recv_buff, queue, conn, buff, left, content,
                   client>>

BatchEnds ==
    /\ doing = "batch"
    /\ \A i \in Slots : polled[i] = 0
    /\ stale = {}
    /\ doing' = "loop"
    /\ UNCHANGED <<connected, curr_recv_buff, buff_in_use, ring, queue, stale,
                   conn, buff, left, content, client>>

-----------------------------------------------------------------------------
ReceiveInit ==
    /\ doing = "loop"
    /\ connected = {}
    /\ curr_recv_buff = [i \in Slots |-> 0]
    /\ buff_in_use = [i \in Slots |-> {}]
    /\ in_use_recv = {}
    /\ last_used_recv_buff = 0
    /\ wr = [i \in Slots |-> <<>>]
    /\ landed = [i \in Slots |-> 0]
    /\ polled = [i \in Slots |-> 0]
    /\ stale = {}
    /\ conn = 0
    /\ buff = NoBuff
    /\ left = 0
    /\ content = [b \in Buffers |-> Blank]
    /\ sent = [i \in Slots |-> 0]
    /\ ended = {}
    /\ sessions = [i \in Slots |-> 0]

Device == \E i \in Slots : LandRequest(i) \/ LandShutdown(i)

Posting == (\E b \in Buffers : server_post_recv(b)) \/ PostingEnds

Batch ==
    \/ ibv_poll_cq
    \/ \E i \in Slots : RecvRequest(i)
    \/ HandleMessage
    \/ HandleClosing
    \/ \E b \in Buffers : ReleaseStale(b)
    \/ BatchEnds

ReceiveNext ==
    \/ Device
    \/ Posting
    \/ Batch
    \/ \E i \in Slots : ConnectSlot(i) \/ RemoveFailedConnection(i)

ReceiveSpec == ReceiveInit /\ [][ReceiveNext]_receive_vars

-----------------------------------------------------------------------------
(* Every variable holds what its declaration says. *)
ReceiveTypeOK ==
    /\ doing \in {"loop", "post", "batch", "handle", "down"}
    /\ connected \subseteq Slots
    /\ curr_recv_buff \in [Slots -> 0 .. MAX_RECV_BUFFS]
    /\ buff_in_use \in [Slots -> SUBSET Buffers]
    /\ in_use_recv \subseteq Buffers
    /\ last_used_recv_buff \in Int
    /\ wr \in [Slots -> Seq(Buffers)]
    /\ landed \in [Slots -> Nat]
    /\ polled \in [Slots -> Nat]
    /\ stale \subseteq Buffers
    /\ conn \in Slots
    /\ buff \in Buffers \cup {NoBuff}
    /\ left \in 0 .. MAX_RECV_BUFFS
    /\ sent \in [Slots -> Nat]
    /\ ended \subseteq Slots
    /\ sessions \in [Slots -> Nat]

(* The receives of connection i. *)
Receives(i) == {wr[i][n] : n \in 1 .. Len(wr[i])}

QueueAgrees(i) ==
    /\ curr_recv_buff[i] = Len(wr[i])
    /\ polled[i] <= landed[i]
    /\ landed[i] <= Len(wr[i])
    /\ Receives(i) \subseteq buff_in_use[i]

PhaseAgrees ==
    /\ doing = "post" => curr_recv_buff[conn] + left = MAX_RECV_BUFFS
    /\ doing = "handle" => buff # NoBuff
    /\ doing = "loop" \/ (doing = "post" /\ buff = NoBuff) =>
          (\A i \in Slots : polled[i] = 0) /\ stale = {}

(* The counters agree with the queues: the count of a connection is the    *)
(* number of its receives, the polled ones have landed, and a refill ends  *)
(* exactly at the maximum.  No message is left over when a batch ends.     *)
CountsAgree == (\A i \in Slots : QueueAgrees(i)) /\ PhaseAgrees

(* The buffer of the message that the server is looking at. *)
InHand ==
    IF doing \in {"post", "handle", "down"} /\ buff # NoBuff THEN {buff} ELSE {}

Posted == UNION {Receives(i) : i \in Slots}

(***************************************************************************)
(* No buffer is lost: one that is marked as used is posted for some        *)
(* connection, or is the one of the message being handled - whatever was   *)
(* released twice or for the wrong connection in the meantime.             *)
(***************************************************************************)
UsedBuffersArePosted == in_use_recv \subseteq Posted \cup InHand

(***************************************************************************)
(* server.c:79-83, 756-761: the pool is just large enough that the server  *)
(* never goes down because it could not post enough receives, although the *)
(* buffer of the message in hand is still in use while others are posted,  *)
(* and although connections come and go.                                   *)
(***************************************************************************)
NeverRunsShort == doing # "down"

Holds(b, i, n) == content[b].from = i /\ content[b].n = n

(* No connection has been removed yet. *)
NobodyHasLeft == \A i \in Slots : sessions[i] = IF i \in connected THEN 1 ELSE 0

(***************************************************************************)
(* From the moment a message lands until its handler has read it, its      *)
(* buffer holds that message: nobody posts the buffer again, which zeroes  *)
(* it (server.c:563), and no other message lands in it; and the messages   *)
(* of a connection are handled in the order in which they were sent.  This *)
(* is so until a connection is removed: remove_connection then gives back  *)
(* buffers that other connections have posted (server.c:327-331).          *)
(***************************************************************************)
RequestsAreIntact ==
    NobodyHasLeft =>
        /\ \A i \in connected : \A n \in 1 .. landed[i] :
              Holds(wr[i][n], i, sent[i] - landed[i] + n)
        /\ InHand # {} => Holds(buff, conn, sent[conn] - landed[conn])
=============================================================================
