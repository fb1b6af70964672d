----------------------------- MODULE ClientLife -----------------------------
(***************************************************************************)
(* The client process from kv_open to its exit: the calls of the library,  *)
(* their waits for completions, the send buffers, and kv_close, which      *)
(* signals, messages and failures enter a second time from within the      *)
(* first (src/client.c; client_init_ctx in src/common/connection.c;        *)
(* src/client_internals/client_requests_management.c).  The inner kv_close *)
(* always ends in exit, so no frame below it is ever taken up again.       *)
(***************************************************************************)
EXTENDS Integers, Sequences, FiniteSets

CONSTANTS
    CLIENT_NUM_SEND_BUFFS,  \* the client uses the server's number
    Window,         \* 250: so many records, and kv_set waits
    Iters,          \* 200: for so many completions
    ClientMayFail,  \* the calls of kv_open that may fail
    ServerMayCrash, \* the server may go without a SERVER_SHUTDOWN
    MaxOps          \* bound: how many requests the program makes

ClientCalls == {"ibv_get_device_list", "client_init_ctx",
                "client_post_recv_buffers", "client_exch_dest", "connect_ctx"}

ASSUME ClientLifeAssumption ==
    /\ CLIENT_NUM_SEND_BUFFS \in Nat \ {0}
    /\ Window \in Nat \ {0, 1}
    /\ Iters \in Nat
    /\ ClientMayFail \subseteq ClientCalls
    /\ ServerMayCrash \in BOOLEAN
    /\ MaxOps \in Nat

Buffers == 0 .. CLIENT_NUM_SEND_BUFFS - 1
NoBuff == -1
Tids == 1 .. MaxOps

(* What a send buffer can hold. *)
Requests == {"SET", "EAGER_SET", "GET", "RDMA_FIN"} \X Tids
Shutdown == <<"CLIENT_SHUTDOWN", 0>>
Zeroes == <<"zeroes", 0>>
Messages == Requests \cup {Shutdown, Zeroes}

VARIABLES
    in_call,  \* the call the client is in
    back,     \* where client_wait_completions returns to
    iters,    \* how many completions it still waits for
    client_shutdown,
    ctx,      \* kv_open has a context
    sockfd_client, \* the socket is open
    qp,       \* state of the queue pair
    internal_q,  \* the tids with a record
    answered, \* the GETs whose record has is_pending FALSE
    in_use_send, last_used_send_buff,
    mem,      \* mem[b]: what send buffer b holds
    sq,       \* the work requests posted and not completed, in order
    arrived,  \* how many of them the server had when it went
    cur,      \* the request kv_set or kv_get is making, and its buffer
    waited,   \* kv_set has waited with a buffer in its hand
    ops,      \* how many requests were made
    asked,    \* the requests the server owes an answer
    incoming, \* the messages received and not polled; 0 is SERVER_SHUTDOWN
    server    \* the server is there

buffs   == <<in_use_send, last_used_send_buff, mem>>
queue   == <<sq, qp, arrived>>
records == <<internal_q, answered>>
call    == <<back, iters, cur, waited, ops>>
process == <<client_shutdown, ctx, sockfd_client>>
peer    == <<asked, incoming, server>>
client_vars == <<in_call, call, process, queue, records, buffs, peer>>

-----------------------------------------------------------------------------
(* Send buffers (src/common/buffers_management.c).                         *)

(* Mutant: the search does not go around the ring. *)
get_free_send_idx_unwrapped ==
    LET From(k) == last_used_send_buff + k
        Unused == {k \in Buffers : From(k) \notin in_use_send}
    IN IF Unused = {} THEN NoBuff
       ELSE From(CHOOSE k \in Unused : \A j \in Unused : k <= j)

(* The first buffer not in use, from the last one found on; found, it is   *)
(* not yet in use.                                                         *)
get_free_send_idx ==
    LET From(k) == (last_used_send_buff + k) % CLIENT_NUM_SEND_BUFFS
        Free == {k \in Buffers : From(k) \notin in_use_send}
    IN IF Free = {} THEN NoBuff
       ELSE From(CHOOSE k \in Free : \A j \in Free : k <= j)

(* Mutant: the buffer is not marked as taken. *)
client_post_send_unacquired(b, m) ==
    /\ UNCHANGED in_use_send
    /\ mem' = [mem EXCEPT ![b] = m]
    /\ sq' = Append(sq, [wr |-> "SEND", buff |-> b, msg |-> m])

(* Message m is written to buffer b and posted. *)
client_post_send(b, m) ==
    /\ in_use_send' = in_use_send \cup {b}
    /\ mem' = [mem EXCEPT ![b] = m]
    /\ sq' = Append(sq, [wr |-> "SEND", buff |-> b, msg |-> m])

Write(t) == [wr |-> "RDMA_WRITE", buff |-> NoBuff, msg |-> <<"RDMA_WRITE", t>>]
Read(t) == [wr |-> "RDMA_READ", buff |-> NoBuff, msg |-> <<"RDMA_READ", t>>]

(* The buffer is zeroed and given back. *)
free_send_buffer(b) ==
    /\ in_use_send' = in_use_send \ {b}
    /\ mem' = [mem EXCEPT ![b] = Zeroes]

-----------------------------------------------------------------------------
(* kv_open.                                                                *)

Opens(step, next) ==
    /\ in_call = step
    /\ in_call' = next

GetDeviceList ==
    /\ Opens("ibv_get_device_list", "client_init_ctx")
    /\ UNCHANGED <<call, process, queue, records, buffs, peer>>

client_init_ctx ==
    /\ Opens("client_init_ctx", "client_post_recv_buffers")
    /\ ctx' = TRUE
    /\ qp' = "INIT"
    /\ UNCHANGED <<call, client_shutdown, sockfd_client, sq, arrived, records,
                   buffs, peer>>

(* There is no context, and so nothing to close. *)
InitFails ==
    /\ in_call = "client_init_ctx"
    /\ in_call \in ClientMayFail
    /\ in_call' = "exit"
    /\ UNCHANGED <<call, client_shutdown, ctx, sockfd_client, queue, records,
                   buffs, peer>>

(* The receives are posted and the port is asked. *)
PostReceives ==
    /\ Opens("client_post_recv_buffers", "connecting")
    /\ UNCHANGED <<call, process, queue, records, buffs, peer>>

(* One turn of the loop that connects: the flag is read, then the socket   *)
(* is made; a signal may come between.                                     *)
Connecting ==
    /\ \/ /\ in_call = "connecting"
          /\ in_call' = IF client_shutdown THEN "kv_close" ELSE "socket"
          /\ UNCHANGED sockfd_client
       \/ /\ in_call = "socket"
          /\ \/ server /\ in_call' = "client_exch_dest" /\ sockfd_client' = TRUE
             \/ in_call' = "connecting" /\ UNCHANGED sockfd_client
    /\ UNCHANGED <<call, client_shutdown, ctx, queue, records,
                   buffs, peer>>

(* The address of the server arrives. *)
ReadAddress ==
    /\ Opens("client_exch_dest", "connect_ctx")
    /\ sockfd_client
    /\ server
    /\ UNCHANGED <<call, process, queue, records, buffs, peer>>

(* The read fails: the signal handler has closed the socket, or the server *)
(* has gone.                                                               *)
ReadFails ==
    /\ in_call = "client_exch_dest"
    /\ ~sockfd_client \/ ~server
    /\ in_call' = "kv_close"
    /\ UNCHANGED <<call, process, queue, records, buffs, peer>>

(* The table is made when all else is done. *)
OpenEnds ==
    /\ Opens("connect_ctx", "idle")
    /\ qp' = "RTS"
    /\ internal_q' = {}
    /\ UNCHANGED <<call, process, sq, arrived, answered, buffs, peer>>

(* Every other failure is answered with kv_close and exit; without a       *)
(* context kv_close has nothing to do.                                     *)
OpenFails ==
    /\ in_call \in ClientMayFail \ {"client_init_ctx"}
    /\ in_call' = IF ctx THEN "kv_close" ELSE "exit"
    /\ UNCHANGED <<call, process, queue, records, buffs, peer>>

-----------------------------------------------------------------------------
(* kv_set and kv_get.                                                      *)

(* client_wait_completions(n), called from where. *)
Wait(n, where) ==
    /\ in_call' = "client_wait_completions"
    /\ iters' = n
    /\ back' = where

(* A call takes a new tid: get_new_tid. *)
Start(kind, where) ==
    /\ in_call = "idle"
    /\ ops < MaxOps
    /\ ops' = ops + 1
    /\ cur' = [msg |-> <<kind, ops + 1>>, buff |-> NoBuff]
    /\ in_call' = where
    /\ UNCHANGED <<back, iters, waited, process, queue, records, buffs, peer>>

Tid == cur.msg[2]

(* The request goes out; all but an eager SET are recorded and answered. *)
Post(b, where) ==
    /\ client_post_send(b, cur.msg)
    /\ IF cur.msg[1] = "EAGER_SET"
       THEN UNCHANGED <<internal_q, asked>>
       ELSE /\ internal_q' = internal_q \cup {Tid}
            /\ asked' = asked \cup {Tid}
    /\ in_call' = where
    /\ UNCHANGED <<back, iters>>

(* num_pending_requests counts the record made with the table, too. *)
num_pending_requests == Cardinality(internal_q) + 1

(* kv_set looks for a buffer, and waits for one completion when there is   *)
(* none.                                                                   *)
FindBuffer ==
    /\ in_call = "kv_set"
    /\ IF get_free_send_idx = NoBuff
       THEN /\ Wait(1, "kv_set")
            /\ UNCHANGED <<cur, last_used_send_buff>>
       ELSE /\ in_call' = "remaining_requests"
            /\ cur' = [cur EXCEPT !.buff = get_free_send_idx]
            /\ last_used_send_buff' = get_free_send_idx
            /\ UNCHANGED <<back, iters>>
    /\ UNCHANGED <<waited, ops, process, queue, records, in_use_send, mem,
                   peer>>

(* Mutant: it waits for an answer and a write of every request of a window. *)
kv_set_waiting_for_all ==
    /\ in_call = "remaining_requests"
    /\ IF num_pending_requests >= Window
       THEN /\ Wait(2 * Window, "remaining_requests")
            /\ waited' = TRUE
            /\ UNCHANGED <<sq, internal_q, asked, in_use_send, mem>>
       ELSE Post(cur.buff, "idle") /\ UNCHANGED waited
    /\ UNCHANGED <<cur, ops, process, qp, arrived, answered,
                   last_used_send_buff, incoming, server>>

(* With the buffer found, kv_set waits until few enough requests are left, *)
(* and only then takes the buffer.                                         *)
kv_set ==
    /\ in_call = "remaining_requests"
    /\ IF num_pending_requests >= Window
       THEN /\ Wait(Iters, "remaining_requests")
            /\ waited' = TRUE
            /\ UNCHANGED <<sq, internal_q, asked, in_use_send, mem>>
       ELSE Post(cur.buff, "idle") /\ UNCHANGED waited
    /\ UNCHANGED <<cur, ops, process, qp, arrived, answered,
                   last_used_send_buff, incoming, server>>

(* kv_get takes the buffer it finds. *)
kv_get ==
    /\ in_call = "kv_get"
    /\ IF get_free_send_idx = NoBuff
       THEN /\ Wait(1, "kv_get")
            /\ UNCHANGED <<sq, internal_q, asked, buffs>>
       ELSE /\ Post(get_free_send_idx, "is_pending")
            /\ last_used_send_buff' = get_free_send_idx
    /\ UNCHANGED <<cur, waited, ops, process, qp, arrived, answered,
                   incoming, server>>

(* It waits until its record is marked, and removes the record. *)
GetPending ==
    /\ in_call = "is_pending"
    /\ IF Tid \in answered
       THEN /\ in_call' = "idle"
            /\ internal_q' = internal_q \ {Tid}
            /\ answered' = answered \ {Tid}
            /\ UNCHANGED <<back, iters>>
       ELSE /\ Wait(1, "is_pending")
            /\ UNCHANGED records
    /\ UNCHANGED <<cur, waited, ops, process, queue, buffs, peer>>

-----------------------------------------------------------------------------
(* client_wait_completions.                                                *)

(* Mutant: the flag is not read while completions are missing. *)
LoopHeadBlind ==
    /\ in_call = "client_wait_completions"
    /\ iters <= 0
    /\ in_call' = back
    /\ iters' = 0
    /\ UNCHANGED <<back, cur, waited, ops, process, queue, records, buffs, peer>>

(* The head of its loop. *)
LoopHead ==
    /\ in_call = "client_wait_completions"
    /\ IF iters <= 0
       THEN in_call' = back /\ iters' = 0
       ELSE client_shutdown /\ in_call' = "kv_close" /\ UNCHANGED iters
    /\ UNCHANGED <<back, cur, waited, ops, process, queue, records, buffs, peer>>

(* A completion is polled. *)
Polls ==
    /\ in_call = "client_wait_completions"
    /\ ~client_shutdown \/ iters <= 0
    /\ qp = "RTS"

Counted == iters' = iters - 1 /\ UNCHANGED <<back, cur, waited, ops>>

(* The first work request has a completion: the server had it. *)
Completes(kind) ==
    /\ sq # <<>>
    /\ Head(sq).wr = kind
    /\ server \/ arrived > 0
    /\ arrived' = IF server THEN 0 ELSE arrived - 1

SendCompletes ==
    /\ Polls
    /\ Completes("SEND")
    /\ free_send_buffer(Head(sq).buff)
    /\ sq' = Tail(sq)
    /\ Counted
    /\ UNCHANGED <<in_call, process, qp, records, last_used_send_buff, peer>>

(* client_send_rdma_fin for the first work request, with a buffer found.   *)
(* The record's key is read without asking whether there is a record.      *)
client_send_rdma_fin(t, b) ==
    /\ in_call' = IF t \in internal_q THEN in_call ELSE "crash"
    /\ in_use_send' = in_use_send \cup {b}
    /\ mem' = [mem EXCEPT ![b] = <<"RDMA_FIN", t>>]
    /\ sq' = Append(Tail(sq), [wr |-> "SEND", buff |-> b,
                               msg |-> <<"RDMA_FIN", t>>])
    /\ last_used_send_buff' = b

(* Without a buffer for the FIN the client closes; the record stays as it  *)
(* is, and a GET's stays pending.                                          *)
FinHasNoBuffer ==
    /\ get_free_send_idx = NoBuff
    /\ in_call' = "kv_close"
    /\ sq' = Tail(sq)
    /\ UNCHANGED <<records, buffs, call>>

(* The write of a rendezvous SET is done: the FIN goes, and the record.    *)
WriteCompletes ==
    /\ Polls
    /\ Completes("RDMA_WRITE")
    /\ LET t == Head(sq).msg[2]
           b == get_free_send_idx
       IN \/ FinHasNoBuffer
          \/ /\ b # NoBuff
             /\ client_send_rdma_fin(t, b)
             /\ internal_q' = internal_q \ {t}
             /\ UNCHANGED answered
             /\ Counted
    /\ UNCHANGED <<process, qp, peer>>

(* The read of a rendezvous GET is done: the FIN goes, and is_pending is   *)
(* FALSE.                                                                  *)
ReadCompletes ==
    /\ Polls
    /\ Completes("RDMA_READ")
    /\ LET t == Head(sq).msg[2]
           b == get_free_send_idx
       IN \/ FinHasNoBuffer
          \/ /\ b # NoBuff
             /\ client_send_rdma_fin(t, b)
             /\ answered' = answered \cup {t}
             /\ UNCHANGED internal_q
             /\ Counted
    /\ UNCHANGED <<process, qp, peer>>

(* Mutant: is_pending is cleared when the place to read from has come.     *)
client_handle_recv_done(t) ==
    /\ Polls
    /\ t \in incoming \ {0}
    /\ incoming' = incoming \ {t}
    /\ in_call' = IF t \in internal_q THEN in_call ELSE "crash"
    /\ \/ /\ cur.msg = <<"GET", t>>
          /\ answered' = answered \cup {t}
          /\ sq' \in {sq, Append(sq, Read(t))}
       \/ /\ cur.msg # <<"GET", t>>
          /\ sq' = Append(sq, Write(t))
          /\ UNCHANGED answered
    /\ Counted
    /\ UNCHANGED <<process, qp, arrived, internal_q, buffs, asked, server>>

(* An answer.  GET_RESPONSE brings the value of a GET, RDMA_RKEY_GET the   *)
(* place to read it from; RDMA_RKEY_SET is where a SET's value is written. *)
(* The record is used without asking whether there is one.                 *)
client_handle_recv(t) ==
    /\ Polls
    /\ t \in incoming \ {0}
    /\ incoming' = incoming \ {t}
    /\ in_call' = IF t \in internal_q THEN in_call ELSE "crash"
    /\ \/ /\ cur.msg = <<"GET", t>>
          /\ answered' = answered \cup {t}
          /\ UNCHANGED sq
       \/ /\ cur.msg = <<"GET", t>>
          /\ sq' = Append(sq, Read(t))
          /\ UNCHANGED answered
       \/ /\ cur.msg # <<"GET", t>>
          /\ sq' = Append(sq, Write(t))
          /\ UNCHANGED answered
    /\ Counted
    /\ UNCHANGED <<process, qp, arrived, internal_q, buffs, asked, server>>

(* SERVER_SHUTDOWN, or a completion with an error: the client closes. *)
EndedByPeer ==
    /\ in_call = "client_wait_completions"
    /\ ~client_shutdown \/ iters <= 0
    /\ qp = "ERR" \/ 0 \in incoming
    /\ client_shutdown' = TRUE
    /\ incoming' = incoming \ {0}
    /\ in_call' = "kv_close"
    /\ UNCHANGED <<call, ctx, sockfd_client, queue, records,
                   buffs, asked, server>>

-----------------------------------------------------------------------------
(* kv_close.                                                               *)

(* The program ends, or reads the flag between two lines of its input. *)
Finish ==
    /\ in_call = "idle"
    /\ in_call' = "kv_close"
    /\ UNCHANGED <<call, process, queue, records, buffs, peer>>

(* It waits until no record is left but the table's own, unless the        *)
(* shutdown is immediate; then the socket is closed and the table emptied. *)
kv_close ==
    /\ in_call = "kv_close"
    /\ IF num_pending_requests > 1 /\ ~client_shutdown
       THEN /\ Wait(1, "kv_close")
            /\ UNCHANGED <<internal_q, sockfd_client>>
       ELSE /\ in_call' = "client_close_ctx"
            /\ internal_q' = {}
            /\ sockfd_client' = FALSE
            /\ UNCHANGED <<back, iters>>
    /\ UNCHANGED <<cur, waited, ops, client_shutdown, ctx, queue,
                   answered, buffs, peer>>

(* client_close_ctx: the shutdown message is posted when the queue pair    *)
(* works and a buffer is free, and one completion is waited for.           *)
send_client_shutdown_message ==
    /\ in_call = "client_close_ctx"
    /\ qp = "RTS"
    /\ get_free_send_idx # NoBuff
    /\ client_post_send(get_free_send_idx, Shutdown)
    /\ last_used_send_buff' = get_free_send_idx
    /\ IF client_shutdown
       THEN in_call' = "ibv_destroy_qp" /\ UNCHANGED <<back, iters>>
       ELSE Wait(1, "ibv_destroy_qp")
    /\ UNCHANGED <<cur, waited, ops, process, qp, arrived, records, peer>>

NoShutdownMessage ==
    /\ in_call = "client_close_ctx"
    /\ qp # "RTS" \/ get_free_send_idx = NoBuff
    /\ in_call' = "ibv_destroy_qp"
    /\ UNCHANGED <<call, process, queue, records, buffs, peer>>

(* The queue pair, the completion queue, the regions, the domain and the   *)
(* device, in an order the library accepts; then the process ends.         *)
DestroyClientObjects ==
    /\ in_call = "ibv_destroy_qp"
    /\ in_call' = "exit"
    /\ UNCHANGED <<call, client_shutdown, ctx, sockfd_client, queue, records,
                   buffs, peer>>

-----------------------------------------------------------------------------
(* The surroundings.                                                       *)

ClientRunning == in_call \notin {"exit", "crash"}

client_signal_handler ==
    /\ ClientRunning
    /\ ~client_shutdown
    /\ client_shutdown' = TRUE
    /\ sockfd_client' = FALSE
    /\ UNCHANGED <<in_call, call, ctx, queue, records, buffs,
                   peer>>

Answer(t) ==
    /\ ClientRunning
    /\ server
    /\ t \in asked
    /\ asked' = asked \ {t}
    /\ incoming' = incoming \cup {t}
    /\ UNCHANGED <<in_call, call, process, queue, records, buffs, server>>

(* The server goes, and tells the client when it works as it should. *)
ServerEnds ==
    /\ ClientRunning
    /\ server
    /\ server' = FALSE
    /\ arrived' \in 0 .. Len(sq)
    /\ \/ qp = "RTS" /\ incoming' = incoming \cup {0}
       \/ qp # "RTS" /\ UNCHANGED incoming
       \/ ServerMayCrash /\ UNCHANGED incoming
    /\ UNCHANGED <<in_call, call, process, sq, qp, records, buffs, asked>>

(* What is posted to a server that has gone fails after its retries. *)
QpError ==
    /\ ClientRunning
    /\ ~server
    /\ qp = "RTS"
    /\ Len(sq) > arrived
    /\ qp' = "ERR"
    /\ UNCHANGED <<in_call, call, process, sq, arrived, records, buffs, peer>>

-----------------------------------------------------------------------------
ClientInit ==
    /\ in_call = "ibv_get_device_list"
    /\ back = "idle"
    /\ iters = 0
    /\ client_shutdown = FALSE
    /\ ctx = FALSE
    /\ sockfd_client = FALSE
    /\ qp = "none"
    /\ internal_q = {}
    /\ answered = {}
    /\ in_use_send = {}
    /\ last_used_send_buff = 0
    /\ mem = [b \in Buffers |-> Zeroes]
    /\ sq = <<>>
    /\ arrived = 0
    /\ cur = [msg |-> Zeroes, buff |-> NoBuff]
    /\ waited = FALSE
    /\ ops = 0
    /\ asked = {}
    /\ incoming = {}
    /\ server = TRUE

kv_open ==
    GetDeviceList \/ client_init_ctx \/ PostReceives \/ Connecting \/ OpenEnds

Program ==
    \/ Start("SET", "kv_set") \/ Start("EAGER_SET", "kv_set")
    \/ Start("GET", "kv_get")
    \/ Finish

client_wait_completions ==
    \/ LoopHead \/ SendCompletes \/ WriteCompletes \/ ReadCompletes \/ EndedByPeer
    \/ \E t \in Tids : client_handle_recv(t)

Close ==
    \/ kv_close \/ send_client_shutdown_message \/ NoShutdownMessage
    \/ DestroyClientObjects

Thread == \/ kv_open \/ ReadFails \/ Program \/ FindBuffer \/ kv_set \/ kv_get
          \/ GetPending \/ client_wait_completions \/ Close

ClientNext ==
    \/ Thread \/ ReadAddress \/ InitFails \/ OpenFails
    \/ client_signal_handler \/ ServerEnds \/ QpError
    \/ \E t \in Tids : Answer(t)

ClientSpec == ClientInit /\ [][ClientNext]_client_vars

-----------------------------------------------------------------------------
(* Every variable holds what its declaration says. *)
ClientLifeTypeOK ==
    /\ in_call \in ClientCalls \cup
          {"connecting", "socket", "idle", "kv_set", "kv_get",
           "remaining_requests", "is_pending", "kv_close",
           "client_wait_completions", "client_close_ctx", "ibv_destroy_qp",
           "exit", "crash"}
    /\ client_shutdown \in BOOLEAN /\ ctx \in BOOLEAN
    /\ qp \in {"none", "INIT", "RTS", "ERR"}
    /\ internal_q \subseteq Tids
    /\ answered \subseteq Tids
    /\ in_use_send \subseteq Buffers
    /\ last_used_send_buff \in Buffers
    /\ mem \in [Buffers -> Messages]

(***************************************************************************)
(* No answer and no completion is handled for a request whose record is    *)
(* gone (client.c:613-656, 745-757, which do not ask): not even when       *)
(* kv_close has emptied the table and polls for its last message.          *)
(***************************************************************************)
RecordsAreThere == in_call # "crash"

(***************************************************************************)
(* client.c:506-512 refuses to post a buffer that holds no request.  From  *)
(* its posting to its completion a message stays in its buffer, until      *)
(* kv_set waits with the window closed (client.c:253-258): it has found    *)
(* its buffer and not yet taken it, and a FIN may take the same.           *)
(***************************************************************************)
SendsAreIntact ==
    ~waited =>
        /\ \A i \in DOMAIN sq :
              sq[i].wr = "SEND" =>
                  sq[i].buff \in in_use_send /\ mem[sq[i].buff] = sq[i].msg
        /\ Cardinality(in_use_send) <= Len(sq)

(* client.c:845-858: a signal ends the client, whatever it is doing. *)
SignalEndsClient == client_shutdown ~> ~ClientRunning

(* A request whose FIN found no buffer: nothing will remove its record.    *)
FinIsMissing ==
    \E t \in internal_q \ (asked \cup incoming \cup answered) :
        \A i \in DOMAIN sq : sq[i].wr # "SEND" => sq[i].msg[2] # t

(***************************************************************************)
(* Once connected, every call of the library returns, or ends the process, *)
(* as long as the server is there to answer: when kv_set waits for 200     *)
(* completions (client.c:254), more than that are to come, also when the   *)
(* wait is for a send buffer or inside kv_close.  What may keep a call     *)
(* from ending is a write or a read that completes when no send buffer is  *)
(* free: the kv_close made then (client.c:592-594) waits for a record that *)
(* stays.                                                                  *)
(***************************************************************************)
CallsEnd ==
    qp = "RTS" ~>
        (in_call = "idle" \/ ~ClientRunning \/ FinIsMissing \/ ~server)
=============================================================================
