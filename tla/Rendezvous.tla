----------------------------- MODULE Rendezvous -----------------------------
(***************************************************************************)
(* The clients (src/client.c), the network between them and the server's   *)
(* main loop (src/server.c, server_loop), over the handlers of             *)
(* ServerRequests.                                                         *)
(*                                                                         *)
(* c2s[c] holds the work requests client c has posted, oldest first: the   *)
(* sends the server has not handled yet and the RDMA reads and writes the  *)
(* network has not executed yet.  A reliable connection executes them in   *)
(* order, but a send is handled whenever the server polls for it, so an    *)
(* RDMA request overtakes the sends before it and nothing else.            *)
(*                                                                         *)
(* One round of the server's loop is: poll a batch of completions, handle  *)
(* each of them, then make one pass over the queued requests.  Between two *)
(* steps of the server the clients and the network take any steps; the     *)
(* server has one thread, so one handler is one step.  The pools of send   *)
(* and receive buffers never run out here.                                 *)
(***************************************************************************)
EXTENDS ServerRequests

CONSTANTS
    SERVER_WC_BATCH,  \* completions per poll; a pass serves one request more
    WINDOW,           \* pending requests at which kv_set waits
    Unreliable,       \* clients that may die
    Delivering,       \* clients whose kv_close leaves no request unsent
    Reusing,          \* clients that reuse a value's memory after kv_set
    MaxSessions,      \* connections one slot sees
    NoClient          \* no connection is being removed

ASSUME LoopAssumption ==
    /\ SERVER_WC_BATCH \in Nat \ {0}
    /\ WINDOW \in Nat
    /\ Unreliable \subseteq Clients
    /\ Delivering \subseteq Clients
    /\ Reusing \subseteq Clients
    /\ MaxSessions \in Nat
    /\ NoClient \notin Clients

VARIABLES
    pc,        \* what client c is doing
    tid,       \* last_used_tid of client c
    pending,   \* client_requests_management.c: the client's own requests
    c2s,       \* posted work requests of client c
    wcq,       \* RDMA completions client c has not polled yet
    conn,      \* the server's QP for slot c
    sessions,  \* connections slot c has had
    phase,     \* where the server's loop is
    polled,    \* requests of c polled in this batch and not handled yet
    todo,      \* requests this pass still has to serve
    closing    \* the connection that remove_connection is working on

clientVars == <<pc, tid, pending, wcq>>
loopVars   == <<phase, polled, todo, closing>>
vars == <<serverVars, clientVars, c2s, conn, sessions, loopVars>>

RdmaOps == {"WRITE", "READ"}
SendOps == {"SET", "GET", "FIN"}

Shutdown == [op |-> "SHUTDOWN", tid |-> <<NoClient, 0>>, key |-> NoKey,
             val |-> Empty, rkey |-> 0]

WorkRequest ==
    [op : SendOps \cup RdmaOps, tid : Tids, key : Keys,
     val : Contents, rkey : Nat] \cup {Shutdown}

(* A record of the client's own table: of a SET the value it was called    *)
(* with, of a GET the value it has received.                               *)
ClientRequest ==
    [op : {"SET"}, key : Keys, val : Contents, done : BOOLEAN] \cup
    [op : {"GET"}, key : Keys, val : Contents \cup {Torn}, done : BOOLEAN]

ASSUME ClientRequestAssumption == NoReq \notin ClientRequest

Completion == [op : RdmaOps, tid : Tids]

Alive(c) == pc[c] \in {"app", "get", "close"}

Waits(t, op) == pending[t] # NoReq /\ pending[t].op = op

PendingOf(c) == {t \in Tids : Owner(t) = c /\ pending[t] # NoReq}

Post(c, m) == c2s' = [c2s EXCEPT ![c] = Append(@, m)]

-----------------------------------------------------------------------------
(* The client's calls: kv_set, kv_get and kv_close.                        *)

NextTid(c) == <<c, tid[c] + 1>>

get_new_tid(c) ==
    /\ tid[c] < MaxOps
    /\ tid' = [tid EXCEPT ![c] = @ + 1]

(* num_pending_requests counts the record the table was initialised with.  *)
WindowOpen(c) == Cardinality(PendingOf(c)) + 1 < WINDOW

(* A large value is not copied: the record keeps a pointer to the caller's *)
(* memory, and val names what that memory held at the call.  What it holds *)
(* when the value is sent is SentContent's affair.                         *)
kv_set(c, k, v) ==
    /\ pc[c] = "app"
    /\ WindowOpen(c)
    /\ get_new_tid(c)
    /\ pending' = IF EagerSet(k, v)
                  THEN pending
                  ELSE [pending EXCEPT ![NextTid(c)] =
                          [op |-> "SET", key |-> k, val |-> v,
                           done |-> FALSE]]
    /\ Post(c, Message("SET", NextTid(c), k, v, 0))
    /\ UNCHANGED <<serverVars, pc, wcq, conn, sessions, loopVars>>

kv_get(c, k) ==
    /\ pc[c] = "app"
    /\ get_new_tid(c)
    /\ pc' = [pc EXCEPT ![c] = "get"]
    /\ pending' = [pending EXCEPT ![NextTid(c)] =
                     [op |-> "GET", key |-> k, val |-> Empty, done |-> FALSE]]
    /\ Post(c, Message("GET", NextTid(c), k, Empty, 0))
    /\ UNCHANGED <<serverVars, wcq, conn, sessions, loopVars>>

(* kv_get returns once its request is no longer pending. *)
GetReturn(c) ==
    LET t == <<c, tid[c]>>
    IN  /\ pc[c] = "get"
        /\ pending[t].done
        /\ pc' = [pc EXCEPT ![c] = "app"]
        /\ pending' = [pending EXCEPT ![t] = NoReq]
        /\ UNCHANGED <<serverVars, tid, wcq, c2s, conn, sessions, loopVars>>

kv_close(c) ==
    /\ pc[c] = "app"
    /\ pc' = [pc EXCEPT ![c] = "close"]
    /\ UNCHANGED <<serverVars, tid, pending, wcq, c2s, conn, sessions,
                   loopVars>>

(* What is left of the requests q of a client whose QP is destroyed: some  *)
(* prefix of at least n, n covering what the server has already polled.    *)
Surviving(q, n) == {SubSeq(q, 1, m) : m \in n .. Len(q)}

(***************************************************************************)
(* The rest of kv_close: nothing is pending, so the client posts its       *)
(* shutdown message, waits for one completion, and destroys its QP.  The   *)
(* completion may be that of any older send, so the shutdown message, and  *)
(* sends before it, may be lost.  For a Delivering client the earlier      *)
(* sends have all completed by then, and only its own message may be lost. *)
(***************************************************************************)
CloseDone(c) ==
    /\ pc[c] = "close"
    /\ PendingOf(c) = {}
    /\ pc' = [pc EXCEPT ![c] = "gone"]
    /\ \E q \in Surviving(Append(c2s[c], Shutdown),
                         IF c \in Delivering THEN Len(c2s[c])
                                            ELSE polled[c]) :
          c2s' = [c2s EXCEPT ![c] = q]
    /\ UNCHANGED <<serverVars, tid, pending, wcq, conn, sessions, loopVars>>

(* The process of an unreliable client ends, whatever it was doing. *)
ClientDie(c) ==
    /\ c \in Unreliable
    /\ Alive(c)
    /\ pc' = [pc EXCEPT ![c] = "gone"]
    /\ pending' = [t \in Tids |-> IF Owner(t) = c THEN NoReq ELSE pending[t]]
    /\ wcq' = [wcq EXCEPT ![c] = <<>>]
    /\ \E q \in Surviving(c2s[c], polled[c]) :
          c2s' = [c2s EXCEPT ![c] = q]
    /\ UNCHANGED <<serverVars, tid, conn, sessions, loopVars>>

-----------------------------------------------------------------------------
(* client_wait_completions: what the client does with what it polls.  It   *)
(* polls while it waits in kv_get, kv_set or kv_close, and whenever the    *)
(* application calls it.  Each handler looks its request up in the table   *)
(* and uses what it finds unseen; RequestsAreInOnePlace says that it finds *)
(* the request, so the guard that names it keeps nothing from happening.   *)

TakeReply(c, op, request) ==
    /\ Alive(c)
    /\ s2c[c] # <<>>
    /\ Head(s2c[c]).op = op
    /\ Waits(Head(s2c[c]).tid, request)
    /\ s2c' = [s2c EXCEPT ![c] = Tail(@)]
    /\ UNCHANGED <<db, internal_q, sorted_q, waiting_fin_q>>

client_handle_get_response(c) ==
    LET m == Head(s2c[c])
    IN  /\ TakeReply(c, "GET_RESPONSE", "GET")
        /\ pending' = [pending EXCEPT ![m.tid].val = m.val,
                                      ![m.tid].done = TRUE]
        /\ UNCHANGED <<pc, tid, wcq, c2s, conn, sessions, loopVars>>

client_handle_recv_rdma_rkey_get(c) ==
    LET m == Head(s2c[c])
    IN  /\ TakeReply(c, "RDMA_RKEY_GET", "GET")
        /\ Post(c, Message("READ", m.tid, m.key, Empty, m.rkey))
        /\ UNCHANGED <<clientVars, conn, sessions, loopVars>>

client_handle_recv_rdma_rkey_set(c) ==
    LET m == Head(s2c[c])
    IN  /\ TakeReply(c, "RDMA_RKEY_SET", "SET")
        /\ Post(c, Message("WRITE", m.tid, m.key, pending[m.tid].val, m.rkey))
        /\ UNCHANGED <<clientVars, conn, sessions, loopVars>>

TakeCompletion(c, op, request) ==
    /\ Alive(c)
    /\ wcq[c] # <<>>
    /\ Head(wcq[c]).op = op
    /\ Waits(Head(wcq[c]).tid, request)
    /\ wcq' = [wcq EXCEPT ![c] = Tail(@)]

client_send_rdma_fin(c, t) ==
    Post(c, Message("FIN", t, pending[t].key, Empty, 0))

RdmaReadDone(c) ==
    LET t == Head(wcq[c]).tid
    IN  /\ TakeCompletion(c, "READ", "GET")
        /\ client_send_rdma_fin(c, t)
        /\ pending' = [pending EXCEPT ![t].done = TRUE]
        /\ UNCHANGED <<serverVars, pc, tid, conn, sessions, loopVars>>

(* Mutant: a finished write is not announced to the server. *)
RdmaWriteDoneWithoutFin(c) ==
    LET t == Head(wcq[c]).tid
    IN  /\ TakeCompletion(c, "WRITE", "SET")
        /\ pending' = [pending EXCEPT ![t] = NoReq]
        /\ UNCHANGED <<serverVars, pc, tid, c2s, conn, sessions, loopVars>>

(* Mutant: a finished write leaves its request pending. *)
RdmaWriteDoneStillPending(c) ==
    /\ TakeCompletion(c, "WRITE", "SET")
    /\ client_send_rdma_fin(c, Head(wcq[c]).tid)
    /\ UNCHANGED <<serverVars, pc, tid, pending, conn, sessions, loopVars>>

RdmaWriteDone(c) ==
    LET t == Head(wcq[c]).tid
    IN  /\ TakeCompletion(c, "WRITE", "SET")
        /\ client_send_rdma_fin(c, t)
        /\ pending' = [pending EXCEPT ![t] = NoReq]
        /\ UNCHANGED <<serverVars, pc, tid, conn, sessions, loopVars>>

ClientPoll(c) ==
    \/ client_handle_get_response(c)
    \/ client_handle_recv_rdma_rkey_get(c)
    \/ client_handle_recv_rdma_rkey_set(c)
    \/ RdmaReadDone(c)
    \/ RdmaWriteDone(c)

-----------------------------------------------------------------------------
(* The network: RDMA requests reach the server's memory without the server *)
(* taking a step.                                                          *)

(* The i-th request of c is the next RDMA request to execute. *)
NextRdma(c, i) ==
    /\ i \in DOMAIN c2s[c]
    /\ c2s[c][i].op \in RdmaOps
    /\ \A j \in 1 .. (i - 1) : c2s[c][j].op \notin RdmaOps

(* A remote key is only good for the memory region it was made for. *)
RdmaExecute(c, i) ==
    LET m == c2s[c][i]
    IN  /\ NextRdma(c, i)
        /\ conn[c] = "rts"
        /\ db[m.key].mr = m.rkey
        /\ c2s' = [c2s EXCEPT ![c] = RemoveAt(@, i)]
        /\ wcq' = IF Alive(c)
                  THEN [wcq EXCEPT ![c] =
                          Append(@, [op |-> m.op, tid |-> m.tid])]
                  ELSE wcq

(* What the device of c finds in the memory a value v was set from: v, or  *)
(* anything, if the application freed or overwrote it.  It can, since      *)
(* kv_set has returned before the value is sent.                           *)
SentContent(c, v) == IF c \in Reusing THEN Contents ELSE {v}

RdmaWrite(c) ==
    \E i \in DOMAIN c2s[c] :
        LET m == c2s[c][i]
        IN  /\ m.op = "WRITE"
            /\ RdmaExecute(c, i)
            /\ \E v \in SentContent(c, m.val) :
                  db' = [db EXCEPT ![m.key].value = v,
                                   ![m.key].filling = FALSE]
            /\ UNCHANGED <<internal_q, sorted_q, waiting_fin_q, s2c, pc, tid,
                           pending, conn, sessions, loopVars>>

RdmaRead(c) ==
    \E i \in DOMAIN c2s[c] :
        LET m == c2s[c][i]
        IN  /\ m.op = "READ"
            /\ RdmaExecute(c, i)
            /\ pending' = IF Waits(m.tid, "GET")
                          THEN [pending EXCEPT ![m.tid].val =
                                  Content(db[m.key])]
                          ELSE pending
            /\ UNCHANGED <<serverVars, pc, tid, conn, sessions, loopVars>>

(* A send to a client whose QP is gone is never acknowledged: after its    *)
(* retries the server's QP leaves the ready-to-send state.                 *)
QpError(c) ==
    /\ pc[c] = "gone"
    /\ conn[c] = "rts"
    /\ s2c[c] # <<>>
    /\ conn' = [conn EXCEPT ![c] = "error"]
    /\ UNCHANGED <<serverVars, clientVars, c2s, sessions, loopVars>>

-----------------------------------------------------------------------------
(* server_loop: accept, poll, handle the batch, serve queued requests.     *)

accept_new_connection(c) ==
    /\ phase = "poll"
    /\ conn[c] = "none"
    /\ pc[c] = "out"
    /\ sessions[c] < MaxSessions
    /\ conn' = [conn EXCEPT ![c] = "rts"]
    /\ sessions' = [sessions EXCEPT ![c] = @ + 1]
    /\ pc' = [pc EXCEPT ![c] = "app"]
    /\ tid' = [tid EXCEPT ![c] = 0]
    /\ UNCHANGED <<serverVars, pending, wcq, c2s, loopVars>>

(* The first n requests of c are sends, which is what can have arrived. *)
Arrived(c, n) ==
    /\ n <= Len(c2s[c])
    /\ \A i \in 1 .. n : c2s[c][i].op \notin RdmaOps

ibv_poll_cq ==
    /\ phase = "poll"
    /\ \E batch \in [Clients -> 0 .. SERVER_WC_BATCH] :
          /\ SumFunction(batch) <= SERVER_WC_BATCH
          /\ \A c \in Clients : Arrived(c, batch[c])
          /\ polled' = batch
    /\ phase' = "batch"
    /\ UNCHANGED <<serverVars, clientVars, c2s, conn, sessions, todo, closing>>

(* handle_recv_request takes the next polled request of c. *)
TakeRequest(c, op) ==
    /\ phase = "batch"
    /\ closing = NoClient
    /\ polled[c] > 0
    /\ Head(c2s[c]).op = op
    /\ c2s' = [c2s EXCEPT ![c] = Tail(@)]
    /\ polled' = [polled EXCEPT ![c] = @ - 1]
    /\ UNCHANGED <<clientVars, conn, sessions, todo>>

RecvSet(c) ==
    LET m == Head(c2s[c])
    IN  /\ TakeRequest(c, "SET")
        /\ handle_set_request(m.tid, m.key, m.val, m.val, sorted_q)
        /\ UNCHANGED <<phase, closing>>

RecvGet(c) ==
    LET m == Head(c2s[c])
    IN  /\ TakeRequest(c, "GET")
        /\ handle_get_request(m.tid, m.key, sorted_q)
        /\ UNCHANGED <<phase, closing>>

(* A FIN for a key without an entry closes the connection; a FIN for a tid *)
(* that waits for none takes the whole server down.                        *)
RecvFin(c) ==
    LET m == Head(c2s[c])
        known    == db[m.key].present
        expected == waiting_fin_q[m.tid] # NoKey
    IN  /\ TakeRequest(c, "FIN")
        /\ closing' = IF known THEN closing ELSE c
        /\ phase' = IF known /\ ~expected THEN "down" ELSE phase
        /\ IF known /\ expected
           THEN /\ remove_server_pending_request(m.tid, db, sorted_q)
                /\ UNCHANGED s2c
           ELSE UNCHANGED serverVars

RecvShutdown(c) ==
    /\ TakeRequest(c, "SHUTDOWN")
    /\ closing' = c
    /\ UNCHANGED <<serverVars, phase>>

(* A completion with an error status, or the check of the QP states that   *)
(* handle_pending_request makes once in a while, removes the connection.   *)
(* Errors come after the requests that arrived.                            *)
RemoveFailedConnection(c) ==
    /\ phase = "batch"
    /\ closing = NoClient
    /\ conn[c] = "error"
    /\ polled[c] = 0
    /\ closing' = c
    /\ UNCHANGED <<serverVars, clientVars, c2s, conn, sessions, phase, polled,
                   todo>>

(* remove_connection: invalidate the queued requests one by one while the  *)
(* QP is still up, then destroy the QP and free the slot.                  *)
InvalidateRequest ==
    /\ closing # NoClient
    /\ \E t \in QueuedBy(closing) :
          remove_server_pending_request(t, db, sorted_q)
    /\ UNCHANGED <<s2c, clientVars, c2s, conn, sessions, loopVars>>

(* Mutant: what the client had sent outlives the connection. *)
RemoveConnectionLeavingSends(c) ==
    /\ closing = c
    /\ QueuedBy(c) = {}
    /\ conn' = [conn EXCEPT ![c] = "none"]
    /\ s2c' = [s2c EXCEPT ![c] = <<>>]
    /\ polled' = [polled EXCEPT ![c] = 0]
    /\ pc' = IF pc[c] = "gone" THEN [pc EXCEPT ![c] = "out"] ELSE pc
    /\ closing' = NoClient
    /\ UNCHANGED <<db, internal_q, sorted_q, waiting_fin_q, tid, pending, wcq,
                   c2s, sessions, phase, todo>>

RemoveConnection(c) ==
    /\ closing = c
    /\ QueuedBy(c) = {}
    /\ conn' = [conn EXCEPT ![c] = "none"]
    /\ c2s' = [c2s EXCEPT ![c] = <<>>]
    /\ s2c' = [s2c EXCEPT ![c] = <<>>]
    /\ polled' = [polled EXCEPT ![c] = 0]
    /\ pc' = IF pc[c] = "gone" THEN [pc EXCEPT ![c] = "out"] ELSE pc
    /\ closing' = NoClient
    /\ UNCHANGED <<db, internal_q, sorted_q, waiting_fin_q, tid, pending, wcq,
                   sessions, phase, todo>>

(* Mutant: a pass leaves out the last of the queued requests. *)
StartPassOneShort ==
    /\ phase = "batch"
    /\ closing = NoClient
    /\ \A c \in Clients : polled[c] = 0
    /\ phase' = "pending"
    /\ todo' = IF 1 <= Len(sorted_q) /\ Len(sorted_q) <= SERVER_WC_BATCH + 1
               THEN Len(sorted_q) - 1
               ELSE 0
    /\ UNCHANGED <<serverVars, clientVars, c2s, conn, sessions, polled,
                   closing>>

(* A pass serves as many requests as were queued when it began, and at     *)
(* most one more than a batch.  The list links the records themselves;     *)
(* QueuesAgree says that none of them has been freed.                      *)
StartPass ==
    /\ phase = "batch"
    /\ closing = NoClient
    /\ \A c \in Clients : polled[c] = 0
    /\ phase' = "pending"
    /\ todo' = IF Len(sorted_q) <= SERVER_WC_BATCH + 1
               THEN Len(sorted_q)
               ELSE SERVER_WC_BATCH + 1
    /\ UNCHANGED <<serverVars, clientVars, c2s, conn, sessions, polled,
                   closing>>

ServePending ==
    /\ phase = "pending"
    /\ todo > 0
    /\ sorted_q # <<>>
    /\ LET t == Head(sorted_q)
           r == internal_q[t]
           q == Tail(sorted_q)
       IN  /\ r # NoReq
           /\ \/ /\ r.op = "SET"
                 /\ handle_set_request(t, r.key, r.val, r.payload, q)
              \/ /\ r.op = "GET"
                 /\ handle_get_request(t, r.key, q)
    /\ todo' = todo - 1
    /\ UNCHANGED <<clientVars, c2s, conn, sessions, phase, polled, closing>>

EndPass ==
    /\ phase = "pending"
    /\ todo = 0
    /\ phase' = "poll"
    /\ UNCHANGED <<serverVars, clientVars, c2s, conn, sessions, polled, todo,
                   closing>>

handle_recv_request(c) ==
    \/ RecvSet(c)
    \/ RecvGet(c)
    \/ RecvFin(c)
    \/ RecvShutdown(c)

ServerStep ==
    \/ \E c \in Clients : handle_recv_request(c)
    \/ \E c \in Clients : RemoveFailedConnection(c)
    \/ InvalidateRequest
    \/ \E c \in Clients : RemoveConnection(c)
    \/ StartPass
    \/ ServePending
    \/ EndPass

-----------------------------------------------------------------------------
Init ==
    /\ ServerInit
    /\ pc = [c \in Clients |-> "out"]
    /\ tid = [c \in Clients |-> 0]
    /\ pending = [t \in Tids |-> NoReq]
    /\ c2s = [c \in Clients |-> <<>>]
    /\ wcq = [c \in Clients |-> <<>>]
    /\ conn = [c \in Clients |-> "none"]
    /\ sessions = [c \in Clients |-> 0]
    /\ phase = "poll"
    /\ polled = [c \in Clients |-> 0]
    /\ todo = 0
    /\ closing = NoClient

ClientStep(c) ==
    \/ \E k \in Keys, v \in Values : kv_set(c, k, v)
    \/ \E k \in Keys : kv_get(c, k)
    \/ GetReturn(c)
    \/ kv_close(c)
    \/ CloseDone(c)
    \/ ClientDie(c)
    \/ ClientPoll(c)

NetworkStep(c) ==
    \/ RdmaWrite(c)
    \/ RdmaRead(c)
    \/ QpError(c)

Next ==
    \/ \E c \in Clients : ClientStep(c)
    \/ \E c \in Clients : NetworkStep(c)
    \/ \E c \in Clients : accept_new_connection(c)
    \/ ibv_poll_cq
    \/ ServerStep

Spec == Init /\ [][Next]_vars

(***************************************************************************)
(* Fairness.  The server's loop never stops, and a poll that keeps finding *)
(* requests of c takes some of them in the end.  The network executes what *)
(* is posted.  A client polls while it waits, and every client program     *)
(* ends with kv_close (client_loop), so one that makes no other call makes *)
(* that one.                                                               *)
(***************************************************************************)
PollTakes(c) == ibv_poll_cq /\ polled'[c] > 0

WaitingPoll(c) == pc[c] \in {"get", "close"} /\ ClientPoll(c)

Fairness ==
    /\ WF_vars(ServerStep)
    /\ WF_vars(ibv_poll_cq)
    /\ \A c \in Clients :
          /\ SF_vars(PollTakes(c))
          /\ WF_vars(RdmaWrite(c))
          /\ WF_vars(RdmaRead(c))
          /\ WF_vars(WaitingPoll(c))
          /\ WF_vars(GetReturn(c))
          /\ WF_vars(kv_close(c))
          /\ WF_vars(CloseDone(c))

FairSpec == Spec /\ Fairness

-----------------------------------------------------------------------------
(* Properties.                                                             *)

ClientTypeOK ==
    /\ pc \in [Clients -> {"out", "app", "get", "close", "gone"}]
    /\ tid \in [Clients -> 0 .. MaxOps]
    /\ pending \in [Tids -> ClientRequest \cup {NoReq}]
    /\ c2s \in [Clients -> Seq(WorkRequest)]
    /\ wcq \in [Clients -> Seq(Completion)]

LoopTypeOK ==
    /\ conn \in [Clients -> {"none", "rts", "error"}]
    /\ sessions \in [Clients -> 0 .. MaxSessions]
    /\ phase \in {"poll", "batch", "pending", "down"}
    /\ polled \in [Clients -> 0 .. SERVER_WC_BATCH]
    /\ todo \in 0 .. SERVER_WC_BATCH + 1
    /\ closing \in Clients \cup {NoClient}

(* Every variable holds what its declaration says. *)
TypeOK == ServerTypeOK /\ ClientTypeOK /\ LoopTypeOK

(***************************************************************************)
(* A remote key that a client holds, or that one of its posted RDMA        *)
(* requests carries, is the key of the entry's current memory region, and  *)
(* the entry is locked for that very request: db_reallocate_item never     *)
(* frees a buffer that a client may still read or write.                   *)
(***************************************************************************)
RemoteKeys(c) ==
    {m \in ToSet(c2s[c]) : m.op \in RdmaOps} \cup
    {m \in ToSet(s2c[c]) : Alive(c) /\ m.op # "GET_RESPONSE"}

RemoteAccessIsLocked ==
    \A c \in Clients \ {closing} : \A m \in RemoteKeys(c) :
        LET e == db[m.key]
        IN  /\ waiting_fin_q[m.tid] = m.key
            /\ e.mr = m.rkey
            /\ IF m.op \in {"WRITE", "RDMA_RKEY_SET"}
               THEN e.num_writers = 1 /\ e.filling
               ELSE e.num_readers > 0

(***************************************************************************)
(* While a reader holds the lock, until its FIN, nothing changes what it   *)
(* reads: no handler, no removed connection and no RDMA write.             *)
(***************************************************************************)
LockedValueIsStable ==
    [][\A k \in Keys :
         db[k].num_readers > 0 =>
            /\ db'[k].value = db[k].value
            /\ db'[k].filling = db[k].filling
            /\ db'[k].mr = db[k].mr
            /\ db'[k].size = db[k].size]_vars

(***************************************************************************)
(* A get never hands the application a value that was partly written, as   *)
(* long as no client dies: the FIN of a SET is sent after its write has    *)
(* completed.                                                              *)
(***************************************************************************)
NoTornGet ==
    \A t \in Tids :
        pending[t] # NoReq /\ pending[t].done => pending[t].val # Torn

(***************************************************************************)
(* The exit for a FIN of "non-pending TID" in handle_recv_request is never *)
(* taken: one client's FIN cannot end the server for all of them.          *)
(***************************************************************************)
ServerStaysUp == phase # "down"

(***************************************************************************)
(* Queued requests: sorted_q lists no request twice and only requests that *)
(* internal_q still has, every request of internal_q is in the list or     *)
(* waits for its FIN, and a pass never pops an empty list.                 *)
(***************************************************************************)
QueuesAgree ==
    /\ IsInjective(sorted_q)
    /\ \A t \in ToSet(sorted_q) : internal_q[t] # NoReq
    /\ \A t \in Tids :
          internal_q[t] # NoReq =>
             t \in ToSet(sorted_q) \/ waiting_fin_q[t] # NoKey
    /\ todo <= Len(sorted_q)

(***************************************************************************)
(* A request of a running client is in exactly one place: posted and not   *)
(* handled, queued at the server, answered and not read, executing in the  *)
(* network, or completed and not polled.  None is lost and none is         *)
(* answered twice, and a client never receives an answer for a tid that    *)
(* its table no longer has.                                                *)
(***************************************************************************)
Occurrences(t, s, ops) ==
    Cardinality({i \in DOMAIN s : s[i].tid = t /\ s[i].op \in ops})

Unanswered(t) ==
    Occurrences(t, c2s[Owner(t)], {"SET", "GET"})
        + IF t \in ToSet(sorted_q) THEN 1 ELSE 0

Answered(t) ==
    Occurrences(t, s2c[Owner(t)], ReplyOps)
        + Occurrences(t, c2s[Owner(t)], RdmaOps)
        + Occurrences(t, wcq[Owner(t)], RdmaOps)

RequestsAreInOnePlace ==
    \A t \in Tids :
        Alive(Owner(t)) /\ Owner(t) # closing =>
            IF pending[t] = NoReq
            THEN Unanswered(t) <= 1 /\ Answered(t) = 0
            ELSE Unanswered(t) + Answered(t) =
                    IF pending[t].done THEN 0 ELSE 1

(***************************************************************************)
(* Between passes the queued requests of one client stand in the order it  *)
(* made them: those that fail are pushed back in the order they were       *)
(* popped.  This needs a pass that reaches the end of the queue, that is,  *)
(* at most SERVER_WC_BATCH + 1 requests queued at a time; with more, what  *)
(* a pass leaves comes before what it has pushed back.                     *)
(***************************************************************************)
QueueIsInOrder ==
    phase # "pending" =>
        \A i, j \in DOMAIN sorted_q :
            i < j /\ Owner(sorted_q[i]) = Owner(sorted_q[j]) =>
                sorted_q[i][2] < sorted_q[j][2]

(***************************************************************************)
(* What the message "cleaning pending WRs, closing connection" of          *)
(* handle_pending_request says: a removed connection leaves nothing of its *)
(* requests behind, in particular no lock.                                 *)
(***************************************************************************)
RemovedConnectionHoldsNoLock ==
    \A t \in Tids : conn[Owner(t)] = "none" => waiting_fin_q[t] = NoKey

(***************************************************************************)
(* Progress.  A lock is given back by a FIN, and kv_close destroys the QP  *)
(* after one completion (client.c:883-885), maybe with a FIN unsent.  That *)
(* none is lost is an assumption, Delivering = Clients.  With one key it   *)
(* follows from the order of completions: when the last READ or WRITE has  *)
(* completed all sends posted before it have, so the FIN is the oldest one *)
(* that may still be out.  With several keys it does not follow.           *)
(***************************************************************************)

(* Every get returns, although its request may be queued behind locks that *)
(* are held until other clients call the library again; assuming that no   *)
(* kv_close loses a FIN.                                                   *)
GetsReturn == \A c \in Clients : pc[c] = "get" ~> pc[c] # "get"

(* Every lock that a rendezvous request keeps is released, assuming that   *)
(* no kv_close loses the FIN that does it.                                 *)
LocksAreReleased ==
    \A t \in Tids : waiting_fin_q[t] # NoKey ~> waiting_fin_q[t] = NoKey

(* Every request the server has queued is served or dropped in the end,    *)
(* assuming that no kv_close loses the FIN it waits for.                   *)
QueuedRequestsAreServed ==
    \A t \in Tids : internal_q[t] # NoReq ~> internal_q[t] = NoReq

(***************************************************************************)
(* Every kv_close returns, although it waits until nothing is pending:     *)
(* each of the client's rendezvous sets must get through the server's      *)
(* queue, past the locks of others, and be written and announced.          *)
(***************************************************************************)
ClosesReturn == \A c \in Clients : pc[c] = "close" ~> pc[c] # "close"
=============================================================================
