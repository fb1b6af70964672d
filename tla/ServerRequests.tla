--------------------------- MODULE ServerRequests ---------------------------
(***************************************************************************)
(* The server's request handlers and the state they share: the database    *)
(* of entries with their reader-writer locks (src/server_internals/db.c),  *)
(* the three queues of src/server_internals/server_requests_management.c   *)
(* and the replies posted to each client (src/server.c, handle_set_request *)
(* and handle_get_request).                                                *)
(*                                                                         *)
(* A transaction id is a pair <<client, n>>: the low bits of the tid name  *)
(* the connection slot, the other bits count the client's operations       *)
(* (src/client.c, get_new_tid).  A request belongs to the QP of the client *)
(* its tid names.  MaxOps keeps n below the 2^13 at which the counter      *)
(* wraps.                                                                  *)
(*                                                                         *)
(* The handlers take the queue they start from as a parameter: sorted_q    *)
(* for a request that was just received, Tail(sorted_q) for one that the   *)
(* pending pass popped.                                                    *)
(***************************************************************************)
EXTENDS StoreSizes, FiniteSets, SequencesExt

CONSTANTS
    Clients,   \* the connection slots in use, at most MAX_CLIENTS_SUPPORTED
    MaxOps,    \* operations of one client in one session
    NoReq,     \* no record under this tid
    NoKey      \* no entry: the tid waits for no FIN

MAX_CLIENTS_SUPPORTED == 4

Tids == Clients \X (1 .. MaxOps)

ASSUME ClientsAssumption ==
    /\ IsFiniteSet(Clients)
    /\ Cardinality(Clients) <= MAX_CLIENTS_SUPPORTED
    /\ MaxOps \in Nat \ {0}
    /\ MaxOps < 2^13
    /\ NoKey \notin Keys

VARIABLES
    db,             \* db[k]: the entry of key k
    internal_q,     \* internal_q[t]: the queued request t, NoReq when freed
    sorted_q,       \* the tids of queued requests, in the order of the pass
    waiting_fin_q,  \* waiting_fin_q[t]: the entry that t's FIN will unlock
    s2c             \* s2c[c]: replies posted to client c, oldest first

serverVars == <<db, internal_q, sorted_q, waiting_fin_q, s2c>>

Owner(t) == t[1]

(***************************************************************************)
(* Entries.  filling is TRUE from the moment the server hands out the      *)
(* entry's buffer for a rendezvous SET until the client's RDMA write has   *)
(* landed; value is what the last complete SET stored.                     *)
(***************************************************************************)
Entry == [present : BOOLEAN, value : Contents, filling : BOOLEAN,
          size : Nat, cap : Nat, mr : Nat,
          num_readers : Nat, num_writers : Nat]

FreshEntry ==
    [present |-> FALSE, value |-> Empty, filling |-> FALSE,
     size |-> 0, cap |-> InitialAllocation, mr |-> 0,
     num_readers |-> 0, num_writers |-> 0]

Content(e) == IF e.filling THEN Torn ELSE e.value

(***************************************************************************)
(* What an eager GET shows, which copies size bytes and one more as a      *)
(* string.  A rendezvous SET counts and writes no terminator.  When its    *)
(* value is short enough for an eager GET, which takes a key of 56 bytes   *)
(* or more, the string goes on with whatever the buffer held before.       *)
(***************************************************************************)
Terminated(e) == e.size = 0 \/ StrLen[e.value] < e.size

EagerContent(e) ==
    IF e.filling \/ Terminated(e) THEN {Content(e)} ELSE Contents

(* db_get, and db_insert(key, "") when it finds nothing. *)
Opened(e) == [e EXCEPT !.present = TRUE]

(* Definitions marked "Mutant" are not part of the model: each is the      *)
(* definition after it with one plausible bug, which a named property must *)
(* notice when TLC is given it instead.                                    *)

(* Mutant: writers look only for other writers. *)
CanLockWrBesideReaders(e) == e.num_writers = 0

(* Mutant: readers do not look for a writer. *)
CanLockRdAlways(e) == TRUE

CanLockWr(e) == e.num_readers = 0 /\ e.num_writers = 0

CanLockRd(e) == e.num_writers = 0

LockedWr(e) == [e EXCEPT !.num_writers = @ + 1]
LockedRd(e) == [e EXCEPT !.num_readers = @ + 1]

(* Mutant: an unlock takes a reader and a writer away. *)
UnlockedBoth(e) ==
    [e EXCEPT !.num_readers = @ - 1, !.num_writers = @ - 1]

(* An unlock takes a reader away first.  With no lock held the program     *)
(* exits; LocksAreAccountedFor rules that case out.                        *)
Unlocked(e) ==
    IF e.num_readers > 0 THEN [e EXCEPT !.num_readers = @ - 1]
    ELSE IF e.num_writers > 0 THEN [e EXCEPT !.num_writers = @ - 1]
    ELSE e

(* A buffer that is at least twice too large is kept, with its memory      *)
(* region; otherwise a new buffer and region replace them.                 *)
Reallocated(e, newSize) ==
    IF newSize < e.cap \div 2
    THEN [e EXCEPT !.size = newSize]
    ELSE [e EXCEPT !.size = newSize,
                   !.cap  = RoundUp(newSize * 4, PageSize),
                   !.mr   = @ + 1]

Inserted(e, v) ==
    [Reallocated(e, StrLen[v] + 1) EXCEPT !.value = v, !.filling = FALSE]

(* The buffer a rendezvous SET hands to the client. *)
Exposed(e, v) ==
    [Reallocated(e, StrLen[v]) EXCEPT !.filling = TRUE]

(***************************************************************************)
(* Queued requests and messages.  val is the value whose length the        *)
(* header names; payload is what the copied buffer holds.                  *)
(***************************************************************************)
Request == [op : {"SET", "GET"}, key : Keys, val : Contents,
            payload : Contents]

(* No record of the table looks like a free place. *)
ASSUME RequestAssumption == NoReq \notin Request

ReplyOps == {"GET_RESPONSE", "RDMA_RKEY_SET", "RDMA_RKEY_GET"}

Reply == [op : ReplyOps, tid : Tids, key : Keys,
          val : Contents \cup {Torn}, rkey : Nat]

Message(op, t, k, v, r) ==
    [op |-> op, tid |-> t, key |-> k, val |-> v, rkey |-> r]

server_post_send(m) ==
    s2c' = [s2c EXCEPT ![Owner(m.tid)] = Append(@, m)]

(***************************************************************************)
(* server_requests_management.c                                            *)
(***************************************************************************)
(* Mutant: the FIN is noted and the entry stays locked. *)
NothingReleased(d, t) == d

(* The database d after mark_rdma_fin_received(t): the entry t waits for   *)
(* a FIN on, if any, is unlocked.                                          *)
Released(d, t) ==
    IF waiting_fin_q[t] = NoKey
    THEN d
    ELSE [d EXCEPT ![waiting_fin_q[t]] = Unlocked(@)]

(* Mutant: the record is freed and stays in the list. *)
remove_from_table_only(t, d, q) ==
    /\ db' = Released(d, t)
    /\ waiting_fin_q' = [waiting_fin_q EXCEPT ![t] = NoKey]
    /\ internal_q' = [internal_q EXCEPT ![t] = NoReq]
    /\ sorted_q' = q

remove_server_pending_request(t, d, q) ==
    /\ db' = Released(d, t)
    /\ waiting_fin_q' = [waiting_fin_q EXCEPT ![t] = NoKey]
    /\ internal_q' = [internal_q EXCEPT ![t] = NoReq]
    /\ sorted_q' = RemoveFirst(q, t)

(* Mutant: the new wait replaces the old one, whose lock is forgotten. *)
mark_over_old_wait(t, k, d, q) ==
    /\ waiting_fin_q' = [waiting_fin_q EXCEPT ![t] = k]
    /\ db' = d
    /\ sorted_q' = q
    /\ UNCHANGED internal_q

(* A tid that still waits for a FIN loses that wait, and its queued        *)
(* request, to the new one.                                                *)
mark_rdma_fin_required(t, k, d, q) ==
    /\ waiting_fin_q' = [waiting_fin_q EXCEPT ![t] = k]
    /\ IF waiting_fin_q[t] = NoKey
       THEN /\ db' = d
            /\ sorted_q' = q
            /\ UNCHANGED internal_q
       ELSE /\ db' = Released(d, t)
            /\ sorted_q' = RemoveFirst(q, t)
            /\ internal_q' = [internal_q EXCEPT ![t] = NoReq]

(* Mutant: a request that is queued already is not put back in the list. *)
push_new_request_only(t, op, k, v, q) ==
    /\ sorted_q' = IF internal_q[t] # NoReq THEN q ELSE Append(q, t)
    /\ internal_q' =
         IF internal_q[t] # NoReq
         THEN internal_q
         ELSE [internal_q EXCEPT ![t] =
                 [op |-> op, key |-> k, val |-> v,
                  payload |-> PendingPayload(k, v)]]
    /\ UNCHANGED <<db, waiting_fin_q, s2c>>

(* Mutant: a request is put back at the front of the list. *)
push_at_front(t, op, k, v, q) ==
    /\ sorted_q' = <<t>> \o q
    /\ internal_q' =
         IF internal_q[t] # NoReq
         THEN internal_q
         ELSE [internal_q EXCEPT ![t] =
                 [op |-> op, key |-> k, val |-> v,
                  payload |-> PendingPayload(k, v)]]
    /\ UNCHANGED <<db, waiting_fin_q, s2c>>

push_pending_request(t, op, k, v, q) ==
    /\ sorted_q' = Append(q, t)
    /\ internal_q' =
         IF internal_q[t] # NoReq
         THEN internal_q
         ELSE [internal_q EXCEPT ![t] =
                 [op |-> op, key |-> k, val |-> v,
                  payload |-> PendingPayload(k, v)]]
    /\ UNCHANGED <<db, waiting_fin_q, s2c>>

(***************************************************************************)
(* server.c, handle_set_request: the entry is locked for writing, or the   *)
(* request is queued; an eager SET stores the payload p and unlocks, any   *)
(* other gets the address of a large enough buffer and keeps the lock      *)
(* until the client's FIN.                                                 *)
(***************************************************************************)
SetBlocked(t, k, v, q) ==
    /\ ~CanLockWr(db[k])
    /\ push_pending_request(t, "SET", k, v, q)

(* Mutant: a value that fits a message is stored under a reader's lock. *)
SetEagerUnderReaders(t, k, v, p, q) ==
    /\ CanLockRd(db[k])
    /\ EagerSet(k, v)
    /\ remove_server_pending_request(t,
          [db EXCEPT ![k] = Inserted(Opened(@), p)], q)
    /\ UNCHANGED s2c

SetEager(t, k, v, p, q) ==
    /\ CanLockWr(db[k])
    /\ EagerSet(k, v)
    /\ remove_server_pending_request(t,
          [db EXCEPT ![k] = Inserted(Opened(@), p)], q)
    /\ UNCHANGED s2c

SetRendezvous(t, k, v, q) ==
    LET e == Exposed(LockedWr(Opened(db[k])), v)
    IN  /\ CanLockWr(db[k])
        /\ ~EagerSet(k, v)
        /\ server_post_send(Message("RDMA_RKEY_SET", t, k, Empty, e.mr))
        /\ mark_rdma_fin_required(t, k, [db EXCEPT ![k] = e], q)

handle_set_request(t, k, v, p, q) ==
    \/ SetBlocked(t, k, v, q)
    \/ SetEager(t, k, v, p, q)
    \/ SetRendezvous(t, k, v, q)

(***************************************************************************)
(* server.c, handle_get_request: the same for reading.  Both answers drop  *)
(* the queued request; the rendezvous one keeps the lock until the FIN.    *)
(***************************************************************************)
GetBlocked(t, k, q) ==
    /\ ~CanLockRd(db[k])
    /\ push_pending_request(t, "GET", k, Empty, q)

GetEager(t, k, q) ==
    /\ CanLockRd(db[k])
    /\ EagerGet(db[k].size)
    /\ \E v \in EagerContent(db[k]) :
          server_post_send(Message("GET_RESPONSE", t, k, v, 0))
    /\ remove_server_pending_request(t, [db EXCEPT ![k] = Opened(@)], q)

(* Mutant: the wait is recorded before the queued request is dropped, and  *)
(* dropped with it.                                                        *)
GetRendezvousMarkedFirst(t, k, q) ==
    /\ CanLockRd(db[k])
    /\ ~EagerGet(db[k].size)
    /\ server_post_send(Message("RDMA_RKEY_GET", t, k, Empty, db[k].mr))
    /\ remove_server_pending_request(t, [db EXCEPT ![k] = Opened(@)], q)

GetRendezvous(t, k, q) ==
    /\ CanLockRd(db[k])
    /\ ~EagerGet(db[k].size)
    /\ server_post_send(Message("RDMA_RKEY_GET", t, k, Empty, db[k].mr))
    /\ db' = Released([db EXCEPT ![k] = LockedRd(Opened(@))], t)
    /\ waiting_fin_q' = [waiting_fin_q EXCEPT ![t] = k]
    /\ internal_q' = [internal_q EXCEPT ![t] = NoReq]
    /\ sorted_q' = RemoveFirst(q, t)

handle_get_request(t, k, q) ==
    \/ GetBlocked(t, k, q)
    \/ GetEager(t, k, q)
    \/ GetRendezvous(t, k, q)

(* Mutant: the queued requests of every client. *)
QueuedByAnyone(c) == {t \in Tids : internal_q[t] # NoReq}

(***************************************************************************)
(* The requests invalidate_requests_by_qp finds: queued ones only, not the *)
(* ones that merely wait for a FIN.                                        *)
(***************************************************************************)
QueuedBy(c) == {t \in Tids : Owner(t) = c /\ internal_q[t] # NoReq}

ServerInit ==
    /\ db = [k \in Keys |-> FreshEntry]
    /\ internal_q = [t \in Tids |-> NoReq]
    /\ sorted_q = <<>>
    /\ waiting_fin_q = [t \in Tids |-> NoKey]
    /\ s2c = [c \in Clients |-> <<>>]

-----------------------------------------------------------------------------
ServerTypeOK ==
    /\ db \in [Keys -> Entry]
    /\ internal_q \in [Tids -> Request \cup {NoReq}]
    /\ sorted_q \in Seq(Tids)
    /\ waiting_fin_q \in [Tids -> Keys \cup {NoKey}]
    /\ s2c \in [Clients -> Seq(Reply)]

(* The tids that hold a lock on the entry of k until their FIN. *)
Holders(k) == {t \in Tids : waiting_fin_q[t] = k}

(***************************************************************************)
(* Between two handlers the locks of an entry are exactly the rendezvous   *)
(* requests that still wait for a FIN, and a writer is alone.  So the      *)
(* "double unlock" exit of db_entry_unlock is never taken, a lock is never *)
(* forgotten by the server, and none is dropped twice although             *)
(* mark_rdma_fin_received and remove_server_pending_request both unlock.   *)
(***************************************************************************)
LocksAreAccountedFor ==
    \A k \in Keys :
        /\ db[k].num_readers + db[k].num_writers = Cardinality(Holders(k))
        /\ db[k].num_writers <= 1
        /\ db[k].num_writers = 1 => db[k].num_readers = 0
=============================================================================
