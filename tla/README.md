# A verification of the RDMA rendezvous key-value store

The program is a key-value store over RDMA. One single-threaded server keeps a
hash table of entries; up to four clients set and get values through a queue
pair (QP) of their own. A value that fits one 4096-byte message travels in it
(*eager*). A larger one goes by *rendezvous*: the server locks the entry and
answers with the address and the remote key of its buffer, the client's device
reads or writes that buffer without the server noticing, and the client then
sends a FIN, on which the server unlocks the entry. A request that finds its
entry locked is queued and tried again in every round of the server's loop.

That design is where the difficulty lies. The lock outlives the handler that
took it and is given back by a message of another process, which may be late,
be overtaken, or never come. Three queues name the same request. Client and
server decide "eager" each on its own. None of this shows in a test that runs
one client at a time.

All modules, the TLC configurations and the proofs are in this directory;
`PROJECT.json` lists components, runs, mutants, hazards, findings and theorems,
and maps every definition to the lines it translates.

## 1. Inventory

| Component | State | Operations | Interacts with |
|---|---|---|---|
| Request handlers, `src/server.c:610-743` | none of their own | `handle_set_request`, `handle_get_request`, `server_post_send` | database, pending requests, the client's QP |
| Database, `src/server_internals/db.c` | the entries: key, buffer, size, capacity, memory region, reader and writer counts; a pool of preallocated entries | `db_get`, `db_insert`, `db_reallocate_item`, `db_entry_lock_rd/_wr/_unlock`, `db_init`, `db_destroy` | called by handlers and by the pending requests |
| Pending requests of the server, `src/server_internals/server_requests_management.c` | `internal_q` (hash by tid), `sorted_q` (list), `waiting_fin_q` (hash by tid), a pool of records | `push_`, `get_`, `remove_server_pending_request`, `mark_rdma_fin_required`, `mark_rdma_fin_received`, `invalidate_requests_by_qp` | unlocks entries |
| Main loop, `src/server.c:745-944` | the batch of completions, the position in the queue | `server_wait_completions`, `handle_recv_request`, `handle_pending_request`, `remove_connection` | everything on the server |
| Connection set-up, `src/server.c:30-338, 531-557`, `src/client.c:330-432` | listening socket, `current_number_conns`, `connections[]`, `last_client_id`, accepted descriptors | `accept_new_connection`, `query_for_connections`, `add_new_connection`, `send_address_back_to_client`, `remove_connection`, `client_exch_dest` | gives each client its slot, which names its tids |
| Client API, `src/client.c` | the tid counter, the QP, send and receive buffers | `kv_open`, `kv_set`, `kv_get`, `kv_release`, `kv_close`, the handlers of `client_wait_completions` | pending requests of the client, the server |
| Pending requests of the client, `src/client_internals/client_requests_management.c` | a hash by tid | add, get, remove, count | client API |
| Formats and sizes, `src/common/constants.h` | constants | - | all |
| Send and receive buffers, `src/common/buffers_management.c` and both programs | rings of flags | get, release, post again in bulk | both loops |
| Server start and shutdown, `src/server.c:340-384, 433-529` | a flag set by a signal, the objects of the verbs library | `teardown_server_connection`, `server_close_ctx` | all server state |
| QP and address helpers, `src/common/connection.c` | the contexts | `server_init_ctx`, `client_init_ctx`, `connect_ctx` | both programs |
| Command line and input files, `src/main.c`, part of `src/client.c` | none | parse, call the API | client API |
| Tests, `src/tests/client_tests.c`, `src/inputs/generate_inputs.py` | none | what a client may expect | client API |
| Vendored containers, `src/external_libs` | - | hash table and list | used as function and sequence |

What is hard, and what makes each part correct:

* **Locks across processes.** Every lock kept for a FIN is released exactly
  once; `db_entry_unlock` exits the program on one unlock too many, and one too
  few blocks a key for ever. Three places unlock.
* **Remote access.** A buffer that a client may still touch is neither
  reallocated nor shown to another client half written.
* **Three queues.** A record that is freed is in no list; none is listed twice;
  none is forgotten. The pass over the queue works on a record it has already
  taken out of the list and that the handlers find in the table again.
* **Order.** Queued requests are overtaken by newer ones, and RDMA requests
  overtake the sends before them.
* **Crash and reconnect.** A client may die between any two steps. Its slot,
  and with it its tids, go to another client.
* **Slots.** A counter raised at accept has to keep the index found three
  functions later inside an array of four.
* **Progress.** Everything waits for something: a get for a lock, the lock for
  a FIN, the FIN for its client's next call.
* **Boundaries.** Sizes near the message limit, the byte after a value, the
  13-bit counter of a tid, the index of a pool that is filled again.
* **Shared rings.** One pool of receive buffers serves all connections and is
  posted again in bulk, in the middle of a handler that still holds a buffer.
* **The end.** Every failure of the start-up runs the whole teardown; a signal
  may come in any call; `kv_close` is entered a second time from within itself.

`PROJECT.json` lists each of these as a hazard at its line, with the property
that covers it or the reason why none does yet.

## 2. The modules

    StoreSizes            lengths and thresholds
      ServerRequests      database, queues, request handlers
        Rendezvous        + clients, network, server loop
          RendezvousRefinement   mapping onto KvStore (abstract registers)
            RendezvousHistory    + a record of the sets made
            RefinementProofs     the mapping is right
          RendezvousProofs       locks
            RequestsProofs       tids, queues, remote keys, whole values
              PlacesProofs       no request is lost, and the order of the list
    ServerSlots           the connection slots
      Connections         accept, exchange of addresses     ConnectionsProofs
      ReceiveBuffers      the server's receive ring         ReceiveBuffersProofs
      ServerLife          the server from start to exit     LivesProofs
    EntryPool             preallocated records              ResourcesProofs
    EntryBuffer           the bytes of one entry            ResourcesProofs
    QueuePairs            connecting two queue pairs        LivesProofs
    ClientLife            the client from kv_open to exit   LivesProofs
    MCRendezvous, MCRefinement, MCHistory, MCConnections   instances for TLC
    MCResources           Connections, ReceiveBuffers, EntryPool, EntryBuffer
    MCLives               QueuePairs, ServerLife, ClientLife

### StoreSizes

The constants of `constants.h` and the four conditions that use them: `EagerSet`
(client and server evaluate the same one), `EagerGet`, `CopiesPayload` (what
`push_pending_request` compares) and `RoundUp`, the capacity of a buffer. Keys
and values are model values with a length (`KeyLen`, `StrLen`). A key may be as
long as fits a message with an empty value (`KeyFitsAssumption`: 4070 bytes, the
longest that `generate_inputs.py` makes; nothing in the code checks it).

### ServerRequests

| State | Code |
|---|---|
| `db[k]` | `db_entry_t`: `present` (found by `db_get`), `value`, `filling` (the buffer was handed out for a SET and the write has not landed), `size`, `cap` (`allocated_size`), `mr` (which memory region, and so which remote key), `num_readers`, `num_writers` |
| `internal_q[t]`, `sorted_q` | the hash and the list of queued requests |
| `waiting_fin_q[t]` | the key whose entry t's FIN will unlock |
| `s2c[c]` | replies posted to client c |

`db[k].value` names what the first `size` bytes hold. What an eager GET sends is
`EagerContent`: with a key of at most 55 bytes a value of rendezvous size never
gets there (`Terminated`), so it is the value; with a longer key it may be any
string that starts with it, since the byte after the value need not be a
terminator, and the model answers with any content.

A tid is `<<client, n>>`: its low bits are the slot, the others count. The
request's QP is the QP of that slot. `handle_set_request` is `SetBlocked`,
`SetEager` or `SetRendezvous`, `handle_get_request` likewise; each is one action
with all the calls the handler makes, including the unlock that
`remove_server_pending_request` does through `mark_rdma_fin_received`. The list
is a parameter, because the pass calls a handler after it popped the request.

### Rendezvous

| State | Code |
|---|---|
| `pc[c]` | `out` not connected, `app` between calls, `get` in `kv_get`, `close` in `kv_close`, `gone` ended, the server has not noticed |
| `tid[c]`, `pending[t]` | `last_used_tid`, the client's table (`done`: no longer pending) |
| `c2s[c]` | the client's send queue, with what the server has not handled |
| `wcq[c]` | RDMA completions the client has not polled |
| `conn[c]`, `sessions[c]` | the server's QP of slot c, how often the slot was taken |
| `phase`, `polled`, `todo`, `closing` | where `server_loop` is, what is left of the batch and of the pass, the connection being removed |

| Actions | Code |
|---|---|
| `kv_set`, `kv_get`, `GetReturn`, `kv_close`, `CloseDone` | the calls of `client.h` |
| `client_handle_get_response`, `client_handle_recv_rdma_rkey_get/_set`, `RdmaReadDone`, `RdmaWriteDone` | the cases of `client_wait_completions` |
| `ClientDie` | the end of an unreliable client's process at any step |
| `RdmaWrite`, `RdmaRead`, `QpError` | the devices: one RDMA request executes; retries run out |
| `accept_new_connection`, `ibv_poll_cq`, `RecvSet`, `RecvGet`, `RecvFin`, `RecvShutdown` | one round of the loop |
| `RemoveFailedConnection`, `InvalidateRequest`, `RemoveConnection` | an error completion or the QP check, and `remove_connection` step by step |
| `StartPass`, `ServePending`, `EndPass` | `handle_pending_request` |

The server is one thread, so a handler is one step; clients and devices step in
between. A reliable connection keeps its order, but a send takes effect only
when the server polls for it, so an RDMA request executes before the sends
posted ahead of it are handled. `ibv_poll_cq` takes any number of arrived
requests of each client up to the batch.

A destroyed QP leaves any prefix of what was posted behind (`Surviving`). That
goes for a client that dies and just as well for one that closes: `kv_close`
posts its shutdown message and waits for *one* completion (`client.c:883-885`),
usually that of an older send, and then destroys the QP. The shutdown message,
and the sends before it, a FIN among them, may so be lost by any client. Of a
client in `Delivering` only the shutdown message itself may be; this is an
assumption, made in `Liveness` alone.

A large value is not copied: `kv_set` keeps the caller's pointer, and the device
sends from there after `kv_set` has returned (`client.c:282-286, 634-640`). A
client in `Reusing` may have put anything into that memory, or freed it, by
then: the RDMA write carries any content (`SentContent`). Other clients keep
their values until they are sent.

An RDMA request lands in one step. That a reader can meet a half-written buffer
is kept all the same: `filling` is set from the moment the buffer is handed out
until the write lands, and a read in that time gives `Torn`.

The client's handlers use the record they look up without checking it. The
model's guard `Waits` says there is one, and `RequestsAreInOnePlace` is what
shows that this guard keeps nothing from happening.

### KvStore, RendezvousRefinement, RendezvousHistory

`KvStore` is what the API promises if one reads `client.h` generously: each key
is an atomic register, a get reads it at some instant of its call, a set takes
effect whole, once, some time after its call, and sets take effect in any
order; sets that have not taken effect may be lost when their client closes.
`RendezvousRefinement` maps the protocol onto it: a set is under way from
`kv_set` until an eager handler stores it or its RDMA write lands; a get has
read when an eager handler answers it or its RDMA read executes. The mapping
holds under four `Hypotheses`, none of which the code enforces:

| Hypothesis | Without it |
|---|---|
| `NobodyDies` | a dead client's lock can be given back over half a value |
| `ValuesAreKept` (`Reusing = {}`) | another value than the one that was set is stored; the shipped driver frees its values after its loop (`client.c:1061-1070`) and so does not keep to it |
| `ShortKeys` (at most 55 bytes) | an eager GET may send one byte too many; the tests use keys of up to 1024 bytes (`tests_common.h:6`), the generator up to 4070 |
| `PayloadsAreKept` | a queued SET close to the limit stores the empty string |

`RendezvousHistory` adds a record of the sets made, to state what
`client_tests.c` expects and the registers do not give.

### Connections

The server's part is one action per return of `select`, `accept`, `recv` and
`read`; `phase` is the function the thread is in. A peer connects, writes its
address in one or two parts, reads the answer and writes "done", and may leave
at any step. `remove_connection(i)` is what the rest of the loop does to a slot.
`Rendezvous` composes with it by its promise: `accept_new_connection(c)` there
gives a free slot and a fresh tid counter to a new client, which is what
`ClientsKnowTheirSlots` and `NoSlotOverrun` establish here.

### ReceiveBuffers

| State | Code |
|---|---|
| `in_use_recv`, `last_used_recv_buff` | the flags of the pool and the place where the search starts |
| `curr_recv_buff[i]`, `buff_in_use[i]` | per connection: receives posted and not handled; buffers it has ever posted |
| `wr[i]`, `landed[i]`, `polled[i]` | the receive queue of i's QP, how many of its buffers hold a message, how many of those are in the server's batch |
| `doing`, `conn`, `buff`, `left` | where the thread is; the message in hand; receives still to post |
| `stale` | completions in the batch whose connection has been removed |

`ConnectSlot`, `RecvRequest`, `HandleMessage`, `HandleClosing`,
`RemoveFailedConnection` and `ReleaseStale` are the places of `server.c` that
touch a buffer; `server_post_recv` posts one, and `PostingEnds` is the check
that ends the server when too few were posted. Messages land at any step.
`remove_connection_buffers` gives back, as `server.c:327-331` does, every buffer
in `buff_in_use`, also those that have long been posted to somebody else.

### EntryPool and EntryBuffer

`EntryPool` is the array of preallocated records with its count and index, which
`db.c` and `server_requests_management.c` have in the same form; a record is its
place and the round in which it was made, so that one handed out twice is seen.
`EntryBuffer` has the bytes of one entry's buffer (`value`, `size`,
`_allocated_size`), with every SET and GET of its key, eager or rendezvous, one
at a time: what is copied with a terminator and what without, and when
`db_reallocate_item` keeps the old buffer. A value's bytes are its name.

### QueuePairs

| State | Code |
|---|---|
| `qps[q]` | a QP: state, `rq_psn`, `sq_psn`, destination, receives posted |
| `my_dest` | `ctx->my_dest` of the server (under `NoClient`) and the local of each `kv_open` |
| `msg[c]`, `answer[c]` | the addresses on the TCP connection |
| `thread`, `serving`, `made` | where the server is in `handle_received_connection_data`, for whom, how many QPs it has made |
| `pc[c]`, `sent`, `received` | where the client is; its first request |

The server's address goes through the one `my_dest` of its context, into the QP
and into the answer; the receives are posted after the client was told "done".

### ServerLife and ClientLife

`ServerLife` follows the server from `init_server_connection` through the loop
to `exit`: the objects that exist (`alive`, `pool`, `db`), the QP of each slot,
the send buffers posted, those that are `lost` with a removed connection, and
what clients have sent. Requests are reduced to what matters to the end: an
answer takes a send buffer and is followed by a FIN. Accepted peers are counted
as the code counts them (`current_number_conns`, with its leak), and the thread
waits for their address (`"recv"`) and their "done" (`"read"`): a short address
or a failed connection lets it go on, only a peer that leaves before "done" ends
it. `Fails(call)` is every failure of the start-up; `CloseNext`, `GotBuffer` and
`HandleWhileClosing` are the loop of `server_close_ctx`, which may wait for a
send buffer and handle messages meanwhile. Where the code uses what was never
made or is gone already, the server is in `"crash"`.

`ClientLife` follows the client: `in_call` is the call it is in, `back` and
`iters` the frame of `client_wait_completions`, `sq` the posted work requests,
`mem` and `in_use_send` the send buffers, `internal_q` the pending requests.
`client_handle_recv` takes the three answers of the server: a value, the place to
read one from, the place to write one to. The RDMA read or write that follows
ends in a FIN, which needs a send buffer and, without one, calls `kv_close`. A
handler that calls `kv_close` never returns, so a second frame need not be
kept. A signal may come at any step; the server may go at any step, with its
`SERVER_SHUTDOWN` or without.

### MCResources and MCLives

Modules that share no variable are checked in one run. The variable `part` says
which of them moves in a behaviour; the others stay at their start. So the
states are the sum of the parts and not their product, and an invariant of one
part is checked over all of its behaviours.

## 3. The runs

Times are for two workers.

| Run | Instance | States | Shows |
|---|---|---|---|
| `Safety` | 2 clients, 1 key, a small and a large value, 3 operations each, batch 4, symmetry | 3.08 M, 80-150 s | locks, regions, queues and requests agree in every interleaving |
| `Crash` | as before, 2 operations, batch 2; `c2` may die, close with sends unsent, or reuse the memory of its values, and be replaced once | 6.34 M, 100-180 s | the other client is not harmed, the server stays up |
| `Reconnect` | 1 unreliable client, 2 keys, 2 operations, 2 sessions | 84 k | the lock counts survive tids used again |
| `Refinement` | 2 clients, 2 keys, 2 operations, batch 2, symmetry; closes that lose sends | 702 k, 60-90 s | the protocol implements `KvStore` under its hypotheses |
| `Liveness` | 2 clients that lose no FIN, large values, 2 operations, batch 1, window 2 | 52 k, 60 s | gets and `kv_close` return, locks and queues drain |
| `Resources` | 3 peers for 2 slots; 2 connections with 3 of 6 receive buffers each, 3 messages, 2 sessions, one client that leaves; a pool of 4; 9 lengths of value, 3 of key | 522 k, 17-30 s | slots, receive buffers, pool records and bytes are where the counts say |
| `Lives` | 2 clients and 3 QPs; a server with 2 slots and 2 send buffers; a client with 2 send buffers, 3 requests and a window of 3 | 701 k, 140 s | from start to end records and messages stay where they are needed, calls end, signals are obeyed but in the states named |
| `ReadYourWrites`, `LastSetWins`, `LostPayload`, `StaleLock`, `ShutOut` | smallest that show it | - | the violations of section 4 |

Properties, by what they are about:

* `LocksAreAccountedFor` - the locks of an entry are exactly the requests that
  wait for a FIN, and a writer is alone.
* `RemoteAccessIsLocked`, `LockedValueIsStable` - a remote key in a client's
  hands is of the current region and its entry is locked for that very request;
  nothing changes under a reader.
* `NoTornGet` - no get returns a half-written value (while no client dies).
* `QueuesAgree`, `RequestsAreInOnePlace`, `QueueIsInOrder` - the three queues,
  the client's table and the messages on their way tell one story.
* `ServerStaysUp` - a FIN without a wait, which would end the server for all,
  never arrives.
* `ImplementsKvStore` - the refinement.
* `GetsReturn`, `LocksAreReleased`, `QueuedRequestsAreServed`,
  `ClosesReturn` - progress.
* `SlotsAreCounted`, `NoSlotOverrun`, `ClientsKnowTheirSlots` - connections.
* `CountsAgree`, `UsedBuffersArePosted`, `NeverRunsShort` - the receive ring: the
  counters are the queues, no buffer is lost, and the exit for want of buffers
  is never taken, whoever leaves. `RequestsAreIntact` - a message stays in its
  buffer until it is handled, in order, until a connection is removed.
* `CountIsExact`, `RecordsAreInOnePlace` - the pool; that no NULL is handed out
  is part of `PoolTypeOK`, which `ResourcesTypeOK` contains. `ResourcesTypeOK` and
  `LivesTypeOK` are the types of all modules of a run.
* `AccessesAreInside`, `GetReturnsTheString` - no access leaves a buffer; a get
  shows the string that was stored and nothing of an older, longer one.
* `PairsMatch`, `FirstRequestArrives` - two QPs name each other and nobody else,
  and the first request arrives although the receives come last.
* `ClientsAreTold`, `SignalEndsServer` - the end of the server, from every state
  and failure.
* `RecordsAreThere`, `SendsAreIntact`, `SignalEndsClient`, `CallsEnd` - the end of
  the client and of its calls.

Every property of a passing run has a mutant: a plausible bug in one definition
(kept in the module next to it and marked "Mutant") that the run then finds.

**Bounds.** Two clients are enough for every conflict over an entry: a holder
and a waiter of each kind. One key brings all conflicts together; `Reconnect`
and `Refinement` have two, for a tid that moves from one key to another and for
values that must not mix. Three operations let one client have a request
executing, one queued and one on its way, which every finding about order
needs. `small` (1 byte) is eager on both sides, `large` (9000) rendezvous on
both and larger than half of a fresh entry's buffer, so that the first set
reallocates it and later ones keep or replace it; `middle` (4060) fits an eager
SET and not the copy of a queued one. The batch is 1, 2 or 4 where the code has
200, so that a pass ends early and a poll takes part of what has arrived; in
`Safety` it is large enough for a pass to reach the end of the queue, which
`QueueIsInOrder` needs. `WINDOW` is 250 as in the code where it must not
matter, and 2 in `Liveness`, where `kv_set` finds it closed. `MaxOps` stays below
the 2^13 at which the tid counter wraps (`ClientsAssumption`). `Connections` was
also run with three slots and four peers (4.58 M states) without a difference;
symmetry is by permutations of clients, keys or peers and is not used in
`Liveness`.

The ring of receives keeps the relations of the real numbers (a pool of 4000,
1000 per connection, a refill when 100 are left; here 6, 3 and 1): as many
buffers as all connections together may post and no more, a refill that happens
with some left, several messages per refill. Three sends in two sessions go around the ring, and
one client that leaves is enough to give back the buffers of the other. The
sizes of `EntryBuffer` are small with the order of the real ones kept (headers,
messages, pages), and the nine lengths lie on both sides of each threshold. Two
send buffers with a window of 3 and a wait of 2 completions let the ring run
empty and the window close, in the relation of 250 requests to 200 completions:
each request that is counted still has at least two completions to come.

**Deadlock** is checked in every run but `Resources`, `Lives` and `ShutOut`:
there the server or the client ends, and the peers are bounded.

**Fairness** in `Liveness`. The server's loop never stops: weak fairness of
`ServerStep` and `ibv_poll_cq`. A completion queue is first-in first-out, so a
poll that keeps finding requests of a client takes some in the end: strong
fairness of `PollTakes`, per client. The network executes what is posted: weak
fairness of `RdmaWrite`, `RdmaRead`. A client polls while it waits inside
`kv_get` and `kv_close`: weak fairness of `WaitingPoll`. No fairness is given to
polling between calls, since the library polls only inside its calls: a lock is
then held until the client calls again. It does, because `client_loop` ends
every program with `kv_close`: weak fairness of `kv_close`, and of the returns
`GetReturn` and `CloseDone`. One thing is assumed beyond fairness: both clients
are `Delivering`, so the FINs they have posted are sent before `kv_close` destroys
the QP. With the one key of this instance the order of completions gives
that; with several keys it does not follow from the code. The shutdown message is not
assumed to be sent, and no property says that a slot becomes free again.

**Fairness** in `Lives` (module `MCLives`). Each program has one thread, which
goes on: weak fairness of `ServerStep` and of the steps of `kv_open`; of
`StartUp`, `NobodyIsReady` and `Teardown`; of `Thread`. The devices finish what
is posted: weak fairness of `Deliver`, `SendEnds`, `QpError`. The server sends its
address and answers what it is asked, or goes (`ReadAddress`, `Answer`), which
`Liveness` shows of a server that is up. Nothing is assumed of the peers of the server:
none has to answer, to leave, to send a request, to close, or to send a signal.
So a silent peer keeps the server in `recv` or `read` (`server.c:246, 288`), which have
no timeout, signal or not; `SignalEndsServer` excepts these two states by name.

## 4. What the runs found

* **Own writes are not read** (`ReadYourWrites`). A SET that finds a reader is
  queued; a GET the same client makes next is answered beside that reader, with
  the old value. `tests/client_tests.c:48-52` calls that a comparison error.
* **The last set does not win** (`LastSetWins`). A rendezvous SET holds the lock
  and a second SET is queued; the first one's FIN and a third SET arrive in one
  batch. The third is stored at once, and the second, older, over it by the pass
  that follows. `tests/client_tests.c:121-129` expects the last (its loop of 2000
  never reaches the comparison, as 2000 is no multiple of 3).
* **A queued payload is lost** (`LostPayload`). `push_pending_request` counts the
  header against the payload limit (`server_requests_management.c:189`). An
  eager SET within 24 bytes of the limit is queued with its key only, and the
  empty string is stored. `tests/client_tests.c:173-178` checks for that.
* **A dead client's lock stays** (`StaleLock`). `invalidate_requests_by_qp` looks
  at `internal_q` only; a request that was answered is in `waiting_fin_q` alone.
  The entry stays locked after the connection has been removed.
* **Slots leak** (`ShutOut`). A peer that is accepted and does not complete its
  address keeps its unit of `current_number_conns`; after four the server accepts
  nobody. `src/README.md:1` says up to four clients.

Further behaviours are part of the models and shape what the properties say.

* A peer that leaves after its address and before "done" ends the server
  (`ReadDoneFails`, `server.c:73-76`).
* A rendezvous SET that was served from the queue keeps its record in
  `internal_q` (`server.c:684`); if its client dies before the FIN, the clean-up
  finds that record and unlocks the entry over a partly written buffer.
  `NoTornGet` is therefore stated where no client dies.
* `remove_connection` gives back buffers that other connections have posted
  (`server.c:327-331`). Such a buffer is posted a second time and zeroed under a
  request that has arrived, whose client is then disconnected for its opcode.
  `RequestsAreIntact` ends with the first removal; that no buffer is *lost*, and
  that the refill never fails, holds all the same.
* With a key of 56 bytes or more, a rendezvous SET can leave a value without
  terminator that an eager GET answers with one byte too many
  (`server.c:719-724`). `GetReturnsTheString` and the refinement have short keys.
* `kv_set` of a large value returns while its pointer is still to be used. When a
  GET was answered beside a reader and the SET is still queued, `client_loop` may
  leave its loop and free the value (`client.c:1061-1070`) before the device sends
  it. `Crash` has clients that do so: locks and requests stay right, the stored
  value does not, and the refinement assumes `ValuesAreKept`.
* `kv_close` waits for one completion, mostly that of a FIN, and destroys the QP
  with the shutdown message unsent (`client.c:883-885`). The server removes such a
  client when it next posts to it and finds the QP in error, which may be never:
  the slot then stays taken. With several keys a FIN may be lost in the same way,
  and its entry stays locked.
* When there is no device, or the context cannot be made, the teardown clears a
  pool that was never made (`db.c:74`; its twin in
  `server_requests_management.c:66` asks first). `ServerLife` ends in `"crash"`.
* The teardown destroys the tables before it sends its messages
  (`server.c:517-518`). When it waits for a send buffer, a request that arrives
  is handled on nothing; and the connection it was about to write to may be
  removed in that wait. Both end in `"crash"`.
* A peer that connects and stays silent blocks the one thread of the server, and
  with it every client and the signals.
* `server_close_ctx` passes an index to `remove_connection`, which expects a QP
  number (`server.c:473`). The QPs stay, and the library refuses to destroy the
  completion queue and the protection domain.
* Send buffers of removed connections never come back. With all of them lost,
  `get_free_send_buffer` polls for ever, and no signal ends it;
  `SignalEndsServer` excepts that state by name.
* The server exits without waiting for its `SERVER_SHUTDOWN`. A client that only
  waits for an answer may never learn; `CallsEnd` holds while there is a server.
* `kv_set` finds a buffer and takes it only after it has waited for the window
  (`client.c:246-265`); a FIN may take it in between, and the request is written
  over it. `SendsAreIntact` holds until `kv_set` has so waited.
* With no buffer for a FIN, after an RDMA write or after an RDMA read, the client
  calls `kv_close` (`client.c:592-594`), which waits for the record of that very
  FIN. `CallsEnd` excepts `FinIsMissing`.

## 5. What is proved

The proofs hold for every set of clients (at most four), keys and values, every
length, batch, window and number of sessions. The assumptions on the constants
are `SentinelAssumption`, `RequestAssumption`, `ClientRequestAssumption` and
`CallAssumption` (the special values are special), `LengthAssumption`
(lengths are naturals, keys are not empty), `KeyFitsAssumption` (a key and an
empty value fit one message: 4070 bytes), `ClientsAssumption` (finitely many clients, tids below the
wrap), `LoopAssumption`, `ConnectionsAssumption`, `SlotsAssumption` and
`PoolAssumption` (bounds are naturals, and a refill's threshold lies within the
array), `ReceiveAssumption` (the pool is as large
as all connections together may need, as the quotient that defines
`MAX_RECV_BUFFS` makes it), `SizeAssumption`,
`KeyAssumption` and `ValueAssumption` (a message holds more than its header, keys
are not empty, sizes stay below `INT_MAX`), `QueuePairsAssumption` (client names are no
queue pair numbers of the server), `ServerLifeAssumption` and `ClientLifeAssumption` (there
is a buffer to send from, bounds are naturals). Four theorems have a hypothesis
of their own: `ReturnedString` that keys are short; `GetsAreWhole` that no client dies
(`Unreliable = {}`); `RegistersAreAtomic` the four `Hypotheses` of section 2, that
no client dies, values are kept until they are sent, keys are short and no length
loses its payload; `QueueAlwaysInOrder` that the list stays within a pass
(`[]ListIsShort`).

| Theorem | Statement |
|---|---|
| `Invariance` | the inductive invariant of `Rendezvous` |
| `TypeCorrect` | `[]TypeOK`: no lock count below zero, each queue holds what it should |
| `LocksAccountedFor` | `[]LocksAreAccountedFor`, with dying and returning clients |
| `RequestsInvariance`, `SecuredInvariance` | where a tid may be, and what that says of tables and locks |
| `QueuesAlwaysAgree` | `[]QueuesAgree` |
| `RemoteAccessAlwaysLocked` | `[]RemoteAccessIsLocked`: no buffer is freed under a client |
| `ServerAlwaysUp` | `[]ServerStaysUp`: no FIN comes that nobody waits for |
| `ReadersSeeOneValue` | `LockedValueIsStable`: what is locked for reading does not change |
| `GetsAreWhole` | `[]NoTornGet` if `Unreliable = {}`: no get hands out a half-written value |
| `RequestsInOnePlace` | `[]RequestsAreInOnePlace`: no request is lost, none is in two places |
| `QueueAlwaysInOrder` | `[]QueueIsInOrder` as long as `ListIsShort` |
| `RegistersAreAtomic` | `Hypotheses => (Spec => ImplementsKvStore)`: the protocol, with closes that lose what is unsent, implements atomic registers |
| `ConnectionsInvariance`, `ConnectionsTypeCorrect` | the same for `Connections` |
| `SlotsCounted` | `[]SlotsAreCounted` |
| `SlotFound` | `[]NoSlotOverrun` |
| `SlotsKnown` | `[]ClientsKnowTheirSlots` |
| `CountersAgree`, `NoBufferIsLost`, `ReceivesSuffice` | `[]CountsAgree`, `[]UsedBuffersArePosted`, `[]NeverRunsShort` of `ReceiveBuffers`, for any number of slots and buffers |
| `RequestsStayIntact` | `[]RequestsAreIntact`: until a connection is removed, no receive in use is posted again or zeroed |
| `NoNullIsHandedOut`, `PoolCount`, `OnePlace` | `[]PoolTypeOK`, `[]CountIsExact`, `[]RecordsAreInOnePlace` of `EntryPool`, for any size and threshold |
| `BufferAccesses` | `[]AccessesAreInside` of `EntryBuffer`, for all lengths, page sizes and keys |
| `ReturnedString` | `[]GetReturnsTheString`, for all lengths when keys are short |
| `PairsAgree` | `[]PairsMatch` of `QueuePairs`, for any number of clients and queue pairs |
| `ResourcesTypeCorrect`, `LivesTypeCorrect` | the types of the four small components that `MCResources` puts together, and of the three of `MCLives` |
| `ClientsAlwaysTold` | `[]ClientsAreTold` of `ServerLife`, for any order of failures, signals, deaths and waits |
| `RecordsAlwaysThere`, `SendsAlwaysIntact` | `[]RecordsAreThere`, `[]SendsAreIntact` of `ClientLife`, for any number of buffers and operations |

**The argument for the locks.** The invariant is

    IInv == TypeOK /\ PolledAreSends /\ LocksAreAccountedFor

`TypeOK` alone is not inductive: the server handles the head of `c2s[c]` because
it counted `polled[c]` of them earlier, and only `PolledAreSends` (the polled
requests are still there and are sends) says that nothing since - an RDMA
request executing in the middle of the queue, a client that died and left a
prefix - has put something else at the head. `TypeOK` also needs the lock
accounting: `Unlocked` takes one away, and that there is one to take follows
from the wait that is being removed. `RendezvousProofs` begins with what each
handler does to the types (`HandleSetType`, ...) and to the balance of locks and
waits: `LockBalanced` adds one of each, `UnlockBalanced` takes one of each, both
by counting the finite set `Holders(k)`; `RemovePendingLocks`, `HandleSetLocks`
and `HandleGetLocks` follow. Then there is one type lemma per group of actions,
one lemma on how each treats the queues, and one step per action for the locks.

**The argument for the requests.** `QueuesAgree` is not inductive: a SET that
arrives is appended to the list, and that its tid is not there already depends on
what the client may post. A tid is therefore followed as a token (`Apart`): it is
posted, in the server's list, answered, or completed, and never in two of these
places. `Orderly(c)` adds what each place says of the tables: while a request is
answered or executes, the client's table still has it and for the same key, so a
FIN is posted once (`PostedRight`, `RepliedRight`, `CompletedRight`), and a queued
record is in the list or waits for its FIN (`QueuedRight`). An unused slot is clean
(`SlotIsClean`): its tids start again at 1, and must meet nothing of the client
that died. Every step touches the tids of one client only, so `Orderly` is kept
client by client, and the lemmas come in pairs: what a step does to its own
client, what it leaves to the others.

    TInv == IInv /\ ListInOrder /\ \A c \in Clients : Orderly(c)

**The argument for the remote keys.** Upon `TInv`, `Secured(c)` says that the
entry of every answered, executing or completed rendezvous request, and of every
posted FIN, is locked for its tid, with the current memory region (`Locked`).
What keeps it is `Spares(t)`: a step for the tid t changes neither the waits of
other tids nor, of the entries they wait on, the region, the writer and whether
they are being filled. It holds because whoever locks for writing finds no
other lock. The exception is a connection that is being removed: its locks go
one by one while its requests may still execute. What is left of its writes then
goes to an entry nobody holds (`Free`), because no handler runs until the removal
is over; `Closings` says that only a client that is gone is removed while its
remote keys are about. So an RDMA write finds its own lock or no lock, which
gives `LockedValueIsStable`, and a FIN finds its wait, which gives
`ServerStaysUp`.

    RInv == TInv /\ Closings /\ WaitedArePresent /\ ServerStaysUp
                 /\ \A c \in Clients : Secured(c)

**The argument for whole values.** While an entry is being filled it is locked
for writing (`FillingIsLocked`), so whoever may read it, by an eager GET or by an
RDMA read, finds it whole. What has to be shown is that the lock is not given
back before the write is over. A tid is `Calm` when the entry it waits on is not
being filled. `Whole` says that a tid that is not calm is of a SET that its
running client still waits with (`Waits`), and that whatever makes the server
give back a lock finds a calm tid: a FIN, a completion that will become one, a
request that is posted or queued and would replace its tid's wait, and a request
dropped with its connection, whose client has an empty table. A client that dies
empties its table before its write is over, which is why the theorem assumes
`Unreliable = {}`; in `Crash` that does happen.

    Whole, kept by every step from RInv /\ Whole

**The argument for the places.** `TInv` says where a tid may be, `Accounted(t)`
that it is somewhere: the client's table has records only for tids it has given
out on a running connection, a record that is not done is `Placed`, and a set that is answered at once by
nothing (an eager one) is not in the table. Each step moves the tids of a set T,
mostly of one element, and `Moves(T)` says that it leaves the places of all others
alone; what is left to show is where a tid of T went. That the server answers
what it forgets is the one hard case (`NeedsAnswer`, `AnsweredWith`): a request
leaves the queue only into an answer, unless nobody waits for one.
`RequestsAreInOnePlace` counts: `OnceAtMost` gives a sum of at most one from
`Apart`, `Placed` gives at least one.

    PlInv == RInv /\ \A t \in Tids : Accounted(t)

**The argument for the refinement.** What is abstract here is a set of sets under
way and one call per client, made from six places of the protocol; a step moves
one tid between them, or drops those of a slot. So the abstract state is
described tid by tid: `Bears(t, k, v)` says that t has a set of v to k on its way,
`Answer(t, v)` that the get t was answered with v; `SetsRight`, `BearsRight` and
`CallRight` say that this description is the mapping. `OthersBearTheSame` frames
it by `Moves(T)`; what is left of a step is what it makes of its own tid:
`SetEnters` for `kv_set`, `SetLeaves` with `SetTakesEffect` for an eager handler or
an RDMA write that lands, `GetReads` for an eager answer or an RDMA read,
`SetsMayLeave` with `SetsAreLost` for a removal, nothing for a request that goes
to another place. There is one lemma per action, `...Simulates`.

That a request bears the same set everywhere is what `Linked` adds to the
invariant: what is posted, queued, answered or executing for a tid has the
operation, key and value that its client called with. A queued SET is stored from
the copy in its record. `PayloadsAreKept` says of the lengths of keys and values
that none lies between the two bounds of the code, the one up to which a SET is
eager and the smaller one up to which `push_pending_request` copies its value;
`LostPayload` shows what happens to one that does. A get reads at one instant
because the entry is locked, so whole, when the RDMA read executes (`Whole`).
And an eager GET reads the value and no more: with short keys an entry whose size
is small enough for an eager answer has no writer, and its value was stored by an
eager SET and counted with its terminator (`SizesRight`).

    LInv == PlInv /\ Whole /\ \A t \in Tids : Linked(t) /\ \A c \in Clients : InGet(c)
    AInv == LInv /\ SetsRight /\ \A t \in Tids : BearsRight(t)
                 /\ \A c \in Clients : CallRight(c)
    AInv /\ SizesRight is kept by every step

**The argument for the slots.** A peer that was accepted may take a slot later,
so the count must cover taken slots *and* candidates. A candidate that is
answered moves from one set to the other; `ServingIsTaken` (the peer being
served is a peer, and is not among the accepted ones) makes the sum come out.
When `add_new_connection` runs there is a candidate, so fewer slots than the
maximum are taken.

**The argument for the receive ring.** `ReceivesSuffice` needs to know how many
buffers can be in use when a refill starts. `UsedBuffersArePosted` bounds them by the
posted ones and the one in hand; `CountsAgree` says how many are posted, at
most the maximum for each connection, and fewer for the one that is refilled.
Used buffers are mapped into the places of the receive queues, of which there
are at most as many as the pool has buffers, so a free one is left. That the
buffers of others are given back by a removal does no harm here: it only makes
the set of used ones smaller.

**The argument for intact requests.** While nobody has left, a buffer is posted
once (`OncePosted`) and what the server has in hand is posted nowhere. Messages land in
the first posted receive of their connection, so the n-th of those that have landed
is the n-th of those that were sent and not handled (`HeldInOrder`). The number is
what makes it inductive: that *some* message of the connection is in the buffer
would survive an exchange of two.

    MInv == Taken /\ types of content /\ (NobodyHasLeft => OncePosted /\ HeldInOrder)

**The argument for the pool.** `Layout` says that the records lie from the index
to the end of the array once it was filled, so count plus index is the length;
`MadeBefore` that no record is of a later round, so what a refill makes is new.

**The argument for the buffer.** `BInv` relates `size`, the capacity and what a
handler is waiting for; `SInv` adds what the bytes show. A rendezvous SET leaves
no terminator; with short keys every value that comes that way is too long for
an eager GET (`EagerGetIsExact`), and the buffer that shows it to one was written
by an eager SET, with its terminator.

**The argument for the ids.** `ClientsKnowTheirSlots` is about a peer that has a
slot; what it rests on is what is true of one that has none yet. `ArrivalsAreNew`:
who is on its way to a slot is counted once, holds a socket and has no slot.
`OneSlotEach` follows, and `AnswersTheLast` says that `last_client_id`, a variable
of the whole program, belongs to the peer that is being answered whenever it is
read.

**The argument for the queue pairs.** `PInv` says what each side knows in the
middle of the exchange: an address on its way to the server is the client's own
(`AddressesAreOwn`), before the answer no queue pair of the server names the
client (`NoneBeforeAnswer`), afterwards one does, and it is the one in the answer
(`AnswersAreOurs`). A queue pair that could not be connected names nobody.

**The argument for the end of the server.** `PassedAreTold` relates the index of
the shutdown loop to the set of those told. The type of `sends`, that the send buffers in use are no
more than there are, is not part of the first invariant: it is a sum over the
slots, with what removed connections have lost, and each step that sends or completes
has to move one unit between terms of that sum (`SendsCounted`).

    SInv /\ SendsCounted

**The argument for the client's records.** `OneStage` says that a tid is asked
for, on its way back, in an RDMA write or read, or answered, and not in two of
these; `TidsAreGiven`, that no tid is ahead of the counter, makes a new one new.
`RecordsKept` says that what is asked for, on its way back, being written or read
has its record in the table. It ends with `LastCalls`: `kv_close` empties the table, calls
itself through a failed completion and empties it again, and what still comes
then is not looked up. For the send buffers, `SendsHeld` says that each posted
send has a buffer of its own, in use, with the message it was posted with, and no
other buffer is in use; it is stated until `kv_set` has waited with a buffer
in its hand, because from then on it is false.

    CInv == ClientTypes /\ RecordsInv /\ SendsInv

**The argument for the order.** `PassInOrder(q, n)` describes the list in the middle of
a pass with n requests still to serve: these are in order, so are those that were
pushed back behind them, and of one client what was pushed back is older. With n = 0
or n = `Len(q)` that is the plain order, so a pass may begin and end there, but not
when it begins with fewer requests than are listed: this is why the theorem
needs `ListIsShort` (the code's window and batch do not imply it: four clients may
post more than 201 requests). The instance of `Safety` keeps to it, that of
`Crash`, with a smaller batch, does not. A new arrival comes last because a
client posts its requests in order (`PostedInOrder`) and what is listed was
posted before what still is (`ListedFirst`).

    OInv == TInv /\ PassInOrder(sorted_q, todo)
                 /\ \A c \in Clients : PostedInOrder(c2s[c]) /\ ListedFirst(c)

**Only model-checked.** Liveness (`GetsReturn`, `LocksAreReleased`,
`QueuedRequestsAreServed`, `ClosesReturn`, `FirstRequestArrives`,
`SignalEndsServer`, `SignalEndsClient`, `CallsEnd`) stays with TLC: fairness and ENABLED
are out of the prover's reach, and so is induction over data.

## 6. What is not modelled

* **Handlers inside handlers.** With no free send buffer a handler of the loop
  polls and runs other handlers (`server.c:34-49`). This is modelled inside the
  teardown, where the tables are gone; in the loop a send buffer is found.
* **Posts that fail.** The result of `server_post_send` is ignored by its callers
  (`server.c:683`). What it leaves behind, a wait without a client, is in `Crash`.
* **The client's receive ring**, which is posted like the server's and belongs to
  one connection, so nothing can be given back for another.
* **Tids that wrap** after 8192 operations, excluded by `ClientsAssumption`, and
  **lengths near 2^31**, excluded by `ValueAssumption`; no check in the code
  excludes either.
* **Failures of system calls** in connection set-up other than those of `recv`,
  `read` and the QP calls.
* **The text form of addresses**, and **parsing** of command lines and input
  files: clients make any calls in any order instead.
* **Vendored containers**: `uthash` and `utlist` are a function and a sequence.

## 7. Plan

1. `SendPool` - `server_wait_completions` nested inside a handler of the loop,
   with the entry locked and the request not yet recorded, and posts that fail on
   a QP in error.
2. `TidSpace` - the wrap of the 13-bit counter against both tables.
