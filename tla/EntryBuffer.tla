---------------------------- MODULE EntryBuffer ----------------------------
(***************************************************************************)
(* The bytes of one entry's buffer under the SETs and GETs of its key, one *)
(* at a time: what an eager SET, the RDMA write of a large one, an eager   *)
(* GET and an RDMA read leave and take, and when db_reallocate_item keeps  *)
(* the old buffer.  The sizes are parameters, and a value's bytes are its  *)
(* name, as often as it is long, so that a byte tells where it came from.  *)
(***************************************************************************)
EXTENDS Integers

CONSTANTS
    BUFFER_SIZE, CLIENT_HEADER_LEN, SERVER_HEADER_LEN, page_size,
    INT_MAX,    \* the largest int, 2^31 - 1
    KeyLens,    \* the lengths of key looked at
    Values,
    StrLen,     \* strlen(value)
    NUL,        \* the byte that ends a string
    NoValue     \* kv_get has not returned since the last SET

CLIENT_REQUEST_PAYLOAD_LEN  == BUFFER_SIZE - CLIENT_HEADER_LEN
SERVER_RESPONSE_PAYLOAD_LEN == BUFFER_SIZE - SERVER_HEADER_LEN

ASSUME SizeAssumption ==
    /\ BUFFER_SIZE \in Nat /\ CLIENT_HEADER_LEN \in Nat /\ SERVER_HEADER_LEN \in Nat
    /\ CLIENT_REQUEST_PAYLOAD_LEN > 0
    /\ page_size \in Nat \ {0}
    /\ INT_MAX \in Nat

ASSUME KeyAssumption ==
    /\ KeyLens \subseteq Nat \ {0}
    /\ KeyLens # {}

(* total_size, computed in 64 bits, is kept in an int: no value is so long *)
(* that it becomes negative.                                               *)
ASSUME ValueAssumption ==
    /\ StrLen \in [Values -> Nat]
    /\ NUL \notin Values
    /\ \A v \in Values : SERVER_HEADER_LEN + StrLen[v] + 2 <= INT_MAX

VARIABLES
    keylen,            \* the length of the key
    value,             \* the entry's buffer: what entry->value points to
    size,              \* entry->size
    _allocated_size,   \* entry->_allocated_size
    awaits,             \* "idle", or what the request waits for
    stored,            \* the value of the SET that was last to finish
    setting,           \* the value of the SET under way
    reply,             \* bytes of the eager reply that was last built
    got                \* what the last kv_get since the last SET returned

buffer_vars == <<keylen, value, size, _allocated_size, awaits, stored, setting, reply, got>>

Bytes == Values \cup {NUL}

(* A C string: what a pointer to len bytes at least of bytes shows.        *)
IsString(len, bytes, v) ==
    /\ StrLen[v] < len
    /\ \A i \in 0 .. StrLen[v] - 1 : bytes[i] = v
    /\ bytes[StrLen[v]] = NUL

-----------------------------------------------------------------------------
(* roundup of <sys/param.h>. *)
roundup(x, y) == ((x + y - 1) \div y) * y

(* The capacity an entry is made with. *)
InitialAllocation == 2 * roundup(page_size, CLIENT_REQUEST_PAYLOAD_LEN)

(* Mutant: a buffer that is exactly full counts as big enough, too. *)
BigEnoughWhenFull(new_size) == new_size <= _allocated_size

(* When db_reallocate_item leaves the buffer, and its bytes, as they are. *)
BigEnough(new_size) == new_size < _allocated_size \div 2

(* What db_reallocate_item leaves: the buffer, its capacity. *)
db_reallocate_item(new_size) ==
    IF BigEnough(new_size)
    THEN [value |-> value, allocated |-> _allocated_size]
    ELSE LET allocated == roundup(4 * new_size, page_size) IN
         [value     |-> [i \in 0 .. allocated - 1 |-> NUL],
          allocated |-> allocated]

(* The first n bytes of a buffer become those of v, and NUL behind them. *)
Copied(buffer, v, n) ==
    [i \in DOMAIN buffer |-> IF i < n THEN IF i < StrLen[v] THEN v ELSE NUL
                             ELSE buffer[i]]

(* Mutant: the byte that ends the string is not copied. *)
db_insert_without_nul(v) ==
    LET entry == db_reallocate_item(StrLen[v] + 1) IN
    /\ value' = Copied(entry.value, v, StrLen[v])
    /\ size' = StrLen[v] + 1
    /\ _allocated_size' = entry.allocated

(* db_insert on a key that is there: strncpy of size bytes, the NUL too. *)
db_insert(v) ==
    LET entry == db_reallocate_item(StrLen[v] + 1) IN
    /\ value' = Copied(entry.value, v, StrLen[v] + 1)
    /\ size' = StrLen[v] + 1
    /\ _allocated_size' = entry.allocated

EagerSet(v) == StrLen[v] + keylen + 2 <= CLIENT_REQUEST_PAYLOAD_LEN

(* handle_set_request for a value that came in the message.                *)
SetEager(v) ==
    /\ awaits = "idle"
    /\ EagerSet(v)
    /\ db_insert(v)
    /\ stored' = v
    /\ got' = NoValue
    /\ UNCHANGED <<keylen, awaits, setting, reply>>

(* handle_set_request for a value to come: the buffer is made large enough *)
(* and its address sent; size is the length without the NUL.               *)
SetRendezvous(v) ==
    /\ awaits = "idle"
    /\ ~EagerSet(v)
    /\ LET entry == db_reallocate_item(StrLen[v]) IN
       /\ value' = entry.value
       /\ size' = StrLen[v]
       /\ _allocated_size' = entry.allocated
    /\ setting' = v
    /\ awaits' = "write"
    /\ got' = NoValue
    /\ UNCHANGED <<keylen, stored, reply>>

(* The client's RDMA write: out_size bytes, which is the string's length.  *)
client_handle_recv_rdma_rkey_set ==
    /\ awaits = "write"
    /\ value' = Copied(value, setting, StrLen[setting])
    /\ stored' = setting
    /\ awaits' = "fin"
    /\ UNCHANGED <<keylen, size, _allocated_size, setting, reply, got>>

(* What is left of a 64-bit sum when it is kept in an int. *)
AsInt(n) == IF n <= INT_MAX THEN n ELSE n - 2 * (INT_MAX + 1)

EagerGet == AsInt(SERVER_HEADER_LEN + size + 1) <= SERVER_RESPONSE_PAYLOAD_LEN

(* The first n bytes of the entry's buffer in a buffer of n + 1 zeroes. *)
TakenOut(n) == [i \in 0 .. n |-> IF i < n THEN value[i] ELSE NUL]

(* handle_get_request copies size + 1 bytes into the reply, and the client *)
(* the same number out of it; with size 0 it makes an empty string itself. *)
GetEager ==
    /\ awaits = "idle"
    /\ EagerGet
    /\ reply' = SERVER_HEADER_LEN + size + 1
    /\ got' = [len |-> size + 1,
               bytes |-> IF size > 0 THEN [i \in 0 .. size |-> value[i]]
                         ELSE TakenOut(0)]
    /\ UNCHANGED <<keylen, value, size, _allocated_size, awaits, stored, setting>>

(* handle_get_request for a value that does not fit: its address is sent.  *)
GetRendezvous ==
    /\ awaits = "idle"
    /\ ~EagerGet
    /\ awaits' = "read"
    /\ UNCHANGED <<keylen, value, size, _allocated_size, stored, setting, reply, got>>

(* The client's RDMA read of size bytes, into a buffer of one byte more.   *)
client_handle_recv_rdma_rkey_get ==
    /\ awaits = "read"
    /\ got' = [len |-> size + 1, bytes |-> TakenOut(size)]
    /\ awaits' = "fin"
    /\ UNCHANGED <<keylen, value, size, _allocated_size, stored, setting, reply>>

(* The FIN has unlocked the entry. *)
mark_rdma_fin_received ==
    /\ awaits = "fin"
    /\ awaits' = "idle"
    /\ UNCHANGED <<keylen, value, size, _allocated_size, stored, setting, reply, got>>

(* An entry right after db_insert made it, for an empty value: its buffer  *)
(* is zeroes, its size 0.                                                  *)
BufferInit ==
    /\ keylen \in KeyLens
    /\ _allocated_size = InitialAllocation
    /\ value = [i \in 0 .. _allocated_size - 1 |-> NUL]
    /\ size = 0
    /\ awaits = "idle"
    /\ stored \in {v \in Values : StrLen[v] = 0}
    /\ setting = stored
    /\ reply = 0
    /\ got = NoValue

BufferNext ==
    \/ \E v \in Values : SetEager(v) \/ SetRendezvous(v)
    \/ client_handle_recv_rdma_rkey_set
    \/ GetEager
    \/ GetRendezvous
    \/ client_handle_recv_rdma_rkey_get
    \/ mark_rdma_fin_received

BufferSpec == BufferInit /\ [][BufferNext]_buffer_vars

-----------------------------------------------------------------------------
(* Every variable holds what its declaration says; the buffer is as long   *)
(* as _allocated_size says.                                                *)
BufferTypeOK ==
    /\ keylen \in KeyLens
    /\ _allocated_size \in Nat \ {0}
    /\ value \in [0 .. _allocated_size - 1 -> Bytes]
    /\ size \in Nat
    /\ awaits \in {"idle", "write", "read", "fin"}
    /\ stored \in Values
    /\ setting \in Values
    /\ reply \in Nat

(***************************************************************************)
(* The reads and writes of the handlers and of the clients' devices stay   *)
(* inside of the buffer: size + 1 bytes are copied into an eager reply     *)
(* (server.c:723), which fits a message buffer, and size bytes are read or *)
(* written by a device.  Three different lengths are stored in size, and   *)
(* the buffer is kept or made anew by a comparison with half of it.        *)
(***************************************************************************)
AccessesAreInside ==
    /\ size < _allocated_size
    /\ awaits = "write" => StrLen[setting] <= _allocated_size
    /\ reply <= BUFFER_SIZE

(***************************************************************************)
(* client_tests.c:16: what kv_get returns is the value that was stored     *)
(* last, as a string that ends where the value ends: neither an eager nor  *)
(* a rendezvous GET shows bytes of an earlier, longer value.               *)
(***************************************************************************)
GetReturnsTheString == got # NoValue => IsString(got.len, got.bytes, stored)
=============================================================================
