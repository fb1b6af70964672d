----------------------------- MODULE StoreSizes -----------------------------
(***************************************************************************)
(* The sizes that decide which path a request takes: the lengths of keys   *)
(* and values, the fixed size of a message buffer, and the thresholds the  *)
(* client and the server compare them with (src/common/constants.h,        *)
(* src/client.c, src/server.c, src/server_internals).  A value is a name   *)
(* with a length; its bytes are never looked at.                           *)
(***************************************************************************)
EXTENDS Integers

CONSTANTS
    Keys,      \* the keys the clients use
    Values,    \* the values the clients store
    Empty,     \* the empty string, what a key holds before its first SET
    Torn,      \* what a reader sees of a value that is only partly written
    KeyLen,    \* strlen(key)
    StrLen     \* strlen(value), of the empty string too

Contents == Values \cup {Empty}

ASSUME SentinelAssumption ==
    /\ Empty \notin Values
    /\ Torn \notin Contents

ASSUME LengthAssumption ==
    /\ KeyLen \in [Keys -> Nat \ {0}]      \* db_insert exits on an empty key
    /\ StrLen \in [Contents -> Nat]
    /\ StrLen[Empty] = 0

BUFFER_SIZE                 == 4096
CLIENT_HEADER_LEN           == 24
SERVER_HEADER_LEN           == 40
CLIENT_REQUEST_PAYLOAD_LEN  == BUFFER_SIZE - CLIENT_HEADER_LEN
SERVER_RESPONSE_PAYLOAD_LEN == BUFFER_SIZE - SERVER_HEADER_LEN
PageSize                    == 4096

(***************************************************************************)
(* A SET whose key and value fit one message is sent eagerly; the client   *)
(* and the server evaluate the same condition, each on its own.            *)
(***************************************************************************)
EagerSet(k, v) == StrLen[v] + KeyLen[k] + 2 <= CLIENT_REQUEST_PAYLOAD_LEN

(***************************************************************************)
(* A GET is answered eagerly when header, entry->size bytes and one more   *)
(* fit the server's payload length.                                        *)
(***************************************************************************)
EagerGet(size) == SERVER_HEADER_LEN + size + 1 <= SERVER_RESPONSE_PAYLOAD_LEN

(***************************************************************************)
(* A key and an empty value fit one message: kv_set and kv_get copy the    *)
(* key into it unchecked.  generate_inputs.py:62 makes keys of up to 4070  *)
(* bytes, the longest for which this holds.                                *)
(***************************************************************************)
ASSUME KeyFitsAssumption == \A k \in Keys : EagerSet(k, Empty)

(***************************************************************************)
(* push_pending_request copies the payload of a request it queues only     *)
(* when the header, which is not part of that payload, would fit as well.  *)
(* Otherwise it copies the key alone, into a buffer of zeroes.             *)
(***************************************************************************)
CopiesPayload(k, v) ==
    CLIENT_HEADER_LEN + KeyLen[k] + StrLen[v] + 2 <= CLIENT_REQUEST_PAYLOAD_LEN

(* Mutant: the value is never copied, whatever its size. *)
PendingKeyOnly(k, v) == Empty

PendingPayload(k, v) == IF CopiesPayload(k, v) THEN v ELSE Empty

(***************************************************************************)
(* roundup(x, y) of <sys/param.h>, and the size an entry is born with:     *)
(* twice a page rounded up to a multiple of the payload length.            *)
(***************************************************************************)
RoundUp(x, y) == ((x + y - 1) \div y) * y

InitialAllocation == 2 * RoundUp(PageSize, CLIENT_REQUEST_PAYLOAD_LEN)
=============================================================================
