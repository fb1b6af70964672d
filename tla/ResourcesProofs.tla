-------------------------- MODULE ResourcesProofs --------------------------
(***************************************************************************)
(* The pool of records and the buffer of an entry, for all their sizes,    *)
(* and the types of all that the server counts in one place and holds in   *)
(* another.                                                                *)
(*                                                                         *)
(* Of the pool, for every length of the array and every limit below which  *)
(* it is filled: the count is exact, no NULL is handed out, and a record   *)
(* is in one place.  Of the buffer, for all sizes of messages, headers,    *)
(* pages and values: accesses stay inside of it, and as long as keys are   *)
(* shorter than two server headers less one client header, 56 bytes in the *)
(* code, a GET returns the string that was stored.                         *)
(***************************************************************************)
EXTENDS MCResources, ConnectionsProofs, ReceiveBuffersProofs

-----------------------------------------------------------------------------
(* The pool of records.                                                    *)

MAX == MAX_ALLOCATED_ENTRIES

(* What count and index say of the array, before and after the first fill. *)
Layout ==
    ~cleared =>
        \/ /\ rounds = 0
           /\ Gaps = Places
           /\ free_buffer_idx = 0
           /\ current_num_allocated_entries = 0
        \/ /\ rounds > 0
           /\ free_buffer_idx \in 0 .. MAX
           /\ Gaps = 0 .. free_buffer_idx - 1
           /\ current_num_allocated_entries = MAX - free_buffer_idx

(* A record still to be made is not among those that were.                 *)
MadeBefore == \A r \in made : r[1] <= rounds

EmptyWhenCleared == cleared => Gaps = Places

(* The inductive invariant. *)
PInv == PoolTypeOK /\ Layout /\ MadeBefore /\ EmptyWhenCleared /\ RecordsAreInOnePlace

(* NULL is no record. *)
LEMMA NullIsNoRecord == NULL \notin Records
  BY PoolAssumption DEF NULL, Records, Places

(* How many places lie before, and from, an index. *)
LEMMA PlacesBefore ==
    ASSUME NEW i \in 0 .. MAX
    PROVE  Cardinality(0 .. i - 1) = i
  BY FS_Interval, PoolAssumption DEF MAX

LEMMA PlacesFrom ==
    ASSUME NEW i \in 0 .. MAX
    PROVE  Cardinality(i .. MAX - 1) = MAX - i
  BY FS_Interval, PoolAssumption DEF MAX

(* The number of places to fill is the number of records that are missing. *)
LEMMA RefillIsComplete ==
    ASSUME PInv, ~cleared
    PROVE  current_num_allocated_entries + Cardinality(Gaps) = MAX
  <1>1. MAX \in Nat BY PoolAssumption DEF MAX
  <1>2. CASE rounds = 0
    <2>1. Gaps = 0 .. MAX - 1 /\ current_num_allocated_entries = 0
      BY <1>2 DEF PInv, Layout, Places, MAX
    <2>2. Cardinality(0 .. MAX - 1) = MAX BY <1>1, PlacesBefore
    <2> QED BY <1>1, <2>1, <2>2
  <1>3. CASE rounds > 0
    <2>1. /\ free_buffer_idx \in 0 .. MAX
          /\ Gaps = 0 .. free_buffer_idx - 1
          /\ current_num_allocated_entries = MAX - free_buffer_idx
      BY <1>3 DEF PInv, Layout
    <2>2. Cardinality(0 .. free_buffer_idx - 1) = free_buffer_idx
      BY <2>1, PlacesBefore
    <2> QED BY <1>1, <2>1, <2>2
  <1> QED BY <1>2, <1>3 DEF PInv, PoolTypeOK

(* A pool that is not too short has a record at its index. *)
LEMMA IndexHasRecord ==
    ASSUME PInv, ~cleared, ~TooFew
    PROVE  /\ rounds > 0
           /\ free_buffer_idx \in Places
           /\ free_buffer_idx \notin Gaps
           /\ current_num_allocated_entries \in 1 .. MAX
  BY PoolAssumption DEF PInv, PoolTypeOK, Layout, TooFew, Places, MAX

-----------------------------------------------------------------------------
LEMMA InitPInv == PoolInit => PInv
  <1> SUFFICES ASSUME PoolInit PROVE PInv
    OBVIOUS
  <1>1. Gaps = Places /\ InArray = {}
    BY DEF PoolInit, Gaps, InArray
  <1>2. preallocated_entries \in [Places -> Records \cup {NULL}]
    <2> DEFINE N == NULL
               RN == Records \cup {N}
    <2>1. preallocated_entries = [p \in Places |-> N] /\ N \in RN
      BY DEF PoolInit
    <2> HIDE DEF N, RN
    <2>2. preallocated_entries \in [Places -> RN]
      BY <2>1
    <2> QED BY <2>2 DEF N, RN
  <1>3. PoolTypeOK
    <2>1. /\ current_num_allocated_entries = 0 /\ free_buffer_idx = 0 /\ rounds = 0
          /\ made = {} /\ taken = {} /\ freed = {} /\ cleared = FALSE
      BY DEF PoolInit
    <2>2. /\ current_num_allocated_entries \in 0 .. MAX_ALLOCATED_ENTRIES
          /\ free_buffer_idx \in 0 .. MAX_ALLOCATED_ENTRIES
          /\ rounds \in Nat
      BY <2>1, PoolAssumption
    <2>3. made \subseteq Records /\ taken \subseteq Records /\ freed \subseteq Records
      BY <2>1
    <2>4. cleared \in BOOLEAN
      BY <2>1
    <2> QED BY <1>2, <2>2, <2>3, <2>4 DEF PoolTypeOK
  <1>4. Layout
    BY <1>1 DEF PoolInit, Layout
  <1>5. MadeBefore /\ EmptyWhenCleared /\ RecordsAreInOnePlace
    BY <1>1 DEF PoolInit, MadeBefore, EmptyWhenCleared, RecordsAreInOnePlace
  <1> QED BY <1>3, <1>4, <1>5 DEF PInv

(* A pool that is filled first: its first record is handed out. *)
LEMMA RefillStep ==
    ASSUME PInv, ~cleared, TooFew, Take(reallocate_entries),
           rounds' = rounds + 1, made' = made \cup {Made(p) : p \in Gaps}
    PROVE  PInv'
  <1> DEFINE entries == reallocate_entries.entries
             first   == entries[0]
  <1>1. /\ MAX \in Nat /\ MAX >= 1 /\ 0 \in Places /\ Places = 0 .. MAX - 1
        /\ MAX = MAX_ALLOCATED_ENTRIES
    BY PoolAssumption DEF MAX, Places
  <1>2. /\ entries = [p \in Places |-> IF p \in Gaps THEN Made(p)
                                       ELSE preallocated_entries[p]]
        /\ reallocate_entries.idx = 0
        /\ reallocate_entries.count = MAX
    BY RefillIsComplete DEF reallocate_entries
  <1>3. \A p \in Places : entries[p] \in Records
    BY <1>1, <1>2 DEF PInv, PoolTypeOK, Made, Records, Gaps
  <1>4. /\ preallocated_entries' = [entries EXCEPT ![0] = NULL]
        /\ free_buffer_idx' = 1
        /\ current_num_allocated_entries' = MAX - 1
        /\ taken' = taken \cup {first}
        /\ freed' = freed /\ cleared' = cleared
    BY <1>1, <1>2 DEF Take, At
  <1>5. /\ preallocated_entries'[0] = NULL
        /\ \A p \in Places \ {0} : preallocated_entries'[p] = entries[p]
    BY <1>1, <1>2, <1>4
  <1>6. Gaps' = {0}
    BY <1>1, <1>3, <1>5, NullIsNoRecord DEF Gaps
  <1> HIDE DEF entries
  <1>7. PoolTypeOK'
    <2>1. preallocated_entries' \in [Places -> Records \cup {NULL}]
      BY <1>2, <1>3, <1>4
    <2>2. made' \subseteq Records
      BY <1>1 DEF PInv, PoolTypeOK, Made, Records, Gaps
    <2> QED BY <1>1, <1>3, <1>4, <2>1, <2>2 DEF PInv, PoolTypeOK
  <1>8. Layout'
    BY <1>1, <1>4, <1>6 DEF Layout, PInv, PoolTypeOK
  <1>9. MadeBefore'
    <2>1. \A r \in made : r[1] \in Nat /\ r[1] <= rounds
      BY DEF PInv, PoolTypeOK, MadeBefore, Records
    <2>2. \A p \in Gaps : Made(p)[1] = rounds + 1
      BY DEF Made
    <2> QED BY <2>1, <2>2 DEF MadeBefore, PInv, PoolTypeOK
  <1>10. EmptyWhenCleared'
    BY <1>4 DEF EmptyWhenCleared
  <1>11. RecordsAreInOnePlace'
    <2>1. {entries[p] : p \in Places} = InArray \cup {Made(p) : p \in Gaps}
      BY <1>2 DEF InArray, Gaps
    <2>2. {entries[p] : p \in Places} = InArray' \cup {first}
      <3>1. InArray' = {entries[p] : p \in Places \ {0}}
        BY <1>5, <1>6 DEF InArray
      <3> QED BY <1>1, <3>1
    <2>3. \A p \in Gaps : Made(p) \notin made
      BY DEF Made, PInv, MadeBefore, PoolTypeOK
    <2>4. \A p, q \in Places : entries[p] = entries[q] => p = q
      <3> SUFFICES ASSUME NEW p \in Places, NEW q \in Places, entries[p] = entries[q]
                   PROVE  p = q
        OBVIOUS
      <3>1. CASE p \in Gaps /\ q \in Gaps
        BY <1>2, <3>1 DEF Made
      <3>2. CASE p \notin Gaps /\ q \notin Gaps
        BY <1>2, <3>2 DEF PInv, RecordsAreInOnePlace
      <3>3. CASE p \in Gaps /\ q \notin Gaps
        BY <1>2, <2>3, <3>3 DEF PInv, RecordsAreInOnePlace, InArray
      <3>4. CASE p \notin Gaps /\ q \in Gaps
        BY <1>2, <2>3, <3>4 DEF PInv, RecordsAreInOnePlace, InArray
      <3> QED BY <3>1, <3>2, <3>3, <3>4
    <2>5. first \notin InArray'
      <3>1. InArray' = {entries[p] : p \in Places \ {0}}
        BY <1>5, <1>6 DEF InArray
      <3> QED BY <1>1, <2>4, <3>1
    <2>6. made' = InArray' \cup taken' \cup freed'
      BY <1>4, <2>1, <2>2 DEF PInv, RecordsAreInOnePlace
    <2>7. /\ InArray' \cap taken' = {}
          /\ InArray' \cap freed' = {}
          /\ taken' \cap freed' = {}
      BY <1>4, <2>1, <2>2, <2>3, <2>5 DEF PInv, RecordsAreInOnePlace
    <2>8. \A p, q \in Places \ Gaps' :
              preallocated_entries'[p] = preallocated_entries'[q] => p = q
      BY <1>5, <1>6, <2>4
    <2> QED BY <2>6, <2>7, <2>8 DEF RecordsAreInOnePlace, Places
  <1> QED BY <1>7, <1>8, <1>9, <1>10, <1>11 DEF PInv

(* A pool that is long enough: the record at the index is handed out. *)
LEMMA TakeStep ==
    ASSUME PInv, ~cleared, ~TooFew,
           Take([entries |-> preallocated_entries,
                 count   |-> current_num_allocated_entries,
                 idx     |-> free_buffer_idx]),
           UNCHANGED <<rounds, made>>
    PROVE  PInv'
  <1> DEFINE i == free_buffer_idx
             first == preallocated_entries[i]
  <1>1. /\ rounds > 0 /\ i \in Places /\ i \notin Gaps
        /\ current_num_allocated_entries \in 1 .. MAX
    BY IndexHasRecord
  <1>2. /\ i \in 0 .. MAX - 1
        /\ Gaps = 0 .. i - 1
        /\ current_num_allocated_entries = MAX - i
        /\ MAX \in Nat
        /\ MAX = MAX_ALLOCATED_ENTRIES
    BY <1>1, PoolAssumption DEF PInv, Layout, Places, MAX
  <1>3. first \in Records /\ first \in InArray
    BY <1>1 DEF PInv, PoolTypeOK, Gaps, InArray
  <1>4. /\ preallocated_entries' = [preallocated_entries EXCEPT ![i] = NULL]
        /\ free_buffer_idx' = i + 1
        /\ current_num_allocated_entries' = current_num_allocated_entries - 1
        /\ taken' = taken \cup {first}
        /\ freed' = freed /\ cleared' = cleared /\ rounds' = rounds /\ made' = made
    BY <1>1 DEF Take, At
  <1>5. /\ preallocated_entries'[i] = NULL
        /\ \A p \in Places \ {i} : preallocated_entries'[p] = preallocated_entries[p]
    BY <1>1, <1>4 DEF PInv, PoolTypeOK
  <1>6. Gaps' = Gaps \cup {i}
    BY <1>1, <1>5 DEF Gaps
  <1>7. PoolTypeOK'
    <2>1. preallocated_entries' \in [Places -> Records \cup {NULL}]
      BY <1>4 DEF PInv, PoolTypeOK
    <2> QED BY <1>1, <1>2, <1>3, <1>4, <2>1 DEF PInv, PoolTypeOK
  <1>8. Layout'
    <2>1. 0 .. (i - 1) \cup {i} = 0 .. i BY <1>2
    <2> QED BY <1>1, <1>2, <1>4, <1>6, <2>1 DEF Layout
  <1>9. MadeBefore' /\ EmptyWhenCleared'
    BY <1>4 DEF MadeBefore, EmptyWhenCleared, PInv
  <1>10. RecordsAreInOnePlace'
    <2>1. InArray' = {preallocated_entries[p] : p \in (Places \ Gaps) \ {i}}
      BY <1>5, <1>6 DEF InArray
    <2>2. InArray = InArray' \cup {first}
      BY <1>1, <2>1 DEF InArray
    <2>3. first \notin InArray'
      BY <1>1, <2>1 DEF PInv, RecordsAreInOnePlace
    <2>4. /\ made' = InArray' \cup taken' \cup freed'
          /\ InArray' \cap taken' = {}
          /\ InArray' \cap freed' = {}
          /\ taken' \cap freed' = {}
      BY <1>4, <2>2, <2>3 DEF PInv, RecordsAreInOnePlace
    <2>5. \A p, q \in Places \ Gaps' :
              preallocated_entries'[p] = preallocated_entries'[q] => p = q
      BY <1>5, <1>6 DEF PInv, RecordsAreInOnePlace
    <2> QED BY <2>4, <2>5 DEF RecordsAreInOnePlace, Places
  <1> QED BY <1>7, <1>8, <1>9, <1>10 DEF PInv

LEMMA FreeStep ==
    ASSUME PInv, NEW r \in taken, FreeRecord(r)
    PROVE  PInv'
  <1>1. UNCHANGED <<array, rounds, made, cleared, Gaps, InArray>>
    BY DEF FreeRecord, array, Gaps, InArray
  <1>2. PoolTypeOK' /\ Layout' /\ MadeBefore' /\ EmptyWhenCleared'
    BY <1>1 DEF FreeRecord, array, PInv, PoolTypeOK, Layout, MadeBefore, EmptyWhenCleared
  <1>3. RecordsAreInOnePlace'
    BY <1>1 DEF FreeRecord, array, PInv, RecordsAreInOnePlace
  <1> QED BY <1>2, <1>3 DEF PInv

LEMMA ClearStep ==
    ASSUME PInv, clear_preallocated_buffers
    PROVE  PInv'
  <1>1. /\ preallocated_entries' = [p \in Places |-> NULL]
        /\ freed' = freed \cup InArray
        /\ cleared' = TRUE
        /\ UNCHANGED <<current_num_allocated_entries, free_buffer_idx, rounds, made, taken>>
    BY DEF clear_preallocated_buffers, InArray
  <1>2. Gaps' = Places /\ InArray' = {}
    BY <1>1 DEF Gaps, InArray
  <1>3. PoolTypeOK'
    <2>1. InArray \subseteq Records
      BY DEF PInv, PoolTypeOK, InArray, Gaps
    <2> QED BY <1>1, <2>1 DEF PInv, PoolTypeOK
  <1>4. RecordsAreInOnePlace'
    BY <1>1, <1>2 DEF PInv, RecordsAreInOnePlace
  <1> QED BY <1>1, <1>2, <1>3, <1>4 DEF PInv, Layout, MadeBefore, EmptyWhenCleared

LEMMA NextPInv == PInv /\ [PoolNext]_pool_vars => PInv'
  <1> SUFFICES ASSUME PInv, [PoolNext]_pool_vars PROVE PInv'
    OBVIOUS
  <1>1. CASE get_empty_buffer
    BY <1>1, RefillStep, TakeStep DEF get_empty_buffer
  <1>2. CASE \E r \in taken : FreeRecord(r)
    BY <1>2, FreeStep
  <1>3. CASE clear_preallocated_buffers
    BY <1>3, ClearStep
  <1>4. CASE UNCHANGED pool_vars
    BY <1>4 DEF pool_vars, array, PInv, PoolTypeOK, Layout, MadeBefore,
       EmptyWhenCleared, RecordsAreInOnePlace, Gaps, InArray
  <1> QED BY <1>1, <1>2, <1>3, <1>4 DEF PoolNext

(* In every state of the pool all of this holds. *)
THEOREM PoolInvariance == PoolSpec => []PInv
  BY InitPInv, NextPInv, PTL DEF PoolSpec

(* No request and no entry is ever built on NULL: get_empty_buffer gives   *)
(* out a record whatever the sizes are (db.c:59-68).                       *)
THEOREM NoNullIsHandedOut == PoolSpec => []PoolTypeOK
  BY PoolInvariance, PTL DEF PInv

(* The count by which the pool is filled again is the number of records in *)
(* it, after any sequence of fills and takes (db.c:56, 66).                *)
THEOREM PoolCount == PoolSpec => []CountIsExact
  <1>1. PInv => CountIsExact
    <2> SUFFICES ASSUME PInv, ~cleared PROVE CountIsExact
      BY DEF CountIsExact
    <2>1. MAX \in Nat /\ Places = 0 .. MAX - 1
      BY PoolAssumption DEF MAX, Places
    <2>2. CASE rounds = 0
      <3>1. Places \ Gaps = {} BY <2>2 DEF PInv, Layout
      <3> QED BY <2>2, <3>1, FS_EmptySet DEF PInv, Layout, CountIsExact
    <2>3. CASE rounds > 0
      <3>1. /\ free_buffer_idx \in 0 .. MAX
            /\ Gaps = 0 .. free_buffer_idx - 1
            /\ current_num_allocated_entries = MAX - free_buffer_idx
        BY <2>3 DEF PInv, Layout
      <3>2. Places \ Gaps = free_buffer_idx .. MAX - 1
        BY <2>1, <3>1
      <3> QED BY <3>1, <3>2, PlacesFrom DEF CountIsExact
    <2> QED BY <2>2, <2>3 DEF PInv, PoolTypeOK
  <1> QED BY <1>1, PoolInvariance, PTL

(* A record is with one user at a time and no record is lost (db.c:64-67,  *)
(* 81-93; server_requests_management.c:59-62, 151-169).                    *)
THEOREM OnePlace == PoolSpec => []RecordsAreInOnePlace
  BY PoolInvariance, PTL DEF PInv

-----------------------------------------------------------------------------
(* The buffer of an entry.                                                 *)

(* Every size entry->size can have is one a reply can be computed for. *)
Small(n) == SERVER_HEADER_LEN + n + 1 <= INT_MAX

(* The bounds on the current sizes. *)
Inside ==
    /\ size < _allocated_size
    /\ _allocated_size >= 2
    /\ Small(size)
    /\ awaits = "write" => StrLen[setting] = size
    /\ reply <= BUFFER_SIZE

BInv == BufferTypeOK /\ Inside

(* A key so short that what is too long for an eager SET is too long for   *)
(* an eager GET as well.                                                   *)
ShortKeys == \A k \in KeyLens : CLIENT_HEADER_LEN + k < 2 * SERVER_HEADER_LEN

(* The buffer shows v: its bytes, and the NUL behind them if size counts   *)
(* it or an eager GET would copy it.                                       *)
Shows(v) ==
    /\ \A i \in 0 .. StrLen[v] - 1 : value[i] = v
    /\ \/ size = StrLen[v] + 1 /\ value[StrLen[v]] = NUL
       \/ size = StrLen[v] /\ (EagerGet => value[StrLen[v]] = NUL)

StringInv ==
    /\ awaits # "write" => Shows(stored)
    /\ awaits = "write" => ~EagerSet(setting) /\ got = NoValue
    /\ GetReturnsTheString

-----------------------------------------------------------------------------
LEMMA RoundedUp ==
    ASSUME NEW x \in Nat, NEW y \in Nat \ {0}
    PROVE  roundup(x, y) \in Nat /\ roundup(x, y) >= x
  <1> DEFINE q == (x + y - 1) \div y
             r == (x + y - 1) % y
  <1>1. q \in Int /\ r \in 0 .. y - 1 /\ x + y - 1 = y * q + r
    BY Z3
  <1>2. y * q = q * y /\ y * q \in Int
    BY <1>1
  <1> QED BY <1>1, <1>2 DEF roundup

LEMMA SizesAreNat ==
    /\ CLIENT_REQUEST_PAYLOAD_LEN \in Nat \ {0}
    /\ SERVER_RESPONSE_PAYLOAD_LEN \in Int
    /\ SERVER_RESPONSE_PAYLOAD_LEN + SERVER_HEADER_LEN = BUFFER_SIZE
    /\ BUFFER_SIZE \in Nat /\ CLIENT_HEADER_LEN \in Nat /\ SERVER_HEADER_LEN \in Nat
    /\ page_size \in Nat \ {0} /\ INT_MAX \in Nat
  BY SizeAssumption DEF CLIENT_REQUEST_PAYLOAD_LEN, SERVER_RESPONSE_PAYLOAD_LEN

LEMMA InitialIsLarge == InitialAllocation \in Nat /\ InitialAllocation >= 2
  BY RoundedUp, SizesAreNat DEF InitialAllocation

(* What db_reallocate_item gives has room for new_size bytes and one more, *)
(* and for a buffer made anew also at least three bytes more than asked.   *)
LEMMA Reallocated ==
    ASSUME BInv, NEW n \in Nat
    PROVE  LET e == db_reallocate_item(n) IN
           /\ e.allocated \in Nat
           /\ e.allocated >= 2
           /\ e.value \in [0 .. e.allocated - 1 -> Bytes]
           /\ n < e.allocated
  <1> DEFINE half == _allocated_size \div 2
             new  == roundup(4 * n, page_size)
  <1>1. /\ _allocated_size \in Nat /\ _allocated_size >= 2
        /\ value \in [0 .. _allocated_size - 1 -> Bytes]
    BY DEF BInv, BufferTypeOK, Inside
  <1>2. half \in Nat /\ half >= 1 /\ half < _allocated_size
    BY <1>1
  <1>3. CASE BigEnough(n)
    <2>1. n < _allocated_size
      BY <1>1, <1>2, <1>3 DEF BigEnough
    <2> QED BY <1>1, <1>3, <2>1 DEF db_reallocate_item
  <1>4. CASE ~BigEnough(n)
    <2>1. n >= 1
      BY <1>2, <1>4 DEF BigEnough
    <2>2. new \in Nat /\ new >= 4 * n
      BY RoundedUp, SizesAreNat
    <2>3. [i \in 0 .. new - 1 |-> NUL] \in [0 .. new - 1 -> Bytes]
      BY DEF Bytes
    <2> HIDE DEF new
    <2>4. /\ db_reallocate_item(n).allocated = new
          /\ db_reallocate_item(n).value = [i \in 0 .. new - 1 |-> NUL]
      BY <1>4 DEF db_reallocate_item, new
    <2> QED BY <2>1, <2>2, <2>3, <2>4
  <1> QED BY <1>3, <1>4

(* Copying leaves a buffer its length. *)
LEMMA CopiedType ==
    ASSUME NEW n \in Nat, NEW b \in [0 .. n - 1 -> Bytes], NEW v \in Values, NEW m \in Nat
    PROVE  Copied(b, v, m) \in [0 .. n - 1 -> Bytes]
  BY DEF Copied, Bytes

LEMMA Lengths ==
    ASSUME NEW v \in Values
    PROVE  StrLen[v] \in Nat /\ Small(StrLen[v]) /\ Small(StrLen[v] + 1)
  BY ValueAssumption, SizesAreNat DEF Small

(* No reply is so long that total_size is negative. *)
LEMMA EagerGetFits ==
    ASSUME BInv
    PROVE  EagerGet <=> SERVER_HEADER_LEN + size + 1 <= SERVER_RESPONSE_PAYLOAD_LEN
  BY SizesAreNat DEF BInv, BufferTypeOK, Inside, Small, EagerGet, AsInt

-----------------------------------------------------------------------------
LEMMA InitBInv == BufferInit => BInv
  <1> SUFFICES ASSUME BufferInit PROVE BInv
    OBVIOUS
  <1>1. /\ _allocated_size \in Nat \ {0} /\ _allocated_size >= 2
        /\ size = 0 /\ awaits = "idle" /\ reply = 0 /\ keylen \in KeyLens
        /\ stored \in Values /\ setting = stored
    BY InitialIsLarge DEF BufferInit
  <1>2. value \in [0 .. _allocated_size - 1 -> Bytes]
    BY DEF BufferInit, Bytes
  <1>3. Small(0)
    BY <1>1, Lengths, SizesAreNat DEF Small
  <1> QED BY <1>1, <1>2, <1>3, SizesAreNat DEF BInv, BufferTypeOK, Inside

LEMMA NextBInv == BInv /\ [BufferNext]_buffer_vars => BInv'
  <1> SUFFICES ASSUME BInv, [BufferNext]_buffer_vars PROVE BInv'
    OBVIOUS
  <1> USE SizesAreNat
  <1>1. ASSUME NEW v \in Values, SetEager(v) PROVE BInv'
    <2> DEFINE e == db_reallocate_item(StrLen[v] + 1)
    <2>1. StrLen[v] \in Nat /\ StrLen[v] + 1 \in Nat /\ Small(StrLen[v] + 1)
      BY Lengths
    <2>2. /\ e.allocated \in Nat /\ e.allocated >= 2
          /\ e.value \in [0 .. e.allocated - 1 -> Bytes]
          /\ StrLen[v] + 1 < e.allocated
      BY <2>1, Reallocated
    <2>3. Copied(e.value, v, StrLen[v] + 1) \in [0 .. e.allocated - 1 -> Bytes]
      BY <2>1, <2>2, CopiedType
    <2>4. /\ value' = Copied(e.value, v, StrLen[v] + 1)
          /\ size' = StrLen[v] + 1
          /\ _allocated_size' = e.allocated
          /\ awaits' = "idle" /\ stored' = v
          /\ UNCHANGED <<keylen, setting, reply>>
      BY <1>1 DEF SetEager, db_insert
    <2> HIDE DEF e
    <2>5. BufferTypeOK'
      BY <2>1, <2>2, <2>3, <2>4 DEF BInv, BufferTypeOK
    <2>6. Inside'
      BY <2>1, <2>2, <2>4 DEF BInv, Inside, Small
    <2> QED BY <2>5, <2>6 DEF BInv
  <1>2. ASSUME NEW v \in Values, SetRendezvous(v) PROVE BInv'
    <2> DEFINE e == db_reallocate_item(StrLen[v])
    <2>1. StrLen[v] \in Nat /\ Small(StrLen[v])
      BY Lengths
    <2>2. /\ e.allocated \in Nat /\ e.allocated >= 2
          /\ e.value \in [0 .. e.allocated - 1 -> Bytes]
          /\ StrLen[v] < e.allocated
      BY <2>1, Reallocated
    <2>3. /\ value' = e.value
          /\ size' = StrLen[v]
          /\ _allocated_size' = e.allocated
          /\ awaits' = "write" /\ setting' = v
          /\ UNCHANGED <<keylen, stored, reply>>
      BY <1>2 DEF SetRendezvous
    <2> HIDE DEF e
    <2>4. BufferTypeOK'
      BY <2>1, <2>2, <2>3 DEF BInv, BufferTypeOK
    <2>5. Inside'
      BY <2>1, <2>2, <2>3 DEF BInv, Inside, Small
    <2> QED BY <2>4, <2>5 DEF BInv
  <1>3. CASE client_handle_recv_rdma_rkey_set
    <2>1. value' \in [0 .. _allocated_size - 1 -> Bytes]
      BY <1>3, CopiedType, Lengths
         DEF client_handle_recv_rdma_rkey_set, BInv, BufferTypeOK
    <2> QED BY <1>3, <2>1
            DEF client_handle_recv_rdma_rkey_set, BInv, BufferTypeOK, Inside, Small
  <1>4. CASE GetEager
    BY <1>4, EagerGetFits DEF GetEager, BInv, BufferTypeOK, Inside, Small
  <1>5. CASE GetRendezvous
    BY <1>5 DEF GetRendezvous, BInv, BufferTypeOK, Inside, Small
  <1>6. CASE client_handle_recv_rdma_rkey_get
    BY <1>6 DEF client_handle_recv_rdma_rkey_get, BInv, BufferTypeOK, Inside, Small
  <1>7. CASE mark_rdma_fin_received
    BY <1>7 DEF mark_rdma_fin_received, BInv, BufferTypeOK, Inside, Small
  <1>8. CASE UNCHANGED buffer_vars
    BY <1>8 DEF buffer_vars, BInv, BufferTypeOK, Inside, Small
  <1> QED BY <1>1, <1>2, <1>3, <1>4, <1>5, <1>6, <1>7, <1>8 DEF BufferNext

-----------------------------------------------------------------------------
LEMMA InitStringInv == BufferInit /\ BInv => StringInv
  <1> SUFFICES ASSUME BufferInit, BInv PROVE StringInv
    OBVIOUS
  <1>1. stored \in Values /\ StrLen[stored] = 0 /\ size = 0 /\ awaits = "idle"
        /\ got = NoValue
    BY DEF BufferInit
  <1>2. value[0] = NUL
    BY InitialIsLarge DEF BufferInit
  <1>3. Shows(stored)
    BY <1>1, <1>2 DEF Shows
  <1> QED BY <1>1, <1>3 DEF StringInv, GetReturnsTheString

(* What is too long for an eager SET is too long for an eager GET. *)
LEMMA RendezvousBothWays ==
    ASSUME ShortKeys, BInv, ~EagerSet(setting), StrLen[setting] = size
    PROVE  ~EagerGet
  BY EagerGetFits, SizesAreNat, KeyAssumption
     DEF ShortKeys, BInv, BufferTypeOK, EagerSet, CLIENT_REQUEST_PAYLOAD_LEN,
         SERVER_RESPONSE_PAYLOAD_LEN

LEMMA NextStringInv ==
    ASSUME ShortKeys
    PROVE  BInv /\ BInv' /\ StringInv /\ [BufferNext]_buffer_vars => StringInv'
  <1> SUFFICES ASSUME BInv, BInv', StringInv, [BufferNext]_buffer_vars PROVE StringInv'
    OBVIOUS
  <1> USE SizesAreNat
  <1>1. ASSUME NEW v \in Values, SetEager(v) PROVE StringInv'
    <2> DEFINE e == db_reallocate_item(StrLen[v] + 1)
    <2>1. StrLen[v] \in Nat /\ StrLen[v] + 1 \in Nat
      BY Lengths
    <2>2. /\ e.allocated \in Nat
          /\ e.value \in [0 .. e.allocated - 1 -> Bytes]
          /\ StrLen[v] + 1 < e.allocated
      BY <2>1, Reallocated
    <2>3. /\ value' = Copied(e.value, v, StrLen[v] + 1)
          /\ size' = StrLen[v] + 1
          /\ awaits' = "idle" /\ stored' = v /\ got' = NoValue
      BY <1>1 DEF SetEager, db_insert
    <2> HIDE DEF e
    <2>4. /\ \A i \in 0 .. StrLen[v] - 1 : value'[i] = v
          /\ value'[StrLen[v]] = NUL
      BY <2>1, <2>2, <2>3 DEF Copied
    <2>5. Shows(stored)'
      BY <2>3, <2>4 DEF Shows
    <2> QED BY <2>3, <2>5 DEF StringInv, GetReturnsTheString
  <1>2. ASSUME NEW v \in Values, SetRendezvous(v) PROVE StringInv'
    BY <1>2 DEF SetRendezvous, StringInv, GetReturnsTheString, EagerSet
  <1>3. CASE client_handle_recv_rdma_rkey_set
    <2>1. /\ value' = Copied(value, setting, StrLen[setting])
          /\ stored' = setting /\ awaits = "write" /\ awaits' = "fin"
          /\ UNCHANGED <<keylen, size, setting, got>>
      BY <1>3 DEF client_handle_recv_rdma_rkey_set
    <2>2. /\ StrLen[setting] = size /\ size \in Nat
          /\ size < _allocated_size /\ _allocated_size \in Nat
          /\ value \in [0 .. _allocated_size - 1 -> Bytes]
      BY <2>1 DEF BInv, Inside, BufferTypeOK
    <2>3. \A i \in 0 .. StrLen[setting] - 1 : value'[i] = setting
      BY <2>1, <2>2 DEF Copied
    <2>4. ~EagerGet
      BY <2>1, <2>2, RendezvousBothWays DEF StringInv
    <2>5. ~EagerGet'
      BY <2>1, <2>4 DEF EagerGet
    <2>6. Shows(stored)'
      BY <2>1, <2>2, <2>3, <2>5 DEF Shows
    <2>7. awaits' # "write" /\ got' = NoValue
      BY <2>1 DEF StringInv
    <2> QED BY <2>1, <2>6, <2>7 DEF StringInv, GetReturnsTheString
  <1>4. CASE GetEager
    <2>1. /\ EagerGet /\ awaits = "idle" /\ awaits' = "idle"
          /\ got'.len = size + 1
          /\ got'.bytes = IF size > 0 THEN [i \in 0 .. size |-> value[i]] ELSE TakenOut(0)
          /\ UNCHANGED <<keylen, value, size, stored, setting>>
      BY <1>4 DEF GetEager
    <2>2. Shows(stored) /\ StrLen[stored] \in Nat /\ size \in Nat
      BY <2>1, Lengths DEF StringInv, BInv, BufferTypeOK
    <2>3. IsString(got'.len, got'.bytes, stored)
      <3>1. CASE size > 0
        BY <2>1, <2>2, <3>1 DEF Shows, IsString
      <3>2. CASE size = 0
        BY <2>1, <2>2, <3>2 DEF Shows, IsString, TakenOut
      <3> QED BY <2>2, <3>1, <3>2
    <2> QED BY <2>1, <2>2, <2>3 DEF StringInv, GetReturnsTheString, Shows, EagerGet, EagerSet
  <1>5. CASE GetRendezvous
    BY <1>5 DEF GetRendezvous, StringInv, GetReturnsTheString, Shows, EagerGet, EagerSet
  <1>6. CASE client_handle_recv_rdma_rkey_get
    <2>1. /\ awaits = "read" /\ awaits' = "fin"
          /\ got'.len = size + 1
          /\ got'.bytes = TakenOut(size)
          /\ UNCHANGED <<keylen, value, size, stored, setting>>
      BY <1>6 DEF client_handle_recv_rdma_rkey_get
    <2>2. Shows(stored) /\ StrLen[stored] \in Nat /\ size \in Nat
      BY <2>1, Lengths DEF StringInv, BInv, BufferTypeOK
    <2>3. IsString(got'.len, got'.bytes, stored)
      BY <2>1, <2>2 DEF Shows, IsString, TakenOut
    <2> QED BY <2>1, <2>2, <2>3 DEF StringInv, GetReturnsTheString, Shows, EagerGet, EagerSet
  <1>7. CASE mark_rdma_fin_received
    BY <1>7 DEF mark_rdma_fin_received, StringInv, GetReturnsTheString, Shows, EagerGet, EagerSet
  <1>8. CASE UNCHANGED buffer_vars
    BY <1>8 DEF buffer_vars, StringInv, GetReturnsTheString, Shows, EagerGet, EagerSet
  <1> QED BY <1>1, <1>2, <1>3, <1>4, <1>5, <1>6, <1>7, <1>8 DEF BufferNext

-----------------------------------------------------------------------------
(* The buffer stays as long as its entry says.                             *)
THEOREM BufferInvariance == BufferSpec => []BInv
  BY InitBInv, NextBInv, PTL DEF BufferSpec

(* No handler and no device reads or writes outside of an entry's buffer   *)
(* or of a message (server.c:717-724, db.c:150-190), for every size of     *)
(* message, header and page.                                               *)
THEOREM BufferAccesses == BufferSpec => []AccessesAreInside
  <1>1. BInv => AccessesAreInside
    BY DEF BInv, BufferTypeOK, Inside, AccessesAreInside
  <1> QED BY <1>1, BufferInvariance, PTL

(* With keys of at most 55 bytes a GET returns the string that was stored  *)
(* (server.c:659, 719; client.c:203-239): what is too long to be sent is   *)
(* too long to be answered in a message.                                   *)
THEOREM ReturnedString ==
    ASSUME ShortKeys
    PROVE  BufferSpec => []GetReturnsTheString
  <1>1. BufferSpec => [](BInv /\ StringInv)
    BY InitBInv, NextBInv, InitStringInv, NextStringInv, PTL DEF BufferSpec
  <1>2. StringInv => GetReturnsTheString
    BY DEF StringInv
  <1> QED BY <1>1, <1>2, PTL

-----------------------------------------------------------------------------
(* All of it together.                                                     *)

(* What moves one part leaves the others as they are.                      *)
LEMMA PartsMoveAlone ==
    ResourcesNext \/ UNCHANGED all_vars =>
        /\ [Next]_vars
        /\ [ReceiveNext]_receive_vars
        /\ [PoolNext]_pool_vars
        /\ [BufferNext]_buffer_vars
  BY DEF ResourcesNext, all_vars

(* A behaviour of the server's resources is one of each of them. *)
LEMMA ResourcesAreParts ==
    ResourcesSpec => Spec /\ ReceiveSpec /\ PoolSpec /\ BufferSpec
  <1>1. ResourcesInit => Init /\ ReceiveInit /\ PoolInit /\ BufferInit
    BY DEF ResourcesInit
  <1>2. [ResourcesNext]_all_vars =>
           /\ [Next]_vars
           /\ [ReceiveNext]_receive_vars
           /\ [PoolNext]_pool_vars
           /\ [BufferNext]_buffer_vars
    BY PartsMoveAlone
  <1> QED
    BY <1>1, <1>2, PTL DEF ResourcesSpec, Spec, ReceiveSpec, PoolSpec, BufferSpec

(* The variables of every part keep their types: among others the count of *)
(* connections stays between zero and the number of slots                  *)
(* (server.c:193-240), and no NULL is handed out as a record (db.c:59-68). *)
THEOREM ResourcesTypeCorrect == ResourcesSpec => []ResourcesTypeOK
  <1>1. RInv => ReceiveTypeOK
    BY DEF RInv
  <1>2. BInv => BufferTypeOK
    BY DEF BInv
  <1>3. ConnectionsTypeOK /\ ReceiveTypeOK /\ PoolTypeOK /\ BufferTypeOK
           => ResourcesTypeOK
    BY DEF ResourcesTypeOK
  <1> QED
    BY <1>1, <1>2, <1>3, ResourcesAreParts, ConnectionsTypeCorrect,
       ReceiveInvariance, NoNullIsHandedOut, BufferInvariance, PTL
=============================================================================
