----------------------------- MODULE EntryPool -----------------------------
(***************************************************************************)
(* The pool of records that db.c keeps for entries and, line for line the  *)
(* same, server_requests_management.c for requests: an array, the index of *)
(* the next record, and a count that says when to fill the array again.    *)
(* A record is its place in the array and the round it was made in.        *)
(***************************************************************************)
EXTENDS Integers, FiniteSets

CONSTANTS
    MAX_ALLOCATED_ENTRIES,  \* length of the array
    FEW_ENTRIES,            \* fewer than this are too few (10 in the code)
    MaxRounds               \* bound: how often the array is filled

ASSUME PoolAssumption ==
    /\ MAX_ALLOCATED_ENTRIES \in Nat
    /\ FEW_ENTRIES \in 1 .. MAX_ALLOCATED_ENTRIES
    /\ MaxRounds \in Nat

Places  == 0 .. MAX_ALLOCATED_ENTRIES - 1
Records == Nat \X Places
NULL    == <<>>

VARIABLES
    preallocated_entries,           \* the array; NULL everywhere before calloc
    current_num_allocated_entries,
    free_buffer_idx,
    rounds,   \* how often reallocate_entries has run
    made,     \* the records that were made
    taken,    \* the records that are in use outside of the pool
    freed,    \* the records that were freed
    cleared   \* the pool itself was freed

array == <<preallocated_entries, current_num_allocated_entries, free_buffer_idx>>
pool_vars  == <<array, rounds, made, taken, freed, cleared>>

-----------------------------------------------------------------------------
Gaps == {p \in Places : preallocated_entries[p] = NULL}

Made(p) == <<rounds + 1, p>>

(* Mutant: the places before the index are taken to be the ones to fill. *)
reallocate_entries_below_index ==
    [entries |-> [p \in Places |-> IF p <= free_buffer_idx THEN Made(p)
                                   ELSE preallocated_entries[p]],
     count   |-> current_num_allocated_entries + Cardinality(Gaps),
     idx     |-> 0]

(* Mutant: the index is not set back. *)
reallocate_entries_from_index ==
    [entries |-> [p \in Places |-> IF p \in Gaps THEN Made(p)
                                   ELSE preallocated_entries[p]],
     count   |-> current_num_allocated_entries + Cardinality(Gaps),
     idx     |-> free_buffer_idx]

(* The places that are NULL get new records; the index starts again. *)
reallocate_entries ==
    [entries |-> [p \in Places |-> IF p \in Gaps THEN Made(p)
                                   ELSE preallocated_entries[p]],
     count   |-> current_num_allocated_entries + Cardinality(Gaps),
     idx     |-> 0]

(* What lies at index i; behind the array there is no record. *)
At(entries, i) == IF i \in Places THEN entries[i] ELSE NULL

Take(pool) ==
    /\ preallocated_entries' = [pool.entries EXCEPT ![pool.idx] = NULL]
    /\ free_buffer_idx' = pool.idx + 1
    /\ current_num_allocated_entries' = pool.count - 1
    /\ taken' = taken \cup {At(pool.entries, pool.idx)}
    /\ UNCHANGED <<freed, cleared>>

TooFew == current_num_allocated_entries < FEW_ENTRIES

get_empty_buffer ==
    /\ ~cleared
    /\ \/ /\ TooFew
          /\ rounds < MaxRounds
          /\ Take(reallocate_entries)
          /\ rounds' = rounds + 1
          /\ made' = made \cup {Made(p) : p \in Gaps}
       \/ /\ ~TooFew
          /\ Take([entries |-> preallocated_entries,
                   count   |-> current_num_allocated_entries,
                   idx     |-> free_buffer_idx])
          /\ UNCHANGED <<rounds, made>>

(* A record that is not needed any more is freed and does not come back.   *)
FreeRecord(r) ==
    /\ r \in taken
    /\ taken' = taken \ {r}
    /\ freed' = freed \cup {r}
    /\ UNCHANGED <<array, rounds, made, cleared>>

(* The records that are left are freed and the array too; count and index  *)
(* keep their values, and the server does not ask for records again.       *)
clear_preallocated_buffers ==
    /\ ~cleared
    /\ cleared' = TRUE
    /\ freed' = freed \cup {preallocated_entries[p] : p \in Places \ Gaps}
    /\ preallocated_entries' = [p \in Places |-> NULL]
    /\ UNCHANGED <<current_num_allocated_entries, free_buffer_idx, rounds,
                   made, taken>>

PoolInit ==
    /\ preallocated_entries = [p \in Places |-> NULL]
    /\ current_num_allocated_entries = 0
    /\ free_buffer_idx = 0
    /\ rounds = 0
    /\ made = {}
    /\ taken = {}
    /\ freed = {}
    /\ cleared = FALSE

PoolNext ==
    \/ get_empty_buffer
    \/ \E r \in taken : FreeRecord(r)
    \/ clear_preallocated_buffers

PoolSpec == PoolInit /\ [][PoolNext]_pool_vars

-----------------------------------------------------------------------------
(* Every variable holds what its declaration says, and NULL is never given *)
(* out as a record.                                                        *)
PoolTypeOK ==
    /\ preallocated_entries \in [Places -> Records \cup {NULL}]
    /\ current_num_allocated_entries \in 0 .. MAX_ALLOCATED_ENTRIES
    /\ free_buffer_idx \in 0 .. MAX_ALLOCATED_ENTRIES
    /\ rounds \in Nat
    /\ made \subseteq Records
    /\ taken \subseteq Records
    /\ freed \subseteq Records
    /\ cleared \in BOOLEAN

(* The count, from which the pool decides when to fill up, is the number   *)
(* of records in the array, and these are the places from the index on.    *)
CountIsExact ==
    ~cleared =>
        /\ current_num_allocated_entries = Cardinality(Places \ Gaps)
        /\ rounds > 0 => Gaps = 0 .. free_buffer_idx - 1

InArray == {preallocated_entries[p] : p \in Places \ Gaps}

(***************************************************************************)
(* db.c:64-67: a record that is handed out is one that nobody has, and     *)
(* that was not freed: it is in one place only, and no record is lost.     *)
(***************************************************************************)
RecordsAreInOnePlace ==
    /\ made = InArray \cup taken \cup freed
    /\ InArray \cap taken = {}
    /\ InArray \cap freed = {}
    /\ taken \cap freed = {}
    /\ \A p, q \in Places \ Gaps :
          preallocated_entries[p] = preallocated_entries[q] => p = q
=============================================================================
