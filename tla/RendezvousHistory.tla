------------------------- MODULE RendezvousHistory -------------------------
(***************************************************************************)
(* Rendezvous with a record of the SETs the clients have made, to state    *)
(* what the repository's tests (src/tests/client_tests.c) expect of a      *)
(* client that is the only writer of a key.  The record restricts nothing. *)
(***************************************************************************)
EXTENDS RendezvousRefinement

VARIABLES
    setters,  \* setters[k]: the clients that have ever called kv_set for k
    lastSet   \* lastSet[k]: the value of the latest call

historyVars == <<vars, setters, lastSet>>

(* The clients that call kv_set for k in this step: one or none. *)
SettingNow(k) ==
    {c \in Clients : /\ tid'[c] = tid[c] + 1
                     /\ Last(c2s'[c]).op = "SET"
                     /\ Last(c2s'[c]).key = k}

HistoryInit ==
    /\ Init
    /\ setters = [k \in Keys |-> {}]
    /\ lastSet = [k \in Keys |-> Empty]

HistoryNext ==
    /\ Next
    /\ setters' = [k \in Keys |-> setters[k] \cup SettingNow(k)]
    /\ lastSet' = [k \in Keys |->
                     IF SettingNow(k) = {} THEN lastSet[k]
                     ELSE Last(c2s'[CHOOSE c \in SettingNow(k) : TRUE]).val]

HistorySpec == HistoryInit /\ [][HistoryNext]_historyVars

(* The get of c, if it is about to return, and the key it read. *)
Returning(c) == pc[c] = "get" /\ pending[<<c, tid[c]>>].done

Returned(c) == pending[<<c, tid[c]>>]

(***************************************************************************)
(* kv_test: a client that sets a key and gets it reads what it set.  The   *)
(* test compares the two and exits with "Comparison error".                *)
(***************************************************************************)
ReadYourWrites ==
    \A c \in Clients :
        Returning(c) /\ setters[Returned(c).key] = {c} =>
            Returned(c).val = lastSet[Returned(c).key]

(***************************************************************************)
(* kv_test_single_key: after a series of sets of one key by one client,    *)
(* the key holds the last of them.  Stated when no set is under way.       *)
(***************************************************************************)
LastSetWins ==
    \A k \in Keys :
        SetsUnderWay = {} /\ Cardinality(setters[k]) = 1
            /\ (\A c \in Clients : Alive(c)) =>
                db[k].value = lastSet[k]

(***************************************************************************)
(* kv_test_every_size: after sets of non-empty values, a get does not      *)
(* return the empty string; the test exits with "Received size 0".         *)
(***************************************************************************)
SetValueIsNotEmpty ==
    \A c \in Clients :
        Returning(c) /\ c \in setters[Returned(c).key] =>
            Returned(c).val # Empty
=============================================================================
