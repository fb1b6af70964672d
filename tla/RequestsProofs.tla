--------------------------- MODULE RequestsProofs ---------------------------
(***************************************************************************)
(* What a request's messages know of each other.                           *)
(*                                                                         *)
(* A tid is a token that travels: posted by the client, queued at the      *)
(* server, answered, executed by the devices, completed, and posted again  *)
(* as a FIN.  Apart says that it is in one place at a time, and the rest   *)
(* of Orderly what its place says of the tables on both sides.  Every step *)
(* touches the tids of one client only, so Orderly is kept client by       *)
(* client.  From it follow the theorems at the end: the queues agree, a    *)
(* remote key in a client's hands is of a locked entry, no FIN comes       *)
(* unexpected, what a reader reads does not change, and no get is given a  *)
(* value that was written in part.                                         *)
(***************************************************************************)
EXTENDS RendezvousProofs

Posted(c)    == ToSet(c2s[c])
Replied(c)   == ToSet(s2c[c])
Completed(c) == ToSet(wcq[c])
Listed       == ToSet(sorted_q)

Requests == {"SET", "GET"}

(* No two elements of s have the same tid. *)
Distinct(s) == \A i, j \in 1 .. Len(s) : s[i].tid = s[j].tid => i = j

TidsIn(s) == {m.tid : m \in ToSet(s)}

(* The tids that slot c has given out in its present session. *)
Session(c, n) == {t \in Tids : Owner(t) = c /\ t[2] <= n}

(* A tid of slot c is in one place only: posted, answered, completed or in *)
(* the server's list.                                                      *)
Apart(c, p, r, w, n, q) ==
    /\ Distinct(p) /\ Distinct(r) /\ Distinct(w)
    /\ TidsIn(p) \subseteq Session(c, n) \cup {Shutdown.tid}
    /\ TidsIn(r) \cup TidsIn(w) \subseteq Session(c, n)
    /\ TidsIn(p) \cap (TidsIn(r) \cup TidsIn(w)) = {}
    /\ TidsIn(r) \cap TidsIn(w) = {}
    /\ (TidsIn(p) \cup TidsIn(r) \cup TidsIn(w)) \cap ToSet(q) = {}

(* The client's table still has the request t, for the key k. *)
Undone(t) == pending[t] # NoReq /\ ~pending[t].done
UndoneFor(t, k) == Undone(t) /\ pending[t].key = k

NeedsAnswer(op, k, v) == op = "GET" \/ (op = "SET" /\ ~EagerSet(k, v))

(* What a message in each of the four places says of the tables. *)
PostedRight(c, m) ==
    /\ m.op \in Requests => internal_q[m.tid] = NoReq
    /\ Alive(c) /\ (m.op \in RdmaOps \/ NeedsAnswer(m.op, m.key, m.val)) =>
          UndoneFor(m.tid, m.key)

RepliedRight(c, m) == Alive(c) => UndoneFor(m.tid, m.key)

CompletedRight(c, m) == Alive(c) => Undone(m.tid)

QueuedRight(c, t) ==
    LET r == internal_q[t]
    IN  /\ t \in Listed => /\ r # NoReq
                           /\ Alive(c) /\ NeedsAnswer(r.op, r.key, r.val) =>
                                 UndoneFor(t, r.key)
        /\ r # NoReq => /\ t[2] <= tid[c]
                        /\ t \in Listed \/ waiting_fin_q[t] # NoKey

(* An empty slot has nothing; a shutdown message is a client's last. *)
SlotIsClean(c) ==
    /\ pc[c] = "out" =>
          /\ c2s[c] = <<>> /\ s2c[c] = <<>>
          /\ \A t \in Tids : Owner(t) = c => internal_q[t] = NoReq
    /\ Shutdown \in Posted(c) => pc[c] = "gone"
    /\ ~Alive(c) => wcq[c] = <<>>

(* All this, of the slot c. *)
Orderly(c) ==
    /\ Apart(c, c2s[c], s2c[c], wcq[c], tid[c], sorted_q)
    /\ SlotIsClean(c)
    /\ \A m \in Posted(c) : PostedRight(c, m)
    /\ \A m \in Replied(c) : RepliedRight(c, m)
    /\ \A m \in Completed(c) : CompletedRight(c, m)
    /\ \A t \in Tids : Owner(t) = c => QueuedRight(c, t)

(* The list, and the pass over it. *)
ListInOrder ==
    /\ IsInjective(sorted_q)
    /\ todo <= Len(sorted_q)
    /\ phase # "pending" => todo = 0
    /\ closing # NoClient => phase # "pending"

TInv == IInv /\ ListInOrder /\ \A c \in Clients : Orderly(c)

-----------------------------------------------------------------------------
(* Sequences and what is in them.                                          *)

(* The sequence r has the elements of s but those with the tid of e. *)
Without(s, r, e) ==
    /\ Distinct(r)
    /\ \A m \in ToSet(r) : m \in ToSet(s) /\ m.tid # e.tid

(* The elements of a sequence stand at its places. *)
LEMMA Elements ==
    ASSUME NEW S, NEW s \in Seq(S)
    PROVE  /\ ToSet(s) = {s[i] : i \in 1 .. Len(s)}
           /\ Len(s) \in Nat
           /\ \A e \in ToSet(s) : e \in S /\ \E i \in 1 .. Len(s) : s[i] = e
           /\ \A i \in 1 .. Len(s) : s[i] \in ToSet(s)
  BY LenProperties, ElementOfSeq DEF ToSet

(* There is nothing in the empty sequence. *)
LEMMA NoElements ==
    /\ ToSet(<<>>) = {} /\ TidsIn(<<>>) = {} /\ Distinct(<<>>)
    /\ IsInjective(<<>>)
  BY DEF ToSet, TidsIn, Distinct, IsInjective

(* Appending adds one element. *)
LEMMA Added ==
    ASSUME NEW S, NEW s \in Seq(S), NEW e \in S
    PROVE  /\ Append(s, e) \in Seq(S)
           /\ ToSet(Append(s, e)) = ToSet(s) \cup {e}
           /\ TidsIn(Append(s, e)) = TidsIn(s) \cup {e.tid}
           /\ Distinct(s) /\ e.tid \notin TidsIn(s) => Distinct(Append(s, e))
<1>1. /\ Append(s, e) \in Seq(S) /\ Len(Append(s, e)) = Len(s) + 1
      /\ \A i \in 1 .. Len(s) : Append(s, e)[i] = s[i]
      /\ Append(s, e)[Len(s) + 1] = e
  BY AppendProperties
<1>2. Len(s) \in Nat /\ ToSet(s) = {s[i] : i \in 1 .. Len(s)}
      /\ ToSet(Append(s, e)) = {Append(s, e)[i] : i \in 1 .. Len(s) + 1}
  BY <1>1, Elements
<1>3. 1 .. Len(s) + 1 = (1 .. Len(s)) \cup {Len(s) + 1}
  BY <1>2
<1>4. ToSet(Append(s, e)) = ToSet(s) \cup {e}
  BY <1>1, <1>2, <1>3
<1>5. ASSUME Distinct(s), \A m \in ToSet(s) : m.tid # e.tid
      PROVE  Distinct(Append(s, e))
  BY <1>1, <1>2, <1>3, <1>5 DEF Distinct
<1>6. TidsIn(Append(s, e)) = TidsIn(s) \cup {e.tid}
  BY <1>4 DEF TidsIn
<1> QED
  BY <1>1, <1>4, <1>5, <1>6 DEF TidsIn

(* The sequence r is s with its i-th element taken out. *)
TakenOut(s, r, i) ==
    /\ Len(r) = Len(s) - 1
    /\ \A j \in 1 .. Len(s) - 1 : r[j] = IF j < i THEN s[j] ELSE s[j + 1]

(* All elements are left but this one. *)
LEMMA TakenOutElements ==
    ASSUME NEW S, NEW s \in Seq(S), NEW r \in Seq(S), NEW i \in 1 .. Len(s),
           TakenOut(s, r, i)
    PROVE  /\ ToSet(s) \ {s[i]} \subseteq ToSet(r)
           /\ Distinct(s) => Without(s, r, s[i])
           /\ IsInjective(s) => IsInjective(r) /\ ToSet(r) = ToSet(s) \ {s[i]}
<1>1. /\ Len(s) \in Nat /\ Len(r) \in Nat
      /\ ToSet(s) = {s[j] : j \in 1 .. Len(s)}
      /\ ToSet(r) = {r[j] : j \in 1 .. Len(r)}
      /\ DOMAIN s = 1 .. Len(s) /\ DOMAIN r = 1 .. Len(r)
  BY Elements, LenProperties
<1>2. /\ Len(r) = Len(s) - 1
      /\ \A j \in 1 .. Len(r) : r[j] = IF j < i THEN s[j] ELSE s[j + 1]
  BY <1>1 DEF TakenOut
<1>3. ASSUME NEW m, m \in ToSet(s) \ {s[i]}
      PROVE  m \in ToSet(r)
  <2>1. PICK j \in 1 .. Len(s) : m = s[j]
    BY <1>1, <1>3
  <2>2. CASE j < i
    BY <1>1, <1>2, <2>1, <2>2
  <2>3. CASE j > i
    <3>1. j - 1 \in 1 .. Len(r) /\ r[j - 1] = s[j]
      BY <1>1, <1>2, <2>3
    <3> QED
      BY <1>1, <2>1, <3>1
  <2> QED
    BY <1>3, <2>1, <2>2, <2>3
<1>4. \A j \in 1 .. Len(r) : \E n \in 1 .. Len(s) : n # i /\ r[j] = s[n]
  BY <1>1, <1>2
<1>5. ASSUME Distinct(s)
      PROVE  Without(s, r, s[i])
  <2>1. Distinct(r)
    BY <1>1, <1>2, <1>5 DEF Distinct
  <2>2. \A m \in ToSet(r) : m \in ToSet(s) /\ m.tid # s[i].tid
    BY <1>1, <1>4, <1>5 DEF Distinct
  <2> QED
    BY <2>1, <2>2 DEF Without
<1>6. ASSUME IsInjective(s)
      PROVE  IsInjective(r) /\ ToSet(r) = ToSet(s) \ {s[i]}
  <2>1. ASSUME NEW j \in 1 .. Len(r), NEW n \in 1 .. Len(r), r[j] = r[n]
        PROVE  j = n
    <3> DEFINE was(k) == IF k < i THEN k ELSE k + 1
    <3>1. /\ was(j) \in 1 .. Len(s) /\ was(n) \in 1 .. Len(s)
          /\ r[j] = s[was(j)] /\ r[n] = s[was(n)]
      BY <1>1, <1>2
    <3>2. was(j) = was(n)
      BY <1>1, <1>6, <2>1, <3>1 DEF IsInjective
    <3> QED
      BY <3>2
  <2>2. IsInjective(r)
    BY <1>1, <2>1 DEF IsInjective
  <2>3. ASSUME NEW m \in ToSet(r)
        PROVE  m \in ToSet(s) \ {s[i]}
    <3>1. PICK n \in 1 .. Len(s) : n # i /\ m = s[n]
      BY <1>1, <1>4
    <3> QED
      BY <1>1, <1>6, <3>1 DEF IsInjective
  <2> QED
    BY <1>3, <2>2, <2>3
<1> QED
  BY <1>3, <1>5, <1>6

(* A sequence without its i-th element. *)
LEMMA Removed ==
    ASSUME NEW S, NEW s \in Seq(S), NEW i \in 1 .. Len(s)
    PROVE  /\ RemoveAt(s, i) \in Seq(S)
           /\ TakenOut(s, RemoveAt(s, i), i)
           /\ Distinct(s) => Without(s, RemoveAt(s, i), s[i])
<1> DEFINE a == SubSeq(s, 1, i - 1)
           b == SubSeq(s, i + 1, Len(s))
<1>1. /\ a \in Seq(S) /\ Len(a) = i - 1
      /\ \A j \in 1 .. (i - 1) : a[j] = s[j]
  BY SubSeqProperties, LenProperties, ElementOfSeq
<1>2. /\ b \in Seq(S) /\ Len(b) = Len(s) - i
      /\ \A j \in 1 .. (Len(s) - i) : b[j] = s[j + i]
  BY SubSeqProperties, LenProperties, ElementOfSeq
<1>3. RemoveAt(s, i) = a \o b
  BY DEF RemoveAt
<1> HIDE DEF a, b
<1>4. /\ a \o b \in Seq(S) /\ Len(a \o b) = Len(a) + Len(b)
      /\ \A j \in 1 .. Len(a) + Len(b) :
            (a \o b)[j] = IF j <= Len(a) THEN a[j] ELSE b[j - Len(a)]
  BY <1>1, <1>2, ConcatProperties
<1>5. Len(s) \in Nat
  BY LenProperties
<1>6. RemoveAt(s, i) \in Seq(S) /\ TakenOut(s, RemoveAt(s, i), i)
  BY <1>1, <1>2, <1>3, <1>4, <1>5 DEF TakenOut
<1> QED
  BY <1>6, TakenOutElements

(* The head is the first element, and the tail has the others. *)
LEMMA HeadTaken ==
    ASSUME NEW S, NEW s \in Seq(S), s # <<>>
    PROVE  /\ Head(s) \in ToSet(s) /\ Head(s) \in S
           /\ Tail(s) \in Seq(S)
           /\ Len(Tail(s)) = Len(s) - 1
           /\ Distinct(s) => Without(s, Tail(s), Head(s))
           /\ IsInjective(s) => /\ IsInjective(Tail(s))
                                /\ ToSet(Tail(s)) = ToSet(s) \ {Head(s)}
<1>1. /\ Len(s) \in Nat \ {0} /\ Head(s) = s[1] /\ Tail(s) \in Seq(S)
      /\ Len(Tail(s)) = Len(s) - 1
      /\ \A i \in 1 .. Len(Tail(s)) : Tail(s)[i] = s[i + 1]
  BY HeadTailProperties, EmptySeq, LenProperties
<1>2. 1 \in 1 .. Len(s) /\ TakenOut(s, Tail(s), 1)
  BY <1>1 DEF TakenOut
<1>3. Head(s) \in ToSet(s) /\ Head(s) \in S
  BY <1>1, <1>2, Elements
<1>4. Len(Tail(s)) = Len(s) - 1
  BY <1>2 DEF TakenOut
<1>5. /\ ToSet(s) \ {Head(s)} \subseteq ToSet(Tail(s))
      /\ Distinct(s) => Without(s, Tail(s), Head(s))
      /\ IsInjective(s) => /\ IsInjective(Tail(s))
                           /\ ToSet(Tail(s)) = ToSet(s) \ {Head(s)}
  <2> DEFINE r == Tail(s)
  <2>1. r \in Seq(S) /\ TakenOut(s, r, 1)
    BY <1>1, <1>2
  <2> HIDE DEF r
  <2>2. /\ ToSet(s) \ {s[1]} \subseteq ToSet(r)
        /\ Distinct(s) => Without(s, r, s[1])
        /\ IsInjective(s) => IsInjective(r) /\ ToSet(r) = ToSet(s) \ {s[1]}
    BY <1>2, <2>1, TakenOutElements
  <2> QED
    BY <1>1, <2>2 DEF r
<1> QED
  BY <1>1, <1>3, <1>4, <1>5

(* A prefix has some of the elements. *)
LEMMA PrefixElements ==
    ASSUME NEW S, NEW s \in Seq(S), NEW n \in 0 .. Len(s)
    PROVE  /\ ToSet(SubSeq(s, 1, n)) \subseteq ToSet(s)
           /\ Distinct(s) => Distinct(SubSeq(s, 1, n))
<1>1. Len(s) \in Nat /\ n \in Nat /\ n <= Len(s)
  BY LenProperties
<1>2. \A i \in 1 .. n : s[i] \in S
  BY <1>1, ElementOfSeq
<1>3. /\ SubSeq(s, 1, n) \in Seq(S)
      /\ Len(SubSeq(s, 1, n)) = IF 1 <= n THEN n - 1 + 1 ELSE 0
      /\ \A i \in 1 .. n - 1 + 1 : SubSeq(s, 1, n)[i] = s[1 + i - 1]
  BY <1>1, <1>2, SubSeqProperties
<1>4. /\ Len(SubSeq(s, 1, n)) = n
      /\ \A i \in 1 .. n : SubSeq(s, 1, n)[i] = s[i]
  BY <1>1, <1>3
<1>5. ToSet(SubSeq(s, 1, n)) = {s[i] : i \in 1 .. n}
  <2>1. ToSet(SubSeq(s, 1, n))
          = {SubSeq(s, 1, n)[i] : i \in 1 .. Len(SubSeq(s, 1, n))}
    BY <1>3, Elements
  <2> QED
    BY <1>4, <2>1
<1>6. ToSet(s) = {s[i] : i \in 1 .. Len(s)} /\ 1 .. n \subseteq 1 .. Len(s)
  BY <1>1, Elements
<1> QED
  BY <1>1, <1>4, <1>5, <1>6 DEF Distinct

(* A tid stands at one place of the list. *)
LEMMA FirstRemoved ==
    ASSUME NEW q \in Seq(Tids), NEW t \in ToSet(q), IsInjective(q)
    PROVE  \E n \in 1 .. Len(q) : /\ q[n] = t
                                   /\ RemoveFirst(q, t) = RemoveAt(q, n)
<1>1. /\ Len(q) \in Nat /\ ToSet(q) = {q[i] : i \in 1 .. Len(q)}
      /\ DOMAIN q = 1 .. Len(q)
  BY Elements, LenProperties
<1> DEFINE I == {i \in 1 .. Len(q) : q[i] = t}
<1>2. PICK n \in 1 .. Len(q) : q[n] = t
  BY <1>1
<1>3. I = {n}
  BY <1>1, <1>2 DEF IsInjective
<1>4. Min(I) = n
  BY <1>1, <1>3 DEF Min
<1>5. SelectInSeq(q, LAMBDA v : v = t) = n
  BY <1>2, <1>3, <1>4 DEF SelectInSeq
<1> QED
  BY <1>2, <1>5 DEF RemoveFirst

(* The list with a tid at its end, or without one. *)
LEMMA ListElements ==
    ASSUME NEW q \in Seq(Tids), NEW t \in Tids, IsInjective(q)
    PROVE  /\ RemoveFirst(q, t) \in Seq(Tids)
           /\ IsInjective(RemoveFirst(q, t))
           /\ ToSet(RemoveFirst(q, t)) = ToSet(q) \ {t}
           /\ t \notin ToSet(q) => /\ RemoveFirst(q, t) = q
                                   /\ IsInjective(Append(q, t))
           /\ ToSet(Append(q, t)) = ToSet(q) \cup {t}
           /\ Len(Append(q, t)) = Len(q) + 1
<1>1. /\ Len(q) \in Nat /\ ToSet(q) = {q[i] : i \in 1 .. Len(q)}
      /\ DOMAIN q = 1 .. Len(q)
  BY Elements, LenProperties
<1>2. CASE t \notin ToSet(q)
  <2>1. RemoveFirst(q, t) = q
    BY <1>1, <1>2 DEF RemoveFirst
  <2>2. /\ Append(q, t) \in Seq(Tids) /\ Len(Append(q, t)) = Len(q) + 1
        /\ DOMAIN Append(q, t) = 1 .. Len(q) + 1
        /\ \A i \in 1 .. Len(q) : Append(q, t)[i] = q[i]
        /\ Append(q, t)[Len(q) + 1] = t
    BY AppendProperties, LenProperties
  <2>3. IsInjective(Append(q, t))
    BY <1>1, <1>2, <2>2 DEF IsInjective
  <2> QED
    BY <1>2, <2>1, <2>2, <2>3, Added
<1>3. CASE t \in ToSet(q)
  <2>1. PICK n \in 1 .. Len(q) : q[n] = t /\ RemoveFirst(q, t) = RemoveAt(q, n)
    BY <1>3, FirstRemoved
  <2>2. RemoveAt(q, n) \in Seq(Tids) /\ TakenOut(q, RemoveAt(q, n), n)
    BY <2>1, Removed
  <2>3. /\ Len(Append(q, t)) = Len(q) + 1
        /\ ToSet(Append(q, t)) = ToSet(q) \cup {t}
    BY AppendProperties, Added
  <2> QED
    BY <1>3, <2>1, <2>2, <2>3, TakenOutElements
<1> QED
  BY <1>2, <1>3

-----------------------------------------------------------------------------
(* One client at a time.                                                   *)

(* A tid that moves is taken from one place before it is in another. *)
LEMMA ApartMoves ==
    ASSUME NEW c, NEW p, NEW r, NEW w, NEW n, NEW q, Apart(c, p, r, w, n, q),
           NEW p2, NEW r2, NEW w2, NEW n2, NEW q2, NEW t \in Session(c, n2),
           Session(c, n) \subseteq Session(c, n2),
           Distinct(p2), Distinct(r2), Distinct(w2),
           TidsIn(p2) \subseteq TidsIn(p) \cup {t},
           TidsIn(r2) \subseteq TidsIn(r) \cup {t},
           TidsIn(w2) \subseteq TidsIn(w) \cup {t},
           ToSet(q2) \subseteq ToSet(q) \cup {t},
           t \in TidsIn(p2) =>
              t \notin TidsIn(r2) \cup TidsIn(w2) \cup ToSet(q2),
           t \in TidsIn(r2) => t \notin TidsIn(w2) \cup ToSet(q2),
           t \in TidsIn(w2) => t \notin ToSet(q2)
    PROVE  Apart(c, p2, r2, w2, n2, q2)
  BY DEF Apart

(* What belongs to other clients is not in the way. *)
LEMMA ApartFromOthers ==
    ASSUME NEW c \in Clients, NEW p, NEW r, NEW w, NEW n, NEW q,
           Apart(c, p, r, w, n, q), NEW q2,
           \A t \in Tids : Owner(t) = c /\ t \in ToSet(q2) => t \in ToSet(q),
           \A t \in ToSet(q2) : t \in Tids
    PROVE  Apart(c, p, r, w, n, q2)
<1>1. Shutdown.tid \notin Tids
  BY LoopAssumption DEF Shutdown, Tids
<1> QED
  BY <1>1 DEF Apart, Session

(* What is in the places of slot c has one of its tids. *)
LEMMA PlacedTids ==
    ASSUME TypeOK, NEW c \in Clients, Orderly(c)
    PROVE  /\ \A m \in Posted(c) :
                /\ m \in WorkRequest
                /\ m = Shutdown \/ m.tid \in Session(c, tid[c])
           /\ \A m \in Replied(c) : m \in Reply /\ m.tid \in Session(c, tid[c])
           /\ \A m \in Completed(c) :
                m \in Completion /\ m.tid \in Session(c, tid[c])
<1>1. ASSUME NEW m \in Posted(c)
      PROVE  m \in WorkRequest /\ (m = Shutdown \/ m.tid \in Session(c, tid[c]))
  <2>1. m.tid \in Session(c, tid[c]) \/ m.tid = Shutdown.tid
    BY DEF Orderly, Apart, TidsIn, Posted
  <2>2. m \in WorkRequest
    BY Elements DEF TypeOK, ClientTypeOK, Posted
  <2>3. m.tid \in Tids \/ m = Shutdown
    BY <2>2 DEF WorkRequest
  <2>4. Shutdown.tid \notin Tids
    BY LoopAssumption DEF Shutdown, Tids
  <2> QED
    BY <2>1, <2>2, <2>3, <2>4
<1>2. \A m \in Replied(c) : m \in Reply /\ m.tid \in Session(c, tid[c])
  BY Elements DEF Orderly, Apart, TidsIn, Replied, TypeOK, ServerTypeOK
<1>3. \A m \in Completed(c) : m \in Completion /\ m.tid \in Session(c, tid[c])
  BY Elements DEF Orderly, Apart, TidsIn, Completed, TypeOK, ClientTypeOK
<1> QED
  BY <1>1, <1>2, <1>3

(* A step that does nothing to slot b. *)
SameFor(b) ==
    /\ c2s'[b] = c2s[b] /\ s2c'[b] = s2c[b] /\ wcq'[b] = wcq[b]
    /\ tid'[b] = tid[b] /\ pc'[b] = pc[b]
    /\ \A t \in Tids : Owner(t) = b =>
          /\ pending'[t] = pending[t]
          /\ internal_q'[t] = internal_q[t]
          /\ waiting_fin_q'[t] = waiting_fin_q[t]
          /\ t \in Listed' <=> t \in Listed

(* It leaves slot b orderly. *)
LEMMA OthersStayOrderly ==
    ASSUME TypeOK, sorted_q' \in Seq(Tids), NEW b \in Clients, Orderly(b),
           SameFor(b)
    PROVE  Orderly(b)'
<1>1. Apart(b, c2s[b], s2c[b], wcq[b], tid[b], sorted_q')
  BY ApartFromOthers, Elements DEF Orderly, SameFor, Listed
<1>2. SlotIsClean(b)'
  BY DEF Orderly, SameFor, SlotIsClean, Posted, Alive
<1>3. \A m \in Posted(b) :
         m = Shutdown \/ (m.tid \in Tids /\ Owner(m.tid) = b)
  BY PlacedTids DEF Session
<1>4. \A m \in Posted(b)' : PostedRight(b, m)'
  BY <1>3 DEF Orderly, SameFor, Posted, PostedRight, Alive, UndoneFor, Undone,
     NeedsAnswer, Shutdown, Requests, RdmaOps
<1>5. \A m \in Replied(b) \cup Completed(b) :
         m.tid \in Tids /\ Owner(m.tid) = b
  BY DEF Orderly, Apart, TidsIn, Replied, Completed, Session
<1>6. /\ \A m \in Replied(b)' : RepliedRight(b, m)'
      /\ \A m \in Completed(b)' : CompletedRight(b, m)'
  BY <1>5 DEF Orderly, SameFor, Replied, Completed, RepliedRight,
     CompletedRight, Alive, UndoneFor, Undone
<1>7. \A t \in Tids : Owner(t) = b => QueuedRight(b, t)'
  BY DEF Orderly, SameFor, QueuedRight, Alive, UndoneFor, Undone
<1> QED
  BY <1>1, <1>2, <1>4, <1>6, <1>7 DEF Orderly, SameFor

(* Where the tid t of slot c is after a step that moves t only: in one     *)
(* place, and what the place says is true.                                 *)
MovesTo(c, t) ==
    /\ Distinct(c2s'[c]) /\ Distinct(s2c'[c]) /\ Distinct(wcq'[c])
    /\ \A m \in Posted(c)' :
          \/ m \in Posted(c) /\ m.tid # t
          \/ m.tid = t /\ PostedRight(c, m)'
    /\ \A m \in Replied(c)' :
          \/ m \in Replied(c) /\ m.tid # t
          \/ m.tid = t /\ RepliedRight(c, m)'
    /\ \A m \in Completed(c)' :
          \/ m \in Completed(c) /\ m.tid # t
          \/ m.tid = t /\ CompletedRight(c, m)'
    /\ QueuedRight(c, t)'
    /\ t \in TidsIn(c2s'[c]) =>
          t \notin TidsIn(s2c'[c]) \cup TidsIn(wcq'[c]) \cup ToSet(sorted_q')
    /\ t \in TidsIn(s2c'[c]) => t \notin TidsIn(wcq'[c]) \cup ToSet(sorted_q')
    /\ t \in TidsIn(wcq'[c]) => t \notin ToSet(sorted_q')

(* The tables of slot c are the same for its other tids. *)
SameButFor(c, t) ==
    /\ \A u \in Tids \ {t} : Owner(u) = c =>
          /\ pending'[u] = pending[u]
          /\ internal_q'[u] = internal_q[u]
          /\ waiting_fin_q'[u] = waiting_fin_q[u]
    /\ ToSet(sorted_q') \ {t} = ToSet(sorted_q) \ {t}

(* Such a step leaves slot c orderly. *)
LEMMA MoveStaysOrderly ==
    ASSUME TypeOK, NEW c \in Clients, Orderly(c), Alive(c)' => Alive(c),
           Session(c, tid[c]) \subseteq Session(c, tid'[c]),
           NEW t \in Session(c, tid'[c]),
           SlotIsClean(c)', SameButFor(c, t), MovesTo(c, t)
    PROVE  Orderly(c)'
<1>1. Apart(c, c2s'[c], s2c'[c], wcq'[c], tid'[c], sorted_q')
  <2>1. /\ TidsIn(c2s'[c]) \subseteq TidsIn(c2s[c]) \cup {t}
        /\ TidsIn(s2c'[c]) \subseteq TidsIn(s2c[c]) \cup {t}
        /\ TidsIn(wcq'[c]) \subseteq TidsIn(wcq[c]) \cup {t}
    BY DEF MovesTo, TidsIn, Posted, Replied, Completed
  <2>2. ToSet(sorted_q') \subseteq ToSet(sorted_q) \cup {t}
    BY DEF SameButFor
  <2> QED
    BY <2>1, <2>2, ApartMoves DEF MovesTo, Orderly
<1>2. \A m \in Posted(c) :
         m = Shutdown \/ (m.tid \in Tids /\ Owner(m.tid) = c)
  BY PlacedTids DEF Session
<1>3. \A m \in Posted(c)' : PostedRight(c, m)'
  <2>1. ASSUME NEW m \in Posted(c), m.tid # t
        PROVE  PostedRight(c, m)'
    BY <1>2, <2>1 DEF Orderly, SameButFor, PostedRight, UndoneFor, Undone,
       NeedsAnswer, Shutdown, Requests, RdmaOps
  <2> QED
    BY <2>1 DEF MovesTo
<1>4. \A m \in Replied(c) \cup Completed(c) :
         m.tid \in Tids /\ Owner(m.tid) = c
  BY DEF Orderly, Apart, TidsIn, Replied, Completed, Session
<1>5. /\ \A m \in Replied(c)' : RepliedRight(c, m)'
      /\ \A m \in Completed(c)' : CompletedRight(c, m)'
  <2>1. ASSUME NEW m \in Replied(c), m.tid # t
        PROVE  RepliedRight(c, m)'
    BY <1>4, <2>1 DEF Orderly, SameButFor, RepliedRight, UndoneFor, Undone
  <2>2. ASSUME NEW m \in Completed(c), m.tid # t
        PROVE  CompletedRight(c, m)'
    BY <1>4, <2>2 DEF Orderly, SameButFor, CompletedRight, Undone
  <2> QED
    BY <2>1, <2>2 DEF MovesTo
<1>6. \A u \in Tids : Owner(u) = c => QueuedRight(c, u)'
  <2>1. ASSUME NEW u \in Tids \ {t}, Owner(u) = c
        PROVE  QueuedRight(c, u)'
    <3>1. QueuedRight(c, u)
      BY <2>1 DEF Orderly
    <3>2. u \in Listed' <=> u \in Listed
      BY <2>1 DEF SameButFor, Listed
    <3>3. u[2] <= tid[c] => u[2] <= tid'[c]
      BY <2>1 DEF Session
    <3> QED
      BY <2>1, <3>1, <3>2, <3>3 DEF SameButFor, QueuedRight, UndoneFor, Undone
  <2> QED
    BY <2>1 DEF MovesTo
<1> QED
  BY <1>1, <1>3, <1>5, <1>6 DEF MovesTo, Orderly

(* A step that touches one slot and leaves that one orderly. *)
LEMMA AllStayOrderly ==
    ASSUME TypeOK, sorted_q' \in Seq(Tids), \A b \in Clients : Orderly(b),
           NEW c \in Clients, Orderly(c)',
           \A b \in Clients \ {c} : SameFor(b)
    PROVE  \A b \in Clients : Orderly(b)'
  BY OthersStayOrderly

-----------------------------------------------------------------------------
(* The steps of the clients.                                               *)

(* The parts of the server that a client's call leaves alone. *)
QuietServer == UNCHANGED <<internal_q, sorted_q, waiting_fin_q>>

(* The tid that get_new_tid returns is in no place. *)
LEMMA NextTidIsFresh ==
    ASSUME TypeOK, NEW c \in Clients, Orderly(c), get_new_tid(c)
    PROVE  LET t == NextTid(c)
           IN  /\ t \in Session(c, tid'[c])
               /\ Session(c, tid[c]) \subseteq Session(c, tid'[c])
               /\ t \notin TidsIn(c2s[c]) \cup TidsIn(s2c[c])
                         \cup TidsIn(wcq[c])
               /\ t \notin ToSet(sorted_q)
               /\ internal_q[t] = NoReq
<1> DEFINE t == NextTid(c)
<1>1. t \in Tids /\ Owner(t) = c /\ t[2] = tid[c] + 1
  BY NextTidType DEF NextTid, Owner
<1>2. tid[c] \in Nat /\ tid'[c] = tid[c] + 1
  BY DEF TypeOK, ClientTypeOK, get_new_tid
<1>3. t \in Session(c, tid'[c]) /\ t \notin Session(c, tid[c])
  BY <1>1, <1>2 DEF Session
<1>4. Session(c, tid[c]) \subseteq Session(c, tid'[c])
  <2>1. \A u \in Tids : u[2] \in Nat
    BY DEF Tids
  <2> QED
    BY <1>2, <2>1 DEF Session
<1>5. t \notin TidsIn(c2s[c]) \cup TidsIn(s2c[c]) \cup TidsIn(wcq[c])
  <2>1. Shutdown.tid \notin Tids
    BY LoopAssumption DEF Shutdown, Tids
  <2> QED
    BY <1>1, <1>3, <2>1 DEF Orderly, Apart
<1>6. QueuedRight(c, t)
  BY <1>1 DEF Orderly
<1>7. internal_q[t] = NoReq /\ t \notin ToSet(sorted_q)
  BY <1>1, <1>2, <1>6 DEF QueuedRight, Listed
<1> QED
  BY <1>3, <1>4, <1>5, <1>7

(* A new request is posted under a tid that is in no other place. *)
LEMMA PostingNew ==
    ASSUME TypeOK, \A b \in Clients : Orderly(b),
           NEW c \in Clients, Alive(c), get_new_tid(c), QuietServer,
           UNCHANGED <<s2c, wcq>>, NEW m \in WorkRequest, Post(c, m),
           m.tid = NextTid(c), m.op \in Requests, Alive(c)',
           \A b \in Clients \ {c} : pc'[b] = pc[b],
           \A u \in Tids \ {m.tid} : pending'[u] = pending[u],
           NeedsAnswer(m.op, m.key, m.val) => UndoneFor(m.tid, m.key)'
    PROVE  \A b \in Clients : Orderly(b)'
<1> DEFINE t == m.tid
<1>1. Orderly(c)
  OBVIOUS
<1>2. /\ t \in Session(c, tid'[c])
      /\ Session(c, tid[c]) \subseteq Session(c, tid'[c])
      /\ t \notin TidsIn(c2s[c]) \cup TidsIn(s2c[c]) \cup TidsIn(wcq[c])
      /\ t \notin ToSet(sorted_q)
      /\ internal_q[t] = NoReq
  BY NextTidIsFresh
<1>3. t \in Tids /\ Owner(t) = c
  BY <1>2 DEF Session
<1>4. /\ c2s[c] \in Seq(WorkRequest)
      /\ c2s'[c] = Append(c2s[c], m)
      /\ \A b \in Clients \ {c} : c2s'[b] = c2s[b]
  BY DEF Post, TypeOK, ClientTypeOK
<1>5. /\ ToSet(c2s'[c]) = ToSet(c2s[c]) \cup {m}
      /\ TidsIn(c2s'[c]) = TidsIn(c2s[c]) \cup {t}
      /\ Distinct(c2s'[c])
  BY <1>1, <1>2, <1>4, Added DEF Orderly, Apart
<1>6. \A b \in Clients \ {c} : SameFor(b)
  BY <1>3, <1>4 DEF SameFor, QuietServer, get_new_tid, Listed, TypeOK,
     ClientTypeOK
<1>7. SlotIsClean(c)'
  <2>1. m # Shutdown
    BY DEF Shutdown, Requests
  <2> QED
    BY <1>1, <1>5, <2>1 DEF Orderly, SlotIsClean, Posted, Alive
<1>8. SameButFor(c, t)
  BY DEF SameButFor, QuietServer
<1>9. PostedRight(c, m)'
  BY <1>2 DEF PostedRight, QuietServer, Requests, RdmaOps
<1>10. QueuedRight(c, t)'
  <2>1. internal_q'[t] = NoReq /\ t \notin Listed'
    BY <1>2 DEF QuietServer, Listed
  <2> QED
    BY <2>1 DEF QueuedRight
<1>11. \A n \in Posted(c) : n.tid # t
  BY <1>2 DEF TidsIn, Posted
<1>12. /\ \A n \in Replied(c)' : n \in Replied(c) /\ n.tid # t
       /\ \A n \in Completed(c)' : n \in Completed(c) /\ n.tid # t
  BY <1>2 DEF TidsIn, Replied, Completed
<1>13. MovesTo(c, t)
  <2>1. Distinct(s2c'[c]) /\ Distinct(wcq'[c])
    BY <1>1 DEF Orderly, Apart
  <2>2. \A n \in Posted(c)' : \/ n \in Posted(c) /\ n.tid # t
                              \/ n.tid = t /\ PostedRight(c, n)'
    BY <1>5, <1>9, <1>11 DEF Posted
  <2>3. t \notin TidsIn(s2c'[c]) \cup TidsIn(wcq'[c]) \cup ToSet(sorted_q')
    BY <1>2 DEF QuietServer
  <2> QED
    BY <1>5, <1>10, <1>12, <2>1, <2>2, <2>3 DEF MovesTo
<1>14. Orderly(c)'
  BY <1>1, <1>2, <1>7, <1>8, <1>13, MoveStaysOrderly
<1> QED
  BY <1>6, <1>14, AllStayOrderly DEF QuietServer, TypeOK, ServerTypeOK

(* kv_set and kv_get. *)
LEMMA CallsStayOrderly ==
    ASSUME TypeOK, \A b \in Clients : Orderly(b), NEW c \in Clients,
           \/ \E k \in Keys, v \in Values : kv_set(c, k, v)
           \/ \E k \in Keys : kv_get(c, k)
    PROVE  \A b \in Clients : Orderly(b)'
<1>1. /\ pc \in [Clients -> {"out", "app", "get", "close", "gone"}]
      /\ pending \in [Tids -> ClientRequest \cup {NoReq}]
  BY DEF TypeOK, ClientTypeOK
<1>2. ASSUME NEW k \in Keys, NEW v \in Values, kv_set(c, k, v)
      PROVE  \A b \in Clients : Orderly(b)'
  <2>1. PICK m : m = Message("SET", NextTid(c), k, v, 0)
    OBVIOUS
  <2>2. /\ m.op = "SET" /\ m.tid = NextTid(c) /\ m.key = k /\ m.val = v
        /\ m.tid \in Tids
    BY <1>2, <2>1, NextTidType DEF Message, kv_set
  <2>3. m \in WorkRequest
    BY <2>1, <2>2, MessageType DEF SendOps, Contents
  <2>4. /\ Alive(c) /\ Alive(c)' /\ get_new_tid(c) /\ Post(c, m)
        /\ QuietServer /\ UNCHANGED <<s2c, wcq, pc>>
    BY <1>2, <2>1 DEF kv_set, Alive, serverVars, QuietServer
  <2>5. \A u \in Tids \ {m.tid} : pending'[u] = pending[u]
    BY <1>1, <1>2, <2>2 DEF kv_set
  <2>6. ASSUME NeedsAnswer(m.op, m.key, m.val)
        PROVE  UndoneFor(m.tid, m.key)'
    <3> DEFINE r == [op |-> "SET", key |-> k, val |-> v, done |-> FALSE]
    <3>1. r \in ClientRequest
      BY DEF ClientRequest, Contents
    <3>2. pending'[m.tid] = r
      BY <1>1, <1>2, <2>2, <2>6 DEF kv_set, NeedsAnswer
    <3>3. r # NoReq
      BY <3>1, ClientRequestAssumption
    <3>4. r.key = m.key /\ ~r.done
      BY <2>2
    <3> HIDE DEF r
    <3> QED
      BY <3>2, <3>3, <3>4 DEF UndoneFor, Undone
  <2> QED
    BY <2>2, <2>3, <2>4, <2>5, <2>6, PostingNew DEF Requests
<1>3. ASSUME NEW k \in Keys, kv_get(c, k)
      PROVE  \A b \in Clients : Orderly(b)'
  <2>1. PICK m : m = Message("GET", NextTid(c), k, Empty, 0)
    OBVIOUS
  <2>2. /\ m.op = "GET" /\ m.tid = NextTid(c) /\ m.key = k
        /\ m.tid \in Tids
    BY <1>3, <2>1, NextTidType DEF Message, kv_get
  <2>3. m \in WorkRequest
    BY <2>1, <2>2, MessageType DEF SendOps, Contents
  <2>4. /\ Alive(c) /\ Alive(c)' /\ get_new_tid(c) /\ Post(c, m)
        /\ QuietServer /\ UNCHANGED <<s2c, wcq>>
        /\ \A b \in Clients \ {c} : pc'[b] = pc[b]
    BY <1>1, <1>3, <2>1 DEF kv_get, Alive, serverVars, QuietServer
  <2>5. \A u \in Tids \ {m.tid} : pending'[u] = pending[u]
    BY <1>1, <1>3, <2>2 DEF kv_get
  <2>6. UndoneFor(m.tid, m.key)'
    <3> DEFINE r == [op |-> "GET", key |-> k, val |-> Empty, done |-> FALSE]
    <3>1. r \in ClientRequest
      BY DEF ClientRequest, Contents
    <3>2. pending'[m.tid] = r
      BY <1>1, <1>3, <2>2 DEF kv_get
    <3>3. r # NoReq
      BY <3>1, ClientRequestAssumption
    <3>4. r.key = m.key /\ ~r.done
      BY <2>2
    <3> HIDE DEF r
    <3> QED
      BY <3>2, <3>3, <3>4 DEF UndoneFor, Undone
  <2> QED
    BY <2>2, <2>3, <2>4, <2>5, <2>6, PostingNew DEF Requests
<1> QED
  BY <1>2, <1>3

(* A step that changes a client's table only where nothing looks. *)
LEMMA TableStaysOrderly ==
    ASSUME NEW b \in Clients, Orderly(b), QuietServer,
           UNCHANGED <<s2c, c2s, wcq, tid>>,
           pc'[b] = pc[b] \/ (Alive(b) /\ Alive(b)'),
           \A u \in Tids : Undone(u) => pending'[u] = pending[u], TypeOK
    PROVE  Orderly(b)'
<1>1. SlotIsClean(b)'
  BY DEF Orderly, SlotIsClean, QuietServer, Posted, Alive
<1>2. /\ \A m \in Posted(b) : m = Shutdown \/ m.tid \in Tids
      /\ \A m \in Replied(b) \cup Completed(b) : m.tid \in Tids
  BY PlacedTids DEF Session
<1>3. Alive(b)' => Alive(b)
  BY DEF Alive
<1>4. \A m \in Posted(b)' : PostedRight(b, m)'
  BY <1>2, <1>3 DEF Orderly, Posted, PostedRight, UndoneFor, Undone,
     QuietServer, Shutdown, NeedsAnswer, RdmaOps
<1>5. /\ \A m \in Replied(b)' : RepliedRight(b, m)'
      /\ \A m \in Completed(b)' : CompletedRight(b, m)'
  BY <1>2, <1>3 DEF Orderly, Replied, Completed, RepliedRight,
     CompletedRight, UndoneFor, Undone
<1>6. \A t \in Tids : Owner(t) = b => QueuedRight(b, t)'
  BY <1>3 DEF Orderly, QueuedRight, UndoneFor, Undone, QuietServer, Listed
<1> QED
  BY <1>1, <1>4, <1>5, <1>6 DEF Orderly, QuietServer

(* The end of kv_get and the beginning of kv_close. *)
LEMMA ReturnStaysOrderly ==
    ASSUME TypeOK, \A b \in Clients : Orderly(b), NEW c \in Clients,
           GetReturn(c) \/ kv_close(c)
    PROVE  \A b \in Clients : Orderly(b)'
<1>1. QuietServer /\ UNCHANGED <<s2c, c2s, wcq, tid>>
  BY DEF GetReturn, kv_close, serverVars, QuietServer
<1>2. \A u \in Tids : Undone(u) => pending'[u] = pending[u]
  BY DEF GetReturn, kv_close, Undone, TypeOK, ClientTypeOK
<1>3. \A b \in Clients : pc'[b] = pc[b] \/ (Alive(b) /\ Alive(b)')
  BY DEF GetReturn, kv_close, Alive, TypeOK, ClientTypeOK
<1> QED
  BY <1>1, <1>2, <1>3, TableStaysOrderly

(* Whatever of its requests survives a client, its slot stays orderly. *)
LEMMA EndStaysOrderly ==
    ASSUME TypeOK, \A b \in Clients : Orderly(b), NEW c \in Clients,
           Alive(c), QuietServer, UNCHANGED <<s2c, tid>>,
           pc' = [pc EXCEPT ![c] = "gone"],
           NEW q, c2s' = [c2s EXCEPT ![c] = q], Distinct(q),
           ToSet(q) \subseteq Posted(c) \cup {Shutdown},
           wcq'[c] = <<>>, \A b \in Clients \ {c} : wcq'[b] = wcq[b],
           \A u \in Tids : Owner(u) # c => pending'[u] = pending[u]
    PROVE  \A b \in Clients : Orderly(b)'
<1>1. Orderly(c)
  OBVIOUS
<1>2. /\ c2s'[c] = q /\ pc'[c] = "gone"
      /\ \A b \in Clients \ {c} : c2s'[b] = c2s[b] /\ pc'[b] = pc[b]
  BY DEF TypeOK, ClientTypeOK
<1>3. \A b \in Clients \ {c} : SameFor(b)
  BY <1>2 DEF SameFor, QuietServer, Listed
<1>4. ~Alive(c)'
  BY <1>2 DEF Alive
<1>5. Apart(c, q, s2c[c], <<>>, tid[c], sorted_q)
  <2>1. TidsIn(q) \subseteq TidsIn(c2s[c]) \cup {Shutdown.tid}
    BY DEF TidsIn, Posted
  <2>2. Shutdown.tid \notin Tids
    BY LoopAssumption DEF Shutdown, Tids
  <2>3. \A t \in ToSet(sorted_q) : t \in Tids
    BY Elements DEF TypeOK, ServerTypeOK
  <2> QED
    BY <1>1, <2>1, <2>2, <2>3, NoElements DEF Orderly, Apart, Session
<1>6. SlotIsClean(c)'
  BY <1>2 DEF SlotIsClean
<1>7. \A m \in Posted(c)' : PostedRight(c, m)'
  BY <1>1, <1>2, <1>4
  DEF Orderly, Posted, PostedRight, QuietServer, Shutdown, Requests
<1>8. /\ \A m \in Replied(c)' : RepliedRight(c, m)'
      /\ \A m \in Completed(c)' : CompletedRight(c, m)'
  BY <1>4 DEF RepliedRight, CompletedRight
<1>9. \A t \in Tids : Owner(t) = c => QueuedRight(c, t)'
  BY <1>1, <1>4 DEF Orderly, QueuedRight, QuietServer, Listed
<1>10. Orderly(c)'
  BY <1>2, <1>5, <1>6, <1>7, <1>8, <1>9 DEF Orderly, QuietServer
<1> QED
  BY <1>3, <1>10, AllStayOrderly DEF QuietServer, TypeOK, ServerTypeOK

(* What is left of a client's requests. *)
LEMMA SurvivingElements ==
    ASSUME NEW p \in Seq(WorkRequest), Distinct(p),
           NEW n \in Nat, NEW q \in Surviving(p, n)
    PROVE  Distinct(q) /\ ToSet(q) \subseteq ToSet(p)
<1>1. Len(p) \in Nat
  BY LenProperties
<1>2. PICK m \in 0 .. Len(p) : q = SubSeq(p, 1, m)
  BY <1>1 DEF Surviving
<1> QED
  BY <1>2, PrefixElements

(* The end of kv_close leaves a prefix of what the client has posted. *)
LEMMA CloseSurvives ==
    ASSUME TypeOK, NEW c \in Clients, CloseDone(c)
    PROVE  \E n \in Nat : \E q \in Surviving(Append(c2s[c], Shutdown), n) :
              c2s' = [c2s EXCEPT ![c] = q]
<1>1. Len(c2s[c]) \in Nat /\ polled[c] \in Nat
  BY LenProperties, LoopAssumption DEF TypeOK, ClientTypeOK, LoopTypeOK
<1> QED
  BY <1>1 DEF CloseDone

(* So does the end of a client's process. *)
LEMMA DieSurvives ==
    ASSUME TypeOK, NEW c \in Clients, ClientDie(c)
    PROVE  \E n \in Nat : \E q \in Surviving(c2s[c], n) :
              c2s' = [c2s EXCEPT ![c] = q]
<1>1. polled[c] \in Nat
  BY LoopAssumption DEF TypeOK, LoopTypeOK
<1> QED
  BY <1>1 DEF ClientDie

(* The end of kv_close, and the end of a client. *)
LEMMA EndsStayOrderly ==
    ASSUME TypeOK, \A b \in Clients : Orderly(b), NEW c \in Clients,
           CloseDone(c) \/ ClientDie(c)
    PROVE  \A b \in Clients : Orderly(b)'
<1>1. Orderly(c) /\ c2s[c] \in Seq(WorkRequest) /\ Distinct(c2s[c])
  BY DEF Orderly, Apart, TypeOK, ClientTypeOK
<1>2. /\ QuietServer /\ UNCHANGED <<s2c, tid>> /\ Alive(c)
      /\ pc' = [pc EXCEPT ![c] = "gone"]
  BY DEF CloseDone, ClientDie, Alive, serverVars, QuietServer
<1>3. CASE CloseDone(c)
  <2>1. Shutdown \notin Posted(c)
    BY <1>1, <1>2 DEF Orderly, SlotIsClean, Alive
  <2>2. Shutdown.tid \notin TidsIn(c2s[c])
    <3>1. Shutdown.tid \notin Tids
      BY LoopAssumption DEF Shutdown, Tids
    <3>2. \A m \in Posted(c) : m.tid \in Tids
      BY <1>1, <2>1, PlacedTids DEF Session
    <3> QED
      BY <3>1, <3>2 DEF TidsIn, Posted
  <2> DEFINE p == Append(c2s[c], Shutdown)
  <2>3. /\ p \in Seq(WorkRequest) /\ Distinct(p)
        /\ ToSet(p) = Posted(c) \cup {Shutdown}
    BY <1>1, <2>2, ShutdownType, Added DEF Posted
  <2>8. PICK n \in Nat :
             \E q \in Surviving(p, n) : c2s' = [c2s EXCEPT ![c] = q]
    BY <1>3, CloseSurvives
  <2>4. PICK q \in Surviving(p, n) : c2s' = [c2s EXCEPT ![c] = q]
    BY <2>8
  <2> HIDE DEF p
  <2>5. Distinct(q) /\ ToSet(q) \subseteq Posted(c) \cup {Shutdown}
    BY <2>3, <2>4, SurvivingElements
  <2>6. wcq[c] = <<>>
    <3>1. \A m \in Completed(c) : m.tid \in PendingOf(c)
      BY <1>1, <1>2, PlacedTids
      DEF Orderly, CompletedRight, Undone, PendingOf, Session
    <3>2. ToSet(wcq[c]) = {}
      BY <1>3, <3>1 DEF CloseDone, Completed
    <3>3. wcq[c] \in Seq(Completion)
      BY DEF TypeOK, ClientTypeOK
    <3> QED
      BY <3>2, <3>3, HeadTaken
  <2>7. UNCHANGED <<wcq, pending>>
    BY <1>3 DEF CloseDone
  <2> QED
    BY <1>2, <2>4, <2>5, <2>6, <2>7, EndStaysOrderly
<1>4. CASE ClientDie(c)
  <2>4. PICK n \in Nat :
             \E q \in Surviving(c2s[c], n) : c2s' = [c2s EXCEPT ![c] = q]
    BY <1>4, DieSurvives
  <2>1. PICK q \in Surviving(c2s[c], n) : c2s' = [c2s EXCEPT ![c] = q]
    BY <2>4
  <2>2. Distinct(q) /\ ToSet(q) \subseteq Posted(c) \cup {Shutdown}
    BY <1>1, <2>1, SurvivingElements DEF Posted
  <2>3. /\ wcq'[c] = <<>> /\ \A b \in Clients \ {c} : wcq'[b] = wcq[b]
        /\ \A u \in Tids : Owner(u) # c => pending'[u] = pending[u]
    BY <1>4 DEF ClientDie, TypeOK, ClientTypeOK
  <2> QED
    BY <1>2, <2>1, <2>2, <2>3, EndStaysOrderly
<1> QED
  BY <1>3, <1>4

(* A client takes the oldest answer or completion, and may post a request  *)
(* of the same tid.                                                        *)
LEMMA TakingStaysOrderly ==
    ASSUME TypeOK, \A b \in Clients : Orderly(b), NEW c \in Clients,
           Alive(c), QuietServer, UNCHANGED <<tid, pc>>, NEW t \in Tids,
           \/ /\ s2c[c] # <<>> /\ Head(s2c[c]).tid = t
              /\ s2c' = [s2c EXCEPT ![c] = Tail(@)]
              /\ UNCHANGED wcq
           \/ /\ wcq[c] # <<>> /\ Head(wcq[c]).tid = t
              /\ wcq' = [wcq EXCEPT ![c] = Tail(@)]
              /\ UNCHANGED s2c,
           \A u \in Tids \ {t} : pending'[u] = pending[u],
           \/ UNCHANGED c2s
           \/ \E m \in WorkRequest : /\ m.tid = t /\ Post(c, m) /\ m # Shutdown
                                     /\ PostedRight(c, m)'
    PROVE  \A b \in Clients : Orderly(b)'
<1>1. /\ Orderly(c) /\ c2s[c] \in Seq(WorkRequest)
      /\ s2c[c] \in Seq(Reply) /\ wcq[c] \in Seq(Completion)
  BY DEF TypeOK, ClientTypeOK, ServerTypeOK
<1>2. Distinct(c2s[c]) /\ Distinct(s2c[c]) /\ Distinct(wcq[c])
  BY <1>1 DEF Orderly, Apart
<1>3. /\ t \in Session(c, tid[c])
      /\ t \notin TidsIn(c2s[c]) /\ t \notin ToSet(sorted_q)
      /\ t \in TidsIn(s2c[c]) => t \notin TidsIn(wcq[c])
      /\ t \in TidsIn(wcq[c]) => t \notin TidsIn(s2c[c])
  <2>1. t \in TidsIn(s2c[c]) \/ t \in TidsIn(wcq[c])
    BY <1>1, HeadTaken DEF TidsIn
  <2>2. Shutdown.tid \notin Tids
    BY LoopAssumption DEF Shutdown, Tids
  <2> QED
    BY <1>1, <2>1, <2>2 DEF Orderly, Apart
<1>4. /\ Distinct(s2c'[c]) /\ Distinct(wcq'[c])
      /\ \A m \in Replied(c)' : m \in Replied(c) /\ m.tid # t
      /\ \A m \in Completed(c)' : m \in Completed(c) /\ m.tid # t
      /\ \A b \in Clients \ {c} : s2c'[b] = s2c[b] /\ wcq'[b] = wcq[b]
  <2>1. CASE /\ s2c[c] # <<>> /\ Head(s2c[c]).tid = t
             /\ s2c' = [s2c EXCEPT ![c] = Tail(@)]
             /\ UNCHANGED wcq
    <3>1. /\ s2c'[c] = Tail(s2c[c]) /\ t \in TidsIn(s2c[c])
          /\ Without(s2c[c], Tail(s2c[c]), Head(s2c[c]))
          /\ \A b \in Clients \ {c} : s2c'[b] = s2c[b]
      BY <1>1, <1>2, <2>1, HeadTaken DEF TypeOK, ServerTypeOK, TidsIn
    <3>2. \A m \in Completed(c) : m.tid # t
      BY <1>3, <3>1 DEF TidsIn, Completed
    <3> QED
      BY <1>2, <2>1, <3>1, <3>2 DEF Without, Replied, Completed
  <2>2. CASE /\ wcq[c] # <<>> /\ Head(wcq[c]).tid = t
             /\ wcq' = [wcq EXCEPT ![c] = Tail(@)]
             /\ UNCHANGED s2c
    <3>1. /\ wcq'[c] = Tail(wcq[c]) /\ t \in TidsIn(wcq[c])
          /\ Without(wcq[c], Tail(wcq[c]), Head(wcq[c]))
          /\ \A b \in Clients \ {c} : wcq'[b] = wcq[b]
      BY <1>1, <1>2, <2>2, HeadTaken DEF TypeOK, ClientTypeOK, TidsIn
    <3>2. \A m \in Replied(c) : m.tid # t
      BY <1>3, <3>1 DEF TidsIn, Replied
    <3> QED
      BY <1>2, <2>2, <3>1, <3>2 DEF Without, Replied, Completed
  <2> QED
    BY <2>1, <2>2
<1>5. /\ Distinct(c2s'[c])
      /\ \A m \in Posted(c)' :
            \/ m \in Posted(c) /\ m.tid # t
            \/ m.tid = t /\ m # Shutdown /\ PostedRight(c, m)'
      /\ \A b \in Clients \ {c} : c2s'[b] = c2s[b]
  <2>1. \A m \in Posted(c) : m.tid # t
    BY <1>3 DEF TidsIn, Posted
  <2>2. CASE UNCHANGED c2s
    BY <1>2, <2>1, <2>2 DEF Posted
  <2>3. ASSUME NEW m \in WorkRequest, m.tid = t, Post(c, m), m # Shutdown,
               PostedRight(c, m)'
        PROVE  <1>5!:
    <3>1. /\ c2s'[c] = Append(c2s[c], m)
          /\ \A b \in Clients \ {c} : c2s'[b] = c2s[b]
      BY <2>3 DEF Post, TypeOK, ClientTypeOK
    <3>2. Distinct(c2s'[c]) /\ ToSet(c2s'[c]) = ToSet(c2s[c]) \cup {m}
      BY <1>1, <1>2, <1>3, <2>3, <3>1, Added
    <3> QED
      BY <2>1, <2>3, <3>1, <3>2 DEF Posted
  <2> QED
    BY <2>2, <2>3
<1>6. t \in Tids /\ Owner(t) = c
  BY <1>3 DEF Session
<1>7. \A b \in Clients \ {c} : SameFor(b)
  BY <1>4, <1>5, <1>6 DEF SameFor, QuietServer, Listed
<1>8. SlotIsClean(c)'
  <2>1. Shutdown \notin Posted(c)
    BY <1>1 DEF Orderly, SlotIsClean, Alive
  <2> QED
    BY <1>5, <2>1 DEF SlotIsClean, Alive
<1>9. SameButFor(c, t)
  BY DEF SameButFor, QuietServer
<1>10. QueuedRight(c, t)'
  <2>1. QueuedRight(c, t) /\ t \notin Listed
    BY <1>1, <1>3, <1>6 DEF Orderly, Listed
  <2> QED
    BY <2>1 DEF QueuedRight, QuietServer, Listed
<1>11. MovesTo(c, t)
  <2>1. t \notin TidsIn(s2c'[c]) \cup TidsIn(wcq'[c]) \cup ToSet(sorted_q')
    BY <1>3, <1>4 DEF TidsIn, Replied, Completed, QuietServer
  <2> QED
    BY <1>4, <1>5, <1>10, <2>1 DEF MovesTo
<1>12. Alive(c)' => Alive(c)
  BY DEF Alive
<1>13. Orderly(c)'
  BY <1>1, <1>3, <1>8, <1>9, <1>11, <1>12, MoveStaysOrderly
<1> QED
  BY <1>7, <1>13, AllStayOrderly DEF QuietServer, TypeOK, ServerTypeOK

(* What the client makes of what it polls. *)
LEMMA PollStaysOrderly ==
    ASSUME TypeOK, \A b \in Clients : Orderly(b), NEW c \in Clients,
           ClientPoll(c)
    PROVE  \A b \in Clients : Orderly(b)'
<1>1. /\ pending \in [Tids -> ClientRequest \cup {NoReq}]
      /\ s2c[c] \in Seq(Reply) /\ wcq[c] \in Seq(Completion)
  BY DEF TypeOK, ClientTypeOK, ServerTypeOK
<1>2. CASE client_handle_get_response(c)
  <2>1. PICK t : t = Head(s2c[c]).tid
    OBVIOUS
  <2>2. t \in Tids
    BY <1>2, <2>1, TakeReplyType DEF client_handle_get_response
  <2>3. \A u \in Tids \ {t} : pending'[u] = pending[u]
    BY <1>1, <1>2, <2>1, <2>2 DEF client_handle_get_response
  <2>4. /\ Alive(c) /\ QuietServer /\ UNCHANGED <<tid, pc, wcq, c2s>>
        /\ s2c[c] # <<>> /\ s2c' = [s2c EXCEPT ![c] = Tail(@)]
    BY <1>2 DEF client_handle_get_response, TakeReply, QuietServer
  <2> QED
    BY <2>1, <2>2, <2>3, <2>4, TakingStaysOrderly
<1>3. CASE \/ client_handle_recv_rdma_rkey_get(c)
           \/ client_handle_recv_rdma_rkey_set(c)
  <2>1. PICK r : r = Head(s2c[c])
    OBVIOUS
  <2>2. PICK m : m = IF client_handle_recv_rdma_rkey_get(c)
                     THEN Message("READ", r.tid, r.key, Empty, r.rkey)
                     ELSE Message("WRITE", r.tid, r.key, pending[r.tid].val,
                                  r.rkey)
    OBVIOUS
  <2>3. /\ Alive(c) /\ QuietServer
        /\ UNCHANGED <<tid, pc, wcq, pending>>
        /\ s2c[c] # <<>> /\ s2c' = [s2c EXCEPT ![c] = Tail(@)]
        /\ Post(c, m)
    BY <1>3, <2>1, <2>2
    DEF client_handle_recv_rdma_rkey_get, client_handle_recv_rdma_rkey_set,
        TakeReply, QuietServer, clientVars
  <2>4. /\ r \in Replied(c) /\ r \in Reply /\ r.tid \in Tids
        /\ r.key \in Keys /\ r.rkey \in Nat
    <3>1. r \in Replied(c) /\ r \in Reply
      BY <1>1, <2>1, <2>3, HeadTaken DEF Replied
    <3> QED
      BY <3>1 DEF Reply
  <2>5. m.tid = r.tid /\ m.key = r.key /\ m.op \in RdmaOps
    BY <2>2 DEF Message, RdmaOps
  <2>6. m \in WorkRequest
    <3>1. CASE client_handle_recv_rdma_rkey_get(c)
      BY <2>2, <2>4, <3>1, MessageType DEF RdmaOps, Contents
    <3>2. CASE ~client_handle_recv_rdma_rkey_get(c)
      <4>1. /\ pending[r.tid] \in ClientRequest
            /\ pending[r.tid].op = "SET"
        BY <1>3, <2>1, <3>2, TakeReplyType
        DEF client_handle_recv_rdma_rkey_set
      <4> QED
        BY <2>2, <2>4, <3>2, <4>1, PendingSetFields, MessageType DEF RdmaOps
    <3> QED
      BY <3>1, <3>2
  <2>7. UndoneFor(r.tid, r.key)
    BY <2>3, <2>4 DEF Orderly, RepliedRight
  <2>8. PostedRight(c, m)'
    BY <2>3, <2>5, <2>7
    DEF PostedRight, UndoneFor, Undone, RdmaOps, Requests
  <2>9. m # Shutdown
    BY <2>5 DEF Shutdown, RdmaOps
  <2> QED
    BY <2>1, <2>3, <2>4, <2>5, <2>6, <2>8, <2>9, TakingStaysOrderly
<1>4. CASE RdmaReadDone(c) \/ RdmaWriteDone(c)
  <2>1. PICK t : t = Head(wcq[c]).tid
    OBVIOUS
  <2>2. PICK m : m = Message("FIN", t, pending[t].key, Empty, 0)
    OBVIOUS
  <2>3. /\ Alive(c) /\ QuietServer /\ UNCHANGED <<tid, pc, s2c>>
        /\ wcq[c] # <<>> /\ wcq' = [wcq EXCEPT ![c] = Tail(@)]
        /\ Post(c, m)
    BY <1>4, <2>1, <2>2
    DEF RdmaReadDone, RdmaWriteDone, client_send_rdma_fin, TakeCompletion,
        QuietServer, serverVars
  <2>4. t \in Tids /\ pending[t].key \in Keys
    <3>1. CASE RdmaReadDone(c)
      BY <2>1, <3>1, TakeCompletionType, PendingGetFields DEF RdmaReadDone
    <3>2. CASE RdmaWriteDone(c)
      BY <2>1, <3>2, TakeCompletionType, PendingSetFields DEF RdmaWriteDone
    <3> QED
      BY <1>4, <3>1, <3>2
  <2>5. /\ m \in WorkRequest /\ m.tid = t /\ m.op = "FIN"
    BY <2>2, <2>4, MessageType DEF SendOps, Contents, Message
  <2>6. PostedRight(c, m)' /\ m # Shutdown
    BY <2>5 DEF PostedRight, Requests, RdmaOps, NeedsAnswer, Shutdown
  <2>7. \A u \in Tids \ {t} : pending'[u] = pending[u]
    BY <1>1, <1>4, <2>1, <2>4 DEF RdmaReadDone, RdmaWriteDone
  <2> QED
    BY <2>1, <2>3, <2>4, <2>5, <2>6, <2>7, TakingStaysOrderly
<1> QED
  BY <1>2, <1>3, <1>4 DEF ClientPoll

-----------------------------------------------------------------------------
(* The steps of the network.                                               *)

(* A request that the devices have executed is posted no longer, and       *)
(* completed if its client still runs.                                     *)
LEMMA ExecuteStaysOrderly ==
    ASSUME TypeOK, PolledAreSends, \A b \in Clients : Orderly(b),
           NEW c \in Clients, QuietServer, NEW i, RdmaExecute(c, i),
           UNCHANGED <<s2c, tid, pc, polled>>, NEW m, m = c2s[c][i],
           \A u \in Tids \ {m.tid} : pending'[u] = pending[u],
           Undone(m.tid) => Undone(m.tid)'
    PROVE  \A b \in Clients : Orderly(b)'
<1>1. m = c2s[c][i]
  OBVIOUS
<1> DEFINE t == m.tid
           x == [op |-> m.op, tid |-> m.tid]
<1>2. /\ Orderly(c) /\ c2s[c] \in Seq(WorkRequest)
      /\ wcq[c] \in Seq(Completion)
      /\ Distinct(c2s[c]) /\ Distinct(s2c[c]) /\ Distinct(wcq[c])
  BY DEF Orderly, Apart, TypeOK, ClientTypeOK
<1>3. /\ i \in 1 .. Len(c2s[c]) /\ m \in Posted(c)
      /\ m.op \in RdmaOps /\ t \in Tids
  <2>1. m.op \in RdmaOps /\ t \in Tids
    BY <1>1, RdmaExecuteType
  <2>2. i \in 1 .. Len(c2s[c])
    BY <1>2, LenProperties DEF RdmaExecute, NextRdma
  <2> QED
    BY <1>1, <1>2, <2>1, <2>2, Elements DEF Posted
<1>4. /\ t \in Session(c, tid[c]) /\ Owner(t) = c
      /\ t \notin TidsIn(s2c[c]) \cup TidsIn(wcq[c]) \cup ToSet(sorted_q)
  <2>1. t \in TidsIn(c2s[c])
    BY <1>3 DEF TidsIn, Posted
  <2>2. t # Shutdown.tid
    BY <1>3, LoopAssumption DEF Shutdown, Tids
  <2> QED
    BY <1>2, <2>1, <2>2 DEF Orderly, Apart, Session
<1>5. /\ Distinct(c2s'[c])
      /\ \A n \in Posted(c)' : n \in Posted(c) /\ n.tid # t
      /\ \A b \in Clients \ {c} : c2s'[b] = c2s[b] /\ wcq'[b] = wcq[b]
  <2>1. Without(c2s[c], RemoveAt(c2s[c], i), m)
    BY <1>1, <1>2, <1>3, Removed
  <2>2. /\ c2s'[c] = RemoveAt(c2s[c], i)
        /\ \A b \in Clients \ {c} : c2s'[b] = c2s[b] /\ wcq'[b] = wcq[b]
    BY DEF RdmaExecute, TypeOK, ClientTypeOK
  <2> QED
    BY <2>1, <2>2 DEF Without, Posted
<1>6. Alive(c) => Undone(t)'
  BY <1>1, <1>2, <1>3 DEF Orderly, PostedRight, UndoneFor
<1>7. /\ Distinct(wcq'[c])
      /\ \A n \in Completed(c)' :
            \/ n \in Completed(c) /\ n.tid # t
            \/ n.tid = t /\ CompletedRight(c, n)'
      /\ ~Alive(c) => wcq'[c] = wcq[c]
  <2>1. \A n \in Completed(c) : n.tid # t
    BY <1>4 DEF TidsIn, Completed
  <2>2. CASE Alive(c)
    <3>1. x \in Completion /\ x.tid = t
      BY <1>3 DEF Completion
    <3>2. wcq'[c] = Append(wcq[c], x)
      BY <1>1, <2>2 DEF RdmaExecute, TypeOK, ClientTypeOK
    <3> HIDE DEF x
    <3>3. Distinct(wcq'[c]) /\ ToSet(wcq'[c]) = ToSet(wcq[c]) \cup {x}
      BY <1>2, <1>4, <3>1, <3>2, Added
    <3>4. CompletedRight(c, x)'
      BY <1>6, <2>2, <3>1 DEF CompletedRight, Undone
    <3> QED
      BY <2>1, <2>2, <3>1, <3>3, <3>4 DEF Completed
  <2>3. CASE ~Alive(c)
    <3>1. wcq'[c] = wcq[c]
      BY <2>3 DEF RdmaExecute
    <3> QED
      BY <1>2, <2>1, <3>1 DEF Completed
  <2> QED
    BY <2>2, <2>3
<1>8. \A b \in Clients \ {c} : SameFor(b)
  BY <1>1, <1>4, <1>5 DEF SameFor, QuietServer, Listed
<1>9. SlotIsClean(c)'
  <2>1. pc[c] # "out"
    BY <1>2, <1>3, NoElements DEF Orderly, SlotIsClean, Posted
  <2> QED
    BY <1>2, <1>5, <1>7, <2>1 DEF Orderly, SlotIsClean, Alive
<1>10. SameButFor(c, t)
  BY <1>1 DEF SameButFor, QuietServer
<1>11. QueuedRight(c, t)'
  <2>1. QueuedRight(c, t) /\ t \notin Listed
    BY <1>2, <1>3, <1>4 DEF Orderly, Listed
  <2> QED
    BY <2>1 DEF QueuedRight, QuietServer, Listed
<1>12. MovesTo(c, t)
  <2>1. \A n \in Replied(c)' : n \in Replied(c) /\ n.tid # t
    BY <1>4 DEF TidsIn, Replied
  <2>2. t \notin TidsIn(c2s'[c]) \cup TidsIn(s2c'[c]) \cup ToSet(sorted_q')
    BY <1>4, <1>5 DEF TidsIn, Posted, QuietServer
  <2> QED
    BY <1>2, <1>5, <1>7, <1>11, <2>1, <2>2 DEF MovesTo
<1>13. Alive(c)' => Alive(c)
  BY DEF Alive
<1>14. Orderly(c)'
  BY <1>2, <1>4, <1>9, <1>10, <1>12, <1>13, MoveStaysOrderly
<1> QED
  BY <1>8, <1>14, AllStayOrderly DEF QuietServer, TypeOK, ServerTypeOK

(* The devices at work. *)
LEMMA NetworkStaysOrderly ==
    ASSUME TypeOK, PolledAreSends, \A b \in Clients : Orderly(b),
           NEW c \in Clients, NetworkStep(c)
    PROVE  \A b \in Clients : Orderly(b)'
<1>1. CASE RdmaWrite(c)
  <2>1. PICK i : RdmaExecute(c, i)
    BY <1>1 DEF RdmaWrite
  <2>2. QuietServer /\ UNCHANGED <<s2c, tid, pc, polled, pending>>
    BY <1>1 DEF RdmaWrite, QuietServer, loopVars
  <2>3. PICK m : m = c2s[c][i]
    OBVIOUS
  <2>4. Undone(m.tid) => Undone(m.tid)'
    BY <2>2 DEF Undone
  <2> QED
    BY <2>1, <2>2, <2>3, <2>4, ExecuteStaysOrderly
<1>2. CASE RdmaRead(c)
  <2>1. PICK i :
          /\ RdmaExecute(c, i)
          /\ pending' = IF Waits(c2s[c][i].tid, "GET")
                        THEN [pending EXCEPT ![c2s[c][i].tid].val =
                                Content(db[c2s[c][i].key])]
                        ELSE pending
    BY <1>2 DEF RdmaRead
  <2>2. PICK m : m = c2s[c][i]
    OBVIOUS
  <2>3. QuietServer /\ UNCHANGED <<s2c, tid, pc, polled>>
    BY <1>2 DEF RdmaRead, QuietServer, serverVars, loopVars
  <2>4. m.tid \in Tids
    BY <2>1, <2>2, <2>3, RdmaExecuteType
  <2>5. pending \in [Tids -> ClientRequest \cup {NoReq}]
    BY DEF TypeOK, ClientTypeOK
  <2>6. \A u \in Tids \ {m.tid} : pending'[u] = pending[u]
    BY <2>1, <2>2, <2>4, <2>5
  <2>7. Undone(m.tid) => Undone(m.tid)'
    <3>1. CASE Waits(m.tid, "GET")
      <4> DEFINE p == pending[m.tid]
                 v == Content(db[m.key])
      <4>1. p \in ClientRequest /\ p.op = "GET"
        BY <2>4, <3>1, WaitsFor
      <4>2. p \in [op : {"GET"}, key : Keys, val : Contents \cup {Torn},
                   done : BOOLEAN]
        BY <4>1 DEF ClientRequest
      <4>3. pending'[m.tid] = [p EXCEPT !.val = v]
        BY <2>1, <2>2, <2>4, <2>5, <3>1
      <4>4. v \in Contents \cup {Torn}
        <5>1. m.key \in Keys
          BY <2>1, <2>2, <2>3, RdmaExecuteType
        <5> QED
          BY <5>1 DEF Content, Entry, TypeOK, ServerTypeOK
      <4>5. [p EXCEPT !.val = v] \in ClientRequest
        BY <4>1, <4>4, PendingGetFields
      <4>6. [p EXCEPT !.val = v].done = p.done
        BY <4>2
      <4> HIDE DEF p, v
      <4> QED
        BY <4>3, <4>5, <4>6, ClientRequestAssumption DEF Undone, p
    <3>2. CASE ~Waits(m.tid, "GET")
      BY <2>1, <2>2, <3>2 DEF Undone
    <3> QED
      BY <3>1, <3>2
  <2> QED
    BY <2>1, <2>2, <2>3, <2>6, <2>7, ExecuteStaysOrderly
<1>3. CASE QpError(c)
  BY <1>3, TableStaysOrderly
  DEF QpError, QuietServer, serverVars, clientVars
<1> QED
  BY <1>1, <1>2, <1>3 DEF NetworkStep

(* A new connection finds its slot empty. *)
LEMMA AcceptStaysOrderly ==
    ASSUME TypeOK, \A b \in Clients : Orderly(b), NEW c \in Clients,
           accept_new_connection(c)
    PROVE  \A b \in Clients : Orderly(b)'
<1>1. Orderly(c) /\ pc[c] = "out"
  BY DEF accept_new_connection
<1>2. /\ c2s[c] = <<>> /\ s2c[c] = <<>> /\ wcq[c] = <<>>
      /\ \A t \in Tids : Owner(t) = c => internal_q[t] = NoReq
  BY <1>1 DEF Orderly, SlotIsClean, Alive
<1>3. \A t \in Tids : Owner(t) = c => t \notin Listed
  BY <1>1, <1>2 DEF Orderly, QueuedRight
<1>4. /\ QuietServer /\ UNCHANGED <<c2s, s2c, wcq, pending>>
      /\ tid'[c] = 0 /\ pc'[c] = "app"
      /\ \A b \in Clients \ {c} : tid'[b] = tid[b] /\ pc'[b] = pc[b]
  BY DEF accept_new_connection, QuietServer, serverVars, TypeOK, ClientTypeOK
<1>5. \A b \in Clients \ {c} : SameFor(b)
  BY <1>4 DEF SameFor, QuietServer, Listed
<1>6. Apart(c, <<>>, <<>>, <<>>, 0, sorted_q)
  BY NoElements DEF Apart
<1>7. SlotIsClean(c)'
  BY <1>2, <1>4, NoElements DEF SlotIsClean, Posted
<1>8. Posted(c)' = {} /\ Replied(c)' = {} /\ Completed(c)' = {}
  BY <1>2, <1>4, NoElements DEF Posted, Replied, Completed
<1>9. \A t \in Tids : Owner(t) = c => QueuedRight(c, t)'
  BY <1>2, <1>3, <1>4 DEF QueuedRight, QuietServer, Listed
<1>10. Orderly(c)'
  BY <1>2, <1>4, <1>6, <1>7, <1>8, <1>9 DEF Orderly, QuietServer
<1> QED
  BY <1>4, <1>5, <1>10, AllStayOrderly DEF QuietServer, TypeOK, ServerTypeOK

-----------------------------------------------------------------------------
(* The steps of the server.                                                *)

(* What a handler makes of the request t: it is pushed, dropped because    *)
(* it needs no answer, or answered; a record that an answer leaves behind  *)
(* waits for its FIN.                                                      *)
Pushed(t, op, k, v, q) ==
    /\ sorted_q' = Append(q, t)
    /\ UNCHANGED <<s2c, waiting_fin_q>>
    /\ internal_q'[t] # NoReq
    /\ internal_q[t] # NoReq => internal_q'[t] = internal_q[t]
    /\ internal_q[t] = NoReq => /\ internal_q'[t].op = op
                                /\ internal_q'[t].key = k
                                /\ internal_q'[t].val = v

Dropped(t, q) ==
    /\ sorted_q' = q
    /\ UNCHANGED s2c
    /\ internal_q'[t] = NoReq

AnsweredWith(t, k, q, m) ==
    /\ sorted_q' = q
    /\ m.tid = t /\ m.key = k
    /\ server_post_send(m)
    /\ internal_q'[t] = NoReq \/ waiting_fin_q'[t] # NoKey

HandledAs(t, op, k, v, q) ==
    /\ \A u \in Tids \ {t} : /\ internal_q'[u] = internal_q[u]
                             /\ waiting_fin_q'[u] = waiting_fin_q[u]
    /\ \/ Pushed(t, op, k, v, q)
       \/ ~NeedsAnswer(op, k, v) /\ Dropped(t, q)
       \/ /\ NeedsAnswer(op, k, v)
          /\ \E m \in Reply : AnsweredWith(t, k, q, m)

(* A request that is not in the list q is handled so. *)
LEMMA PushIsHandled ==
    ASSUME ServerTypeOK, NEW t \in Tids, NEW op \in Requests, NEW k \in Keys,
           NEW v \in Contents, NEW q, push_pending_request(t, op, k, v, q)
    PROVE  HandledAs(t, op, k, v, q)
<1> DEFINE r == [op |-> op, key |-> k, val |-> v,
                 payload |-> PendingPayload(k, v)]
<1>1. r \in Request
  BY PendingPayloadType DEF Request, Requests
<1>2. r # NoReq /\ r.op = op /\ r.key = k /\ r.val = v
  BY <1>1, RequestAssumption
<1> HIDE DEF r
<1>3. internal_q' = IF internal_q[t] # NoReq
                    THEN internal_q ELSE [internal_q EXCEPT ![t] = r]
  BY DEF push_pending_request, r
<1>4. Pushed(t, op, k, v, q)
  BY <1>2, <1>3 DEF push_pending_request, Pushed, ServerTypeOK
<1> QED
  BY <1>3, <1>4 DEF HandledAs, push_pending_request, ServerTypeOK

(* handle_set_request, of a request that is not in the list q. *)
LEMMA SetIsHandled ==
    ASSUME ServerTypeOK, NEW t \in Tids, NEW k \in Keys, NEW v \in Contents,
           NEW p \in Contents, NEW q \in Seq(Tids), IsInjective(q),
           t \notin ToSet(q), handle_set_request(t, k, v, p, q)
    PROVE  HandledAs(t, "SET", k, v, q)
<1>1. RemoveFirst(q, t) = q
  BY ListElements
<1>2. CASE SetBlocked(t, k, v, q)
  BY <1>2, PushIsHandled DEF SetBlocked, Requests
<1>3. CASE SetEager(t, k, v, p, q)
  BY <1>1, <1>3 DEF SetEager, remove_server_pending_request, HandledAs,
     Dropped, NeedsAnswer, ServerTypeOK
<1>4. CASE SetRendezvous(t, k, v, q)
  <2> DEFINE e == Exposed(LockedWr(Opened(db[k])), v)
             d == [db EXCEPT ![k] = e]
             m == Message("RDMA_RKEY_SET", t, k, Empty, e.mr)
  <2>1. e \in Entry
    BY OpenedProperties, LockedWrProperties, ExposedProperties
    DEF ServerTypeOK
  <2>2. /\ server_post_send(m) /\ mark_rdma_fin_required(t, k, d, q)
        /\ ~EagerSet(k, v)
    BY <1>4 DEF SetRendezvous
  <2> HIDE DEF e
  <2>3. m \in Reply /\ m.tid = t /\ m.key = k
    BY <2>1 DEF Message, Reply, ReplyOps, Entry, Contents
  <2> HIDE DEF m, d
  <2>4. /\ sorted_q' = q
        /\ waiting_fin_q' = [waiting_fin_q EXCEPT ![t] = k]
        /\ \A u \in Tids \ {t} : internal_q'[u] = internal_q[u]
    BY <1>1, <2>2 DEF mark_rdma_fin_required, ServerTypeOK
  <2>5. AnsweredWith(t, k, q, m)
    BY <2>2, <2>3, <2>4, ClientsAssumption DEF AnsweredWith, ServerTypeOK
  <2> QED
    BY <2>2, <2>3, <2>4, <2>5 DEF HandledAs, NeedsAnswer, ServerTypeOK
<1> QED
  BY <1>2, <1>3, <1>4 DEF handle_set_request

(* handle_get_request, of a request that is not in the list q. *)
LEMMA GetIsHandled ==
    ASSUME ServerTypeOK, NEW t \in Tids, NEW k \in Keys,
           NEW v, NEW q \in Seq(Tids), IsInjective(q),
           t \notin ToSet(q), handle_get_request(t, k, q),
           GetBlocked(t, k, q) /\ internal_q[t] = NoReq => v = Empty
    PROVE  HandledAs(t, "GET", k, v, q)
<1>1. RemoveFirst(q, t) = q
  BY ListElements
<1>2. CASE GetBlocked(t, k, q)
  BY <1>2, PushIsHandled
  DEF GetBlocked, Requests, Contents, HandledAs, Pushed, NeedsAnswer
<1>3. CASE GetEager(t, k, q)
  <2>5. PICK w \in EagerContent(db[k]) :
             server_post_send(Message("GET_RESPONSE", t, k, w, 0))
    BY <1>3 DEF GetEager
  <2> DEFINE m == Message("GET_RESPONSE", t, k, w, 0)
  <2>6. w \in Contents \cup {Torn}
    BY <2>5 DEF EagerContent, Content, Entry, ServerTypeOK
  <2>1. m \in Reply /\ m.tid = t /\ m.key = k
    BY <2>6 DEF Message, Reply, ReplyOps
  <2>2. server_post_send(m)
    BY <2>5
  <2> HIDE DEF m
  <2>3. /\ sorted_q' = q /\ internal_q' = [internal_q EXCEPT ![t] = NoReq]
        /\ waiting_fin_q' = [waiting_fin_q EXCEPT ![t] = NoKey]
    BY <1>1, <1>3 DEF GetEager, remove_server_pending_request
  <2>4. AnsweredWith(t, k, q, m)
    BY <2>1, <2>2, <2>3 DEF AnsweredWith, ServerTypeOK
  <2> QED
    BY <2>1, <2>3, <2>4 DEF HandledAs, NeedsAnswer, ServerTypeOK
<1>4. CASE GetRendezvous(t, k, q)
  <2> DEFINE m == Message("RDMA_RKEY_GET", t, k, Empty, db[k].mr)
  <2>1. m \in Reply /\ m.tid = t /\ m.key = k
    BY DEF Message, Reply, ReplyOps, Entry, ServerTypeOK, Contents
  <2>2. server_post_send(m)
    BY <1>4 DEF GetRendezvous
  <2> HIDE DEF m
  <2>3. /\ sorted_q' = q /\ internal_q' = [internal_q EXCEPT ![t] = NoReq]
        /\ waiting_fin_q' = [waiting_fin_q EXCEPT ![t] = k]
    BY <1>1, <1>4 DEF GetRendezvous
  <2>4. AnsweredWith(t, k, q, m)
    BY <2>1, <2>2, <2>3 DEF AnsweredWith, ServerTypeOK
  <2> QED
    BY <2>1, <2>3, <2>4 DEF HandledAs, NeedsAnswer, ServerTypeOK
<1> QED
  BY <1>2, <1>3, <1>4 DEF handle_get_request

(* The request t of slot c has been taken from where it was, and q is the  *)
(* list without it.                                                        *)
ReadyToServe(c, t, op, k, v, q) ==
    /\ t \in Session(c, tid[c])
    /\ pc[c] # "out"
    /\ Distinct(c2s'[c])
    /\ \A m \in Posted(c)' : m \in Posted(c) /\ m.tid # t
    /\ \A b \in Clients \ {c} : c2s'[b] = c2s[b]
    /\ t \notin TidsIn(s2c[c]) \cup TidsIn(wcq[c])
    /\ q \in Seq(Tids) /\ IsInjective(q)
    /\ t \notin ToSet(q) /\ ToSet(q) \ {t} = ToSet(sorted_q) \ {t}
    /\ Alive(c) /\ NeedsAnswer(op, k, v) => UndoneFor(t, k)
    /\ internal_q[t] = NoReq \/ (/\ internal_q[t].op = op
                                 /\ internal_q[t].key = k
                                 /\ internal_q[t].val = v)

(* Serving it leaves every slot orderly. *)
LEMMA ServingStaysOrderly ==
    ASSUME TypeOK, \A b \in Clients : Orderly(b), NEW c \in Clients, NEW t,
           NEW op, NEW k, NEW v, NEW q, ReadyToServe(c, t, op, k, v, q),
           HandledAs(t, op, k, v, q), UNCHANGED <<pending, tid, pc, wcq>>
    PROVE  /\ \A b \in Clients : Orderly(b)'
           /\ IsInjective(sorted_q') /\ Len(sorted_q') >= Len(q)
<1>1. /\ Orderly(c) /\ t \in Tids /\ Owner(t) = c /\ t[2] <= tid[c]
      /\ s2c[c] \in Seq(Reply) /\ q \in Seq(Tids) /\ IsInjective(q)
      /\ Distinct(s2c[c]) /\ Distinct(wcq[c])
  BY DEF ReadyToServe, Session, TypeOK, ServerTypeOK, Orderly, Apart
<1>2. /\ sorted_q' \in Seq(Tids) /\ IsInjective(sorted_q')
      /\ Len(sorted_q') >= Len(q)
      /\ ToSet(sorted_q') \ {t} = ToSet(sorted_q) \ {t}
      /\ t \in ToSet(sorted_q') => Pushed(t, op, k, v, q)
  <2>1. sorted_q' = q \/ Pushed(t, op, k, v, q)
    BY DEF HandledAs, Dropped, AnsweredWith
  <2>2. CASE sorted_q' = q
    BY <1>1, <2>2, LenProperties DEF ReadyToServe
  <2>3. CASE Pushed(t, op, k, v, q)
    <3>1. sorted_q' = Append(q, t) /\ t \notin ToSet(q)
      BY <2>3 DEF Pushed, ReadyToServe
    <3>2. /\ sorted_q' \in Seq(Tids) /\ IsInjective(sorted_q')
          /\ ToSet(sorted_q') = ToSet(q) \cup {t}
          /\ Len(sorted_q') = Len(q) + 1
      BY <1>1, <3>1, ListElements, AppendProperties
    <3> QED
      BY <1>1, <2>3, <3>2, LenProperties DEF ReadyToServe
  <2> QED
    BY <2>1, <2>2, <2>3
<1>3. /\ Distinct(s2c'[c])
      /\ \A m \in Replied(c)' :
            \/ m \in Replied(c) /\ m.tid # t
            \/ m.tid = t /\ RepliedRight(c, m)'
      /\ t \in TidsIn(s2c'[c]) => t \notin ToSet(sorted_q')
      /\ \A b \in Clients \ {c} : s2c'[b] = s2c[b]
  <2>1. \A m \in Replied(c) : m.tid # t
    BY DEF ReadyToServe, TidsIn, Replied
  <2>2. CASE UNCHANGED s2c
    BY <1>1, <2>1, <2>2 DEF Replied, TidsIn
  <2>3. ASSUME NEW m \in Reply, AnsweredWith(t, k, q, m),
               NeedsAnswer(op, k, v)
        PROVE  <1>3!:
    <3>1. /\ s2c'[c] = Append(s2c[c], m)
          /\ \A b \in Clients \ {c} : s2c'[b] = s2c[b]
      BY <1>1, <2>3 DEF AnsweredWith, server_post_send, TypeOK, ServerTypeOK
    <3>2. Distinct(s2c'[c]) /\ ToSet(s2c'[c]) = ToSet(s2c[c]) \cup {m}
      BY <1>1, <2>3, <3>1, Added DEF AnsweredWith, ReadyToServe
    <3>3. RepliedRight(c, m)'
      BY <2>3 DEF ReadyToServe, AnsweredWith, RepliedRight, Alive, UndoneFor,
         Undone
    <3>4. t \notin ToSet(sorted_q')
      BY <2>3 DEF AnsweredWith, ReadyToServe
    <3> QED
      BY <2>1, <2>3, <3>1, <3>2, <3>3, <3>4 DEF AnsweredWith, Replied
  <2> QED
    BY <2>2, <2>3 DEF HandledAs, Pushed, Dropped
<1>4. \A b \in Clients \ {c} : SameFor(b)
  BY <1>1, <1>2, <1>3 DEF SameFor, Listed, ReadyToServe, HandledAs
<1>5. SlotIsClean(c)'
  BY <1>1 DEF SlotIsClean, Orderly, ReadyToServe, Alive
<1>6. SameButFor(c, t)
  BY <1>2 DEF SameButFor, HandledAs
<1>7. QueuedRight(c, t)'
  <2>1. CASE Pushed(t, op, k, v, q)
    <3>1. /\ internal_q'[t] # NoReq /\ internal_q'[t].op = op
          /\ internal_q'[t].key = k /\ internal_q'[t].val = v
      BY <2>1 DEF Pushed, ReadyToServe
    <3>2. t \in Listed'
      BY <1>1, <2>1, ListElements DEF Pushed, Listed
    <3> QED
      BY <1>1, <3>1, <3>2
      DEF QueuedRight, ReadyToServe, Alive, UndoneFor, Undone
  <2>2. CASE ~Pushed(t, op, k, v, q)
    <3>1. t \notin Listed'
      BY <1>2, <2>2 DEF Listed
    <3>2. internal_q'[t] = NoReq \/ waiting_fin_q'[t] # NoKey
      BY <2>2 DEF HandledAs, Dropped, AnsweredWith
    <3> QED
      BY <1>1, <3>1, <3>2 DEF QueuedRight
  <2> QED
    BY <2>1, <2>2
<1>8. MovesTo(c, t)
  <2>1. /\ t \notin TidsIn(c2s'[c]) /\ t \notin TidsIn(wcq'[c])
        /\ \A m \in Completed(c)' : m \in Completed(c) /\ m.tid # t
    BY DEF ReadyToServe, TidsIn, Posted, Completed
  <2> QED
    BY <1>1, <1>3, <1>7, <2>1 DEF MovesTo, ReadyToServe
<1>9. Alive(c)' => Alive(c)
  BY DEF Alive
<1>10. Orderly(c)'
  BY <1>1, <1>5, <1>6, <1>8, <1>9, MoveStaysOrderly DEF ReadyToServe
<1> QED
  BY <1>2, <1>4, <1>10, AllStayOrderly

(* The request that handle_recv_request takes is posted no longer. *)
LEMMA TakenIsPosted ==
    ASSUME TypeOK, PolledAreSends, \A b \in Clients : Orderly(b),
           NEW c \in Clients, NEW op, TakeRequest(c, op),
           NEW m, m = Head(c2s[c])
    PROVE  /\ m \in Posted(c) /\ m.op = op /\ pc[c] # "out"
           /\ c2s[c] # <<>>
           /\ Distinct(c2s'[c])
           /\ \A n \in Posted(c)' : n \in Posted(c) /\ n.tid # m.tid
           /\ \A b \in Clients \ {c} : c2s'[b] = c2s[b]
           /\ UNCHANGED <<pending, tid, pc, wcq>>
<1>1. /\ Orderly(c) /\ c2s[c] \in Seq(WorkRequest) /\ Len(c2s[c]) \in Nat
      /\ Distinct(c2s[c]) /\ polled[c] \in Nat /\ polled[c] <= Len(c2s[c])
  BY QueueType DEF Orderly, Apart
<1>2. c2s[c] # <<>>
  BY <1>1, EmptySeq DEF TakeRequest
<1>3. m \in Posted(c) /\ Without(c2s[c], Tail(c2s[c]), m)
  BY <1>1, <1>2, HeadTaken DEF Posted
<1>4. /\ c2s'[c] = Tail(c2s[c]) /\ m.op = op
      /\ \A b \in Clients \ {c} : c2s'[b] = c2s[b]
  BY DEF TakeRequest, TypeOK, ClientTypeOK
<1>5. pc[c] # "out"
  BY <1>1, <1>2 DEF Orderly, SlotIsClean
<1> QED
  BY <1>2, <1>3, <1>4, <1>5 DEF Without, Posted, TakeRequest, clientVars

(* A tid that is posted is nowhere else. *)
LEMMA PostedElsewhere ==
    ASSUME TypeOK, NEW c \in Clients, Orderly(c), NEW m \in Posted(c),
           m.tid \in Tids
    PROVE  /\ m.tid \in Session(c, tid[c]) /\ Owner(m.tid) = c
           /\ m.tid \notin TidsIn(s2c[c]) \cup TidsIn(wcq[c])
           /\ m.tid \notin ToSet(sorted_q)
<1>1. m.tid \in TidsIn(c2s[c]) /\ m.tid # Shutdown.tid
  BY LoopAssumption DEF TidsIn, Posted, Shutdown, Tids
<1> QED
  BY <1>1 DEF Orderly, Apart, Session

(* A received SET or GET. *)
LEMMA RecvStaysOrderly ==
    ASSUME TypeOK, PolledAreSends, IsInjective(sorted_q),
           \A b \in Clients : Orderly(b), NEW c \in Clients,
           RecvSet(c) \/ RecvGet(c)
    PROVE  (\A b \in Clients : Orderly(b)') /\ IsInjective(sorted_q')
<1>1. PICK m : m = Head(c2s[c])
  OBVIOUS
<1>2. m.op \in Requests /\ TakeRequest(c, m.op)
  BY <1>1 DEF RecvSet, RecvGet, TakeRequest, Requests
<1>3. /\ m \in Posted(c) /\ pc[c] # "out"
      /\ Distinct(c2s'[c])
      /\ \A n \in Posted(c)' : n \in Posted(c) /\ n.tid # m.tid
      /\ \A b \in Clients \ {c} : c2s'[b] = c2s[b]
      /\ UNCHANGED <<pending, tid, pc, wcq>>
  BY <1>1, <1>2, TakenIsPosted
<1>4. m.tid \in Tids /\ m.key \in Keys /\ m.val \in Contents
  BY <1>1, <1>2, TakenFields DEF Requests, SendOps
<1>5. /\ m.tid \in Session(c, tid[c])
      /\ m.tid \notin TidsIn(s2c[c]) \cup TidsIn(wcq[c])
      /\ m.tid \notin ToSet(sorted_q)
  BY <1>3, <1>4, PostedElsewhere
<1>6. internal_q[m.tid] = NoReq
  BY <1>2, <1>3 DEF Orderly, PostedRight
<1>7. sorted_q \in Seq(Tids) /\ ServerTypeOK
  BY DEF TypeOK, ServerTypeOK
<1>8. CASE RecvSet(c)
  <2>1. /\ m.op = "SET"
        /\ handle_set_request(m.tid, m.key, m.val, m.val, sorted_q)
    BY <1>1, <1>8 DEF RecvSet, TakeRequest
  <2>2. HandledAs(m.tid, "SET", m.key, m.val, sorted_q)
    BY <1>4, <1>5, <1>7, <2>1, SetIsHandled
  <2>3. Alive(c) /\ NeedsAnswer("SET", m.key, m.val) => UndoneFor(m.tid, m.key)
    BY <1>3, <2>1 DEF Orderly, PostedRight
  <2>4. ReadyToServe(c, m.tid, "SET", m.key, m.val, sorted_q)
    BY <1>3, <1>5, <1>6, <1>7, <2>3 DEF ReadyToServe
  <2> QED
    BY <1>3, <2>2, <2>4, ServingStaysOrderly
<1>9. CASE RecvGet(c)
  <2>1. m.op = "GET" /\ handle_get_request(m.tid, m.key, sorted_q)
    BY <1>1, <1>9 DEF RecvGet, TakeRequest
  <2>2. HandledAs(m.tid, "GET", m.key, Empty, sorted_q)
    BY <1>4, <1>5, <1>7, <2>1, GetIsHandled
  <2>3. Alive(c) => UndoneFor(m.tid, m.key)
    BY <1>3, <2>1 DEF Orderly, PostedRight, NeedsAnswer
  <2>4. ReadyToServe(c, m.tid, "GET", m.key, Empty, sorted_q)
    BY <1>3, <1>5, <1>6, <1>7, <2>3 DEF ReadyToServe
  <2> QED
    BY <1>3, <2>2, <2>4, ServingStaysOrderly
<1> QED
  BY <1>8, <1>9

(* A queued request. *)
LEMMA ServeStaysOrderly ==
    ASSUME TypeOK, IsInjective(sorted_q), \A b \in Clients : Orderly(b),
           ServePending
    PROVE  /\ \A b \in Clients : Orderly(b)'
           /\ IsInjective(sorted_q') /\ Len(sorted_q') >= Len(sorted_q) - 1
<1>1. PICK t : t = Head(sorted_q)
  OBVIOUS
<1>2. PICK q : q = Tail(sorted_q)
  OBVIOUS
<1>3. PICK r : r = internal_q[t]
  OBVIOUS
<1>4. t \in Tids /\ q \in Seq(Tids) /\ r \in Request
  BY <1>1, <1>2, <1>3, ServedRequest
<1>5. r.key \in Keys /\ r.val \in Contents /\ r.payload \in Contents
  BY <1>4 DEF Request
<1>6. /\ sorted_q \in Seq(Tids) /\ sorted_q # <<>>
      /\ UNCHANGED <<pending, tid, pc, wcq, c2s>>
  BY DEF TypeOK, ServerTypeOK, ServePending, clientVars
<1>7. /\ t \in ToSet(sorted_q) /\ Len(q) = Len(sorted_q) - 1
      /\ IsInjective(q) /\ ToSet(q) = ToSet(sorted_q) \ {t}
  BY <1>1, <1>2, <1>6, HeadTaken
<1>8. PICK c : c = Owner(t)
  OBVIOUS
<1>9. /\ c \in Clients /\ Orderly(c)
      /\ QueuedRight(c, t) /\ r # NoReq
  BY <1>3, <1>4, <1>8, OwnerType, RequestAssumption DEF Orderly
<1>10. /\ t \in Session(c, tid[c]) /\ pc[c] # "out"
       /\ t \notin TidsIn(s2c[c]) \cup TidsIn(wcq[c])
       /\ t \notin TidsIn(c2s[c])
  BY <1>3, <1>4, <1>7, <1>8, <1>9
  DEF QueuedRight, Session, Orderly, SlotIsClean, Apart
<1>11. /\ Distinct(c2s'[c])
       /\ \A m \in Posted(c)' : m \in Posted(c) /\ m.tid # t
  BY <1>6, <1>9, <1>10 DEF Orderly, Apart, TidsIn, Posted
<1>12. Alive(c) /\ NeedsAnswer(r.op, r.key, r.val) => UndoneFor(t, r.key)
  BY <1>3, <1>7, <1>9 DEF QueuedRight, Listed
<1>13. ReadyToServe(c, t, r.op, r.key, r.val, q)
  BY <1>3, <1>4, <1>6, <1>7, <1>10, <1>11, <1>12 DEF ReadyToServe
<1>14. HandledAs(t, r.op, r.key, r.val, q)
  <2>1. ServerTypeOK /\ t \notin ToSet(q) /\ internal_q[t] # NoReq
    BY <1>3, <1>7, <1>9 DEF TypeOK
  <2>2. CASE /\ r.op = "SET"
             /\ handle_set_request(t, r.key, r.val, r.payload, q)
    BY <1>4, <1>5, <1>7, <2>1, <2>2, SetIsHandled
  <2>3. CASE r.op = "GET" /\ handle_get_request(t, r.key, q)
    BY <1>4, <1>5, <1>7, <2>1, <2>3, GetIsHandled
  <2> QED
    BY <1>1, <1>2, <1>3, <2>2, <2>3 DEF ServePending
<1> QED
  BY <1>6, <1>7, <1>9, <1>13, <1>14, ServingStaysOrderly

(* A slot from whose posted requests one was taken, and which otherwise    *)
(* did not change.                                                         *)
LEMMA FewerStayOrderly ==
    ASSUME TypeOK, \A b \in Clients : Orderly(b), NEW c \in Clients,
           UNCHANGED serverVars, UNCHANGED <<pending, tid, pc, wcq>>,
           Distinct(c2s'[c]), \A m \in Posted(c)' : m \in Posted(c),
           pc[c] # "out", \A b \in Clients \ {c} : c2s'[b] = c2s[b]
    PROVE  \A b \in Clients : Orderly(b)'
<1>1. Orderly(c) /\ QuietServer /\ UNCHANGED s2c
  BY DEF QuietServer, serverVars
<1>2. \A b \in Clients \ {c} : SameFor(b)
  BY <1>1 DEF SameFor, QuietServer, Listed
<1>3. TidsIn(c2s'[c]) \subseteq TidsIn(c2s[c])
  BY DEF TidsIn, Posted
<1>4. Apart(c, c2s'[c], s2c[c], wcq[c], tid[c], sorted_q)
  BY <1>1, <1>3 DEF Orderly, Apart
<1>5. SlotIsClean(c)'
  BY <1>1 DEF Orderly, SlotIsClean, Alive
<1>6. /\ \A m \in Posted(c)' : PostedRight(c, m)'
      /\ \A m \in Replied(c)' : RepliedRight(c, m)'
      /\ \A m \in Completed(c)' : CompletedRight(c, m)'
      /\ \A t \in Tids : Owner(t) = c => QueuedRight(c, t)'
  BY <1>1 DEF Orderly, PostedRight, RepliedRight, CompletedRight, QueuedRight,
     Replied, Completed, Listed, Alive, UndoneFor, Undone, QuietServer
<1>7. Orderly(c)'
  BY <1>1, <1>4, <1>5, <1>6 DEF Orderly, QuietServer
<1> QED
  BY <1>1, <1>2, <1>7, AllStayOrderly DEF QuietServer, TypeOK, ServerTypeOK

(* A request that is removed from the server's tables. *)
LEMMA RemovalStaysOrderly ==
    ASSUME TypeOK, \A b \in Clients : Orderly(b), IsInjective(sorted_q),
           NEW c \in Clients, NEW t \in Session(c, tid[c]),
           remove_server_pending_request(t, db, sorted_q),
           UNCHANGED <<s2c, pending, tid, pc, wcq>>,
           Distinct(c2s'[c]), \A m \in Posted(c)' : m \in Posted(c),
           pc[c] # "out", \A b \in Clients \ {c} : c2s'[b] = c2s[b]
    PROVE  (\A b \in Clients : Orderly(b)') /\ IsInjective(sorted_q')
<1>1. Orderly(c) /\ t \in Tids /\ Owner(t) = c /\ sorted_q \in Seq(Tids)
  BY DEF Session, TypeOK, ServerTypeOK
<1>2. /\ internal_q'[t] = NoReq
      /\ \A u \in Tids \ {t} : /\ internal_q'[u] = internal_q[u]
                               /\ waiting_fin_q'[u] = waiting_fin_q[u]
      /\ sorted_q' = RemoveFirst(sorted_q, t)
  BY <1>1 DEF remove_server_pending_request, TypeOK, ServerTypeOK
<1>3. /\ sorted_q' \in Seq(Tids) /\ IsInjective(sorted_q')
      /\ ToSet(sorted_q') = ToSet(sorted_q) \ {t}
  BY <1>1, <1>2, ListElements
<1>4. \A b \in Clients \ {c} : SameFor(b)
  BY <1>1, <1>2, <1>3 DEF SameFor, Listed
<1>5. SlotIsClean(c)'
  BY <1>1 DEF Orderly, SlotIsClean, Alive
<1>6. SameButFor(c, t)
  BY <1>2, <1>3 DEF SameButFor
<1>7. QueuedRight(c, t)'
  <2>1. t \notin Listed'
    BY <1>3 DEF Listed
  <2> QED
    BY <1>2, <2>1 DEF QueuedRight
<1>8. MovesTo(c, t)
  <2>1. Distinct(s2c'[c]) /\ Distinct(wcq'[c])
    BY <1>1 DEF Orderly, Apart
  <2>2. \A m \in Posted(c)' : m.tid = t => PostedRight(c, m)'
    BY <1>1, <1>2 DEF Orderly, PostedRight, Alive, UndoneFor, Undone
  <2>3. \A m \in Replied(c)' : m \in Replied(c) /\ RepliedRight(c, m)'
    BY <1>1 DEF Orderly, Replied, RepliedRight, Alive, UndoneFor, Undone
  <2>4. \A m \in Completed(c)' : m \in Completed(c) /\ CompletedRight(c, m)'
    BY <1>1 DEF Orderly, Completed, CompletedRight, Alive, Undone
  <2>5. /\ t \in TidsIn(c2s'[c]) =>
              t \notin TidsIn(s2c'[c]) \cup TidsIn(wcq'[c])
        /\ t \in TidsIn(s2c'[c]) => t \notin TidsIn(wcq'[c])
        /\ t \notin ToSet(sorted_q')
    <3>1. TidsIn(c2s'[c]) \subseteq TidsIn(c2s[c])
      BY DEF TidsIn, Posted
    <3> QED
      BY <1>1, <1>3, <3>1 DEF Orderly, Apart
  <2> QED
    BY <1>7, <2>1, <2>2, <2>3, <2>4, <2>5 DEF MovesTo
<1>9. Orderly(c)'
  <2>1. Alive(c)' => Alive(c)
    BY DEF Alive
  <2> QED
    BY <1>1, <1>5, <1>6, <1>8, <2>1, MoveStaysOrderly
<1> QED
  BY <1>3, <1>4, <1>9, AllStayOrderly

(* A received FIN or shutdown message. *)
LEMMA FinStaysOrderly ==
    ASSUME TypeOK, PolledAreSends, IsInjective(sorted_q),
           \A b \in Clients : Orderly(b), NEW c \in Clients,
           RecvFin(c) \/ RecvShutdown(c)
    PROVE  (\A b \in Clients : Orderly(b)') /\ IsInjective(sorted_q')
<1>1. PICK m : m = Head(c2s[c])
  OBVIOUS
<1>2. TakeRequest(c, m.op)
  BY <1>1 DEF RecvFin, RecvShutdown, TakeRequest
<1>3. /\ m \in Posted(c) /\ pc[c] # "out"
      /\ Distinct(c2s'[c])
      /\ \A n \in Posted(c)' : n \in Posted(c) /\ n.tid # m.tid
      /\ \A b \in Clients \ {c} : c2s'[b] = c2s[b]
      /\ UNCHANGED <<pending, tid, pc, wcq>>
  BY <1>1, <1>2, TakenIsPosted
<1>4. CASE UNCHANGED serverVars
  BY <1>3, <1>4, FewerStayOrderly DEF serverVars
<1>5. CASE ~(UNCHANGED serverVars)
  <2>1. /\ TakeRequest(c, "FIN") /\ UNCHANGED s2c
        /\ remove_server_pending_request(m.tid, db, sorted_q)
    BY <1>1, <1>5 DEF RecvFin, RecvShutdown
  <2>2. m.tid \in Tids
    BY <1>1, <2>1, TakenFields DEF SendOps
  <2>3. m.tid \in Session(c, tid[c])
    BY <1>3, <2>2, PostedElsewhere
  <2> QED
    BY <1>3, <2>1, <2>3, RemovalStaysOrderly
<1> QED
  BY <1>4, <1>5

(* A request of a removed connection. *)
LEMMA InvalidateStaysOrderly ==
    ASSUME TypeOK, IsInjective(sorted_q), \A b \in Clients : Orderly(b),
           InvalidateRequest
    PROVE  (\A b \in Clients : Orderly(b)') /\ IsInjective(sorted_q')
<1>1. PICK c : c = closing
  OBVIOUS
<1>2. PICK t \in QueuedBy(closing) :
           remove_server_pending_request(t, db, sorted_q)
  BY DEF InvalidateRequest
<1>3. /\ c \in Clients /\ t \in Tids /\ Owner(t) = c
      /\ internal_q[t] # NoReq
      /\ UNCHANGED <<s2c, pending, tid, pc, wcq, c2s>>
  BY <1>1, <1>2
  DEF InvalidateRequest, QueuedBy, TypeOK, LoopTypeOK, clientVars
<1>4. Orderly(c) /\ QueuedRight(c, t) /\ pc[c] # "out"
  BY <1>3 DEF Orderly, SlotIsClean
<1>5. t \in Session(c, tid[c]) /\ Distinct(c2s[c])
  BY <1>3, <1>4 DEF QueuedRight, Session, Orderly, Apart
<1>6. \A m \in Posted(c)' : m \in Posted(c)
  BY <1>3 DEF Posted
<1> QED
  BY <1>2, <1>3, <1>4, <1>5, <1>6, RemovalStaysOrderly

(* A removed connection. *)
LEMMA RemoveStaysOrderly ==
    ASSUME TypeOK, \A b \in Clients : Orderly(b), NEW c \in Clients,
           RemoveConnection(c)
    PROVE  \A b \in Clients : Orderly(b)'
<1>1. /\ Orderly(c) /\ QuietServer /\ UNCHANGED <<wcq, tid, pending>>
      /\ c2s'[c] = <<>> /\ s2c'[c] = <<>>
      /\ \A b \in Clients \ {c} :
            c2s'[b] = c2s[b] /\ s2c'[b] = s2c[b] /\ pc'[b] = pc[b]
      /\ Alive(c)' <=> Alive(c)
  BY DEF RemoveConnection, QuietServer, TypeOK, ClientTypeOK, ServerTypeOK,
     Alive
<1>2. \A t \in Tids : Owner(t) = c => internal_q[t] = NoReq
  BY DEF RemoveConnection, QueuedBy
<1>3. \A t \in Tids : Owner(t) = c => t \notin Listed
  BY <1>1, <1>2 DEF Orderly, QueuedRight
<1>4. \A b \in Clients \ {c} : SameFor(b)
  BY <1>1 DEF SameFor, QuietServer, Listed
<1>5. Apart(c, <<>>, <<>>, wcq[c], tid[c], sorted_q)
  BY <1>1, NoElements DEF Orderly, Apart
<1>6. SlotIsClean(c)'
  BY <1>1, <1>2, NoElements DEF Orderly, SlotIsClean, QuietServer, Posted
<1>7. Posted(c)' = {} /\ Replied(c)' = {}
  BY <1>1, NoElements DEF Posted, Replied
<1>8. \A m \in Completed(c)' : CompletedRight(c, m)'
  BY <1>1 DEF Orderly, Completed, CompletedRight, Undone
<1>9. \A t \in Tids : Owner(t) = c => QueuedRight(c, t)'
  BY <1>1, <1>2, <1>3 DEF QueuedRight, QuietServer, Listed
<1>10. Orderly(c)'
  BY <1>1, <1>5, <1>6, <1>7, <1>8, <1>9 DEF Orderly, QuietServer
<1> QED
  BY <1>1, <1>4, <1>10, AllStayOrderly DEF QuietServer, TypeOK, ServerTypeOK

-----------------------------------------------------------------------------
(* All the steps.                                                          *)

(* The slots are orderly at the start. *)
LEMMA InitOrderly == Init => TInv
<1> SUFFICES ASSUME Init
             PROVE  TInv
  OBVIOUS
<1>1. IInv
  BY InitInv
<1>2. ListInOrder
  BY NoElements, EmptySeq DEF Init, ServerInit, ListInOrder
<1>3. ASSUME NEW c \in Clients
      PROVE  Orderly(c)
  <2>1. /\ c2s[c] = <<>> /\ s2c[c] = <<>> /\ wcq[c] = <<>>
        /\ sorted_q = <<>> /\ pc[c] = "out"
        /\ \A t \in Tids : internal_q[t] = NoReq
    BY DEF Init, ServerInit
  <2>2. Apart(c, <<>>, <<>>, <<>>, tid[c], <<>>)
    BY NoElements DEF Apart
  <2>3. SlotIsClean(c)
    BY <2>1, NoElements DEF SlotIsClean, Posted
  <2>4. Posted(c) = {} /\ Replied(c) = {} /\ Completed(c) = {} /\ Listed = {}
    BY <2>1, NoElements DEF Posted, Replied, Completed, Listed
  <2>5. \A t \in Tids : QueuedRight(c, t)
    BY <2>1, <2>4 DEF QueuedRight
  <2> QED
    BY <2>1, <2>2, <2>3, <2>4, <2>5 DEF Orderly
<1> QED
  BY <1>1, <1>2, <1>3 DEF TInv

(* A step that leaves the list and the pass alone. *)
LEMMA ListKept ==
    ASSUME ListInOrder, UNCHANGED <<sorted_q, todo, phase, closing>>
    PROVE  ListInOrder'
  BY DEF ListInOrder

(* Every step of the clients and the network leaves them orderly. *)
LEMMA ClientsStayOrderly ==
    ASSUME TInv, NEW c \in Clients,
           ClientStep(c) \/ NetworkStep(c) \/ accept_new_connection(c)
    PROVE  (\A b \in Clients : Orderly(b)') /\ ListInOrder'
<1>1. TypeOK /\ PolledAreSends /\ \A b \in Clients : Orderly(b)
  BY DEF TInv, IInv
<1>2. ListInOrder'
  <2>1. UNCHANGED <<sorted_q, todo, phase, closing>>
    BY DEF ClientStep, kv_set, kv_get, GetReturn, kv_close, CloseDone,
       ClientDie, ClientPoll, client_handle_get_response,
       client_handle_recv_rdma_rkey_get, client_handle_recv_rdma_rkey_set,
       TakeReply, RdmaReadDone, RdmaWriteDone, NetworkStep, RdmaWrite,
       RdmaRead, QpError, accept_new_connection, serverVars, loopVars
  <2> QED
    BY <2>1, ListKept DEF TInv
<1>3. CASE ClientStep(c)
  BY <1>1, <1>2, <1>3, CallsStayOrderly, ReturnStaysOrderly,
     EndsStayOrderly, PollStaysOrderly
  DEF ClientStep
<1>4. CASE NetworkStep(c) \/ accept_new_connection(c)
  BY <1>1, <1>2, <1>4, NetworkStaysOrderly, AcceptStaysOrderly
<1> QED
  BY <1>2, <1>3, <1>4

(* So does every step of the server. *)
LEMMA ServerStaysOrderly ==
    ASSUME TInv, ibv_poll_cq \/ ServerStep
    PROVE  (\A b \in Clients : Orderly(b)') /\ ListInOrder'
<1>1. /\ TypeOK /\ PolledAreSends /\ \A b \in Clients : Orderly(b)
      /\ ListInOrder /\ IsInjective(sorted_q) /\ sorted_q \in Seq(Tids)
      /\ Len(sorted_q) \in Nat /\ todo \in 0 .. SERVER_WC_BATCH + 1
      /\ SERVER_WC_BATCH \in Nat
  BY LenProperties, LoopAssumption
  DEF TInv, IInv, ListInOrder, TypeOK, ServerTypeOK, LoopTypeOK
<1>2. sorted_q' \in Seq(Tids) /\ Len(sorted_q') \in Nat
  <2>1. TypeOK'
    BY TypeStep DEF TInv, IInv, Next
  <2> QED
    BY <2>1, LenProperties DEF TypeOK, ServerTypeOK
<1>3. ASSUME NEW c \in Clients, handle_recv_request(c)
      PROVE  (\A b \in Clients : Orderly(b)') /\ ListInOrder'
  <2>1. /\ phase = "batch" /\ phase' \in {"batch", "down"}
        /\ todo' = todo /\ todo = 0
    BY <1>1, <1>3
    DEF handle_recv_request, RecvSet, RecvGet, RecvFin, RecvShutdown,
        TakeRequest, ListInOrder
  <2>2. (\A b \in Clients : Orderly(b)') /\ IsInjective(sorted_q')
    BY <1>1, <1>3, RecvStaysOrderly, FinStaysOrderly DEF handle_recv_request
  <2> QED
    BY <1>2, <2>1, <2>2 DEF ListInOrder
<1>4. CASE InvalidateRequest
  <2>1. phase' = phase /\ todo' = todo /\ phase # "pending" /\ todo = 0
    BY <1>1, <1>4 DEF InvalidateRequest, ListInOrder, loopVars
  <2>2. (\A b \in Clients : Orderly(b)') /\ IsInjective(sorted_q')
    BY <1>1, <1>4, InvalidateStaysOrderly
  <2> QED
    BY <1>2, <2>1, <2>2 DEF ListInOrder
<1>5. ASSUME NEW c \in Clients, RemoveConnection(c)
      PROVE  (\A b \in Clients : Orderly(b)') /\ ListInOrder'
  <2>1. UNCHANGED <<sorted_q, todo, phase>> /\ closing' = NoClient
    BY <1>5 DEF RemoveConnection
  <2> QED
    BY <1>1, <1>5, <2>1, RemoveStaysOrderly DEF ListInOrder
<1>6. CASE ServePending
  <2>1. /\ phase = "pending" /\ phase' = phase /\ closing' = closing
        /\ todo' = todo - 1
    BY <1>6 DEF ServePending
  <2>2. /\ \A b \in Clients : Orderly(b)'
        /\ IsInjective(sorted_q') /\ Len(sorted_q') >= Len(sorted_q) - 1
    BY <1>1, <1>6, ServeStaysOrderly
  <2> QED
    BY <1>1, <1>2, <2>1, <2>2 DEF ListInOrder
<1>7. CASE \/ ibv_poll_cq \/ StartPass \/ EndPass
           \/ \E c \in Clients : RemoveFailedConnection(c)
  <2>1. UNCHANGED serverVars /\ UNCHANGED clientVars /\ UNCHANGED c2s
    BY <1>7 DEF ibv_poll_cq, StartPass, EndPass, RemoveFailedConnection
  <2>2. \A b \in Clients : Orderly(b)'
    BY <1>1, <2>1, TableStaysOrderly DEF serverVars, clientVars, QuietServer
  <2>3. ListInOrder'
    BY <1>1, <1>7, <2>1
    DEF ibv_poll_cq, StartPass, EndPass, RemoveFailedConnection, ListInOrder,
        serverVars
  <2> QED
    BY <2>2, <2>3
<1> QED
  BY <1>3, <1>4, <1>5, <1>6, <1>7 DEF ServerStep

(* Every reachable state is orderly. *)
THEOREM RequestsInvariance == Spec => []TInv
<1>1. TInv /\ [Next]_vars => TInv'
  <2> SUFFICES ASSUME TInv, [Next]_vars
               PROVE  TInv'
    OBVIOUS
  <2>1. IInv'
    BY TypeStep, LockStep DEF TInv, IInv
  <2>2. CASE Next
    BY <2>1, <2>2, ClientsStayOrderly, ServerStaysOrderly DEF Next, TInv
  <2>3. CASE UNCHANGED vars
    <3>1. UNCHANGED serverVars /\ UNCHANGED clientVars /\ UNCHANGED c2s
          /\ UNCHANGED loopVars
      BY <2>3 DEF vars
    <3>2. \A b \in Clients : Orderly(b)'
      BY <3>1, TableStaysOrderly
      DEF TInv, IInv, serverVars, clientVars, QuietServer
    <3>3. ListInOrder'
      BY <3>1, ListKept DEF TInv, serverVars, loopVars
    <3> QED
      BY <2>1, <3>2, <3>3 DEF TInv
  <2> QED
    BY <2>2, <2>3
<1> QED
  BY InitOrderly, <1>1, PTL DEF Spec

(* The list and the table of queued requests, which are linked through the *)
(* same records, agree, and a pass never pops an empty list.               *)
THEOREM QueuesAlwaysAgree == Spec => []QueuesAgree
<1>1. TInv => QueuesAgree
  <2> SUFFICES ASSUME TInv
               PROVE  QueuesAgree
    OBVIOUS
  <2>1. ASSUME NEW t \in Tids
        PROVE  /\ t \in Listed => internal_q[t] # NoReq
               /\ internal_q[t] # NoReq =>
                     t \in Listed \/ waiting_fin_q[t] # NoKey
    <3>1. Owner(t) \in Clients
      BY OwnerType
    <3>2. Orderly(Owner(t))
      BY <3>1 DEF TInv
    <3> QED
      BY <3>2 DEF Orderly, QueuedRight
  <2>2. sorted_q \in Seq(Tids)
    BY DEF TInv, IInv, TypeOK, ServerTypeOK
  <2>3. \A t \in ToSet(sorted_q) : t \in Tids
    BY <2>2, Elements
  <2> QED
    BY <2>1, <2>3 DEF TInv, ListInOrder, QueuesAgree, Listed
<1> QED
  BY RequestsInvariance, <1>1, PTL

-----------------------------------------------------------------------------
(* Remote keys and locks.                                                  *)

(* The entry of m is locked for m, and m's remote key is its region's. *)
Locked(m) ==
    /\ waiting_fin_q[m.tid] = m.key
    /\ db[m.key].mr = m.rkey
    /\ IF m.op \in {"WRITE", "RDMA_RKEY_SET"}
       THEN db[m.key].num_writers = 1 /\ db[m.key].filling
       ELSE db[m.key].num_writers = 0

Free(k) == db[k].num_readers = 0 /\ db[k].num_writers = 0

(* While its connection is being removed a client's locks go one by one,   *)
(* and no handler runs that could take them for another.                   *)
PostedLocked(c, m) ==
    /\ m.op \in RdmaOps =>
          Locked(m) \/ (c = closing /\ (m.op = "WRITE" => Free(m.key)))
    /\ m.op = "FIN" => waiting_fin_q[m.tid] = m.key \/ c = closing

RepliedLocked(c, m) ==
    m.op # "GET_RESPONSE" => Locked(m) \/ c = closing

CompletedLocked(m) == waiting_fin_q[m.tid] = pending[m.tid].key

Secured(c) ==
    /\ \A m \in Posted(c) : PostedLocked(c, m)
    /\ \A m \in Replied(c) : RepliedLocked(c, m)
    /\ \A m \in Completed(c) : CompletedLocked(m)

(* An entry that a tid waits on is in the database. *)
WaitedArePresent ==
    \A t \in Tids : waiting_fin_q[t] # NoKey => db[waiting_fin_q[t]].present

(* Connections fail and are removed only when their client is gone.        *)
Closings ==
    /\ closing # NoClient => pc[closing] = "gone"
    /\ \A c \in Clients : conn[c] = "error" => pc[c] = "gone"

RInv ==
    /\ TInv /\ Closings /\ WaitedArePresent /\ ServerStaysUp
    /\ \A c \in Clients : Secured(c)

(* What the handlers make of an entry. *)
LEMMA HandledEntries ==
    ASSUME NEW e \in Entry, NEW v \in Contents
    PROVE  /\ Inserted(Opened(e), v) \in Entry
           /\ Inserted(Opened(e), v).present
           /\ LET x == Exposed(LockedWr(Opened(e)), v)
              IN  /\ x \in Entry /\ x.present /\ x.filling
                  /\ x.num_readers = e.num_readers
                  /\ x.num_writers = e.num_writers + 1
<1> DEFINE o == Opened(e)
           l == LockedWr(o)
<1>1. /\ o \in Entry /\ o.present
      /\ o.num_readers = e.num_readers /\ o.num_writers = e.num_writers
  BY DEF Opened, Entry
<1>2. /\ l \in Entry /\ l.present
      /\ l.num_readers = e.num_readers /\ l.num_writers = e.num_writers + 1
  BY <1>1 DEF LockedWr, Entry
<1> HIDE DEF o, l
<1>3. ASSUME NEW f \in Entry, f.present, NEW n \in Nat
      PROVE  Reallocated(f, n) \in Entry /\ Reallocated(f, n).present
  BY <1>3, ReallocatedProperties DEF Reallocated, Entry
<1>4. StrLen[v] \in Nat /\ StrLen[v] + 1 \in Nat
  BY LengthAssumption
<1>5. Inserted(o, v) \in Entry /\ Inserted(o, v).present
  <2> DEFINE r == Reallocated(o, StrLen[v] + 1)
  <2>1. r \in Entry /\ r.present
    BY <1>1, <1>3, <1>4
  <2>2. Inserted(o, v) = [r EXCEPT !.value = v, !.filling = FALSE]
    BY DEF Inserted
  <2> HIDE DEF r
  <2> QED
    BY <2>1, <2>2 DEF Entry
<1>6. /\ Exposed(l, v) \in Entry /\ Exposed(l, v).present
      /\ Exposed(l, v).filling
  <2> DEFINE r == Reallocated(l, StrLen[v])
  <2>1. r \in Entry /\ r.present
    BY <1>2, <1>3, <1>4
  <2>2. Exposed(l, v) = [r EXCEPT !.filling = TRUE]
    BY DEF Exposed
  <2> HIDE DEF r
  <2> QED
    BY <2>1, <2>2 DEF Entry
<1> QED
  BY <1>2, <1>5, <1>6, ExposedProperties DEF o, l

(* An entry that a tid waits on is locked, and one that two wait on is     *)
(* locked for reading.                                                     *)
LEMMA WaitedIsLocked ==
    ASSUME ServerTypeOK, LocksAreAccountedFor, NEW t \in Tids,
           NEW k, k = waiting_fin_q[t], k # NoKey
    PROVE  /\ k \in Keys /\ db[k] \in Entry /\ ~Free(k)
           /\ \A u \in Tids \ {t} :
                 waiting_fin_q[u] = k =>
                    db[k].num_writers = 0 /\ db[k].num_readers > 1
<1>1. k \in Keys /\ db[k] \in Entry
  BY DEF ServerTypeOK
<1>2. /\ db[k].num_readers \in Nat /\ db[k].num_writers \in Nat
      /\ db[k].num_readers + db[k].num_writers = Cardinality(Holders(k))
      /\ db[k].num_writers <= 1
      /\ db[k].num_writers = 1 => db[k].num_readers = 0
  BY <1>1 DEF LocksAreAccountedFor, Entry
<1>3. IsFiniteSet(Holders(k)) /\ t \in Holders(k)
  <2>1. Holders(k) \in SUBSET Tids
    BY DEF Holders
  <2> QED
    BY <2>1, TidsFinite, FS_Subset DEF Holders
<1>4. Cardinality(Holders(k)) # 0
  BY <1>3, FS_EmptySet
<1>5. ASSUME NEW u \in Tids \ {t}, waiting_fin_q[u] = k
      PROVE  db[k].num_writers = 0 /\ db[k].num_readers > 1
  <2>1. u \in Holders(k) /\ u # t
    BY <1>5 DEF Holders
  <2>2. Cardinality(Holders(k)) # 1
    BY <1>3, <2>1, FS_Singleton
  <2> QED
    BY <1>2, <1>4, <2>2
<1> QED
  BY <1>1, <1>2, <1>4, <1>5 DEF Free

-----------------------------------------------------------------------------
(* What a step for t leaves to the other tids.                             *)

Spares(t) ==
    /\ \A k \in Keys : db[k].present => db'[k].present
    /\ \A u \in Tids \ {t} :
          /\ waiting_fin_q'[u] = waiting_fin_q[u]
          /\ waiting_fin_q[u] # NoKey =>
                LET e == db[waiting_fin_q[u]]
                    f == db'[waiting_fin_q[u]]
                IN  /\ f.mr = e.mr
                    /\ f.num_writers = e.num_writers
                    /\ f.filling = e.filling
    /\ waiting_fin_q'[t] # NoKey => db'[waiting_fin_q'[t]].present

(* Giving up a wait takes a reader away where others read, and nothing     *)
(* else from them.                                                         *)
LEMMA ReleaseSpares ==
    ASSUME ServerTypeOK, LocksAreAccountedFor, NEW t \in Tids,
           NEW d \in [Keys -> Entry],
           \A k \in Keys : db[k].present => d[k].present,
           \A u \in Tids \ {t} : waiting_fin_q[u] # NoKey =>
              LET e == db[waiting_fin_q[u]]
                  f == d[waiting_fin_q[u]]
              IN  /\ f.mr = e.mr
                  /\ f.num_writers = e.num_writers
                  /\ f.filling = e.filling
                  /\ f.num_readers >= e.num_readers,
           db' = Released(d, t),
           \A u \in Tids \ {t} : waiting_fin_q'[u] = waiting_fin_q[u],
           waiting_fin_q'[t] # NoKey =>
              waiting_fin_q'[t] \in Keys /\ d[waiting_fin_q'[t]].present
    PROVE  Spares(t)
<1>1. PICK h : h = waiting_fin_q[t]
  OBVIOUS
<1>2. ASSUME NEW e \in Entry
      PROVE  /\ Unlocked(e).present = e.present
             /\ Unlocked(e).mr = e.mr /\ Unlocked(e).filling = e.filling
             /\ e.num_readers > 0 =>
                   Unlocked(e).num_writers = e.num_writers
  BY DEF Unlocked, Entry
<1>3. \A k \in Keys :
         /\ db'[k].present = d[k].present
         /\ k # h => db'[k] = d[k]
         /\ k = h => db'[k] = Unlocked(d[k])
  <2>1. CASE h = NoKey
    BY <1>1, <2>1, ClientsAssumption DEF Released
  <2>2. CASE h # NoKey
    <3>1. h \in Keys
      BY <1>1, <2>2 DEF ServerTypeOK
    <3>2. db' = [d EXCEPT ![h] = Unlocked(@)]
      BY <1>1, <2>2 DEF Released
    <3> QED
      BY <1>2, <3>1, <3>2
  <2> QED
    BY <2>1, <2>2
<1>4. ASSUME NEW u \in Tids \ {t}, NEW k, k = waiting_fin_q[u], k # NoKey
      PROVE  /\ db'[k].mr = db[k].mr
             /\ db'[k].num_writers = db[k].num_writers
             /\ db'[k].filling = db[k].filling
  <2>1. /\ k \in Keys /\ d[k] \in Entry /\ db[k] \in Entry
        /\ d[k].mr = db[k].mr /\ d[k].num_writers = db[k].num_writers
        /\ d[k].filling = db[k].filling
        /\ d[k].num_readers >= db[k].num_readers
    BY <1>4 DEF ServerTypeOK
  <2>2. CASE k # h
    BY <1>3, <2>1, <2>2
  <2>3. CASE k = h
    <3>1. db[k].num_readers > 1
      BY <1>1, <1>4, <2>3, WaitedIsLocked
    <3>2. d[k].num_readers > 0
      BY <2>1, <3>1 DEF Entry
    <3> QED
      BY <1>2, <1>3, <2>1, <2>3, <3>2
  <2> QED
    BY <2>2, <2>3
<1> QED
  BY <1>3, <1>4 DEF Spares

(* A step that changes neither the database nor a wait spares all. *)
LEMMA NothingTouched ==
    ASSUME UNCHANGED <<db, waiting_fin_q>>, WaitedArePresent, NEW t \in Tids
    PROVE  Spares(t)
  BY DEF Spares, WaitedArePresent

(* What a reply with a remote key says is true when it is posted. *)
AnswersLocked(t) ==
    \/ UNCHANGED s2c
    \/ \E m \in Reply : /\ m.tid = t /\ server_post_send(m)
                        /\ m.op # "GET_RESPONSE" => Locked(m)'

(* handle_set_request takes no entry that anyone waits on. *)
LEMMA SetIsSecure ==
    ASSUME ServerTypeOK, LocksAreAccountedFor, WaitedArePresent,
           NEW t \in Tids, NEW k \in Keys, NEW v \in Contents,
           NEW p \in Contents, NEW q, handle_set_request(t, k, v, p, q)
    PROVE  Spares(t) /\ AnswersLocked(t)
<1>1. db \in [Keys -> Entry] /\ db[k] \in Entry
      /\ waiting_fin_q \in [Tids -> Keys \cup {NoKey}]
  BY DEF ServerTypeOK
<1>2. CASE SetBlocked(t, k, v, q)
  BY <1>2, NothingTouched DEF SetBlocked, push_pending_request, AnswersLocked
<1>3. ASSUME CanLockWr(db[k]), NEW e \in Entry, e.present,
             db' = Released([db EXCEPT ![k] = e], t),
             \/ waiting_fin_q' = [waiting_fin_q EXCEPT ![t] = NoKey]
             \/ waiting_fin_q' = [waiting_fin_q EXCEPT ![t] = k]
      PROVE  Spares(t) /\ db'[k] = e
  <2> DEFINE d == [db EXCEPT ![k] = e]
  <2>1. \A u \in Tids : waiting_fin_q[u] # NoKey => waiting_fin_q[u] # k
    BY <1>3, WaitedIsLocked DEF CanLockWr, Free
  <2>2. d \in [Keys -> Entry] /\ d[k] = e
        /\ \A j \in Keys \ {k} : d[j] = db[j]
    BY <1>1, <1>3
  <2>3. db' = Released(d, t)
    BY <1>3
  <2>4. \A j \in Keys : db[j].present => d[j].present
    BY <1>3, <2>2
  <2>5. /\ \A u \in Tids \ {t} : waiting_fin_q'[u] = waiting_fin_q[u]
        /\ waiting_fin_q'[t] # NoKey =>
              waiting_fin_q'[t] \in Keys /\ d[waiting_fin_q'[t]].present
    BY <1>1, <1>3, <2>2
  <2> HIDE DEF d
  <2>6. ASSUME NEW u \in Tids \ {t}, NEW j, j = waiting_fin_q[u], j # NoKey
        PROVE  /\ d[j].mr = db[j].mr
               /\ d[j].num_writers = db[j].num_writers
               /\ d[j].filling = db[j].filling
               /\ d[j].num_readers >= db[j].num_readers
    <3>1. j \in Keys \ {k}
      BY <1>1, <2>1, <2>6
    <3>2. d[j] = db[j] /\ db[j] \in Entry
      BY <1>1, <2>2, <3>1
    <3> QED
      BY <3>2 DEF Entry
  <2>7. Spares(t)
    BY <2>2, <2>3, <2>4, <2>5, <2>6, ReleaseSpares
  <2>8. db'[k] = e
    <3>1. CASE waiting_fin_q[t] = NoKey
      BY <2>2, <2>3, <3>1 DEF Released
    <3>2. CASE waiting_fin_q[t] # NoKey
      BY <1>1, <2>1, <2>2, <2>3, <3>2 DEF Released
    <3> QED
      BY <3>1, <3>2
  <2> QED
    BY <2>7, <2>8
<1>4. CASE SetEager(t, k, v, p, q)
  <2> DEFINE e == Inserted(Opened(db[k]), p)
  <2>1. e \in Entry /\ e.present
    BY <1>1, HandledEntries
  <2>2. /\ CanLockWr(db[k]) /\ UNCHANGED s2c
        /\ db' = Released([db EXCEPT ![k] = e], t)
        /\ waiting_fin_q' = [waiting_fin_q EXCEPT ![t] = NoKey]
    BY <1>1, <1>4 DEF SetEager, remove_server_pending_request
  <2> HIDE DEF e
  <2> QED
    BY <1>3, <2>1, <2>2 DEF AnswersLocked
<1>5. CASE SetRendezvous(t, k, v, q)
  <2>1. PICK e : e = Exposed(LockedWr(Opened(db[k])), v)
    OBVIOUS
  <2>2. PICK m : m = Message("RDMA_RKEY_SET", t, k, Empty, e.mr)
    OBVIOUS
  <2>3. /\ CanLockWr(db[k]) /\ server_post_send(m)
        /\ mark_rdma_fin_required(t, k, [db EXCEPT ![k] = e], q)
    BY <1>5, <2>1, <2>2 DEF SetRendezvous
  <2>4. e \in Entry /\ e.present /\ e.filling /\ e.num_writers = 1
    <3>1. /\ e \in Entry /\ e.present /\ e.filling
          /\ e.num_writers = db[k].num_writers + 1
      BY <1>1, <2>1, HandledEntries
    <3> QED
      BY <2>3, <3>1 DEF CanLockWr
  <2>5. /\ db' = Released([db EXCEPT ![k] = e], t)
        /\ waiting_fin_q' = [waiting_fin_q EXCEPT ![t] = k]
    BY <2>3 DEF mark_rdma_fin_required, Released
  <2>6. Spares(t) /\ db'[k] = e
    BY <1>3, <2>3, <2>4, <2>5
  <2>7. /\ m \in Reply /\ m.tid = t /\ m.key = k /\ m.rkey = e.mr
        /\ m.op = "RDMA_RKEY_SET"
    BY <2>2, <2>4 DEF Message, Reply, ReplyOps, Contents, Entry
  <2>8. Locked(m)'
    BY <1>1, <2>4, <2>5, <2>6, <2>7 DEF Locked
  <2> QED
    BY <2>3, <2>6, <2>7, <2>8 DEF AnswersLocked
<1> QED
  BY <1>2, <1>4, <1>5 DEF handle_set_request

(* handle_get_request adds a reader beside readers. *)
LEMMA GetIsSecure ==
    ASSUME ServerTypeOK, LocksAreAccountedFor, WaitedArePresent,
           NEW t \in Tids, NEW k \in Keys, NEW q,
           handle_get_request(t, k, q)
    PROVE  Spares(t) /\ AnswersLocked(t)
<1>1. db \in [Keys -> Entry] /\ db[k] \in Entry
      /\ waiting_fin_q \in [Tids -> Keys \cup {NoKey}]
  BY DEF ServerTypeOK
<1>2. CASE GetBlocked(t, k, q)
  BY <1>2, NothingTouched DEF GetBlocked, push_pending_request, AnswersLocked
<1>3. ASSUME NEW e \in Entry, e.present, e.mr = db[k].mr,
             e.num_writers = db[k].num_writers, e.filling = db[k].filling,
             e.num_readers >= db[k].num_readers,
             db' = Released([db EXCEPT ![k] = e], t),
             \/ waiting_fin_q' = [waiting_fin_q EXCEPT ![t] = NoKey]
             \/ waiting_fin_q' = [waiting_fin_q EXCEPT ![t] = k]
      PROVE  Spares(t)
  <2> DEFINE d == [db EXCEPT ![k] = e]
  <2>1. d \in [Keys -> Entry] /\ d[k] = e
        /\ \A j \in Keys \ {k} : d[j] = db[j]
    BY <1>1, <1>3
  <2>2. db' = Released(d, t)
    BY <1>3
  <2>3. \A j \in Keys : db[j].present => d[j].present
    BY <1>3, <2>1
  <2>4. /\ \A u \in Tids \ {t} : waiting_fin_q'[u] = waiting_fin_q[u]
        /\ waiting_fin_q'[t] # NoKey =>
              waiting_fin_q'[t] \in Keys /\ d[waiting_fin_q'[t]].present
    BY <1>1, <1>3, <2>1
  <2> HIDE DEF d
  <2>5. ASSUME NEW j \in Keys
        PROVE  /\ d[j].mr = db[j].mr
               /\ d[j].num_writers = db[j].num_writers
               /\ d[j].filling = db[j].filling
               /\ d[j].num_readers >= db[j].num_readers
    <3>1. d[j] = IF j = k THEN e ELSE db[j]
      BY <2>1
    <3>2. db[j] \in Entry
      BY <1>1
    <3> QED
      BY <1>3, <3>1, <3>2 DEF Entry
  <2>6. \A u \in Tids : waiting_fin_q[u] # NoKey => waiting_fin_q[u] \in Keys
    BY <1>1
  <2> QED
    BY <2>1, <2>2, <2>3, <2>4, <2>5, <2>6, ReleaseSpares
<1>4. CASE GetEager(t, k, q)
  <2>5. PICK w \in EagerContent(db[k]) :
             server_post_send(Message("GET_RESPONSE", t, k, w, 0))
    BY <1>4 DEF GetEager
  <2>6. w \in Contents \cup {Torn}
    BY <1>1, <2>5 DEF EagerContent, Content, Entry
  <2>1. PICK m : m = Message("GET_RESPONSE", t, k, w, 0)
    OBVIOUS
  <2> DEFINE e == Opened(db[k])
  <2>2. /\ e \in Entry /\ e.present /\ e.mr = db[k].mr
        /\ e.num_writers = db[k].num_writers /\ e.filling = db[k].filling
        /\ e.num_readers >= db[k].num_readers
    <3>1. /\ e \in Entry /\ e.present /\ e.mr = db[k].mr
          /\ e.num_writers = db[k].num_writers
          /\ e.filling = db[k].filling
          /\ e.num_readers = db[k].num_readers
      BY <1>1 DEF Opened, Entry
    <3>2. db[k].num_readers \in Nat
      BY <1>1 DEF Entry
    <3> HIDE DEF e
    <3> QED
      BY <3>1, <3>2
  <2>3. /\ db' = Released([db EXCEPT ![k] = e], t)
        /\ waiting_fin_q' = [waiting_fin_q EXCEPT ![t] = NoKey]
        /\ server_post_send(m)
    BY <1>1, <1>4, <2>1, <2>5 DEF GetEager, remove_server_pending_request
  <2>4. m \in Reply /\ m.tid = t /\ m.op = "GET_RESPONSE"
    BY <2>1, <2>6 DEF Message, Reply, ReplyOps
  <2> HIDE DEF e
  <2> QED
    BY <1>3, <2>2, <2>3, <2>4 DEF AnswersLocked
<1>5. CASE GetRendezvous(t, k, q)
  <2>1. PICK m : m = Message("RDMA_RKEY_GET", t, k, Empty, db[k].mr)
    OBVIOUS
  <2>2. PICK e : e = LockedRd(Opened(db[k]))
    OBVIOUS
  <2>3. /\ e \in Entry /\ e.present /\ e.mr = db[k].mr
        /\ e.num_writers = db[k].num_writers /\ e.filling = db[k].filling
        /\ e.num_readers = db[k].num_readers + 1
        /\ e.num_readers >= db[k].num_readers /\ e.num_readers > 0
    <3>1. PICK o : o = Opened(db[k])
      OBVIOUS
    <3>2. /\ o \in Entry /\ o.present /\ o.mr = db[k].mr
          /\ o.num_writers = db[k].num_writers
          /\ o.filling = db[k].filling
          /\ o.num_readers = db[k].num_readers
      BY <1>1, <3>1 DEF Opened, Entry
    <3>3. /\ e \in Entry /\ e.present /\ e.mr = o.mr
          /\ e.num_writers = o.num_writers /\ e.filling = o.filling
          /\ e.num_readers = o.num_readers + 1
      BY <2>2, <3>1, <3>2 DEF LockedRd, Entry
    <3>4. db[k].num_readers \in Nat
      BY <1>1 DEF Entry
    <3> QED
      BY <3>2, <3>3, <3>4
  <2>4. /\ db' = Released([db EXCEPT ![k] = e], t)
        /\ waiting_fin_q' = [waiting_fin_q EXCEPT ![t] = k]
        /\ server_post_send(m) /\ db[k].num_writers = 0
    BY <1>1, <1>5, <2>1, <2>2 DEF GetRendezvous, CanLockRd
  <2>5. Spares(t)
    BY <1>3, <2>3, <2>4
  <2>6. /\ m \in Reply /\ m.tid = t /\ m.key = k /\ m.rkey = db[k].mr
        /\ m.op = "RDMA_RKEY_GET"
    BY <1>1, <2>1 DEF Message, Reply, ReplyOps, Contents, Entry
  <2>7. db'[k].mr = db[k].mr /\ db'[k].num_writers = 0
    <3>1. db'[k] = e \/ db'[k] = Unlocked(e)
      BY <1>1, <2>3, <2>4 DEF Released
    <3> QED
      BY <2>3, <2>4, <3>1 DEF Unlocked, Entry
  <2>8. Locked(m)'
    BY <1>1, <2>4, <2>6, <2>7 DEF Locked
  <2> QED
    BY <2>4, <2>5, <2>6, <2>8 DEF AnswersLocked
<1> QED
  BY <1>2, <1>4, <1>5 DEF handle_get_request

-----------------------------------------------------------------------------
(* Secured slots.                                                          *)

(* A message keeps its lock in a step that is for another tid. *)
LEMMA StillLocked ==
    ASSUME NEW t, Spares(t), NEW m, m.tid \in Tids \ {t}, m.key \in Keys,
           Locked(m)
    PROVE  Locked(m)'
<1>1. waiting_fin_q[m.tid] = m.key /\ m.key # NoKey
  BY ClientsAssumption DEF Locked
<1>2. /\ waiting_fin_q'[m.tid] = m.key
      /\ db'[m.key].mr = db[m.key].mr
      /\ db'[m.key].num_writers = db[m.key].num_writers
      /\ db'[m.key].filling = db[m.key].filling
  BY <1>1 DEF Spares
<1> QED
  BY <1>2 DEF Locked

(* A slot stays secured if what is new in it is.  Its old messages are not *)
(* for the tid of the step, and if its connection is being removed no      *)
(* entry is locked.                                                        *)
LEMMA SlotStaysSecured ==
    ASSUME TypeOK, NEW t, Spares(t), NEW b \in Clients,
           Orderly(b), Secured(b),
           b = closing =>
              /\ closing' = closing
              /\ \A k \in Keys : Free(k) => Free(k)',
           \A m \in Posted(b)' :
              (m \in Posted(b) /\ m.tid # t) \/ PostedLocked(b, m)',
           \A m \in Replied(b)' :
              (m \in Replied(b) /\ m.tid # t) \/ RepliedLocked(b, m)',
           \A m \in Completed(b)' :
              \/ /\ m \in Completed(b) /\ m.tid # t
                 /\ pending'[m.tid].key = pending[m.tid].key
              \/ CompletedLocked(m)'
    PROVE  Secured(b)'
<1>1. ASSUME NEW m \in Posted(b), m.tid # t
      PROVE  PostedLocked(b, m)'
  <2>1. PostedLocked(b, m) /\ m \in WorkRequest
    BY PlacedTids DEF Secured
  <2>2. CASE m.op \notin RdmaOps \cup {"FIN"}
    BY <2>2 DEF PostedLocked
  <2>3. CASE m.op \in RdmaOps \cup {"FIN"}
    <3>1. m.tid \in Tids \ {t} /\ m.key \in Keys
      BY <1>1, <2>1, <2>3, WorkRequestFields DEF RdmaOps
    <3>2. Locked(m) => Locked(m)'
      BY <3>1, StillLocked
    <3>3. waiting_fin_q'[m.tid] = waiting_fin_q[m.tid]
      BY <3>1 DEF Spares
    <3> QED
      BY <2>1, <3>1, <3>2, <3>3 DEF PostedLocked
  <2> QED
    BY <2>2, <2>3
<1>2. ASSUME NEW m \in Replied(b), m.tid # t
      PROVE  RepliedLocked(b, m)'
  <2>1. RepliedLocked(b, m) /\ m \in Reply
    BY PlacedTids DEF Secured
  <2>2. m.tid \in Tids \ {t} /\ m.key \in Keys
    BY <1>2, <2>1 DEF Reply
  <2> QED
    BY <2>1, <2>2, StillLocked DEF RepliedLocked
<1>3. ASSUME NEW m \in Completed(b), m.tid # t,
             pending'[m.tid].key = pending[m.tid].key
      PROVE  CompletedLocked(m)'
  <2>1. CompletedLocked(m) /\ m.tid \in Tids \ {t}
    BY <1>3, PlacedTids DEF Secured, Completion
  <2> QED
    BY <1>3, <2>1 DEF CompletedLocked, Spares
<1> QED
  BY <1>1, <1>2, <1>3 DEF Secured

(* The same for a step that touches no entry and no wait. *)
LEMMA QuietStaysSecured ==
    ASSUME UNCHANGED <<db, waiting_fin_q>>, NEW b \in Clients, Secured(b),
           b = closing => closing' = closing,
           \A m \in Posted(b)' : m \in Posted(b) \/ PostedLocked(b, m)',
           \A m \in Replied(b)' : m \in Replied(b) \/ RepliedLocked(b, m)',
           \A m \in Completed(b)' :
              \/ m \in Completed(b) /\ pending'[m.tid].key = pending[m.tid].key
              \/ CompletedLocked(m)'
    PROVE  Secured(b)'
<1>1. \A m \in Posted(b) : PostedLocked(b, m)'
  BY DEF Secured, PostedLocked, Locked, Free
<1>2. \A m \in Replied(b) : RepliedLocked(b, m)'
  BY DEF Secured, RepliedLocked, Locked
<1>3. \A m \in Completed(b) :
        pending'[m.tid].key = pending[m.tid].key => CompletedLocked(m)'
  BY DEF Secured, CompletedLocked
<1> QED
  BY <1>1, <1>2, <1>3 DEF Secured

(* Only a slot with a running client has completions, and it is not being  *)
(* removed.                                                                *)
LEMMA RunningSlots ==
    ASSUME RInv, NEW c \in Clients
    PROVE  /\ Completed(c) # {} => Alive(c)
           /\ Alive(c) => c # closing
<1>1. ~Alive(c) => Completed(c) = {}
  BY NoElements DEF RInv, TInv, Orderly, SlotIsClean, Completed
<1>2. Alive(c) => c # closing
  BY LoopAssumption DEF RInv, Closings, Alive
<1> QED
  BY <1>1, <1>2

(* A step of the client c that touches no entry and no wait. *)
ClientOnly(c) ==
    /\ UNCHANGED <<db, waiting_fin_q, closing>>
    /\ \A b \in Clients \ {c} :
          /\ c2s'[b] = c2s[b] /\ s2c'[b] = s2c[b] /\ wcq'[b] = wcq[b]
    /\ \A u \in Tids : Owner(u) # c => pending'[u] = pending[u]

(* It leaves the other slots secured. *)
LEMMA ClientOnlySecured ==
    ASSUME RInv, NEW c \in Clients, ClientOnly(c), Secured(c)'
    PROVE  \A b \in Clients : Secured(b)'
<1>1. ASSUME NEW b \in Clients \ {c}
      PROVE  Secured(b)'
  <2>1. Secured(b) /\ Orderly(b) /\ TypeOK
    BY DEF RInv, TInv, IInv
  <2>2. /\ Posted(b)' = Posted(b) /\ Replied(b)' = Replied(b)
        /\ Completed(b)' = Completed(b)
    BY DEF ClientOnly, Posted, Replied, Completed
  <2>3. \A m \in Completed(b) : m.tid \in Tids /\ Owner(m.tid) = b
    BY <2>1, PlacedTids DEF Session
  <2>4. \A m \in Completed(b) : pending'[m.tid] = pending[m.tid]
    BY <2>3 DEF ClientOnly
  <2> QED
    BY <2>1, <2>2, <2>4, QuietStaysSecured DEF ClientOnly
<1> QED
  BY <1>1

(* The message m is posted, and nothing else changes but the request t,    *)
(* which has not completed.                                                *)
LEMMA PostingSecured ==
    ASSUME RInv, NEW c \in Clients, NEW m \in WorkRequest, Post(c, m),
           UNCHANGED <<db, waiting_fin_q, closing>>, PostedLocked(c, m)',
           \A b \in Clients \ {c} : s2c'[b] = s2c[b] /\ wcq'[b] = wcq[b],
           \A n \in Replied(c)' : n \in Replied(c),
           \A n \in Completed(c)' : n \in Completed(c),
           NEW t \in Tids, Owner(t) = c,
           \A n \in Completed(c)' : n.tid # t,
           \A u \in Tids \ {t} : pending'[u] = pending[u]
    PROVE  \A b \in Clients : Secured(b)'
<1>1. /\ Secured(c) /\ Orderly(c) /\ TypeOK /\ c2s[c] \in Seq(WorkRequest)
      /\ c2s \in [Clients -> Seq(WorkRequest)]
  BY DEF RInv, TInv, IInv, TypeOK, ClientTypeOK
<1>2. /\ c2s'[c] = Append(c2s[c], m)
      /\ \A b \in Clients \ {c} : c2s'[b] = c2s[b]
  BY <1>1 DEF Post
<1>3. Posted(c)' = Posted(c) \cup {m}
  BY <1>1, <1>2, Added DEF Posted
<1>4. \A n \in Completed(c)' : pending'[n.tid] = pending[n.tid]
  BY <1>1, PlacedTids DEF Session
<1>5. Secured(c)'
  BY <1>1, <1>3, <1>4, QuietStaysSecured
<1>6. ClientOnly(c)
  BY <1>2 DEF ClientOnly
<1> QED
  BY <1>5, <1>6, ClientOnlySecured

(* kv_set and kv_get. *)
LEMMA CallsStaySecured ==
    ASSUME RInv, NEW c \in Clients,
           \/ \E k \in Keys, v \in Values : kv_set(c, k, v)
           \/ \E k \in Keys : kv_get(c, k)
    PROVE  \A b \in Clients : Secured(b)'
<1>1. TypeOK /\ Orderly(c) /\ pending \in [Tids -> ClientRequest \cup {NoReq}]
  BY DEF RInv, TInv, IInv, TypeOK, ClientTypeOK
<1>2. PICK t : t = NextTid(c)
  OBVIOUS
<1>3. /\ get_new_tid(c) /\ UNCHANGED <<db, waiting_fin_q, closing, s2c, wcq>>
  BY DEF kv_set, kv_get, serverVars, loopVars
<1>4. t \in Session(c, tid'[c]) /\ t \notin TidsIn(wcq[c]) /\ t \in Tids
  BY <1>1, <1>2, <1>3, NextTidIsFresh, NextTidType
<1>5. PICK m \in WorkRequest : Post(c, m) /\ m.op \in Requests
  <2>1. ASSUME NEW k \in Keys, NEW v \in Values, kv_set(c, k, v)
        PROVE  \E m \in WorkRequest : Post(c, m) /\ m.op \in Requests
    <3>1. v \in Contents /\ 0 \in Nat
      BY DEF Contents
    <3>2. Message("SET", t, k, v, 0) \in WorkRequest
      BY <1>4, <3>1, MessageType DEF SendOps
    <3> QED
      BY <1>2, <2>1, <3>2 DEF kv_set, Message, Requests
  <2>2. ASSUME NEW k \in Keys, kv_get(c, k)
        PROVE  \E m \in WorkRequest : Post(c, m) /\ m.op \in Requests
    <3>1. Empty \in Contents /\ 0 \in Nat
      BY DEF Contents
    <3>2. Message("GET", t, k, Empty, 0) \in WorkRequest
      BY <1>4, <3>1, MessageType DEF SendOps
    <3> QED
      BY <1>2, <2>2, <3>2 DEF kv_get, Message, Requests
  <2> QED
    BY <2>1, <2>2
<1>6. PostedLocked(c, m)'
  BY <1>5 DEF PostedLocked, Requests, RdmaOps
<1>7. \A u \in Tids \ {t} : pending'[u] = pending[u]
  BY <1>1, <1>2 DEF kv_set, kv_get
<1>8. \A n \in Completed(c)' : n \in Completed(c) /\ n.tid # t
  BY <1>3, <1>4 DEF TidsIn, Completed
<1>9. \A n \in Replied(c)' : n \in Replied(c)
  BY <1>3 DEF Replied
<1>10. Owner(t) = c
  BY <1>4 DEF Session
<1> QED
  BY <1>3, <1>4, <1>5, <1>6, <1>7, <1>8, <1>9, <1>10, PostingSecured

(* The end of a client posts nothing but its shutdown message. *)
LEMMA ShutdownIsPosted ==
    ASSUME TypeOK, NEW c \in Clients, Orderly(c), CloseDone(c) \/ ClientDie(c)
    PROVE  \A m \in Posted(c)' : m \in Posted(c) \/ m = Shutdown
<1>1. c2s[c] \in Seq(WorkRequest) /\ c2s \in [Clients -> Seq(WorkRequest)]
  BY DEF TypeOK, ClientTypeOK
<1>2. CASE CloseDone(c)
  <2>1. PICK p : p = Append(c2s[c], Shutdown)
    OBVIOUS
  <2>2. /\ p \in Seq(WorkRequest)
        /\ ToSet(p) = Posted(c) \cup {Shutdown}
    BY <1>1, <2>1, ShutdownType, Added DEF Posted
  <2>3. PICK n \in Nat : c2s'[c] \in Surviving(p, n)
    BY <1>1, <1>2, <2>1, CloseSurvives
  <2>4. Distinct(p)
    <3>1. Shutdown \notin Posted(c)
      BY <1>1, <1>2 DEF Orderly, SlotIsClean, CloseDone
    <3>2. Shutdown.tid \notin TidsIn(c2s[c])
      <4>1. \A m \in Posted(c) : m = Shutdown \/ m.tid \in Tids
        BY <1>1, PlacedTids DEF Session
      <4>2. Shutdown.tid \notin Tids
        BY LoopAssumption DEF Shutdown, Tids
      <4> QED
        BY <3>1, <4>1, <4>2 DEF TidsIn, Posted
    <3> QED
      BY <1>1, <2>1, <3>2, ShutdownType, Added DEF Orderly, Apart
  <2>5. ToSet(c2s'[c]) \subseteq ToSet(p)
    BY <1>1, <2>2, <2>3, <2>4, SurvivingElements
  <2> QED
    BY <2>2, <2>5 DEF Posted
<1>3. CASE ClientDie(c)
  <2>1. PICK n \in Nat : c2s'[c] \in Surviving(c2s[c], n)
    BY <1>1, <1>3, DieSurvives
  <2>2. Distinct(c2s[c])
    BY <1>1 DEF Orderly, Apart
  <2> QED
    BY <1>1, <2>1, <2>2, SurvivingElements DEF Posted
<1> QED
  BY <1>2, <1>3

(* A get that returns, a close, and the end of a client. *)
LEMMA EndsStaySecured ==
    ASSUME RInv, NEW c \in Clients,
           GetReturn(c) \/ kv_close(c) \/ CloseDone(c) \/ ClientDie(c)
    PROVE  \A b \in Clients : Secured(b)'
<1>1. /\ TypeOK /\ Orderly(c) /\ Secured(c)
      /\ pending \in [Tids -> ClientRequest \cup {NoReq}]
      /\ c2s[c] \in Seq(WorkRequest)
      /\ wcq \in [Clients -> Seq(Completion)]
      /\ c2s \in [Clients -> Seq(WorkRequest)]
  BY DEF RInv, TInv, IInv, TypeOK, ClientTypeOK
<1>2. UNCHANGED <<db, waiting_fin_q, closing, s2c>>
  BY DEF GetReturn, kv_close, CloseDone, ClientDie, serverVars, loopVars
<1>3. CASE GetReturn(c) \/ kv_close(c)
  <2>1. UNCHANGED <<c2s, wcq>>
    BY <1>3 DEF GetReturn, kv_close
  <2>2. PICK t : t = <<c, tid[c]>>
    OBVIOUS
  <2>3. \A u \in Tids :
          pending'[u] = pending[u] \/ (u = t /\ pending[t].done)
    BY <1>1, <1>3, <2>2 DEF GetReturn, kv_close
  <2>4. ASSUME NEW n \in Completed(c)
        PROVE  pending'[n.tid] = pending[n.tid]
    <3>1. Alive(c)
      BY <2>4, RunningSlots
    <3>2. Undone(n.tid) /\ n.tid \in Tids
      BY <1>1, <2>4, <3>1, PlacedTids DEF Orderly, CompletedRight, Session
    <3> QED
      BY <2>3, <3>2 DEF Undone
  <2>5. \A u \in Tids : Owner(u) # c => pending'[u] = pending[u]
    BY <2>2, <2>3 DEF Owner
  <2>6. ClientOnly(c)
    BY <1>2, <2>1, <2>5 DEF ClientOnly
  <2>7. Secured(c)'
    BY <1>1, <1>2, <2>1, <2>4, QuietStaysSecured
    DEF Posted, Replied, Completed
  <2> QED
    BY <2>6, <2>7, ClientOnlySecured
<1>4. CASE CloseDone(c) \/ ClientDie(c)
  <2>1. \A b \in Clients \ {c} : c2s'[b] = c2s[b] /\ wcq'[b] = wcq[b]
    BY <1>1, <1>4 DEF CloseDone, ClientDie
  <2>2. \A u \in Tids : Owner(u) # c => pending'[u] = pending[u]
    BY <1>4 DEF CloseDone, ClientDie
  <2>3. \A m \in Posted(c)' : m \in Posted(c) \/ m = Shutdown
    BY <1>1, <1>4, ShutdownIsPosted
  <2>4. PostedLocked(c, Shutdown)'
    BY DEF PostedLocked, Shutdown, RdmaOps
  <2>5. \A n \in Completed(c)' :
          n \in Completed(c) /\ pending'[n.tid] = pending[n.tid]
    BY <1>1, <1>4, NoElements DEF CloseDone, ClientDie, Completed
  <2>6. Secured(c)'
    BY <1>1, <1>2, <2>3, <2>4, <2>5, QuietStaysSecured DEF Replied
  <2>7. ClientOnly(c)
    BY <1>2, <2>1, <2>2 DEF ClientOnly
  <2> QED
    BY <2>6, <2>7, ClientOnlySecured
<1> QED
  BY <1>3, <1>4

(* What a client makes of a remote key or of a completion is as locked as  *)
(* they were.                                                              *)
LEMMA PollStaysSecured ==
    ASSUME RInv, NEW c \in Clients, ClientPoll(c)
    PROVE  \A b \in Clients : Secured(b)'
<1>1. /\ TypeOK /\ Orderly(c) /\ Secured(c)
      /\ pending \in [Tids -> ClientRequest \cup {NoReq}]
      /\ s2c \in [Clients -> Seq(Reply)]
      /\ wcq \in [Clients -> Seq(Completion)]
      /\ c2s \in [Clients -> Seq(WorkRequest)]
      /\ Distinct(s2c[c]) /\ Distinct(wcq[c])
      /\ TidsIn(s2c[c]) \cap TidsIn(wcq[c]) = {}
  BY DEF RInv, TInv, IInv, TypeOK, ClientTypeOK, ServerTypeOK, Orderly, Apart
<1>2. UNCHANGED <<db, waiting_fin_q, closing>> /\ Alive(c)
  BY DEF ClientPoll, client_handle_get_response,
     client_handle_recv_rdma_rkey_get, client_handle_recv_rdma_rkey_set,
     RdmaReadDone, RdmaWriteDone, TakeReply, TakeCompletion, serverVars,
     loopVars
<1>3. c # closing
  BY <1>2, RunningSlots
<1>4. ASSUME s2c[c] # <<>>, s2c' = [s2c EXCEPT ![c] = Tail(@)],
             NEW r, r = Head(s2c[c])
      PROVE  /\ r \in Replied(c) /\ r \in Reply /\ r.tid \in Tids
             /\ Owner(r.tid) = c
             /\ \A n \in Completed(c) : n.tid # r.tid
             /\ \A n \in Replied(c)' : n \in Replied(c)
             /\ \A b \in Clients \ {c} : s2c'[b] = s2c[b]
  <2>1. /\ s2c'[c] = Tail(s2c[c])
        /\ \A b \in Clients \ {c} : s2c'[b] = s2c[b]
    BY <1>1, <1>4
  <2>2. r \in Replied(c) /\ Without(s2c[c], Tail(s2c[c]), r)
    BY <1>1, <1>4, HeadTaken DEF Replied
  <2>3. r \in Reply /\ r.tid \in Tids /\ Owner(r.tid) = c
    BY <1>1, <2>2, PlacedTids DEF Session
  <2>4. r.tid \in TidsIn(s2c[c])
    BY <2>2 DEF TidsIn, Replied
  <2>5. \A n \in Completed(c) : n.tid # r.tid
    BY <1>1, <2>4 DEF TidsIn, Completed
  <2> QED
    BY <2>1, <2>2, <2>3, <2>5 DEF Without, Replied
<1>5. CASE client_handle_get_response(c)
  <2>1. PICK r : r = Head(s2c[c])
    OBVIOUS
  <2>2. /\ s2c[c] # <<>> /\ s2c' = [s2c EXCEPT ![c] = Tail(@)]
        /\ UNCHANGED <<c2s, wcq>>
        /\ \A u \in Tids \ {r.tid} : pending'[u] = pending[u]
    BY <1>1, <1>5, <2>1 DEF client_handle_get_response, TakeReply
  <2>3. /\ r.tid \in Tids /\ Owner(r.tid) = c
        /\ \A n \in Completed(c) : n.tid # r.tid
        /\ \A n \in Replied(c)' : n \in Replied(c)
        /\ \A b \in Clients \ {c} : s2c'[b] = s2c[b]
    BY <1>4, <2>1, <2>2
  <2>4. \A n \in Completed(c)' :
          n \in Completed(c) /\ pending'[n.tid] = pending[n.tid]
    BY <1>1, <2>2, <2>3, PlacedTids DEF Session, Completed
  <2>5. Secured(c)'
    BY <1>1, <1>2, <2>2, <2>3, <2>4, QuietStaysSecured DEF Posted
  <2>6. ClientOnly(c)
    BY <1>2, <2>2, <2>3 DEF ClientOnly
  <2> QED
    BY <2>5, <2>6, ClientOnlySecured
<1>6. CASE \/ client_handle_recv_rdma_rkey_get(c)
           \/ client_handle_recv_rdma_rkey_set(c)
  <2>1. PICK r : r = Head(s2c[c])
    OBVIOUS
  <2>2. /\ s2c[c] # <<>> /\ s2c' = [s2c EXCEPT ![c] = Tail(@)]
        /\ UNCHANGED <<pending, wcq>>
    BY <1>6
    DEF client_handle_recv_rdma_rkey_get, client_handle_recv_rdma_rkey_set,
        TakeReply, clientVars
  <2>3. /\ r \in Replied(c) /\ r \in Reply /\ r.tid \in Tids
        /\ Owner(r.tid) = c
        /\ \A n \in Completed(c) : n.tid # r.tid
        /\ \A n \in Replied(c)' : n \in Replied(c)
        /\ \A b \in Clients \ {c} : s2c'[b] = s2c[b]
    BY <1>4, <2>1, <2>2
  <2>4. r.key \in Keys /\ r.rkey \in Nat
    BY <2>3 DEF Reply
  <2>5. r.op # "GET_RESPONSE" => Locked(r)
    BY <1>1, <1>3, <2>3 DEF Secured, RepliedLocked
  <2>6. PICK m \in WorkRequest : Post(c, m) /\ PostedLocked(c, m)'
    <3>1. CASE client_handle_recv_rdma_rkey_get(c)
      <4>1. PICK m : m = Message("READ", r.tid, r.key, Empty, r.rkey)
        OBVIOUS
      <4>2. m \in WorkRequest
        BY <2>3, <2>4, <4>1, MessageType DEF RdmaOps, Contents
      <4>3. Post(c, m) /\ r.op = "RDMA_RKEY_GET"
        BY <2>1, <3>1, <4>1
        DEF client_handle_recv_rdma_rkey_get, TakeReply
      <4>4. /\ m.tid = r.tid /\ m.key = r.key /\ m.rkey = r.rkey
            /\ m.op = "READ"
        BY <4>1 DEF Message
      <4>5. Locked(m)'
        BY <1>2, <2>5, <4>3, <4>4 DEF Locked
      <4>6. PostedLocked(c, m)'
        BY <4>4, <4>5 DEF PostedLocked
      <4> QED
        BY <4>2, <4>3, <4>6
    <3>2. CASE client_handle_recv_rdma_rkey_set(c)
      <4>1. PICK m :
              m = Message("WRITE", r.tid, r.key, pending[r.tid].val, r.rkey)
        OBVIOUS
      <4>2. pending[r.tid].val \in Contents
        BY <1>1, <2>1, <3>2, TakeReplyType, PendingSetFields
        DEF client_handle_recv_rdma_rkey_set
      <4>3. m \in WorkRequest
        BY <2>3, <2>4, <4>1, <4>2, MessageType DEF RdmaOps
      <4>4. Post(c, m) /\ r.op = "RDMA_RKEY_SET"
        BY <2>1, <3>2, <4>1
        DEF client_handle_recv_rdma_rkey_set, TakeReply
      <4>5. /\ m.tid = r.tid /\ m.key = r.key /\ m.rkey = r.rkey
            /\ m.op = "WRITE"
        BY <4>1 DEF Message
      <4>6. Locked(m)'
        BY <1>2, <2>5, <4>4, <4>5 DEF Locked
      <4>7. PostedLocked(c, m)'
        BY <4>5, <4>6 DEF PostedLocked
      <4> QED
        BY <4>3, <4>4, <4>7
    <3> QED
      BY <1>6, <3>1, <3>2
  <2>7. \A n \in Completed(c)' : n \in Completed(c) /\ n.tid # r.tid
    BY <2>2, <2>3 DEF Completed
  <2> QED
    BY <1>2, <2>2, <2>3, <2>6, <2>7, PostingSecured
<1>7. CASE RdmaReadDone(c) \/ RdmaWriteDone(c)
  <2>1. PICK x : x = Head(wcq[c])
    OBVIOUS
  <2>2. PICK t : t = x.tid
    OBVIOUS
  <2>3. PICK m : m = Message("FIN", t, pending[t].key, Empty, 0)
    OBVIOUS
  <2>4. /\ wcq[c] # <<>> /\ wcq' = [wcq EXCEPT ![c] = Tail(@)]
        /\ UNCHANGED s2c /\ Post(c, m)
    BY <1>7, <2>1, <2>2, <2>3
    DEF RdmaReadDone, RdmaWriteDone, client_send_rdma_fin, TakeCompletion,
        serverVars
  <2>5. /\ x \in Completed(c) /\ Without(wcq[c], Tail(wcq[c]), x)
        /\ wcq'[c] = Tail(wcq[c])
        /\ \A b \in Clients \ {c} : wcq'[b] = wcq[b]
    BY <1>1, <2>1, <2>4, HeadTaken DEF Completed
  <2>6. t \in Tids /\ Owner(t) = c
    BY <1>1, <2>2, <2>5, PlacedTids DEF Session
  <2>7. waiting_fin_q[t] = pending[t].key
    BY <1>1, <2>2, <2>5 DEF Secured, CompletedLocked
  <2>8. pending[t].key \in Keys
    <3>1. pending[t] \in ClientRequest
      BY <1>1, <1>7, <2>1, <2>2, TakeCompletionType
      DEF RdmaReadDone, RdmaWriteDone
    <3> QED
      BY <3>1 DEF ClientRequest
  <2>9. m \in WorkRequest
    BY <2>3, <2>6, <2>8, MessageType DEF SendOps, Contents
  <2>10. m.tid = t /\ m.op = "FIN" /\ m.key = pending[t].key
    BY <2>3 DEF Message
  <2>11. PostedLocked(c, m)'
    BY <1>2, <2>7, <2>10 DEF PostedLocked, RdmaOps
  <2>12. \A n \in Completed(c)' : n \in Completed(c) /\ n.tid # t
    BY <2>2, <2>5 DEF Without, Completed
  <2>13. \A u \in Tids \ {t} : pending'[u] = pending[u]
    BY <1>1, <1>7, <2>1, <2>2, <2>6 DEF RdmaReadDone, RdmaWriteDone
  <2> QED
    BY <1>2, <2>4, <2>5, <2>6, <2>9, <2>11, <2>12, <2>13, PostingSecured
    DEF Replied
<1> QED
  BY <1>5, <1>6, <1>7 DEF ClientPoll

-----------------------------------------------------------------------------
(* The network.                                                            *)

(* What both kinds of RDMA request do to the queues of their slot. *)
LEMMA ExecuteTakes ==
    ASSUME RInv, NEW c \in Clients, NEW i, RdmaExecute(c, i),
           UNCHANGED polled, NEW m, m = c2s[c][i]
    PROVE  /\ m \in Posted(c) /\ m.op \in RdmaOps
           /\ m.tid \in Tids /\ Owner(m.tid) = c
           /\ m.key \in Keys /\ m.val \in Contents
           /\ \A n \in Posted(c)' : n \in Posted(c) /\ n.tid # m.tid
           /\ \A n \in Replied(c) \cup Completed(c) : n.tid # m.tid
           /\ \A n \in Completed(c)' :
                 n \in Completed(c) \/ (n.tid = m.tid /\ Alive(c))
           /\ \A b \in Clients \ {c} : c2s'[b] = c2s[b] /\ wcq'[b] = wcq[b]
<1>1. /\ TypeOK /\ PolledAreSends /\ Orderly(c) /\ c2s[c] \in Seq(WorkRequest)
      /\ wcq[c] \in Seq(Completion) /\ Distinct(c2s[c])
  BY DEF RInv, TInv, IInv, Orderly, Apart, TypeOK, ClientTypeOK
<1>2. /\ m.op \in RdmaOps /\ m.tid \in Tids /\ m.key \in Keys
      /\ m.val \in Contents
  BY <1>1, RdmaExecuteType
<1>3. i \in 1 .. Len(c2s[c])
  BY <1>1, LenProperties DEF RdmaExecute, NextRdma
<1>4. m \in Posted(c) /\ Without(c2s[c], RemoveAt(c2s[c], i), m)
  BY <1>1, <1>3, Elements, Removed DEF Posted
<1>5. /\ Owner(m.tid) = c
      /\ m.tid \notin TidsIn(s2c[c]) \cup TidsIn(wcq[c])
  BY <1>1, <1>2, <1>4, PostedElsewhere
<1>6. /\ c2s'[c] = RemoveAt(c2s[c], i)
      /\ \A b \in Clients \ {c} : c2s'[b] = c2s[b] /\ wcq'[b] = wcq[b]
  BY <1>1 DEF RdmaExecute, TypeOK, ClientTypeOK
<1>7. \A n \in Completed(c)' :
        n \in Completed(c) \/ (n.tid = m.tid /\ Alive(c))
  <2>1. CASE Alive(c)
    <3>1. PICK x : x = [op |-> m.op, tid |-> m.tid]
      OBVIOUS
    <3>2. x \in Completion /\ x.tid = m.tid
      BY <1>2, <3>1 DEF Completion
    <3>3. wcq'[c] = Append(wcq[c], x)
      BY <1>1, <2>1, <3>1 DEF RdmaExecute, TypeOK, ClientTypeOK
    <3>4. ToSet(wcq'[c]) = ToSet(wcq[c]) \cup {x}
      BY <1>1, <3>2, <3>3, Added
    <3> QED
      BY <2>1, <3>2, <3>4 DEF Completed
  <2>2. CASE ~Alive(c)
    BY <2>2 DEF RdmaExecute, Completed
  <2> QED
    BY <2>1, <2>2
<1>8. \A n \in Replied(c) \cup Completed(c) : n.tid # m.tid
  BY <1>5 DEF TidsIn, Replied, Completed
<1> QED
  BY <1>2, <1>4, <1>5, <1>6, <1>7, <1>8 DEF Without, Posted

(* An entry that a write may reach is locked for no other request. *)
LEMMA WriteReachesOne ==
    ASSUME ServerTypeOK, LocksAreAccountedFor, NEW m, m.tid \in Tids,
           m.op = "WRITE", Locked(m) \/ Free(m.key)
    PROVE  \A u \in Tids \ {m.tid} : waiting_fin_q[u] # m.key
                                     \/ waiting_fin_q[u] = NoKey
<1> SUFFICES ASSUME NEW u \in Tids \ {m.tid}, waiting_fin_q[u] = m.key,
                    waiting_fin_q[u] # NoKey
             PROVE  FALSE
  OBVIOUS
<1>1. ~Free(m.key)
  BY WaitedIsLocked
<1>2. waiting_fin_q[m.tid] = m.key /\ db[m.key].num_writers = 1
  BY <1>1 DEF Locked
<1>3. m.key # NoKey
  OBVIOUS
<1>4. db[m.key].num_writers = 0
  BY <1>2, <1>3, WaitedIsLocked
<1> QED
  BY <1>2, <1>4

(* A write spares what others have locked. *)
LEMMA WriteSpares ==
    ASSUME RInv, NEW m \in WorkRequest, NEW c \in Clients, m \in Posted(c),
           m.op = "WRITE", m.tid \in Tids, m.key \in Keys, NEW v,
           db' = [db EXCEPT ![m.key].value = v, ![m.key].filling = FALSE],
           UNCHANGED waiting_fin_q
    PROVE  /\ Spares(m.tid)
           /\ \A k \in Keys : Free(k) => Free(k)'
<1>1. /\ ServerTypeOK /\ LocksAreAccountedFor /\ db \in [Keys -> Entry]
      /\ waiting_fin_q \in [Tids -> Keys \cup {NoKey}]
      /\ PostedLocked(c, m)
  BY DEF RInv, TInv, IInv, TypeOK, ServerTypeOK, Secured
<1>2. \A u \in Tids \ {m.tid} : waiting_fin_q[u] # m.key
                                \/ waiting_fin_q[u] = NoKey
  BY <1>1, WriteReachesOne DEF PostedLocked, RdmaOps
<1>3. PICK e : e = [db[m.key] EXCEPT !.value = v, !.filling = FALSE]
  OBVIOUS
<1>4. db' = [db EXCEPT ![m.key] = e]
  BY <1>1, <1>3
<1>5. /\ e.num_readers = db[m.key].num_readers
      /\ e.num_writers = db[m.key].num_writers
      /\ e.present = db[m.key].present
  BY <1>1, <1>3 DEF Entry
<1>6. \A k \in Keys : /\ db'[k].num_readers = db[k].num_readers
                      /\ db'[k].num_writers = db[k].num_writers
                      /\ db'[k].present = db[k].present
  BY <1>1, <1>4, <1>5
<1>7. \A k \in Keys \ {m.key} : db'[k] = db[k]
  BY <1>1, <1>4
<1>8. \A u \in Tids : waiting_fin_q[u] # NoKey =>
        /\ waiting_fin_q[u] \in Keys
        /\ db[waiting_fin_q[u]].present
  BY <1>1 DEF RInv, WaitedArePresent
<1>9. Spares(m.tid)
  BY <1>2, <1>6, <1>7, <1>8 DEF Spares
<1> QED
  BY <1>6, <1>9 DEF Free

(* The steps of the devices, and of the server's QP in error. *)
LEMMA NetworkStaysSecured ==
    ASSUME RInv, NEW c \in Clients, NetworkStep(c)
    PROVE  (\A b \in Clients : Secured(b)') /\ WaitedArePresent'
<1>1. /\ TypeOK /\ \A b \in Clients : Orderly(b) /\ Secured(b)
      /\ pending \in [Tids -> ClientRequest \cup {NoReq}]
  BY DEF RInv, TInv, IInv, TypeOK, ClientTypeOK
<1>2. ASSUME NEW i, RdmaExecute(c, i), UNCHANGED <<polled, waiting_fin_q>>,
             NEW m, m = c2s[c][i],
             pending'[m.tid].key = pending[m.tid].key
      PROVE  \A n \in Completed(c)' : n.tid = m.tid => CompletedLocked(n)'
  <2>1. /\ m \in Posted(c) /\ m.op \in RdmaOps
        /\ \A n \in Completed(c) : n.tid # m.tid
        /\ \A n \in Completed(c)' : n \in Completed(c) \/ Alive(c)
    BY <1>2, ExecuteTakes
  <2>2. ASSUME Alive(c)
        PROVE  waiting_fin_q[m.tid] = pending[m.tid].key
    <3>1. Locked(m)
      BY <1>1, <2>1, <2>2, RunningSlots DEF Secured, PostedLocked
    <3>2. pending[m.tid].key = m.key
      BY <1>1, <2>1, <2>2 DEF Orderly, PostedRight, UndoneFor
    <3> QED
      BY <3>1, <3>2 DEF Locked
  <2> QED
    BY <1>2, <2>1, <2>2 DEF CompletedLocked
<1>3. CASE RdmaWrite(c)
  <2>1. PICK i :
          /\ RdmaExecute(c, i)
          /\ c2s[c][i].op = "WRITE"
          /\ \E v \in SentContent(c, c2s[c][i].val) :
                db' = [db EXCEPT ![c2s[c][i].key].value = v,
                                 ![c2s[c][i].key].filling = FALSE]
    BY <1>3 DEF RdmaWrite
  <2>2. PICK m : m = c2s[c][i]
    OBVIOUS
  <2>3. UNCHANGED <<polled, waiting_fin_q, closing, s2c, pending>>
    BY <1>3 DEF RdmaWrite, loopVars
  <2>4. /\ m \in Posted(c) /\ m.tid \in Tids /\ Owner(m.tid) = c
        /\ m.key \in Keys /\ m.val \in Contents
        /\ \A n \in Posted(c)' : n \in Posted(c) /\ n.tid # m.tid
        /\ \A n \in Replied(c) \cup Completed(c) : n.tid # m.tid
        /\ \A n \in Completed(c)' : n \in Completed(c) \/ n.tid = m.tid
        /\ \A b \in Clients \ {c} : c2s'[b] = c2s[b] /\ wcq'[b] = wcq[b]
    BY <2>1, <2>2, <2>3, ExecuteTakes
  <2>5. m \in WorkRequest
    BY <1>1, <2>4, PlacedTids
  <2>6. Spares(m.tid) /\ \A k \in Keys : Free(k) => Free(k)'
    BY <2>1, <2>2, <2>3, <2>4, <2>5, WriteSpares
  <2>7. \A n \in Completed(c)' : n \in Completed(c) \/ CompletedLocked(n)'
    BY <1>2, <2>1, <2>2, <2>3, <2>4
  <2>8. Replied(c)' = Replied(c)
    BY <2>3 DEF Replied
  <2>9. Secured(c)'
    BY <1>1, <2>3, <2>4, <2>6, <2>7, <2>8, SlotStaysSecured
  <2>10. ASSUME NEW b \in Clients \ {c}
         PROVE  Secured(b)'
    <3>1. /\ Posted(b)' = Posted(b) /\ Replied(b)' = Replied(b)
          /\ Completed(b)' = Completed(b)
      BY <2>3, <2>4 DEF Posted, Replied, Completed
    <3>2. \A n \in Replied(b) \cup Completed(b) : n.tid # m.tid
      BY <1>1, <2>4, PlacedTids DEF Session
    <3>3. \A n \in Posted(b) : n.tid # m.tid
      <4>1. \A n \in Posted(b) : n.tid = Shutdown.tid \/ Owner(n.tid) = b
        BY <1>1, PlacedTids DEF Session
      <4>2. Shutdown.tid \notin Tids
        BY LoopAssumption DEF Shutdown, Tids
      <4> QED
        BY <2>4, <4>1, <4>2
    <3> QED
      BY <1>1, <2>3, <2>6, <3>1, <3>2, <3>3, SlotStaysSecured
  <2>11. WaitedArePresent'
    BY <2>3, <2>4, <2>6 DEF Spares, WaitedArePresent, RInv, TInv, IInv,
       TypeOK, ServerTypeOK
  <2> QED
    BY <2>9, <2>10, <2>11
<1>4. CASE RdmaRead(c)
  <2>1. PICK i :
          /\ RdmaExecute(c, i)
          /\ pending' = IF Waits(c2s[c][i].tid, "GET")
                        THEN [pending EXCEPT ![c2s[c][i].tid].val =
                                Content(db[c2s[c][i].key])]
                        ELSE pending
    BY <1>4 DEF RdmaRead
  <2>2. PICK m : m = c2s[c][i]
    OBVIOUS
  <2>3. UNCHANGED <<db, polled, waiting_fin_q, closing, s2c>>
    BY <1>4 DEF RdmaRead, serverVars, loopVars
  <2>4. /\ m \in Posted(c) /\ m.tid \in Tids /\ Owner(m.tid) = c
        /\ \A n \in Posted(c)' : n \in Posted(c) /\ n.tid # m.tid
        /\ \A n \in Completed(c) : n.tid # m.tid
        /\ \A n \in Completed(c)' : n \in Completed(c) \/ n.tid = m.tid
        /\ \A b \in Clients \ {c} : c2s'[b] = c2s[b] /\ wcq'[b] = wcq[b]
    BY <2>1, <2>2, <2>3, ExecuteTakes
  <2>5. \A u \in Tids \ {m.tid} : pending'[u] = pending[u]
    BY <1>1, <2>1, <2>2, <2>4
  <2>6. pending'[m.tid].key = pending[m.tid].key
    <3>1. CASE Waits(m.tid, "GET")
      <4>1. PICK p : p = pending[m.tid]
        OBVIOUS
      <4>2. p \in [op : {"GET"}, key : Keys, val : Contents \cup {Torn},
                   done : BOOLEAN]
        BY <1>1, <2>4, <3>1, <4>1, WaitsFor DEF ClientRequest
      <4>3. pending'[m.tid] = [p EXCEPT !.val = Content(db[m.key])]
        BY <1>1, <2>1, <2>2, <2>4, <3>1, <4>1
      <4> QED
        BY <4>1, <4>2, <4>3
    <3>2. CASE ~Waits(m.tid, "GET")
      BY <2>1, <2>2, <3>2
    <3> QED
      BY <3>1, <3>2
  <2>7. \A n \in Completed(c)' :
          \/ n \in Completed(c) /\ pending'[n.tid] = pending[n.tid]
          \/ CompletedLocked(n)'
    <3>1. \A n \in Completed(c) : n.tid \in Tids
      BY <1>1, PlacedTids DEF Session
    <3> QED
      BY <1>2, <2>1, <2>2, <2>3, <2>4, <2>5, <2>6, <3>1
  <2>8. Secured(c)'
    BY <1>1, <2>3, <2>4, <2>7, QuietStaysSecured DEF Replied
  <2>9. ClientOnly(c)
    BY <2>3, <2>4, <2>5 DEF ClientOnly
  <2>10. WaitedArePresent'
    BY <2>3 DEF RInv, WaitedArePresent
  <2> QED
    BY <2>8, <2>9, <2>10, ClientOnlySecured
<1>5. CASE QpError(c)
  <2>1. UNCHANGED <<db, waiting_fin_q, closing, s2c, c2s, wcq, pending>>
    BY <1>5 DEF QpError, serverVars, clientVars, loopVars
  <2>2. \A b \in Clients : Secured(b)'
    BY <1>1, <2>1, QuietStaysSecured DEF Posted, Replied, Completed
  <2> QED
    BY <2>1, <2>2 DEF RInv, WaitedArePresent
<1> QED
  BY <1>3, <1>4, <1>5 DEF NetworkStep

-----------------------------------------------------------------------------
(* The server.                                                             *)

(* A request of another slot has another tid. *)
LEMMA OtherSlotsTids ==
    ASSUME RInv, NEW t \in Tids, NEW b \in Clients, Owner(t) # b
    PROVE  \A n \in Posted(b) \cup Replied(b) \cup Completed(b) : n.tid # t
<1>1. TypeOK /\ Orderly(b)
  BY DEF RInv, TInv, IInv
<1>2. \A n \in Replied(b) \cup Completed(b) : n.tid # t
  BY <1>1, PlacedTids DEF Session
<1>3. \A n \in Posted(b) : n.tid = Shutdown.tid \/ Owner(n.tid) = b
  BY <1>1, PlacedTids DEF Session
<1>4. Shutdown.tid \notin Tids
  BY LoopAssumption DEF Shutdown, Tids
<1> QED
  BY <1>2, <1>3, <1>4

(* Spared waits are for entries of the database. *)
LEMMA StillPresent ==
    ASSUME RInv, NEW t \in Tids, Spares(t)
    PROVE  WaitedArePresent'
<1>1. waiting_fin_q \in [Tids -> Keys \cup {NoKey}]
  BY DEF RInv, TInv, IInv, TypeOK, ServerTypeOK
<1> QED
  BY <1>1 DEF RInv, WaitedArePresent, Spares

(* The request t of the slot c has been handled, and its reply posted. *)
LEMMA HandledStaysSecured ==
    ASSUME RInv, NEW c \in Clients, NEW t \in Tids, Owner(t) = c,
           closing = NoClient, Spares(t), AnswersLocked(t),
           UNCHANGED <<pending, wcq>>,
           \A n \in Posted(c)' : n \in Posted(c) /\ n.tid # t,
           \A b \in Clients \ {c} : c2s'[b] = c2s[b],
           t \notin TidsIn(s2c[c]) \cup TidsIn(wcq[c])
    PROVE  (\A b \in Clients : Secured(b)') /\ WaitedArePresent'
<1>1. /\ TypeOK /\ \A b \in Clients : Orderly(b) /\ Secured(b)
      /\ s2c \in [Clients -> Seq(Reply)]
  BY DEF RInv, TInv, IInv, TypeOK, ServerTypeOK
<1>2. \A b \in Clients : b # closing
  BY LoopAssumption
<1>3. /\ \A b \in Clients \ {c} : s2c'[b] = s2c[b]
      /\ \A n \in Replied(c)' : n \in Replied(c) \/ RepliedLocked(c, n)'
  <2>1. CASE UNCHANGED s2c
    BY <2>1 DEF Replied
  <2>2. ASSUME NEW m \in Reply, m.tid = t, server_post_send(m),
               m.op # "GET_RESPONSE" => Locked(m)'
        PROVE  <1>3!:
    <3>1. /\ s2c'[c] = Append(s2c[c], m)
          /\ \A b \in Clients \ {c} : s2c'[b] = s2c[b]
      BY <1>1, <2>2 DEF server_post_send
    <3>2. Replied(c)' = Replied(c) \cup {m}
      BY <1>1, <3>1, Added DEF Replied
    <3>3. RepliedLocked(c, m)'
      BY <2>2 DEF RepliedLocked
    <3> QED
      BY <3>1, <3>2, <3>3
  <2> QED
    BY <2>1, <2>2 DEF AnswersLocked
<1>4. Secured(c)'
  <2>1. \A n \in Replied(c) \cup Completed(c) : n.tid # t
    BY DEF TidsIn, Replied, Completed
  <2>2. Completed(c)' = Completed(c)
    BY DEF Completed
  <2> QED
    BY <1>1, <1>2, <1>3, <2>1, <2>2, SlotStaysSecured
<1>5. ASSUME NEW b \in Clients \ {c}
      PROVE  Secured(b)'
  <2>1. /\ Posted(b)' = Posted(b) /\ Replied(b)' = Replied(b)
        /\ Completed(b)' = Completed(b)
    BY <1>3 DEF Posted, Replied, Completed
  <2>2. \A n \in Posted(b) \cup Replied(b) \cup Completed(b) : n.tid # t
    BY OtherSlotsTids
  <2> QED
    BY <1>1, <1>2, <2>1, <2>2, SlotStaysSecured
<1> QED
  BY <1>4, <1>5, StillPresent

(* Dropping a request gives up no more than its own wait. *)
LEMMA RemovalSpares ==
    ASSUME RInv, NEW t \in Tids,
           remove_server_pending_request(t, db, sorted_q)
    PROVE  /\ Spares(t)
           /\ db' = Released(db, t)
           /\ \A k \in Keys : Free(k) => Free(k)'
<1>1. /\ ServerTypeOK /\ LocksAreAccountedFor /\ db \in [Keys -> Entry]
      /\ waiting_fin_q \in [Tids -> Keys \cup {NoKey}]
  BY DEF RInv, TInv, IInv, TypeOK, ServerTypeOK
<1>2. /\ db' = Released(db, t)
      /\ waiting_fin_q' = [waiting_fin_q EXCEPT ![t] = NoKey]
  BY DEF remove_server_pending_request
<1>3. \A k \in Keys : db[k].num_readers >= db[k].num_readers
  BY <1>1 DEF Entry
<1>4. Spares(t)
  <2>1. /\ \A u \in Tids \ {t} : waiting_fin_q'[u] = waiting_fin_q[u]
        /\ waiting_fin_q'[t] = NoKey
    BY <1>1, <1>2
  <2>2. \A u \in Tids : waiting_fin_q[u] # NoKey => waiting_fin_q[u] \in Keys
    BY <1>1
  <2> QED
    BY <1>1, <1>2, <1>3, <2>1, <2>2, ReleaseSpares
<1>5. ASSUME NEW k \in Keys, Free(k)
      PROVE  Free(k)'
  <2>1. waiting_fin_q[t] = NoKey \/ waiting_fin_q[t] # k
    BY <1>1, <1>5, WaitedIsLocked
  <2>2. db'[k] = db[k]
    BY <1>1, <1>2, <2>1 DEF Released
  <2> QED
    BY <1>5, <2>2 DEF Free
<1> QED
  BY <1>2, <1>4, <1>5

(* A received SET or GET. *)
LEMMA RecvStaysSecured ==
    ASSUME RInv, NEW c \in Clients, RecvSet(c) \/ RecvGet(c)
    PROVE  (\A b \in Clients : Secured(b)') /\ WaitedArePresent'
<1>1. /\ TypeOK /\ PolledAreSends /\ \A b \in Clients : Orderly(b)
      /\ ServerTypeOK /\ LocksAreAccountedFor /\ WaitedArePresent
  BY DEF RInv, TInv, IInv, TypeOK
<1>2. PICK m : m = Head(c2s[c])
  OBVIOUS
<1>3. m.op \in Requests /\ TakeRequest(c, m.op)
  BY <1>2 DEF RecvSet, RecvGet, TakeRequest, Requests
<1>4. /\ m \in Posted(c)
      /\ \A n \in Posted(c)' : n \in Posted(c) /\ n.tid # m.tid
      /\ \A b \in Clients \ {c} : c2s'[b] = c2s[b]
      /\ UNCHANGED <<pending, wcq>> /\ closing = NoClient
  <2>1. closing = NoClient
    BY <1>3 DEF TakeRequest
  <2> QED
    BY <1>1, <1>2, <1>3, <2>1, TakenIsPosted
<1>5. m.tid \in Tids /\ m.key \in Keys /\ m.val \in Contents
  BY <1>1, <1>2, <1>3, TakenFields DEF Requests, SendOps
<1>6. /\ Owner(m.tid) = c
      /\ m.tid \notin TidsIn(s2c[c]) \cup TidsIn(wcq[c])
  BY <1>1, <1>4, <1>5, PostedElsewhere
<1>7. Spares(m.tid) /\ AnswersLocked(m.tid)
  BY <1>1, <1>2, <1>5, SetIsSecure, GetIsSecure DEF RecvSet, RecvGet
<1> QED
  BY <1>4, <1>5, <1>6, <1>7, HandledStaysSecured

(* A queued request. *)
LEMMA ServeStaysSecured ==
    ASSUME RInv, ServePending
    PROVE  (\A b \in Clients : Secured(b)') /\ WaitedArePresent'
<1>1. /\ TypeOK /\ \A b \in Clients : Orderly(b)
      /\ ServerTypeOK /\ LocksAreAccountedFor /\ WaitedArePresent
      /\ sorted_q \in Seq(Tids)
  BY DEF RInv, TInv, IInv, TypeOK, ServerTypeOK
<1>2. PICK t : t = Head(sorted_q)
  OBVIOUS
<1>3. PICK r : r = internal_q[t]
  OBVIOUS
<1>4. t \in Tids /\ r \in Request
  BY <1>1, <1>2, <1>3, ServedRequest
<1>5. r.key \in Keys /\ r.val \in Contents /\ r.payload \in Contents
  BY <1>4 DEF Request
<1>6. /\ UNCHANGED <<pending, wcq, c2s>> /\ sorted_q # <<>>
      /\ phase = "pending"
  BY DEF ServePending, clientVars
<1>7. closing = NoClient
  BY <1>6 DEF RInv, TInv, ListInOrder
<1>8. Spares(t) /\ AnswersLocked(t)
  BY <1>1, <1>2, <1>3, <1>4, <1>5, SetIsSecure, GetIsSecure
  DEF ServePending
<1>9. PICK c : c = Owner(t)
  OBVIOUS
<1>10. c \in Clients /\ Orderly(c) /\ t \in ToSet(sorted_q)
  BY <1>1, <1>2, <1>4, <1>6, <1>9, OwnerType, HeadTaken
<1>11. t \notin TidsIn(c2s[c]) \cup TidsIn(s2c[c]) \cup TidsIn(wcq[c])
  BY <1>10 DEF Orderly, Apart
<1>12. \A n \in Posted(c)' : n \in Posted(c) /\ n.tid # t
  BY <1>6, <1>11 DEF TidsIn, Posted
<1> QED
  BY <1>4, <1>6, <1>7, <1>8, <1>9, <1>10, <1>11, <1>12, HandledStaysSecured

(* A FIN finds the lock it gives back: the server neither exits nor takes  *)
(* the connection down.  A shutdown message is a client's last.            *)
LEMMA FinStaysSecured ==
    ASSUME RInv, NEW c \in Clients, RecvFin(c) \/ RecvShutdown(c)
    PROVE  /\ \A b \in Clients : Secured(b)'
           /\ WaitedArePresent' /\ ServerStaysUp'
           /\ closing' # NoClient => pc[closing'] = "gone"
<1>1. /\ TypeOK /\ PolledAreSends /\ \A b \in Clients : Orderly(b) /\ Secured(b)
      /\ waiting_fin_q \in [Tids -> Keys \cup {NoKey}]
      /\ WaitedArePresent /\ ServerStaysUp
  BY DEF RInv, TInv, IInv, TypeOK, ServerTypeOK
<1>2. PICK m : m = Head(c2s[c])
  OBVIOUS
<1>3. PICK op : op \in {"FIN", "SHUTDOWN"} /\ TakeRequest(c, op)
                /\ (op = "FIN" => RecvFin(c))
                /\ (op = "SHUTDOWN" => RecvShutdown(c))
  BY DEF RecvFin, RecvShutdown
<1>4. closing = NoClient
  BY <1>3 DEF TakeRequest
<1>5. /\ m \in Posted(c) /\ m.op = op
      /\ \A n \in Posted(c)' : n \in Posted(c) /\ n.tid # m.tid
      /\ \A b \in Clients \ {c} : c2s'[b] = c2s[b]
      /\ UNCHANGED <<pending, wcq>>
  BY <1>1, <1>2, <1>3, TakenIsPosted
<1>6. CASE op = "FIN"
  <2>1. m.tid \in Tids /\ m.key \in Keys
    BY <1>1, <1>2, <1>3, <1>6, TakenFields DEF SendOps
  <2>2. waiting_fin_q[m.tid] = m.key
    <3>1. PostedLocked(c, m)
      BY <1>1, <1>5 DEF Secured
    <3> QED
      BY <1>4, <1>5, <1>6, <3>1, LoopAssumption DEF PostedLocked
  <2>3. waiting_fin_q[m.tid] # NoKey /\ db[m.key].present
    BY <1>1, <2>1, <2>2, ClientsAssumption DEF WaitedArePresent
  <2>4. /\ remove_server_pending_request(m.tid, db, sorted_q)
        /\ UNCHANGED <<s2c, closing, phase>>
    BY <1>2, <1>3, <1>6, <2>3 DEF RecvFin
  <2>5. Spares(m.tid) /\ AnswersLocked(m.tid)
    BY <2>1, <2>4, RemovalSpares DEF AnswersLocked
  <2>6. /\ Owner(m.tid) = c
        /\ m.tid \notin TidsIn(s2c[c]) \cup TidsIn(wcq[c])
    BY <1>1, <1>5, <2>1, PostedElsewhere
  <2>7. (\A b \in Clients : Secured(b)') /\ WaitedArePresent'
    BY <1>4, <1>5, <2>1, <2>5, <2>6, HandledStaysSecured
  <2> QED
    BY <1>1, <1>4, <2>4, <2>7 DEF ServerStaysUp
<1>7. CASE op = "SHUTDOWN"
  <2>1. UNCHANGED <<db, waiting_fin_q, s2c, phase>> /\ closing' = c
    BY <1>3, <1>7 DEF RecvShutdown, serverVars
  <2>2. m = Shutdown
    <3>1. m \in WorkRequest /\ m.op = "SHUTDOWN"
      BY <1>1, <1>5, <1>7, PlacedTids
    <3> QED
      BY <3>1 DEF WorkRequest, SendOps, RdmaOps
  <2>3. pc[c] = "gone"
    BY <1>1, <1>5, <2>2 DEF Orderly, SlotIsClean
  <2>4. ASSUME NEW b \in Clients
        PROVE  Secured(b)'
    <3>1. \A n \in Posted(b)' : n \in Posted(b)
      BY <1>5 DEF Posted
    <3>2. Replied(b)' = Replied(b) /\ Completed(b)' = Completed(b)
      BY <1>5, <2>1 DEF Replied, Completed
    <3>3. b # closing
      BY <1>4, LoopAssumption
    <3> QED
      BY <1>1, <1>5, <2>1, <3>1, <3>2, <3>3, QuietStaysSecured
  <2> QED
    BY <1>1, <2>1, <2>3, <2>4 DEF WaitedArePresent, ServerStaysUp
<1> QED
  BY <1>3, <1>6, <1>7

(* While a connection is removed its requests give their locks back; the   *)
(* writes it has still posted find entries that nobody has locked since.   *)
LEMMA InvalidateStaysSecured ==
    ASSUME RInv, InvalidateRequest
    PROVE  (\A b \in Clients : Secured(b)') /\ WaitedArePresent'
<1>1. /\ TypeOK /\ \A b \in Clients : Orderly(b) /\ Secured(b)
      /\ closing \in Clients \cup {NoClient}
      /\ ServerTypeOK /\ LocksAreAccountedFor
      /\ db \in [Keys -> Entry]
      /\ waiting_fin_q \in [Tids -> Keys \cup {NoKey}]
  BY DEF RInv, TInv, IInv, TypeOK, ServerTypeOK, LoopTypeOK
<1>2. PICK c : c = closing
  OBVIOUS
<1>3. c \in Clients /\ pc[c] = "gone"
  BY <1>1, <1>2 DEF InvalidateRequest, RInv, Closings
<1>4. PICK t \in Tids : /\ Owner(t) = c
                        /\ remove_server_pending_request(t, db, sorted_q)
  BY <1>2 DEF InvalidateRequest, QueuedBy
<1>5. UNCHANGED <<s2c, c2s, wcq, pending, closing>>
  BY DEF InvalidateRequest, clientVars, loopVars
<1>6. /\ Spares(t) /\ db' = Released(db, t)
      /\ \A k \in Keys : Free(k) => Free(k)'
  BY <1>4, RemovalSpares
<1>7. \A b \in Clients : /\ Posted(b)' = Posted(b)
                         /\ Replied(b)' = Replied(b)
                         /\ Completed(b)' = Completed(b)
  BY <1>5 DEF Posted, Replied, Completed
<1>8. ASSUME NEW b \in Clients \ {c}
      PROVE  Secured(b)'
  <2>1. \A n \in Posted(b) \cup Replied(b) \cup Completed(b) : n.tid # t
    BY <1>4, OtherSlotsTids
  <2> QED
    BY <1>1, <1>2, <1>5, <1>6, <1>7, <2>1, SlotStaysSecured
<1>9. Secured(c)'
  <2>1. Completed(c) = {}
    BY <1>3, RunningSlots DEF Alive
  <2>2. \A m \in Replied(c) : RepliedLocked(c, m)'
    BY <1>2, <1>5 DEF RepliedLocked
  <2>3. ASSUME NEW m \in Posted(c), m.tid = t
        PROVE  PostedLocked(c, m)'
    <3>1. CASE m.op = "WRITE"
      <4>1. m.key \in Keys
        BY <1>1, <1>3, <3>1, PlacedTids, WorkRequestFields
      <4>2. Locked(m) \/ Free(m.key)
        BY <1>1, <1>3, <3>1 DEF Secured, PostedLocked, RdmaOps
      <4>3. CASE Free(m.key)
        BY <1>2, <1>5, <1>6, <3>1, <4>1, <4>3 DEF PostedLocked
      <4>4. CASE Locked(m)
        <5>1. /\ waiting_fin_q[t] = m.key /\ m.key # NoKey
              /\ db[m.key].num_writers = 1 /\ db[m.key] \in Entry
          BY <1>1, <2>3, <3>1, <4>1, <4>4, ClientsAssumption DEF Locked
        <5>2. db[m.key].num_readers = 0
          BY <1>1, <4>1, <5>1 DEF LocksAreAccountedFor
        <5>3. db'[m.key] = Unlocked(db[m.key])
          BY <1>1, <1>6, <4>1, <5>1 DEF Released
        <5>4. Free(m.key)'
          BY <5>1, <5>2, <5>3 DEF Free, Unlocked, Entry
        <5> QED
          BY <1>2, <1>5, <3>1, <5>4 DEF PostedLocked
      <4> QED
        BY <4>2, <4>3, <4>4
    <3>2. CASE m.op # "WRITE"
      BY <1>2, <1>5, <3>2 DEF PostedLocked
    <3> QED
      BY <3>1, <3>2
  <2> QED
    BY <1>1, <1>3, <1>5, <1>6, <1>7, <2>1, <2>2, <2>3, SlotStaysSecured
<1> QED
  BY <1>4, <1>6, <1>8, <1>9, StillPresent

(* A connection that is gone leaves its slot empty. *)
LEMMA RemoveStaysSecured ==
    ASSUME RInv, NEW c \in Clients, RemoveConnection(c)
    PROVE  (\A b \in Clients : Secured(b)') /\ WaitedArePresent'
<1>1. /\ TypeOK /\ \A b \in Clients : Orderly(b) /\ Secured(b)
      /\ c2s \in [Clients -> Seq(WorkRequest)]
      /\ s2c \in [Clients -> Seq(Reply)]
  BY DEF RInv, TInv, IInv, TypeOK, ServerTypeOK, ClientTypeOK
<1>2. UNCHANGED <<db, waiting_fin_q, pending, wcq>> /\ closing = c
  BY DEF RemoveConnection
<1>3. c2s' = [c2s EXCEPT ![c] = <<>>] /\ s2c' = [s2c EXCEPT ![c] = <<>>]
  BY DEF RemoveConnection
<1>4. Completed(c) = {}
  BY <1>2, RunningSlots
<1>5. Secured(c)'
  BY <1>1, <1>2, <1>3, <1>4, NoElements
  DEF Secured, Posted, Replied, Completed
<1>6. ASSUME NEW b \in Clients \ {c}
      PROVE  Secured(b)'
  <2>1. /\ Posted(b)' = Posted(b) /\ Replied(b)' = Replied(b)
        /\ Completed(b)' = Completed(b)
    BY <1>1, <1>2, <1>3 DEF Posted, Replied, Completed
  <2> QED
    BY <1>1, <1>2, <2>1, QuietStaysSecured
<1> QED
  BY <1>2, <1>5, <1>6 DEF RInv, WaitedArePresent

-----------------------------------------------------------------------------
(* The last theorems.                                                      *)

(* A connection fails, and is removed, only after its client. *)
LEMMA ClosingsStay ==
    ASSUME RInv, [Next]_vars
    PROVE  Closings' /\ ServerStaysUp'
<1>1. /\ closing # NoClient => pc[closing] = "gone"
      /\ \A c \in Clients : conn[c] = "error" => pc[c] = "gone"
      /\ phase # "down"
      /\ closing \in Clients \cup {NoClient} /\ NoClient \notin Clients
      /\ pc \in [Clients -> {"out", "app", "get", "close", "gone"}]
      /\ conn \in [Clients -> {"none", "rts", "error"}]
  BY LoopAssumption
  DEF RInv, Closings, ServerStaysUp, TInv, IInv, TypeOK, ClientTypeOK,
      LoopTypeOK
<1>2. ASSUME UNCHANGED <<closing, conn, phase>>,
             \A c \in Clients : pc[c] = "gone" => pc'[c] = "gone"
      PROVE  Closings' /\ ServerStaysUp'
  BY <1>1, <1>2 DEF Closings, ServerStaysUp
<1>3. ASSUME NEW c \in Clients, ClientStep(c)
      PROVE  Closings' /\ ServerStaysUp'
  <2>1. UNCHANGED <<closing, conn, phase>>
    BY <1>3
    DEF ClientStep, kv_set, kv_get, GetReturn, kv_close, CloseDone,
        ClientDie, ClientPoll, client_handle_get_response,
        client_handle_recv_rdma_rkey_get, client_handle_recv_rdma_rkey_set,
        RdmaReadDone, RdmaWriteDone, loopVars
  <2>2. \A b \in Clients : pc[b] = "gone" => pc'[b] = "gone"
    BY <1>1, <1>3
    DEF ClientStep, kv_set, kv_get, GetReturn, kv_close, CloseDone,
        ClientDie, Alive, ClientPoll, client_handle_get_response,
        client_handle_recv_rdma_rkey_get, client_handle_recv_rdma_rkey_set,
        RdmaReadDone, RdmaWriteDone, clientVars
  <2> QED
    BY <1>2, <2>1, <2>2
<1>4. ASSUME NEW c \in Clients,
             NetworkStep(c) \/ accept_new_connection(c)
      PROVE  Closings' /\ ServerStaysUp'
  <2>1. CASE RdmaWrite(c) \/ RdmaRead(c)
    <3>1. UNCHANGED <<closing, conn, phase, pc>>
      BY <2>1 DEF RdmaWrite, RdmaRead, loopVars
    <3> QED
      BY <1>2, <3>1
  <2>2. CASE QpError(c)
    BY <1>1, <2>2
    DEF QpError, loopVars, clientVars, Closings, ServerStaysUp
  <2>3. CASE accept_new_connection(c)
    BY <1>1, <2>3
    DEF accept_new_connection, loopVars, Closings, ServerStaysUp
  <2> QED
    BY <1>4, <2>1, <2>2, <2>3 DEF NetworkStep
<1>5. ASSUME NEW c \in Clients, handle_recv_request(c)
      PROVE  Closings' /\ ServerStaysUp'
  <2>1. CASE RecvSet(c) \/ RecvGet(c)
    <3>1. UNCHANGED <<closing, conn, phase, pc>>
      BY <2>1 DEF RecvSet, RecvGet, TakeRequest, clientVars
    <3> QED
      BY <1>2, <3>1
  <2>2. CASE RecvFin(c) \/ RecvShutdown(c)
    <3>1. UNCHANGED <<conn, pc>>
      BY <2>2 DEF RecvFin, RecvShutdown, TakeRequest, clientVars
    <3>2. /\ ServerStaysUp'
          /\ closing' # NoClient => pc[closing'] = "gone"
      BY <2>2, FinStaysSecured
    <3> QED
      BY <1>1, <3>1, <3>2 DEF Closings
  <2> QED
    BY <1>5, <2>1, <2>2 DEF handle_recv_request
<1>6. ASSUME NEW c \in Clients,
             RemoveFailedConnection(c) \/ RemoveConnection(c)
      PROVE  Closings' /\ ServerStaysUp'
  BY <1>1, <1>6
  DEF RemoveFailedConnection, RemoveConnection, Closings, ServerStaysUp,
      clientVars
<1>7. CASE InvalidateRequest
  BY <1>2, <1>7 DEF InvalidateRequest, clientVars, loopVars
<1>8. CASE ibv_poll_cq \/ StartPass \/ ServePending \/ EndPass
  BY <1>1, <1>8
  DEF ibv_poll_cq, StartPass, ServePending, EndPass, Closings,
      ServerStaysUp, clientVars
<1>9. CASE UNCHANGED vars
  BY <1>2, <1>9 DEF vars, clientVars, loopVars
<1> QED
  BY <1>3, <1>4, <1>5, <1>6, <1>7, <1>8, <1>9 DEF Next, ServerStep

(* Every step leaves all slots secured. *)
LEMMA SecuredStep ==
    ASSUME RInv, [Next]_vars
    PROVE  (\A b \in Clients : Secured(b)') /\ WaitedArePresent'
<1>1. /\ WaitedArePresent
      /\ \A b \in Clients : Secured(b) /\ b # NoClient
  BY LoopAssumption DEF RInv
<1>2. ASSUME UNCHANGED <<db, waiting_fin_q>>,
             \A b \in Clients : Secured(b)'
      PROVE  (\A b \in Clients : Secured(b)') /\ WaitedArePresent'
  BY <1>1, <1>2 DEF WaitedArePresent
<1>3. ASSUME UNCHANGED <<db, waiting_fin_q, c2s, s2c, wcq, pending>>,
             closing' = closing \/ closing = NoClient
      PROVE  (\A b \in Clients : Secured(b)') /\ WaitedArePresent'
  <2>1. \A b \in Clients : /\ Posted(b)' = Posted(b)
                           /\ Replied(b)' = Replied(b)
                           /\ Completed(b)' = Completed(b)
    BY <1>3 DEF Posted, Replied, Completed
  <2>2. \A b \in Clients : Secured(b)'
    BY <1>1, <1>3, <2>1, QuietStaysSecured
  <2> QED
    BY <1>2, <1>3, <2>2
<1>4. ASSUME NEW c \in Clients, ClientStep(c)
      PROVE  (\A b \in Clients : Secured(b)') /\ WaitedArePresent'
  <2>1. UNCHANGED <<db, waiting_fin_q>>
    BY <1>4
    DEF ClientStep, kv_set, kv_get, GetReturn, kv_close, CloseDone,
        ClientDie, ClientPoll, client_handle_get_response,
        client_handle_recv_rdma_rkey_get, client_handle_recv_rdma_rkey_set,
        TakeReply, RdmaReadDone, RdmaWriteDone, serverVars
  <2>2. \A b \in Clients : Secured(b)'
    BY <1>4, CallsStaySecured, EndsStaySecured, PollStaysSecured
    DEF ClientStep
  <2> QED
    BY <1>2, <2>1, <2>2
<1>5. ASSUME NEW c \in Clients, accept_new_connection(c)
      PROVE  (\A b \in Clients : Secured(b)') /\ WaitedArePresent'
  BY <1>3, <1>5 DEF accept_new_connection, serverVars, loopVars
<1>6. CASE ServerStep
  <2>1. ASSUME NEW c \in Clients, handle_recv_request(c)
        PROVE  (\A b \in Clients : Secured(b)') /\ WaitedArePresent'
    BY <2>1, RecvStaysSecured, FinStaysSecured DEF handle_recv_request
  <2>2. ASSUME NEW c \in Clients, RemoveFailedConnection(c)
        PROVE  (\A b \in Clients : Secured(b)') /\ WaitedArePresent'
    BY <1>3, <2>2 DEF RemoveFailedConnection, serverVars, clientVars
  <2>3. CASE StartPass \/ EndPass
    BY <1>3, <2>3 DEF StartPass, EndPass, serverVars, clientVars
  <2> QED
    BY <1>6, <2>1, <2>2, <2>3, InvalidateStaysSecured, RemoveStaysSecured,
       ServeStaysSecured
    DEF ServerStep
<1>7. CASE ibv_poll_cq
  BY <1>3, <1>7 DEF ibv_poll_cq, serverVars, clientVars
<1>8. CASE UNCHANGED vars
  BY <1>3, <1>8 DEF vars, serverVars, clientVars, loopVars
<1> QED
  BY <1>4, <1>5, <1>6, <1>7, <1>8, NetworkStaysSecured DEF Next

(* Initially nothing is posted or locked. *)
LEMMA InitSecured == Init => RInv
<1> SUFFICES ASSUME Init
             PROVE  RInv
  OBVIOUS
<1>1. /\ \A c \in Clients : /\ c2s[c] = <<>> /\ s2c[c] = <<>>
                            /\ wcq[c] = <<>> /\ conn[c] = "none"
      /\ closing = NoClient /\ phase = "poll"
      /\ \A t \in Tids : waiting_fin_q[t] = NoKey
  BY DEF Init, ServerInit
<1>2. Closings /\ WaitedArePresent /\ ServerStaysUp
  BY <1>1 DEF Closings, WaitedArePresent, ServerStaysUp
<1>3. \A c \in Clients : Secured(c)
  BY <1>1, NoElements DEF Secured, Posted, Replied, Completed
<1> QED
  BY <1>2, <1>3, InitOrderly DEF RInv

(* Every reachable state satisfies the whole invariant. *)
THEOREM SecuredInvariance == Spec => []RInv
<1>1. RInv /\ [Next]_vars /\ TInv' => RInv'
  BY ClosingsStay, SecuredStep DEF RInv
<1> QED
  BY InitSecured, RequestsInvariance, <1>1, PTL DEF Spec

(* handle_recv_request never meets the FIN of a tid that waits for none:   *)
(* whatever a client does, also one that dies and whose tids are used      *)
(* again, it cannot end the server.                                        *)
THEOREM ServerAlwaysUp == Spec => []ServerStaysUp
<1>1. RInv => ServerStaysUp
  BY DEF RInv
<1> QED
  BY SecuredInvariance, <1>1, PTL

(* The remote key in a message or a posted request is of a region that     *)
(* still exists, of an entry that is locked for this very request.         *)
THEOREM RemoteAccessAlwaysLocked == Spec => []RemoteAccessIsLocked
<1>1. RInv => RemoteAccessIsLocked
  <2> SUFFICES ASSUME RInv, NEW c \in Clients \ {closing},
                      NEW m \in RemoteKeys(c)
               PROVE  /\ waiting_fin_q[m.tid] = m.key
                      /\ db[m.key].mr = m.rkey
                      /\ IF m.op \in {"WRITE", "RDMA_RKEY_SET"}
                         THEN db[m.key].num_writers = 1 /\ db[m.key].filling
                         ELSE db[m.key].num_readers > 0
    BY DEF RemoteAccessIsLocked
  <2>1. /\ TypeOK /\ Orderly(c) /\ Secured(c)
        /\ ServerTypeOK /\ LocksAreAccountedFor
    BY DEF RInv, TInv, IInv, TypeOK
  <2>2. Locked(m) /\ m.tid \in Tids /\ m.key \in Keys
    <3>1. CASE m \in Posted(c) /\ m.op \in RdmaOps
      <4>1. PostedLocked(c, m) /\ m \in WorkRequest
        BY <2>1, <3>1, PlacedTids DEF Secured
      <4> QED
        BY <3>1, <4>1, WorkRequestFields DEF PostedLocked, RdmaOps
    <3>2. CASE m \in Replied(c) /\ m.op # "GET_RESPONSE"
      <4>1. RepliedLocked(c, m) /\ m \in Reply
        BY <2>1, <3>2, PlacedTids DEF Secured
      <4> QED
        BY <3>2, <4>1 DEF RepliedLocked, Reply
    <3> QED
      BY <3>1, <3>2 DEF RemoteKeys, Posted, Replied
  <2>3. ~Free(m.key) /\ db[m.key] \in Entry
    <3>1. waiting_fin_q[m.tid] = m.key /\ m.key # NoKey
      BY <2>2, ClientsAssumption DEF Locked
    <3> QED
      BY <2>1, <2>2, <3>1, WaitedIsLocked
  <2>4. db[m.key].num_writers = 0 => db[m.key].num_readers > 0
    BY <2>3 DEF Free, Entry
  <2> QED
    BY <2>2, <2>4 DEF Locked
<1> QED
  BY SecuredInvariance, <1>1, PTL

-----------------------------------------------------------------------------
(* What readers read.                                                      *)

(* The part of an entry that a reader of its buffer sees. *)
SameValue(e, f) ==
    /\ f.value = e.value /\ f.filling = e.filling
    /\ f.mr = e.mr /\ f.size = e.size

(* Giving up a lock changes no value. *)
LEMMA ReleasedKeepsValues ==
    ASSUME ServerTypeOK, NEW t \in Tids, NEW d \in [Keys -> Entry],
           NEW k \in Keys
    PROVE  SameValue(d[k], Released(d, t)[k])
<1>1. \A e \in Entry : SameValue(e, Unlocked(e)) /\ SameValue(e, e)
  BY DEF SameValue, Unlocked, Entry
<1>2. waiting_fin_q[t] \in Keys \cup {NoKey} /\ d[k] \in Entry
  BY DEF ServerTypeOK
<1>3. CASE waiting_fin_q[t] = NoKey
  BY <1>1, <1>2, <1>3 DEF Released
<1>4. CASE waiting_fin_q[t] # NoKey
  <2>1. Released(d, t)[k] = d[k] \/ Released(d, t)[k] = Unlocked(d[k])
    BY <1>2, <1>4 DEF Released
  <2> QED
    BY <1>1, <1>2, <2>1
<1> QED
  BY <1>3, <1>4

(* No handler changes an entry that has a reader. *)
LEMMA HandlersKeepReadValues ==
    ASSUME ServerTypeOK, NEW t \in Tids, NEW j \in Keys, NEW v \in Contents,
           NEW p \in Contents, NEW q,
           handle_set_request(t, j, v, p, q) \/ handle_get_request(t, j, q),
           NEW k \in Keys, db[k].num_readers > 0
    PROVE  SameValue(db[k], db'[k])
<1>1. db \in [Keys -> Entry] /\ db[j] \in Entry /\ db[k] \in Entry
  BY DEF ServerTypeOK
<1>2. ASSUME NEW e \in Entry, j = k => SameValue(db[k], e),
             db' = Released([db EXCEPT ![j] = e], t)
      PROVE  SameValue(db[k], db'[k])
  <2> DEFINE d == [db EXCEPT ![j] = e]
  <2>1. d \in [Keys -> Entry] /\ SameValue(db[k], d[k])
    BY <1>1, <1>2 DEF SameValue
  <2>2. db' = Released(d, t)
    BY <1>2
  <2> HIDE DEF d
  <2>3. SameValue(d[k], db'[k])
    BY <2>1, <2>2, ReleasedKeepsValues
  <2> QED
    BY <2>1, <2>3 DEF SameValue
<1>3. CASE SetBlocked(t, j, v, q) \/ GetBlocked(t, j, q)
  BY <1>3 DEF SetBlocked, GetBlocked, push_pending_request, SameValue
<1>4. CASE SetEager(t, j, v, p, q)
  <2>1. PICK e : e = Inserted(Opened(db[j]), p)
    OBVIOUS
  <2>2. e \in Entry
    BY <1>1, <2>1, HandledEntries
  <2>3. CanLockWr(db[j]) /\ db' = Released([db EXCEPT ![j] = e], t)
    BY <1>1, <1>4, <2>1 DEF SetEager, remove_server_pending_request
  <2>4. j # k
    BY <2>3 DEF CanLockWr
  <2> QED
    BY <1>2, <2>2, <2>3, <2>4
<1>5. CASE SetRendezvous(t, j, v, q)
  <2>1. PICK e : e = Exposed(LockedWr(Opened(db[j])), v)
    OBVIOUS
  <2>2. e \in Entry
    BY <1>1, <2>1, HandledEntries
  <2>3. CanLockWr(db[j])
        /\ mark_rdma_fin_required(t, j, [db EXCEPT ![j] = e], q)
    BY <1>1, <1>5, <2>1 DEF SetRendezvous
  <2>4. db' = Released([db EXCEPT ![j] = e], t)
    BY <2>3 DEF mark_rdma_fin_required, Released
  <2>5. j # k
    BY <2>3 DEF CanLockWr
  <2> QED
    BY <1>2, <2>2, <2>4, <2>5
<1>6. CASE GetEager(t, j, q)
  <2>1. PICK e : e = Opened(db[j])
    OBVIOUS
  <2>2. e \in Entry /\ SameValue(db[j], e)
    BY <1>1, <2>1 DEF Opened, Entry, SameValue
  <2>3. db' = Released([db EXCEPT ![j] = e], t)
    BY <1>1, <1>6, <2>1 DEF GetEager, remove_server_pending_request
  <2> QED
    BY <1>2, <2>2, <2>3
<1>7. CASE GetRendezvous(t, j, q)
  <2>1. PICK e : e = LockedRd(Opened(db[j]))
    OBVIOUS
  <2> DEFINE o == Opened(db[j])
  <2>2. o \in Entry /\ SameValue(db[j], o)
    BY <1>1 DEF Opened, Entry, SameValue
  <2>3. e = LockedRd(o)
    BY <2>1
  <2> HIDE DEF o
  <2>4. e \in Entry /\ SameValue(o, e)
    BY <2>2, <2>3 DEF LockedRd, Entry, SameValue
  <2>5. e \in Entry /\ SameValue(db[j], e)
    BY <2>2, <2>4 DEF SameValue
  <2>6. db' = Released([db EXCEPT ![j] = e], t)
    BY <1>1, <1>7, <2>1 DEF GetRendezvous
  <2> QED
    BY <1>2, <2>5, <2>6
<1> QED
  BY <1>3, <1>4, <1>5, <1>6, <1>7 DEF handle_set_request, handle_get_request

(* Nor does any other step. *)
LEMMA ReadValuesStay ==
    ASSUME RInv, [Next]_vars, NEW k \in Keys, db[k].num_readers > 0
    PROVE  SameValue(db[k], db'[k])
<1>1. /\ TypeOK /\ PolledAreSends /\ \A b \in Clients : Orderly(b) /\ Secured(b)
      /\ ServerTypeOK /\ LocksAreAccountedFor
      /\ db \in [Keys -> Entry] /\ sorted_q \in Seq(Tids)
      /\ waiting_fin_q \in [Tids -> Keys \cup {NoKey}]
  BY DEF RInv, TInv, IInv, TypeOK, ServerTypeOK
<1>2. CASE UNCHANGED db
  BY <1>2 DEF SameValue
<1>3. ASSUME NEW t \in Tids, remove_server_pending_request(t, db, sorted_q)
      PROVE  SameValue(db[k], db'[k])
  BY <1>1, <1>3, ReleasedKeepsValues DEF remove_server_pending_request
<1>4. ASSUME NEW c \in Clients, RdmaWrite(c)
      PROVE  SameValue(db[k], db'[k])
  <2>1. PICK i :
          /\ RdmaExecute(c, i)
          /\ c2s[c][i].op = "WRITE"
          /\ \E v \in SentContent(c, c2s[c][i].val) :
                db' = [db EXCEPT ![c2s[c][i].key].value = v,
                                 ![c2s[c][i].key].filling = FALSE]
    BY <1>4 DEF RdmaWrite
  <2>2. PICK m : m = c2s[c][i]
    OBVIOUS
  <2>3. UNCHANGED polled
    BY <1>4 DEF RdmaWrite, loopVars
  <2>4. m \in Posted(c) /\ m.key \in Keys /\ m.op = "WRITE"
    BY <2>1, <2>2, <2>3, ExecuteTakes
  <2>5. Locked(m) \/ Free(m.key)
    BY <1>1, <2>4 DEF Secured, PostedLocked, RdmaOps
  <2>6. db[m.key].num_readers = 0
    BY <1>1, <2>4, <2>5 DEF Locked, Free, LocksAreAccountedFor
  <2>7. k # m.key
    BY <2>6
  <2>8. db'[k] = db[k]
    BY <1>1, <2>1, <2>2, <2>7
  <2> QED
    BY <2>8 DEF SameValue
<1>5. ASSUME NEW c \in Clients, handle_recv_request(c)
      PROVE  SameValue(db[k], db'[k])
  <2>1. PICK m : m = Head(c2s[c])
    OBVIOUS
  <2>2. CASE RecvSet(c)
    <3>1. m.tid \in Tids /\ m.key \in Keys /\ m.val \in Contents
      BY <1>1, <2>1, <2>2, TakenFields DEF RecvSet, SendOps
    <3> QED
      BY <1>1, <2>1, <2>2, <3>1, HandlersKeepReadValues DEF RecvSet
  <2>3. CASE RecvGet(c)
    <3>1. m.tid \in Tids /\ m.key \in Keys /\ m.val \in Contents
      BY <1>1, <2>1, <2>3, TakenFields DEF RecvGet, SendOps
    <3> QED
      BY <1>1, <2>1, <2>3, <3>1, HandlersKeepReadValues DEF RecvGet
  <2>4. CASE RecvFin(c)
    <3>1. m.tid \in Tids
      BY <1>1, <2>1, <2>4, TakenFields DEF RecvFin, SendOps
    <3> QED
      BY <1>2, <1>3, <2>1, <2>4, <3>1 DEF RecvFin, serverVars
  <2>5. CASE RecvShutdown(c)
    BY <1>2, <2>5 DEF RecvShutdown, serverVars
  <2> QED
    BY <1>5, <2>2, <2>3, <2>4, <2>5 DEF handle_recv_request
<1>6. CASE ServePending
  <2>1. PICK t : t = Head(sorted_q)
    OBVIOUS
  <2>2. PICK r : r = internal_q[t]
    OBVIOUS
  <2>3. t \in Tids /\ r \in Request
    BY <1>1, <1>6, <2>1, <2>2, ServedRequest
  <2>4. r.key \in Keys /\ r.val \in Contents /\ r.payload \in Contents
    BY <2>3 DEF Request
  <2>5. \/ handle_set_request(t, r.key, r.val, r.payload, Tail(sorted_q))
        \/ handle_get_request(t, r.key, Tail(sorted_q))
    BY <1>6, <2>1, <2>2 DEF ServePending
  <2> QED
    BY <1>1, <2>3, <2>4, <2>5, HandlersKeepReadValues
<1>7. CASE InvalidateRequest
  BY <1>3, <1>7 DEF InvalidateRequest, QueuedBy
<1>8. ASSUME NEW c \in Clients,
             \/ ClientStep(c) \/ RdmaRead(c) \/ QpError(c)
             \/ accept_new_connection(c) \/ RemoveFailedConnection(c)
             \/ RemoveConnection(c)
      PROVE  UNCHANGED db
  BY <1>8
  DEF ClientStep, kv_set, kv_get, GetReturn, kv_close, CloseDone, ClientDie,
      ClientPoll, client_handle_get_response,
      client_handle_recv_rdma_rkey_get, client_handle_recv_rdma_rkey_set,
      TakeReply, RdmaReadDone, RdmaWriteDone, RdmaRead, QpError,
      accept_new_connection, RemoveFailedConnection, RemoveConnection,
      serverVars
<1>9. CASE ibv_poll_cq \/ StartPass \/ EndPass \/ UNCHANGED vars
  BY <1>2, <1>9 DEF ibv_poll_cq, StartPass, EndPass, vars, serverVars
<1> QED
  BY <1>2, <1>4, <1>5, <1>6, <1>7, <1>8, <1>9
  DEF Next, NetworkStep, ServerStep

(* A reader that holds the lock of an entry reads one value: until its FIN *)
(* no handler, no removed connection and no RDMA write, also none of a     *)
(* connection being removed, changes the buffer.                           *)
THEOREM ReadersSeeOneValue == Spec => LockedValueIsStable
<1>1. RInv /\ [Next]_vars =>
        [\A k \in Keys :
           db[k].num_readers > 0 =>
              /\ db'[k].value = db[k].value
              /\ db'[k].filling = db[k].filling
              /\ db'[k].mr = db[k].mr
              /\ db'[k].size = db[k].size]_vars
  BY ReadValuesStay DEF SameValue
<1> QED
  BY SecuredInvariance, <1>1, PTL DEF Spec, LockedValueIsStable

-----------------------------------------------------------------------------
(* Values that are written in part.                                        *)

(* Who holds the lock of t's wait, if anyone, is not filling the entry. *)
Calm(t) == waiting_fin_q[t] # NoKey => ~db[waiting_fin_q[t]].filling

FillingIsLocked == \A k \in Keys : db[k].filling => db[k].num_writers = 1

(* The client's record p of the tid t; its value was never read in part. *)
RecordRight(t, p) ==
    /\ Alive(Owner(t))
    /\ t[2] <= tid[Owner(t)]
    /\ p.val # Torn
    /\ p.op = "SET" => ~p.done
    /\ p.op = "GET" => pc[Owner(t)] = "get" /\ t[2] = tid[Owner(t)]

(* A request for a buffer is still in the table of the client that fills it *)
(* in the end, and another wait of its tid is over.                         *)
Expected(op, t, k, v) ==
    /\ op \in Requests \cup {"FIN"} => Calm(t)
    /\ op = "SET" /\ ~EagerSet(k, v) => Waits(t, "SET")

ExpectedListed(t) ==
    Expected(internal_q[t].op, t, internal_q[t].key, internal_q[t].val)

(* What is filled is being filled by a client that has not sent its FIN. *)
Whole ==
    /\ FillingIsLocked
    /\ \A t \in Tids :
          /\ pending[t] # NoReq => RecordRight(t, pending[t])
          /\ Calm(t) \/ Waits(t, "SET")
          /\ t \in Listed => ExpectedListed(t)
    /\ \A c \in Clients :
          /\ \A m \in Posted(c) : Expected(m.op, m.tid, m.key, m.val)
          /\ \A m \in Replied(c) : m.val # Torn
          /\ \A m \in Completed(c) : Calm(m.tid)

(* What the invariants before say of types. *)
LEMMA WholeTypes ==
    ASSUME RInv
    PROVE  /\ TypeOK /\ ServerTypeOK /\ LocksAreAccountedFor
           /\ db \in [Keys -> Entry] /\ sorted_q \in Seq(Tids)
           /\ waiting_fin_q \in [Tids -> Keys \cup {NoKey}]
           /\ pending \in [Tids -> ClientRequest \cup {NoReq}]
           /\ c2s \in [Clients -> Seq(WorkRequest)]
           /\ s2c \in [Clients -> Seq(Reply)]
           /\ wcq \in [Clients -> Seq(Completion)]
           /\ pc \in [Clients -> {"out", "app", "get", "close", "gone"}]
           /\ tid \in [Clients -> 0 .. MaxOps]
           /\ \A c \in Clients : Orderly(c) /\ Secured(c)
           /\ \A m \in Listed : m \in Tids
<1>1. \A t \in ToSet(sorted_q) : t \in Tids
  BY Elements DEF RInv, TInv, IInv, TypeOK, ServerTypeOK
<1> QED
  BY <1>1 DEF RInv, TInv, IInv, TypeOK, ServerTypeOK, ClientTypeOK, Listed

(* No value is the torn one. *)
LEMMA ContentsAreWhole == \A v \in Contents : v # Torn
  BY SentinelAssumption DEF Contents

(* A step of the slot c that changes no entry, no wait and no queue. *)
WholeFrame(c) ==
    /\ UNCHANGED <<db, waiting_fin_q, internal_q, sorted_q>>
    /\ \A b \in Clients \ {c} :
          /\ c2s'[b] = c2s[b] /\ s2c'[b] = s2c[b] /\ wcq'[b] = wcq[b]
          /\ pc'[b] = pc[b] /\ tid'[b] = tid[b]
    /\ \A u \in Tids : Owner(u) # c => pending'[u] = pending[u]

(* It may take a record from its table when nothing refers to it any more. *)
LEMMA SlotStaysWhole ==
    ASSUME RInv, Whole, NEW c \in Clients, WholeFrame(c),
           \A u \in Tids : Owner(u) = c =>
              /\ pending'[u] # NoReq => RecordRight(u, pending[u])'
              /\ Waits(u, "SET") =>
                    \/ Waits(u, "SET")'
                    \/ /\ Calm(u) /\ u \notin Listed
                       /\ \A m \in Posted(c) : m.tid # u,
           \A m \in Posted(c)' :
              m \in Posted(c) \/ Expected(m.op, m.tid, m.key, m.val)',
           \A m \in Replied(c)' : m \in Replied(c),
           \A m \in Completed(c)' : m \in Completed(c) \/ Calm(m.tid)
    PROVE  Whole'
<1>1. /\ \A t : Calm(t)' = Calm(t)
      /\ Listed' = Listed /\ FillingIsLocked'
  BY DEF WholeFrame, Calm, Listed, FillingIsLocked, Whole
<1>2. ASSUME NEW t \in Tids
      PROVE  /\ pending'[t] # NoReq => RecordRight(t, pending[t])'
             /\ Calm(t)' \/ Waits(t, "SET")'
             /\ t \in Listed' => ExpectedListed(t)'
  <2>1. Owner(t) \in Clients
    BY OwnerType
  <2>2. Waits(t, "SET") => Waits(t, "SET")' \/ (Calm(t) /\ t \notin Listed)
    BY DEF WholeFrame, Waits
  <2>3. pending'[t] # NoReq => RecordRight(t, pending[t])'
    BY <2>1 DEF WholeFrame, Whole, RecordRight, Alive
  <2>4. t \in Listed' => ExpectedListed(t)'
    BY <1>1, <2>2 DEF WholeFrame, Whole, ExpectedListed, Expected
  <2> QED
    BY <1>1, <2>2, <2>3, <2>4 DEF Whole
<1>3. ASSUME NEW b \in Clients
      PROVE  /\ \A m \in Posted(b)' : Expected(m.op, m.tid, m.key, m.val)'
             /\ \A m \in Replied(b)' : m.val # Torn
             /\ \A m \in Completed(b)' : Calm(m.tid)'
  <2>1. \A m \in Posted(b) :
           m = Shutdown \/ (m.tid \in Tids /\ Owner(m.tid) = b)
    BY WholeTypes, PlacedTids DEF Session
  <2>2. CASE b = c
    <3>1. ASSUME NEW m \in Posted(b)', m \in Posted(b)
          PROVE  Expected(m.op, m.tid, m.key, m.val)'
      <4>1. Expected(m.op, m.tid, m.key, m.val)
        BY <3>1 DEF Whole
      <4>2. CASE m = Shutdown
        BY <4>2 DEF Shutdown, Expected, Requests
      <4>3. CASE m.tid \in Tids /\ Owner(m.tid) = c
        BY <1>1, <2>2, <4>1, <4>3 DEF Expected
      <4> QED
        BY <2>1, <2>2, <3>1, <4>2, <4>3
    <3> QED
      BY <1>1, <2>2, <3>1 DEF Whole
  <2>3. CASE b # c
    <3>1. /\ Posted(b)' = Posted(b) /\ Replied(b)' = Replied(b)
          /\ Completed(b)' = Completed(b)
      BY <2>3 DEF WholeFrame, Posted, Replied, Completed
    <3>2. ASSUME NEW m \in Posted(b)
          PROVE  Expected(m.op, m.tid, m.key, m.val)'
      <4>1. Expected(m.op, m.tid, m.key, m.val)
        BY DEF Whole
      <4>2. CASE m = Shutdown
        BY <4>2 DEF Shutdown, Expected, Requests
      <4>3. CASE m.tid \in Tids /\ Owner(m.tid) = b
        BY <1>1, <2>3, <4>1, <4>3 DEF Expected, WholeFrame, Waits
      <4> QED
        BY <2>1, <4>2, <4>3
    <3> QED
      BY <1>1, <3>1, <3>2 DEF Whole
  <2> QED
    BY <2>2, <2>3
<1> QED
  BY <1>1, <1>2, <1>3 DEF Whole

(* A new tid is in no record and no wait that is being filled. *)
LEMMA NewTidIsCalm ==
    ASSUME RInv, Whole, NEW c \in Clients, get_new_tid(c)
    PROVE  /\ NextTid(c) \in Tids /\ Owner(NextTid(c)) = c
           /\ NextTid(c)[2] = tid'[c] /\ tid'[c] = tid[c] + 1
           /\ pending[NextTid(c)] = NoReq /\ Calm(NextTid(c))
<1>1. /\ NextTid(c) \in Tids /\ Owner(NextTid(c)) = c
      /\ NextTid(c)[2] = tid[c] + 1 /\ tid[c] \in Nat
      /\ tid'[c] = tid[c] + 1
  <2>1. NextTid(c) \in Tids
    BY WholeTypes, NextTidType
  <2>2. tid[c] \in 0 .. MaxOps /\ MaxOps \in Nat
    BY WholeTypes, ClientsAssumption
  <2>3. tid'[c] = tid[c] + 1
    BY WholeTypes DEF get_new_tid
  <2> QED
    BY <2>1, <2>2, <2>3 DEF NextTid, Owner
<1>2. pending[NextTid(c)] = NoReq
  BY <1>1 DEF Whole, RecordRight
<1> QED
  BY <1>1, <1>2 DEF Whole, Waits

(* kv_set and kv_get. *)
LEMMA CallsStayWhole ==
    ASSUME RInv, Whole, NEW c \in Clients,
           \/ \E k \in Keys, v \in Values : kv_set(c, k, v)
           \/ \E k \in Keys : kv_get(c, k)
    PROVE  Whole'
<1>1. PICK t : t = NextTid(c)
  OBVIOUS
<1>2. get_new_tid(c) /\ pc[c] = "app" /\ UNCHANGED serverVars
  BY DEF kv_set, kv_get
<1>3. /\ t \in Tids /\ Owner(t) = c /\ t[2] = tid'[c]
      /\ tid'[c] = tid[c] + 1 /\ pending[t] = NoReq /\ Calm(t)
  BY <1>1, <1>2, NewTidIsCalm
<1>4. /\ UNCHANGED <<s2c, wcq>>
      /\ \A b \in Clients \ {c} : pc'[b] = pc[b] /\ tid'[b] = tid[b]
      /\ \A u \in Tids \ {t} : pending'[u] = pending[u]
      /\ Alive(c)'
  BY <1>1, <1>2, <1>3, WholeTypes
  DEF kv_set, kv_get, get_new_tid, serverVars, Alive
<1>5. /\ \A b \in Clients \ {c} : c2s'[b] = c2s[b]
      /\ \A m \in Posted(c)' : m \in Posted(c)
                               \/ Expected(m.op, m.tid, m.key, m.val)'
      /\ pending'[t] # NoReq => RecordRight(t, pending[t])'
  <2>1. ASSUME NEW k \in Keys, NEW v \in Values, kv_set(c, k, v)
        PROVE  <1>5!:
    <3>1. PICK m : m = Message("SET", t, k, v, 0)
      OBVIOUS
    <3>2. v \in Contents /\ 0 \in Nat
      BY DEF Contents
    <3>3. m \in WorkRequest
      BY <1>3, <3>1, <3>2, MessageType DEF SendOps
    <3>4. /\ c2s' = [c2s EXCEPT ![c] = Append(@, m)]
          /\ pending' = IF EagerSet(k, v) THEN pending
                        ELSE [pending EXCEPT ![t] =
                           [op |-> "SET", key |-> k, val |-> v,
                            done |-> FALSE]]
      BY <1>1, <2>1, <3>1 DEF kv_set, Post
    <3>5. /\ c2s'[c] = Append(c2s[c], m)
          /\ \A b \in Clients \ {c} : c2s'[b] = c2s[b]
          /\ pending'[t] = IF EagerSet(k, v) THEN NoReq
                           ELSE [op |-> "SET", key |-> k, val |-> v,
                                 done |-> FALSE]
      BY <1>3, <3>4, WholeTypes
    <3>6. Posted(c)' = Posted(c) \cup {m}
      BY <3>3, <3>5, WholeTypes, Added DEF Posted
    <3>7. [op |-> "SET", key |-> k, val |-> v, done |-> FALSE] \in ClientRequest
      BY <3>2 DEF ClientRequest
    <3>8. ~EagerSet(k, v) => Waits(t, "SET")'
      <4>1. PICK p : p = [op |-> "SET", key |-> k, val |-> v, done |-> FALSE]
        OBVIOUS
      <4>2. p # NoReq /\ p.op = "SET"
        BY <3>7, <4>1, ClientRequestAssumption
      <4>3. ~EagerSet(k, v) => pending'[t] = p
        BY <3>5, <4>1
      <4> QED
        BY <4>2, <4>3 DEF Waits
    <3>9. Expected("SET", t, k, v)'
      BY <1>2, <1>3, <3>8 DEF Expected, Calm, serverVars
    <3>10. Expected(m.op, m.tid, m.key, m.val)'
      BY <3>1, <3>9 DEF Message
    <3>11. pending'[t] # NoReq => RecordRight(t, pending[t])'
      BY <1>3, <1>4, <3>2, <3>5, WholeTypes, NextTidType, <1>2,
         ContentsAreWhole
      DEF RecordRight
    <3> QED
      BY <3>5, <3>6, <3>10, <3>11
  <2>2. ASSUME NEW k \in Keys, kv_get(c, k)
        PROVE  <1>5!:
    <3>1. PICK m : m = Message("GET", t, k, Empty, 0)
      OBVIOUS
    <3>2. Empty \in Contents /\ 0 \in Nat
      BY DEF Contents
    <3>3. m \in WorkRequest
      BY <1>3, <3>1, <3>2, MessageType DEF SendOps
    <3>4. /\ c2s' = [c2s EXCEPT ![c] = Append(@, m)]
          /\ pending' = [pending EXCEPT ![t] =
                           [op |-> "GET", key |-> k, val |-> Empty,
                            done |-> FALSE]]
          /\ pc' = [pc EXCEPT ![c] = "get"]
      BY <1>1, <2>2, <3>1 DEF kv_get, Post
    <3>5. /\ c2s'[c] = Append(c2s[c], m)
          /\ \A b \in Clients \ {c} : c2s'[b] = c2s[b]
          /\ pending'[t] = [op |-> "GET", key |-> k, val |-> Empty,
                            done |-> FALSE]
          /\ pc'[c] = "get"
      BY <1>3, <3>4, WholeTypes
    <3>6. Posted(c)' = Posted(c) \cup {m}
      BY <3>3, <3>5, WholeTypes, Added DEF Posted
    <3>7. Expected("GET", t, k, Empty)'
      BY <1>2, <1>3 DEF Expected, Calm, serverVars
    <3>8. Expected(m.op, m.tid, m.key, m.val)'
      BY <3>1, <3>7 DEF Message
    <3>9. RecordRight(t, pending[t])'
      BY <1>3, <1>4, <3>2, <3>5, WholeTypes, NextTidType, <1>2,
         ContentsAreWhole
      DEF RecordRight
    <3> QED
      BY <3>5, <3>6, <3>8, <3>9
  <2> QED
    BY <2>1, <2>2
<1>6. ASSUME NEW u \in Tids, Owner(u) = c, u # t
      PROVE  /\ pending'[u] # NoReq => RecordRight(u, pending[u])'
             /\ Waits(u, "SET") => Waits(u, "SET")'
  <2>1. pending'[u] = pending[u]
    BY <1>4, <1>6
  <2>2. pending[u] # NoReq =>
           RecordRight(u, pending[u]) /\ pending[u].op # "GET"
    BY <1>2, <1>6 DEF Whole, RecordRight
  <2>3. u[2] \in Nat /\ tid[c] \in Nat
    BY WholeTypes, ClientsAssumption, <1>6 DEF Tids
  <2> QED
    BY <1>3, <1>4, <1>6, <2>1, <2>2, <2>3 DEF RecordRight, Waits
<1>7. ~Waits(t, "SET")
  BY <1>3 DEF Waits
<1>8. WholeFrame(c)
  BY <1>2, <1>3, <1>4, <1>5 DEF WholeFrame, serverVars
<1>9. Replied(c)' = Replied(c) /\ Completed(c)' = Completed(c)
  BY <1>4 DEF Replied, Completed
<1> QED
  BY <1>3, <1>5, <1>6, <1>7, <1>8, <1>9, SlotStaysWhole

(* A get that returns, a close, and its end. *)
LEMMA ReturnsStayWhole ==
    ASSUME RInv, Whole, NEW c \in Clients,
           GetReturn(c) \/ kv_close(c) \/ CloseDone(c)
    PROVE  Whole'
<1>1. /\ UNCHANGED serverVars /\ UNCHANGED <<wcq, tid>>
      /\ \A b \in Clients \ {c} : pc'[b] = pc[b] /\ c2s'[b] = c2s[b]
      /\ \A u \in Tids : Owner(u) # c => pending'[u] = pending[u]
  BY WholeTypes DEF GetReturn, kv_close, CloseDone, Owner
<1>2. WholeFrame(c) /\ Replied(c)' = Replied(c) /\ Completed(c)' = Completed(c)
  BY <1>1 DEF WholeFrame, serverVars, Replied, Completed
<1>3. CASE GetReturn(c)
  <2>1. PICK t : t = <<c, tid[c]>>
    OBVIOUS
  <2>2. /\ pc[c] = "get" /\ pc'[c] = "app" /\ UNCHANGED c2s
        /\ pending[t].done /\ pending' = [pending EXCEPT ![t] = NoReq]
    BY <1>3, <2>1, WholeTypes DEF GetReturn
  <2>3. ASSUME NEW u \in Tids, Owner(u) = c
        PROVE  /\ pending'[u] # NoReq => RecordRight(u, pending[u])'
               /\ Waits(u, "SET") => Waits(u, "SET")'
    <3>1. u = t <=> u[2] = tid[c]
      BY <2>1, <2>3 DEF Tids, Owner
    <3>2. pending[u] # NoReq => RecordRight(u, pending[u])
      BY DEF Whole
    <3>3. CASE u = t
      <4>1. pending'[u] = NoReq
        BY <2>2, <3>3, WholeTypes
      <4>2. ~Waits(u, "SET")
        BY <2>2, <3>2, <3>3 DEF Waits, RecordRight
      <4> QED
        BY <4>1, <4>2
    <3>4. CASE u # t
      <4>1. pending'[u] = pending[u]
        BY <2>2, <3>4, WholeTypes
      <4> QED
        BY <1>1, <2>2, <2>3, <3>1, <3>2, <3>4, <4>1
        DEF RecordRight, Waits, Alive
    <3> QED
      BY <3>3, <3>4
  <2>4. Posted(c)' = Posted(c)
    BY <2>2 DEF Posted
  <2> QED
    BY <1>2, <2>3, <2>4, SlotStaysWhole
<1>4. CASE kv_close(c)
  <2>1. pc[c] = "app" /\ pc'[c] = "close" /\ UNCHANGED <<c2s, pending>>
    BY <1>4, WholeTypes DEF kv_close
  <2>2. Posted(c)' = Posted(c)
    BY <2>1 DEF Posted
  <2>3. ASSUME NEW u \in Tids, Owner(u) = c
        PROVE  /\ pending'[u] # NoReq => RecordRight(u, pending[u])'
               /\ Waits(u, "SET") => Waits(u, "SET")'
    BY <1>1, <2>1, <2>3 DEF Whole, RecordRight, Waits, Alive
  <2> QED
    BY <1>2, <2>2, <2>3, SlotStaysWhole
<1>5. CASE CloseDone(c)
  <2>1. PendingOf(c) = {} /\ UNCHANGED pending
    BY <1>5 DEF CloseDone
  <2>2. \A u \in Tids : Owner(u) = c => pending[u] = NoReq
    BY <2>1 DEF PendingOf
  <2>3. \A m \in Posted(c)' : m \in Posted(c) \/ m = Shutdown
    BY <1>5, WholeTypes, ShutdownIsPosted
  <2>4. Expected(Shutdown.op, Shutdown.tid, Shutdown.key, Shutdown.val)'
    BY DEF Shutdown, Expected, Requests
  <2> QED
    BY <1>2, <2>1, <2>2, <2>3, <2>4, SlotStaysWhole DEF Waits
<1> QED
  BY <1>3, <1>4, <1>5

(* A queue from which the client takes the first. *)
LEMMA HeadIsTaken ==
    ASSUME NEW S, NEW q \in [Clients -> Seq(S)], NEW c \in Clients,
           q[c] # <<>>, NEW r, r = [q EXCEPT ![c] = Tail(@)]
    PROVE  /\ Head(q[c]) \in ToSet(q[c])
           /\ \A m \in ToSet(r[c]) : m \in ToSet(q[c])
<1>1. q[c] \in Seq(S) /\ r[c] = Tail(q[c])
  OBVIOUS
<1>2. Len(q[c]) \in Nat /\ Len(Tail(q[c])) = Len(q[c]) - 1
      /\ Tail(q[c]) \in Seq(S) /\ Head(q[c]) \in ToSet(q[c])
  BY <1>1, HeadTaken, LenProperties
<1>3. \A i \in 1 .. Len(Tail(q[c])) : Tail(q[c])[i] = q[c][i + 1]
  BY <1>1, HeadTailProperties
<1>4. /\ ToSet(q[c]) = {q[c][i] : i \in 1 .. Len(q[c])}
      /\ ToSet(Tail(q[c])) = {Tail(q[c])[i] : i \in 1 .. Len(Tail(q[c]))}
  BY <1>1, <1>2, Elements
<1> QED
  BY <1>1, <1>2, <1>3, <1>4

(* Posting one request posts no other. *)
LEMMA NothingElsePosted ==
    ASSUME c2s \in [Clients -> Seq(WorkRequest)], NEW c \in Clients, NEW m,
           Post(c, m)
    PROVE  /\ \A b \in Clients \ {c} : c2s'[b] = c2s[b]
           /\ \A n \in Posted(c)' : n \in Posted(c) \/ n = m
<1>1. /\ c2s'[c] = Append(c2s[c], m)
      /\ \A b \in Clients \ {c} : c2s'[b] = c2s[b]
  BY DEF Post
<1>2. c2s[c] \in Seq(WorkRequest \cup {m})
  OBVIOUS
<1>3. ToSet(Append(c2s[c], m)) = ToSet(c2s[c]) \cup {m}
  BY <1>2, Added
<1> QED
  BY <1>1, <1>3 DEF Posted

(* What the client polls. *)
LEMMA PollsStayWhole ==
    ASSUME RInv, Whole, NEW c \in Clients, ClientPoll(c)
    PROVE  Whole'
<1>1. /\ TypeOK /\ Orderly(c) /\ s2c \in [Clients -> Seq(Reply)]
      /\ wcq \in [Clients -> Seq(Completion)]
      /\ c2s \in [Clients -> Seq(WorkRequest)]
      /\ pending \in [Tids -> ClientRequest \cup {NoReq}]
  BY WholeTypes
<1>2. UNCHANGED <<db, waiting_fin_q, internal_q, sorted_q, pc, tid>>
  BY DEF ClientPoll, client_handle_get_response,
     client_handle_recv_rdma_rkey_get, client_handle_recv_rdma_rkey_set,
     RdmaReadDone, RdmaWriteDone, TakeReply, TakeCompletion, serverVars,
     clientVars
<1>3. \A u \in Tids : Calm(u)' = Calm(u)
  BY <1>2 DEF Calm
<1>4. CASE client_handle_get_response(c)
  <2>1. PICK r : r = Head(s2c[c])
    OBVIOUS
  <2>2. PICK p : p = pending[r.tid]
    OBVIOUS
  <2>3. /\ s2c[c] # <<>> /\ s2c' = [s2c EXCEPT ![c] = Tail(@)]
        /\ UNCHANGED <<c2s, wcq>>
        /\ pending' = [pending EXCEPT ![r.tid].val = r.val,
                                      ![r.tid].done = TRUE]
    BY <1>4, <2>1 DEF client_handle_get_response, TakeReply
  <2>4. r \in Replied(c) /\ \A n \in Replied(c)' : n \in Replied(c)
    BY <1>1, <2>1, <2>3, HeadIsTaken DEF Replied
  <2>5. r.tid \in Tids /\ Owner(r.tid) = c /\ r.val # Torn
    BY <1>1, <2>4, PlacedTids DEF Session, Whole
  <2>6. p \in ClientRequest /\ p.op = "GET" /\ p # NoReq
    BY <1>1, <1>4, <2>1, <2>2, TakeReplyType, ClientRequestAssumption
    DEF client_handle_get_response
  <2>7. /\ pending'[r.tid] = [p EXCEPT !.val = r.val, !.done = TRUE]
        /\ \A u \in Tids \ {r.tid} : pending'[u] = pending[u]
    BY <1>1, <2>2, <2>3, <2>5
  <2>8. pending'[r.tid].op = "GET" /\ pending'[r.tid].val = r.val
    BY <2>6, <2>7 DEF ClientRequest
  <2>9. RecordRight(r.tid, pending[r.tid])'
    <3>1. RecordRight(r.tid, p)
      BY <2>2, <2>5, <2>6 DEF Whole
    <3> QED
      BY <1>2, <2>5, <2>6, <2>8, <3>1 DEF RecordRight, Alive
  <2>10. ~Waits(r.tid, "SET")
    BY <2>2, <2>6 DEF Waits
  <2>11. ASSUME NEW u \in Tids, u # r.tid
         PROVE  /\ pending'[u] # NoReq => RecordRight(u, pending[u])'
                /\ Waits(u, "SET") => Waits(u, "SET")'
    BY <1>2, <2>7, <2>11 DEF Whole, RecordRight, Alive, Waits
  <2>12. WholeFrame(c)
    BY <1>1, <1>2, <2>3, <2>5, <2>7 DEF WholeFrame
  <2>13. Posted(c)' = Posted(c) /\ Completed(c)' = Completed(c)
    BY <2>3 DEF Posted, Completed
  <2> QED
    BY <2>4, <2>5, <2>9, <2>10, <2>11, <2>12, <2>13, SlotStaysWhole
<1>5. CASE \/ client_handle_recv_rdma_rkey_get(c)
           \/ client_handle_recv_rdma_rkey_set(c)
  <2>1. PICK r : r = Head(s2c[c])
    OBVIOUS
  <2>2. PICK m : m = IF client_handle_recv_rdma_rkey_get(c)
                     THEN Message("READ", r.tid, r.key, Empty, r.rkey)
                     ELSE Message("WRITE", r.tid, r.key, pending[r.tid].val,
                                  r.rkey)
    OBVIOUS
  <2>3. /\ s2c[c] # <<>> /\ s2c' = [s2c EXCEPT ![c] = Tail(@)]
        /\ UNCHANGED <<wcq, pending>> /\ Post(c, m)
    BY <1>5, <2>1, <2>2
    DEF client_handle_recv_rdma_rkey_get, client_handle_recv_rdma_rkey_set,
        TakeReply, clientVars
  <2>4. \A n \in Replied(c)' : n \in Replied(c)
    BY <1>1, <2>3, HeadIsTaken DEF Replied
  <2>5. m.op \in RdmaOps
    BY <2>2 DEF Message, RdmaOps
  <2>6. Expected(m.op, m.tid, m.key, m.val)'
    BY <2>5 DEF Expected, RdmaOps, Requests
  <2>7. /\ \A b \in Clients \ {c} : c2s'[b] = c2s[b]
        /\ \A n \in Posted(c)' : n \in Posted(c) \/ n = m
    BY <1>1, <2>3, NothingElsePosted
  <2>8. \A u \in Tids : /\ pending'[u] # NoReq => RecordRight(u, pending[u])'
                        /\ Waits(u, "SET") => Waits(u, "SET")'
    BY <1>2, <2>3 DEF Whole, RecordRight, Alive, Waits
  <2>9. WholeFrame(c)
    BY <1>1, <1>2, <2>3, <2>7 DEF WholeFrame
  <2>10. Completed(c)' = Completed(c)
    BY <2>3 DEF Completed
  <2> QED
    BY <2>4, <2>6, <2>7, <2>8, <2>9, <2>10, SlotStaysWhole
<1>6. CASE RdmaReadDone(c) \/ RdmaWriteDone(c)
  <2>1. PICK t : t = Head(wcq[c]).tid
    OBVIOUS
  <2>2. PICK m : m = Message("FIN", t, pending[t].key, Empty, 0)
    OBVIOUS
  <2>3. /\ wcq[c] # <<>> /\ wcq' = [wcq EXCEPT ![c] = Tail(@)]
        /\ UNCHANGED s2c /\ Post(c, m)
    BY <1>6, <2>1, <2>2
    DEF RdmaReadDone, RdmaWriteDone, TakeCompletion, client_send_rdma_fin,
        serverVars
  <2>4. /\ Head(wcq[c]) \in Completed(c)
        /\ \A n \in Completed(c)' : n \in Completed(c)
    BY <1>1, <2>3, HeadIsTaken DEF Completed
  <2>5. t \in Tids /\ Owner(t) = c /\ Calm(t)
    BY <1>1, <2>1, <2>4, PlacedTids DEF Session, Whole
  <2>6. \A n \in Posted(c) : n.tid # t
    <3>1. t \in TidsIn(wcq[c])
      BY <2>1, <2>4 DEF TidsIn, Completed
    <3> QED
      BY <1>1, <3>1 DEF Orderly, Apart, TidsIn, Posted
  <2>7. t \notin Listed
    <3>1. t \in TidsIn(wcq[c])
      BY <2>1, <2>4 DEF TidsIn, Completed
    <3> QED
      BY <1>1, <3>1 DEF Orderly, Apart, Listed
  <2>8. Expected(m.op, m.tid, m.key, m.val)'
    <3>1. m.op = "FIN" /\ m.tid = t
      BY <2>2 DEF Message
    <3> QED
      BY <1>3, <2>5, <3>1 DEF Expected
  <2>9. /\ \A b \in Clients \ {c} : c2s'[b] = c2s[b]
        /\ \A n \in Posted(c)' : n \in Posted(c) \/ n = m
    BY <1>1, <2>3, NothingElsePosted
  <2>10. /\ \A u \in Tids \ {t} : pending'[u] = pending[u]
         /\ pending'[t] # NoReq => RecordRight(t, pending[t])'
    <3>1. PICK p : p = pending[t]
      OBVIOUS
    <3>2. CASE RdmaReadDone(c)
      <4>1. p \in ClientRequest /\ p.op = "GET" /\ p # NoReq
        BY <1>1, <2>1, <3>1, <3>2, TakeCompletionType,
           ClientRequestAssumption
        DEF RdmaReadDone
      <4>2. pending' = [pending EXCEPT ![t].done = TRUE]
        BY <2>1, <3>2 DEF RdmaReadDone
      <4>3. /\ pending'[t] = [p EXCEPT !.done = TRUE]
            /\ \A u \in Tids \ {t} : pending'[u] = pending[u]
        BY <1>1, <2>5, <3>1, <4>2
      <4>4. pending'[t].op = "GET" /\ pending'[t].val = p.val
        BY <4>1, <4>3 DEF ClientRequest
      <4>5. RecordRight(t, p)
        BY <2>5, <3>1, <4>1 DEF Whole
      <4>6. RecordRight(t, pending[t])'
        BY <1>2, <4>1, <4>4, <4>5 DEF RecordRight, Alive
      <4> QED
        BY <4>3, <4>6
    <3>3. CASE RdmaWriteDone(c)
      <4>1. pending' = [pending EXCEPT ![t] = NoReq]
        BY <2>1, <3>3 DEF RdmaWriteDone
      <4> QED
        BY <1>1, <2>5, <4>1
    <3> QED
      BY <1>6, <3>2, <3>3
  <2>11. ASSUME NEW u \in Tids, u # t
         PROVE  /\ pending'[u] # NoReq => RecordRight(u, pending[u])'
                /\ Waits(u, "SET") => Waits(u, "SET")'
    BY <1>2, <2>10, <2>11 DEF Whole, RecordRight, Alive, Waits
  <2>12. WholeFrame(c)
    BY <1>1, <1>2, <2>3, <2>5, <2>9, <2>10 DEF WholeFrame
  <2>13. Replied(c)' = Replied(c)
    BY <2>3 DEF Replied
  <2> QED
    BY <2>4, <2>5, <2>6, <2>7, <2>8, <2>9, <2>10, <2>11, <2>12, <2>13,
       SlotStaysWhole
<1> QED
  BY <1>4, <1>5, <1>6 DEF ClientPoll

(* A step that is none of this. *)
LEMMA QuietStaysWhole ==
    ASSUME Whole, UNCHANGED serverVars, UNCHANGED <<c2s, clientVars>>
    PROVE  Whole'
<1>1. /\ UNCHANGED <<db, waiting_fin_q, internal_q, sorted_q, s2c, c2s, wcq>>
      /\ UNCHANGED <<pending, pc, tid>>
  BY DEF serverVars, clientVars
<1>2. /\ \A t : Calm(t)' = Calm(t) /\ Waits(t, "SET")' = Waits(t, "SET")
      /\ \A t, p : RecordRight(t, p)' = RecordRight(t, p)
      /\ Listed' = Listed /\ FillingIsLocked' = FillingIsLocked
      /\ \A c : /\ Posted(c)' = Posted(c) /\ Replied(c)' = Replied(c)
                /\ Completed(c)' = Completed(c)
  BY <1>1 DEF Calm, Waits, RecordRight, Alive, Listed, FillingIsLocked,
     Posted, Replied, Completed
<1>3. /\ \A op, t, k, v : Expected(op, t, k, v)' = Expected(op, t, k, v)
      /\ \A t : ExpectedListed(t)' = ExpectedListed(t)
  BY <1>1, <1>2 DEF Expected, ExpectedListed
<1> QED
  BY <1>1, <1>2, <1>3 DEF Whole

(* A slot without a running client, which only gives up what it has. *)
LEMMA SlotOnlyLoses ==
    ASSUME RInv, Whole, NEW c \in Clients, WholeFrame(c), ~Alive(c),
           UNCHANGED pending,
           \A m \in Posted(c)' : m \in Posted(c),
           \A m \in Replied(c)' : m \in Replied(c),
           \A m \in Completed(c)' : m \in Completed(c)
    PROVE  Whole'
<1>1. \A u \in Tids : Owner(u) = c => pending[u] = NoReq
  BY DEF Whole, RecordRight
<1>2. \A u \in Tids : Owner(u) = c => /\ pending'[u] = NoReq
                                      /\ ~Waits(u, "SET")
  BY <1>1 DEF Waits
<1> QED
  BY <1>2, SlotStaysWhole

(* A slot that is taken, its client's last message and its end. *)
LEMMA SessionsStayWhole ==
    ASSUME RInv, Whole, NEW c \in Clients,
           accept_new_connection(c) \/ RecvShutdown(c) \/ RemoveConnection(c)
    PROVE  Whole'
<1>1. /\ TypeOK /\ PolledAreSends /\ Orderly(c)
      /\ \A b \in Clients : Orderly(b)
      /\ pc \in [Clients -> {"out", "app", "get", "close", "gone"}]
      /\ c2s \in [Clients -> Seq(WorkRequest)]
      /\ s2c \in [Clients -> Seq(Reply)]
      /\ tid \in [Clients -> 0 .. MaxOps]
  BY WholeTypes DEF RInv, TInv, IInv
<1>2. CASE accept_new_connection(c)
  <2>1. /\ UNCHANGED serverVars /\ UNCHANGED <<pending, wcq, c2s>>
        /\ pc[c] = "out"
        /\ \A b \in Clients \ {c} : pc'[b] = pc[b] /\ tid'[b] = tid[b]
    BY <1>1, <1>2 DEF accept_new_connection
  <2>2. WholeFrame(c) /\ ~Alive(c)
    BY <2>1 DEF WholeFrame, serverVars, Alive
  <2>3. /\ Posted(c)' = Posted(c) /\ Replied(c)' = Replied(c)
        /\ Completed(c)' = Completed(c)
    BY <2>1 DEF Posted, Replied, Completed, serverVars
  <2> QED
    BY <2>1, <2>2, <2>3, SlotOnlyLoses
<1>3. CASE RecvShutdown(c)
  <2>1. PICK m : m = Head(c2s[c])
    OBVIOUS
  <2>2. TakeRequest(c, "SHUTDOWN") /\ UNCHANGED serverVars
    BY <1>3 DEF RecvShutdown
  <2>3. /\ m \in Posted(c) /\ m.op = "SHUTDOWN"
        /\ \A n \in Posted(c)' : n \in Posted(c)
        /\ \A b \in Clients \ {c} : c2s'[b] = c2s[b]
        /\ UNCHANGED <<pending, tid, pc, wcq>>
    BY <1>1, <2>1, <2>2, TakenIsPosted
  <2>4. ~Alive(c)
    <3>1. m = Shutdown
      <4>1. m \in WorkRequest
        BY <1>1, <2>3, PlacedTids
      <4> QED
        BY <2>3, <4>1 DEF WorkRequest, SendOps, RdmaOps
    <3> QED
      BY <1>1, <2>3, <3>1 DEF Orderly, SlotIsClean, Alive
  <2>5. WholeFrame(c)
    BY <2>2, <2>3 DEF WholeFrame, serverVars
  <2>6. Replied(c)' = Replied(c) /\ Completed(c)' = Completed(c)
    BY <2>2, <2>3 DEF Replied, Completed, serverVars
  <2> QED
    BY <2>3, <2>4, <2>5, <2>6, SlotOnlyLoses
<1>4. CASE RemoveConnection(c)
  <2>1. /\ closing = c
        /\ UNCHANGED <<db, waiting_fin_q, internal_q, sorted_q>>
        /\ UNCHANGED <<tid, wcq, pending>>
        /\ c2s'[c] = <<>> /\ s2c'[c] = <<>>
        /\ \A b \in Clients \ {c} :
              c2s'[b] = c2s[b] /\ s2c'[b] = s2c[b] /\ pc'[b] = pc[b]
    BY <1>1, <1>4 DEF RemoveConnection
  <2>2. ~Alive(c)
    BY <2>1, RunningSlots
  <2>3. WholeFrame(c)
    BY <2>1 DEF WholeFrame
  <2>4. Posted(c)' = {} /\ Replied(c)' = {} /\ Completed(c)' = Completed(c)
    BY <2>1, NoElements DEF Posted, Replied, Completed
  <2> QED
    BY <2>1, <2>2, <2>3, <2>4, SlotOnlyLoses
<1> QED
  BY <1>2, <1>3, <1>4

(* A write, after which the entry is whole. *)
LEMMA WriteStaysWhole ==
    ASSUME RInv, Whole, NEW c \in Clients, RdmaWrite(c)
    PROVE  Whole'
<1>1. /\ TypeOK /\ \A b \in Clients : Orderly(b) /\ Secured(b)
      /\ db \in [Keys -> Entry]
      /\ waiting_fin_q \in [Tids -> Keys \cup {NoKey}]
  BY WholeTypes
<1>2. PICK i :
        /\ RdmaExecute(c, i)
        /\ c2s[c][i].op = "WRITE"
        /\ \E v \in SentContent(c, c2s[c][i].val) :
              db' = [db EXCEPT ![c2s[c][i].key].value = v,
                               ![c2s[c][i].key].filling = FALSE]
  BY DEF RdmaWrite
<1>3. PICK m : m = c2s[c][i]
  OBVIOUS
<1>4. UNCHANGED <<waiting_fin_q, internal_q, sorted_q, s2c, pending, pc, tid,
                  polled>>
  BY DEF RdmaWrite, loopVars
<1>5. /\ m \in Posted(c) /\ m.tid \in Tids /\ Owner(m.tid) = c
      /\ m.key \in Keys /\ m.val \in Contents
      /\ \A n \in Posted(c)' : n \in Posted(c) /\ n.tid # m.tid
      /\ \A n \in Completed(c)' :
            n \in Completed(c) \/ (n.tid = m.tid /\ Alive(c))
      /\ \A b \in Clients \ {c} : c2s'[b] = c2s[b] /\ wcq'[b] = wcq[b]
  BY <1>2, <1>3, <1>4, ExecuteTakes
<1>6. PICK e : /\ e \in {[db[m.key] EXCEPT !.value = v, !.filling = FALSE] :
                            v \in SentContent(c, m.val)}
               /\ db' = [db EXCEPT ![m.key] = e]
  <2>1. PICK v \in SentContent(c, m.val) :
              db' = [db EXCEPT ![m.key].value = v, ![m.key].filling = FALSE]
    BY <1>2, <1>3
  <2>2. db' = [db EXCEPT ![m.key] =
                  [db[m.key] EXCEPT !.value = v, !.filling = FALSE]]
    BY <1>1, <1>5, <2>1
  <2> QED
    BY <2>1, <2>2
<1>7. /\ db' = [db EXCEPT ![m.key] = e]
      /\ ~e.filling
  BY <1>1, <1>5, <1>6 DEF Entry
<1>8. \A k \in Keys : db'[k] = IF k = m.key THEN e ELSE db[k]
  BY <1>1, <1>7
<1>9. FillingIsLocked'
  BY <1>7, <1>8 DEF Whole, FillingIsLocked
<1>10. \A u \in Tids : Calm(u) => Calm(u)'
  <2> SUFFICES ASSUME NEW u \in Tids, Calm(u), waiting_fin_q[u] # NoKey
               PROVE  ~db'[waiting_fin_q[u]].filling
    BY <1>4 DEF Calm
  <2>1. waiting_fin_q[u] \in Keys
    BY <1>1
  <2> QED
    BY <1>7, <1>8, <2>1 DEF Calm
<1>11. Alive(c) => Calm(m.tid)'
  <2> SUFFICES ASSUME Alive(c)
               PROVE  Calm(m.tid)'
    OBVIOUS
  <2>1. PostedLocked(c, m) /\ c # closing
    BY <1>1, <1>5, RunningSlots DEF Secured
  <2>2. waiting_fin_q[m.tid] = m.key
    BY <1>2, <1>3, <2>1 DEF PostedLocked, RdmaOps, Locked
  <2> QED
    BY <1>4, <1>5, <1>7, <1>8, <2>2 DEF Calm
<1>12. /\ \A u : Waits(u, "SET")' = Waits(u, "SET")
       /\ \A u, p : RecordRight(u, p)' = RecordRight(u, p)
       /\ Listed' = Listed
  BY <1>4 DEF Waits, RecordRight, Alive, Listed
<1>13. \A op, v, k : \A u \in Tids :
          Expected(op, u, k, v) => Expected(op, u, k, v)'
  BY <1>10, <1>12 DEF Expected
<1>14. ASSUME NEW b \in Clients
       PROVE  /\ \A n \in Posted(b)' : Expected(n.op, n.tid, n.key, n.val)'
              /\ \A n \in Replied(b)' : n.val # Torn
              /\ \A n \in Completed(b)' : Calm(n.tid)'
  <2>1. /\ \A n \in Posted(b)' : n \in Posted(b)
        /\ Replied(b)' = Replied(b)
        /\ \A n \in Completed(b)' :
              n \in Completed(b) \/ (n.tid = m.tid /\ Alive(c))
    BY <1>4, <1>5 DEF Posted, Replied, Completed
  <2>2. ASSUME NEW n \in Posted(b)
        PROVE  Expected(n.op, n.tid, n.key, n.val)'
    <3>1. Expected(n.op, n.tid, n.key, n.val)
      BY DEF Whole
    <3>2. CASE n = Shutdown
      BY <3>2 DEF Shutdown, Expected, Requests
    <3>3. CASE n.tid \in Tids
      BY <1>13, <3>1, <3>3
    <3> QED
      BY <1>1, <3>2, <3>3, PlacedTids DEF Session
  <2>3. \A n \in Completed(b) : n.tid \in Tids /\ Calm(n.tid)
    BY <1>1, PlacedTids DEF Session, Whole
  <2> QED
    BY <1>10, <1>11, <2>1, <2>2, <2>3 DEF Whole
<1>15. ASSUME NEW t \in Tids
       PROVE  /\ pending'[t] # NoReq => RecordRight(t, pending[t])'
              /\ Calm(t)' \/ Waits(t, "SET")'
              /\ t \in Listed' => ExpectedListed(t)'
  <2>1. pending'[t] # NoReq => RecordRight(t, pending[t])'
    BY <1>4, <1>12 DEF Whole
  <2>2. t \in Listed' => ExpectedListed(t)'
    BY <1>4, <1>12, <1>13 DEF Whole, ExpectedListed
  <2> QED
    BY <1>10, <1>12, <2>1, <2>2 DEF Whole
<1> QED
  BY <1>9, <1>14, <1>15 DEF Whole

(* A read, of an entry that nobody fills. *)
LEMMA ReadStaysWhole ==
    ASSUME RInv, Whole, NEW c \in Clients, RdmaRead(c)
    PROVE  Whole'
<1>1. /\ TypeOK /\ \A b \in Clients : Orderly(b) /\ Secured(b)
      /\ db \in [Keys -> Entry]
      /\ pending \in [Tids -> ClientRequest \cup {NoReq}]
  BY WholeTypes
<1>2. PICK i :
        /\ RdmaExecute(c, i)
        /\ c2s[c][i].op = "READ"
        /\ pending' = IF Waits(c2s[c][i].tid, "GET")
                      THEN [pending EXCEPT ![c2s[c][i].tid].val =
                              Content(db[c2s[c][i].key])]
                      ELSE pending
  BY DEF RdmaRead
<1>3. PICK m : m = c2s[c][i]
  OBVIOUS
<1>4. UNCHANGED serverVars /\ UNCHANGED <<pc, tid, polled>>
  BY DEF RdmaRead, loopVars
<1>5. /\ m \in Posted(c) /\ m.tid \in Tids /\ Owner(m.tid) = c
      /\ m.key \in Keys
      /\ \A n \in Posted(c)' : n \in Posted(c)
      /\ \A n \in Completed(c)' :
            n \in Completed(c) \/ (n.tid = m.tid /\ Alive(c))
      /\ \A b \in Clients \ {c} : c2s'[b] = c2s[b] /\ wcq'[b] = wcq[b]
  BY <1>2, <1>3, <1>4, ExecuteTakes
<1>6. ASSUME Alive(c)
      PROVE  Calm(m.tid) /\ ~db[m.key].filling
  <2>1. PostedLocked(c, m) /\ c # closing
    BY <1>1, <1>5, <1>6, RunningSlots DEF Secured
  <2>2. waiting_fin_q[m.tid] = m.key /\ db[m.key].num_writers = 0
    BY <1>2, <1>3, <2>1 DEF PostedLocked, RdmaOps, Locked
  <2>3. ~db[m.key].filling
    BY <1>5, <2>2 DEF Whole, FillingIsLocked
  <2> QED
    BY <2>2, <2>3 DEF Calm
<1>7. /\ \A u \in Tids \ {m.tid} : pending'[u] = pending[u]
      /\ pending'[m.tid] # NoReq => RecordRight(m.tid, pending[m.tid])'
      /\ Waits(m.tid, "SET") => Waits(m.tid, "SET")'
  <2>1. CASE Waits(m.tid, "GET")
    <3>1. PICK p : p = pending[m.tid]
      OBVIOUS
    <3>2. p \in ClientRequest /\ p.op = "GET" /\ p # NoReq
      BY <1>1, <1>5, <2>1, <3>1 DEF Waits
    <3>3. RecordRight(m.tid, p) /\ Alive(c)
      BY <1>5, <3>1, <3>2 DEF Whole, RecordRight
    <3>4. PICK v : v = Content(db[m.key])
      OBVIOUS
    <3>5. v # Torn
      <4>1. db[m.key].value \in Contents
        BY <1>1, <1>5 DEF Entry
      <4> QED
        BY <1>6, <3>3, <3>4, <4>1, ContentsAreWhole DEF Content
    <3>6. /\ pending'[m.tid] = [p EXCEPT !.val = v]
          /\ \A u \in Tids \ {m.tid} : pending'[u] = pending[u]
      BY <1>1, <1>2, <1>3, <1>5, <2>1, <3>1, <3>4
    <3>7. pending'[m.tid].op = "GET" /\ pending'[m.tid].val = v
      BY <3>2, <3>6 DEF ClientRequest
    <3>8. RecordRight(m.tid, pending[m.tid])'
      BY <1>4, <3>2, <3>3, <3>5, <3>7 DEF RecordRight, Alive
    <3> QED
      BY <3>1, <3>2, <3>6, <3>8 DEF Waits
  <2>2. CASE ~Waits(m.tid, "GET")
    <3>1. UNCHANGED pending
      BY <1>2, <1>3, <2>2
    <3> QED
      BY <1>4, <1>5, <3>1 DEF Whole, RecordRight, Alive, Waits
  <2> QED
    BY <2>1, <2>2
<1>8. ASSUME NEW u \in Tids, u # m.tid
      PROVE  /\ pending'[u] # NoReq => RecordRight(u, pending[u])'
             /\ Waits(u, "SET") => Waits(u, "SET")'
  BY <1>4, <1>7, <1>8 DEF Whole, RecordRight, Alive, Waits
<1>9. WholeFrame(c)
  BY <1>4, <1>5, <1>7 DEF WholeFrame, serverVars
<1>10. Replied(c)' = Replied(c)
  BY <1>4 DEF Replied, serverVars
<1> QED
  BY <1>5, <1>6, <1>7, <1>8, <1>9, <1>10, SlotStaysWhole

(* A lock is given back of an entry that nobody fills. *)
LEMMA ReleasedStaysLocked ==
    ASSUME ServerTypeOK, NEW t \in Tids, NEW d \in [Keys -> Entry],
           db' = Released(d, t),
           \A k \in Keys : d[k].filling => d[k].num_writers = 1,
           waiting_fin_q[t] # NoKey => ~d[waiting_fin_q[t]].filling
    PROVE  FillingIsLocked'
<1>1. CASE waiting_fin_q[t] = NoKey
  BY <1>1 DEF Released, FillingIsLocked
<1>2. CASE waiting_fin_q[t] # NoKey
  <2>1. PICK h : h = waiting_fin_q[t]
    OBVIOUS
  <2>2. h \in Keys
    BY <1>2, <2>1 DEF ServerTypeOK
  <2>3. Unlocked(d[h]).filling = d[h].filling
    <3>1. d[h] \in Entry
      BY <2>2
    <3> QED
      BY <3>1 DEF Unlocked, Entry
  <2>4. \A k \in Keys : db'[k] = IF k = h THEN Unlocked(d[k]) ELSE d[k]
    BY <1>2, <2>1, <2>2 DEF Released
  <2> QED
    BY <1>2, <2>1, <2>3, <2>4 DEF FillingIsLocked
<1> QED
  BY <1>1, <1>2

(* What a step of the server for the tid t leaves whole: t itself, and     *)
(* the replies.                                                            *)
ServedWhole(t) ==
    /\ FillingIsLocked'
    /\ Calm(t)' \/ Waits(t, "SET")
    /\ \/ UNCHANGED s2c
       \/ \E m \in Reply : server_post_send(m) /\ m.val # Torn

(* The whole is the rest, which the step spares. *)
LEMMA ServingStaysWhole ==
    ASSUME RInv, Whole, NEW c \in Clients, NEW t \in Tids, Owner(t) = c,
           Spares(t), ServedWhole(t), UNCHANGED <<pending, tid, pc, wcq>>,
           \A m \in Posted(c)' : m \in Posted(c) /\ (m.tid = t => Calm(t)'),
           \A b \in Clients \ {c} : c2s'[b] = c2s[b],
           t \notin TidsIn(wcq[c]),
           \A u \in Tids \ {t} : /\ internal_q'[u] = internal_q[u]
                                 /\ u \in Listed' => u \in Listed,
           t \in Listed' => ExpectedListed(t)'
    PROVE  Whole'
<1>1. /\ TypeOK /\ \A b \in Clients : Orderly(b)
      /\ s2c \in [Clients -> Seq(Reply)]
      /\ waiting_fin_q \in [Tids -> Keys \cup {NoKey}]
  BY WholeTypes
<1>2. /\ \A u : Waits(u, "SET")' = Waits(u, "SET")
      /\ \A u, p : RecordRight(u, p)' = RecordRight(u, p)
  BY DEF Waits, RecordRight, Alive
<1>3. \A u \in Tids \ {t} : Calm(u) => Calm(u)'
  BY DEF Spares, Calm
<1>4. ASSUME NEW u \in Tids
      PROVE  /\ pending'[u] # NoReq => RecordRight(u, pending[u])'
             /\ Calm(u)' \/ Waits(u, "SET")'
             /\ u \in Listed' => ExpectedListed(u)'
  <2>1. pending'[u] # NoReq => RecordRight(u, pending[u])'
    BY <1>2 DEF Whole
  <2>2. Calm(u)' \/ Waits(u, "SET")'
    BY <1>2, <1>3 DEF Whole, ServedWhole
  <2>3. u # t /\ u \in Listed' => ExpectedListed(u)'
    BY <1>2, <1>3 DEF Whole, ExpectedListed, Expected
  <2> QED
    BY <2>1, <2>2, <2>3
<1>5. ASSUME NEW b \in Clients
      PROVE  /\ \A m \in Posted(b)' : Expected(m.op, m.tid, m.key, m.val)'
             /\ \A m \in Replied(b)' : m.val # Torn
             /\ \A m \in Completed(b)' : Calm(m.tid)'
  <2>1. b # c => \A m \in Posted(b) \cup Completed(b) : m.tid # t
    BY OtherSlotsTids
  <2>2. ASSUME NEW m \in Posted(b)'
        PROVE  Expected(m.op, m.tid, m.key, m.val)'
    <3>1. m \in Posted(b) /\ (m.tid = t => Calm(t)')
      BY <2>1 DEF Posted
    <3>2. Expected(m.op, m.tid, m.key, m.val)
      BY <3>1 DEF Whole
    <3>3. CASE m = Shutdown
      BY <3>3 DEF Shutdown, Expected, Requests
    <3>4. CASE m.tid \in Tids
      BY <1>2, <1>3, <3>1, <3>2, <3>4 DEF Expected
    <3> QED
      BY <1>1, <3>1, <3>3, <3>4, PlacedTids DEF Session
  <2>3. \A m \in Replied(b)' : m.val # Torn
    <3>1. CASE UNCHANGED s2c
      BY <3>1 DEF Replied, Whole
    <3>2. ASSUME NEW m \in Reply, server_post_send(m), m.val # Torn
          PROVE  \A n \in Replied(b)' : n.val # Torn
      <4>1. s2c'[b] = s2c[b] \/ s2c'[b] = Append(s2c[b], m)
        BY <1>1, <3>2 DEF server_post_send
      <4>2. s2c[b] \in Seq(Reply)
        BY <1>1
      <4>3. ToSet(Append(s2c[b], m)) = ToSet(s2c[b]) \cup {m}
        BY <4>2, Added
      <4>4. \A n \in Replied(b)' : n \in Replied(b) \/ n = m
        BY <4>1, <4>3 DEF Replied
      <4> QED
        BY <3>2, <4>4 DEF Whole
    <3> QED
      BY <3>1, <3>2 DEF ServedWhole
  <2>4. ASSUME NEW m \in Completed(b)'
        PROVE  Calm(m.tid)'
    <3>1. m \in Completed(b)
      BY DEF Completed
    <3>2. m.tid \in Tids /\ Calm(m.tid)
      BY <1>1, <3>1, PlacedTids DEF Session, Whole
    <3>3. m.tid # t
      BY <2>1, <3>1 DEF TidsIn, Completed
    <3> QED
      BY <1>3, <3>2, <3>3
  <2> QED
    BY <2>2, <2>3, <2>4
<1> QED
  BY <1>4, <1>5 DEF Whole, ServedWhole

(* handle_set_request. *)
LEMMA SetServesWhole ==
    ASSUME RInv, Whole, NEW t \in Tids, NEW k \in Keys, NEW v \in Contents,
           NEW p \in Contents, NEW q, handle_set_request(t, k, v, p, q),
           Expected("SET", t, k, v)
    PROVE  /\ ServedWhole(t)
           /\ SetBlocked(t, k, v, q) => Calm(t)'
<1>1. /\ ServerTypeOK /\ LocksAreAccountedFor
      /\ db \in [Keys -> Entry] /\ db[k] \in Entry
      /\ waiting_fin_q \in [Tids -> Keys \cup {NoKey}]
  BY WholeTypes
<1>2. /\ Calm(t) /\ FillingIsLocked
      /\ ~EagerSet(k, v) => Waits(t, "SET")
  BY DEF Whole, Expected, Requests
<1>3. SetBlocked(t, k, v, q) => ServedWhole(t) /\ Calm(t)'
  BY <1>2 DEF SetBlocked, push_pending_request, ServedWhole,
     FillingIsLocked, Calm
<1>4. ASSUME CanLockWr(db[k]), NEW e \in Entry,
             e.filling => e.num_writers = 1,
             db' = Released([db EXCEPT ![k] = e], t)
      PROVE  FillingIsLocked'
  <2> DEFINE d == [db EXCEPT ![k] = e]
  <2>1. /\ d \in [Keys -> Entry] /\ db' = Released(d, t)
        /\ \A j \in Keys : d[j] = IF j = k THEN e ELSE db[j]
    BY <1>1, <1>4
  <2> HIDE DEF d
  <2>2. \A j \in Keys : d[j].filling => d[j].num_writers = 1
    BY <1>2, <1>4, <2>1 DEF FillingIsLocked
  <2>3. waiting_fin_q[t] # NoKey => ~d[waiting_fin_q[t]].filling
    <3> SUFFICES ASSUME waiting_fin_q[t] # NoKey
                 PROVE  ~d[waiting_fin_q[t]].filling
      OBVIOUS
    <3>1. waiting_fin_q[t] # k /\ waiting_fin_q[t] \in Keys
      BY <1>1, <1>4, WaitedIsLocked DEF CanLockWr, Free
    <3> QED
      BY <1>2, <2>1, <3>1 DEF Calm
  <2> QED
    BY <1>1, <2>1, <2>2, <2>3, ReleasedStaysLocked
<1>5. CASE SetEager(t, k, v, p, q)
  <2>1. PICK e : e = Inserted(Opened(db[k]), p)
    OBVIOUS
  <2>2. e \in Entry /\ ~e.filling
    <3>1. e \in Entry
      BY <1>1, <2>1, HandledEntries
    <3>2. PICK x : x = Reallocated(Opened(db[k]), StrLen[p] + 1)
      OBVIOUS
    <3>3. x \in Entry
      <4>1. Opened(db[k]) \in Entry /\ StrLen[p] + 1 \in Nat
        BY <1>1, LengthAssumption, OpenedProperties
      <4> QED
        BY <3>2, <4>1, ReallocatedProperties
    <3>4. e = [x EXCEPT !.value = p, !.filling = FALSE]
      BY <2>1, <3>2 DEF Inserted
    <3> QED
      BY <3>1, <3>3, <3>4 DEF Entry
  <2>3. /\ CanLockWr(db[k]) /\ UNCHANGED s2c
        /\ db' = Released([db EXCEPT ![k] = e], t)
        /\ waiting_fin_q' = [waiting_fin_q EXCEPT ![t] = NoKey]
    BY <1>1, <1>5, <2>1 DEF SetEager, remove_server_pending_request
  <2>4. FillingIsLocked'
    BY <1>4, <2>2, <2>3
  <2>5. Calm(t)'
    BY <1>1, <2>3 DEF Calm
  <2> QED
    BY <2>3, <2>4, <2>5 DEF ServedWhole
<1>6. CASE SetRendezvous(t, k, v, q)
  <2>1. PICK e : e = Exposed(LockedWr(Opened(db[k])), v)
    OBVIOUS
  <2>2. PICK m : m = Message("RDMA_RKEY_SET", t, k, Empty, e.mr)
    OBVIOUS
  <2>3. /\ CanLockWr(db[k]) /\ ~EagerSet(k, v) /\ server_post_send(m)
        /\ mark_rdma_fin_required(t, k, [db EXCEPT ![k] = e], q)
    BY <1>6, <2>1, <2>2 DEF SetRendezvous
  <2>4. e \in Entry /\ e.num_writers = 1
    <3>1. e \in Entry /\ e.num_writers = db[k].num_writers + 1
      BY <1>1, <2>1, HandledEntries
    <3> QED
      BY <2>3, <3>1 DEF CanLockWr
  <2>5. db' = Released([db EXCEPT ![k] = e], t)
    BY <2>3 DEF mark_rdma_fin_required, Released
  <2>6. FillingIsLocked'
    BY <1>4, <2>3, <2>4, <2>5
  <2>7. m \in Reply /\ m.val = Empty
    BY <2>2, <2>4 DEF Message, Reply, ReplyOps, Contents, Entry
  <2>8. Empty # Torn
    BY ContentsAreWhole DEF Contents
  <2>9. ServedWhole(t)
    BY <1>2, <2>3, <2>6, <2>7, <2>8 DEF ServedWhole
  <2> QED
    BY <1>3, <2>9
<1> QED
  BY <1>3, <1>5, <1>6 DEF handle_set_request

(* handle_get_request. *)
LEMMA GetServesWhole ==
    ASSUME RInv, Whole, NEW t \in Tids, NEW k \in Keys, NEW q, Calm(t),
           handle_get_request(t, k, q)
    PROVE  ServedWhole(t) /\ Calm(t)'
<1>1. /\ ServerTypeOK /\ LocksAreAccountedFor
      /\ db \in [Keys -> Entry] /\ db[k] \in Entry
      /\ waiting_fin_q \in [Tids -> Keys \cup {NoKey}]
  BY WholeTypes
<1>2. FillingIsLocked
  BY DEF Whole
<1>3. CASE GetBlocked(t, k, q)
  BY <1>2, <1>3 DEF GetBlocked, push_pending_request, ServedWhole,
     FillingIsLocked, Calm
<1>4. CanLockRd(db[k]) => ~db[k].filling
  BY <1>1, <1>2 DEF FillingIsLocked, CanLockRd
<1>5. ASSUME CanLockRd(db[k]), NEW e \in Entry, e.filling = db[k].filling,
             db' = Released([db EXCEPT ![k] = e], t),
             \/ waiting_fin_q' = [waiting_fin_q EXCEPT ![t] = NoKey]
             \/ waiting_fin_q' = [waiting_fin_q EXCEPT ![t] = k]
      PROVE  FillingIsLocked' /\ Calm(t)'
  <2> DEFINE d == [db EXCEPT ![k] = e]
  <2>1. /\ d \in [Keys -> Entry] /\ db' = Released(d, t)
        /\ \A j \in Keys : d[j] = IF j = k THEN e ELSE db[j]
    BY <1>1, <1>5
  <2> HIDE DEF d
  <2>2. \A j \in Keys : d[j].filling => d[j].num_writers = 1
    BY <1>2, <1>4, <1>5, <2>1 DEF FillingIsLocked
  <2>3. waiting_fin_q[t] # NoKey => ~d[waiting_fin_q[t]].filling
    BY <1>1, <1>4, <1>5, <2>1 DEF Calm
  <2>4. FillingIsLocked'
    BY <1>1, <2>1, <2>2, <2>3, ReleasedStaysLocked
  <2>5. ~db'[k].filling
    <3>1. d[k] \in Entry /\ ~d[k].filling
      BY <1>4, <1>5, <2>1
    <3>2. ~Unlocked(d[k]).filling
      BY <3>1 DEF Unlocked, Entry
    <3>3. db'[k] = d[k] \/ db'[k] = Unlocked(d[k])
      BY <1>1, <2>1 DEF Released
    <3> QED
      BY <3>1, <3>2, <3>3
  <2>6. waiting_fin_q'[t] = NoKey \/ waiting_fin_q'[t] = k
    BY <1>1, <1>5
  <2> QED
    BY <2>4, <2>5, <2>6 DEF Calm
<1>6. CASE GetEager(t, k, q)
  <2>8. PICK w \in EagerContent(db[k]) :
             server_post_send(Message("GET_RESPONSE", t, k, w, 0))
    BY <1>6 DEF GetEager
  <2>1. PICK m : m = Message("GET_RESPONSE", t, k, w, 0)
    OBVIOUS
  <2>2. PICK e : e = Opened(db[k])
    OBVIOUS
  <2>3. e \in Entry /\ e.filling = db[k].filling
    BY <1>1, <2>2 DEF Opened, Entry
  <2>4. /\ CanLockRd(db[k]) /\ server_post_send(m)
        /\ db' = Released([db EXCEPT ![k] = e], t)
        /\ waiting_fin_q' = [waiting_fin_q EXCEPT ![t] = NoKey]
    BY <1>1, <1>6, <2>1, <2>2, <2>8
    DEF GetEager, remove_server_pending_request
  <2>5. FillingIsLocked' /\ Calm(t)'
    BY <1>5, <2>3, <2>4
  <2>9. w \in Contents
    BY <1>1, <1>4, <2>4, <2>8 DEF EagerContent, Content, Entry
  <2>6. m \in Reply /\ m.val = w
    BY <1>1, <2>1, <2>9 DEF Message, Reply, ReplyOps
  <2>7. m.val # Torn
    BY <2>6, <2>9, ContentsAreWhole
  <2> QED
    BY <2>4, <2>5, <2>6, <2>7 DEF ServedWhole
<1>7. CASE GetRendezvous(t, k, q)
  <2>1. PICK m : m = Message("RDMA_RKEY_GET", t, k, Empty, db[k].mr)
    OBVIOUS
  <2>2. PICK e : e = LockedRd(Opened(db[k]))
    OBVIOUS
  <2>3. e \in Entry /\ e.filling = db[k].filling
    <3>1. PICK o : o = Opened(db[k])
      OBVIOUS
    <3>2. o \in Entry /\ o.filling = db[k].filling
      BY <1>1, <3>1 DEF Opened, Entry
    <3> QED
      BY <2>2, <3>1, <3>2 DEF LockedRd, Entry
  <2>4. /\ CanLockRd(db[k]) /\ server_post_send(m)
        /\ db' = Released([db EXCEPT ![k] = e], t)
        /\ waiting_fin_q' = [waiting_fin_q EXCEPT ![t] = k]
    BY <1>1, <1>7, <2>1, <2>2 DEF GetRendezvous
  <2>5. FillingIsLocked' /\ Calm(t)'
    BY <1>5, <2>3, <2>4
  <2>6. m \in Reply /\ m.val = Empty
    BY <1>1, <2>1 DEF Message, Reply, ReplyOps, Contents, Entry
  <2>7. Empty # Torn
    BY ContentsAreWhole DEF Contents
  <2> QED
    BY <2>4, <2>5, <2>6, <2>7 DEF ServedWhole
<1> QED
  BY <1>3, <1>6, <1>7 DEF handle_get_request

(* Only a request that cannot be served comes back into the list. *)
LEMMA BlockedIfListed ==
    ASSUME NEW t \in Tids, NEW k, NEW v, NEW p, NEW q \in Seq(Tids),
           IsInjective(q), t \notin ToSet(q),
           handle_set_request(t, k, v, p, q), t \in ToSet(sorted_q')
    PROVE  SetBlocked(t, k, v, q)
<1>1. sorted_q' # q /\ RemoveFirst(q, t) = q
  BY ListElements
<1>2. ~SetEager(t, k, v, p, q)
  BY <1>1 DEF SetEager, remove_server_pending_request
<1>3. ~SetRendezvous(t, k, v, q)
  BY <1>1 DEF SetRendezvous, mark_rdma_fin_required
<1> QED
  BY <1>2, <1>3 DEF handle_set_request

(* A received SET or GET. *)
LEMMA RecvStaysWhole ==
    ASSUME RInv, Whole, NEW c \in Clients, RecvSet(c) \/ RecvGet(c)
    PROVE  Whole'
<1>1. /\ TypeOK /\ PolledAreSends /\ \A b \in Clients : Orderly(b)
      /\ ServerTypeOK /\ LocksAreAccountedFor /\ WaitedArePresent
      /\ sorted_q \in Seq(Tids) /\ IsInjective(sorted_q)
  BY WholeTypes DEF RInv, TInv, IInv, ListInOrder
<1>2. PICK m : m = Head(c2s[c])
  OBVIOUS
<1>3. m.op \in Requests /\ TakeRequest(c, m.op)
  BY <1>2 DEF RecvSet, RecvGet, TakeRequest, Requests
<1>4. /\ m \in Posted(c)
      /\ \A n \in Posted(c)' : n \in Posted(c) /\ n.tid # m.tid
      /\ \A b \in Clients \ {c} : c2s'[b] = c2s[b]
      /\ UNCHANGED <<pending, tid, pc, wcq>>
  BY <1>1, <1>2, <1>3, TakenIsPosted
<1>5. m.tid \in Tids /\ m.key \in Keys /\ m.val \in Contents
  BY <1>1, <1>2, <1>3, TakenFields DEF Requests, SendOps
<1>6. /\ Owner(m.tid) = c /\ m.tid \notin TidsIn(wcq[c])
      /\ m.tid \notin ToSet(sorted_q) /\ internal_q[m.tid] = NoReq
  <2>1. internal_q[m.tid] = NoReq
    BY <1>1, <1>3, <1>4 DEF Orderly, PostedRight
  <2> QED
    BY <1>1, <1>4, <1>5, <2>1, PostedElsewhere
<1>7. Spares(m.tid)
  BY <1>1, <1>2, <1>5, SetIsSecure, GetIsSecure DEF RecvSet, RecvGet
<1>8. Expected(m.op, m.tid, m.key, m.val)
  BY <1>4 DEF Whole
<1>9. CASE RecvSet(c)
  <2>1. /\ m.op = "SET"
        /\ handle_set_request(m.tid, m.key, m.val, m.val, sorted_q)
    BY <1>2, <1>9 DEF RecvSet, TakeRequest
  <2>2. ServedWhole(m.tid)
        /\ (SetBlocked(m.tid, m.key, m.val, sorted_q) => Calm(m.tid)')
    BY <1>5, <1>8, <2>1, SetServesWhole
  <2>3. HandledAs(m.tid, "SET", m.key, m.val, sorted_q)
    BY <1>1, <1>5, <1>6, <2>1, SetIsHandled
  <2>4. \A u \in Tids \ {m.tid} : /\ internal_q'[u] = internal_q[u]
                                  /\ u \in Listed' => u \in Listed
    BY <1>1, <1>5, <2>3, ListElements
    DEF HandledAs, Pushed, Dropped, AnsweredWith, Listed
  <2>5. m.tid \in Listed' => ExpectedListed(m.tid)'
    <3> SUFFICES ASSUME m.tid \in Listed'
                 PROVE  ExpectedListed(m.tid)'
      OBVIOUS
    <3>1. Pushed(m.tid, "SET", m.key, m.val, sorted_q)
      BY <1>6, <2>3 DEF HandledAs, Dropped, AnsweredWith, Listed
    <3>2. SetBlocked(m.tid, m.key, m.val, sorted_q)
      BY <1>1, <1>5, <1>6, <2>1, BlockedIfListed DEF Listed
    <3> QED
      BY <1>4, <1>6, <1>8, <2>1, <2>2, <3>1, <3>2
      DEF Pushed, ExpectedListed, Expected, Waits
  <2> QED
    BY <1>4, <1>5, <1>6, <1>7, <2>2, <2>4, <2>5, ServingStaysWhole
<1>10. CASE RecvGet(c)
  <2>1. m.op = "GET" /\ handle_get_request(m.tid, m.key, sorted_q)
    BY <1>2, <1>10 DEF RecvGet, TakeRequest
  <2>2. ServedWhole(m.tid) /\ Calm(m.tid)'
    BY <1>5, <1>8, <2>1, GetServesWhole DEF Expected, Requests
  <2>3. HandledAs(m.tid, "GET", m.key, Empty, sorted_q)
    BY <1>1, <1>5, <1>6, <2>1, GetIsHandled
  <2>4. \A u \in Tids \ {m.tid} : /\ internal_q'[u] = internal_q[u]
                                  /\ u \in Listed' => u \in Listed
    BY <1>1, <1>5, <2>3, ListElements
    DEF HandledAs, Pushed, Dropped, AnsweredWith, Listed
  <2>5. m.tid \in Listed' => ExpectedListed(m.tid)'
    BY <1>6, <2>2, <2>3
    DEF HandledAs, Pushed, Dropped, AnsweredWith, Listed, ExpectedListed,
        Expected
  <2> QED
    BY <1>4, <1>5, <1>6, <1>7, <2>2, <2>4, <2>5, ServingStaysWhole
<1> QED
  BY <1>9, <1>10

(* A queued request. *)
LEMMA ServeStaysWhole ==
    ASSUME RInv, Whole, ServePending
    PROVE  Whole'
<1>1. /\ TypeOK /\ \A b \in Clients : Orderly(b)
      /\ ServerTypeOK /\ LocksAreAccountedFor /\ WaitedArePresent
      /\ sorted_q \in Seq(Tids) /\ IsInjective(sorted_q)
  BY WholeTypes DEF RInv, TInv, IInv, ListInOrder
<1>2. PICK t : t = Head(sorted_q)
  OBVIOUS
<1>3. PICK r : r = internal_q[t]
  OBVIOUS
<1>4. PICK q : q = Tail(sorted_q)
  OBVIOUS
<1>5. t \in Tids /\ r \in Request /\ q \in Seq(Tids)
  BY <1>1, <1>2, <1>3, <1>4, ServedRequest
<1>6. /\ r.key \in Keys /\ r.val \in Contents /\ r.payload \in Contents
      /\ r # NoReq
  BY <1>5, RequestAssumption DEF Request
<1>7. UNCHANGED <<pending, tid, pc, wcq, c2s>> /\ sorted_q # <<>>
  BY DEF ServePending, clientVars
<1>8. /\ t \in Listed /\ IsInjective(q) /\ ToSet(q) = Listed \ {t}
      /\ t \notin ToSet(q)
  BY <1>1, <1>2, <1>4, <1>7, HeadTaken DEF Listed
<1>9. PICK c : c = Owner(t)
  OBVIOUS
<1>10. c \in Clients /\ Orderly(c)
  BY <1>1, <1>5, <1>9, OwnerType
<1>11. t \notin TidsIn(c2s[c]) \cup TidsIn(wcq[c])
  BY <1>8, <1>10 DEF Orderly, Apart, Listed
<1>12. /\ \A n \in Posted(c)' : n \in Posted(c) /\ n.tid # t
       /\ \A b \in Clients \ {c} : c2s'[b] = c2s[b]
  BY <1>7, <1>11 DEF TidsIn, Posted
<1>13. Spares(t)
  BY <1>1, <1>2, <1>3, <1>5, <1>6, SetIsSecure, GetIsSecure DEF ServePending
<1>14. Expected(r.op, t, r.key, r.val)
  BY <1>3, <1>5, <1>8 DEF Whole, ExpectedListed
<1>15. ASSUME HandledAs(t, r.op, r.key, r.val, q)
       PROVE  /\ \A u \in Tids \ {t} : /\ internal_q'[u] = internal_q[u]
                                       /\ u \in Listed' => u \in Listed
              /\ t \in Listed' => Pushed(t, r.op, r.key, r.val, q)
  <2>1. sorted_q' = q \/ Pushed(t, r.op, r.key, r.val, q)
    BY <1>15 DEF HandledAs, Dropped, AnsweredWith
  <2>2. CASE sorted_q' = q
    BY <1>8, <1>15, <2>2 DEF HandledAs, Listed
  <2>3. CASE Pushed(t, r.op, r.key, r.val, q)
    <3>1. ToSet(Append(q, t)) = ToSet(q) \cup {t}
      BY <1>5, <1>8, ListElements
    <3>2. Listed' = ToSet(q) \cup {t}
      BY <2>3, <3>1 DEF Pushed, Listed
    <3> QED
      BY <1>8, <1>15, <2>3, <3>2 DEF HandledAs
  <2> QED
    BY <2>1, <2>2, <2>3
<1>16. CASE r.op = "SET" /\ handle_set_request(t, r.key, r.val, r.payload, q)
  <2>1. ServedWhole(t) /\ (SetBlocked(t, r.key, r.val, q) => Calm(t)')
    BY <1>5, <1>6, <1>14, <1>16, SetServesWhole
  <2>2. HandledAs(t, "SET", r.key, r.val, q)
    BY <1>1, <1>5, <1>6, <1>8, <1>16, SetIsHandled
  <2>3. t \in Listed' => ExpectedListed(t)'
    <3> SUFFICES ASSUME t \in Listed'
                 PROVE  ExpectedListed(t)'
      OBVIOUS
    <3>1. Pushed(t, r.op, r.key, r.val, q)
      BY <1>15, <1>16, <2>2
    <3>2. SetBlocked(t, r.key, r.val, q)
      BY <1>1, <1>5, <1>6, <1>8, <1>16, BlockedIfListed DEF Listed
    <3> QED
      BY <1>3, <1>6, <1>7, <1>14, <1>16, <2>1, <3>1, <3>2
      DEF Pushed, ExpectedListed, Expected, Waits
  <2> QED
    BY <1>5, <1>9, <1>10, <1>7, <1>11, <1>12, <1>13, <1>15, <1>16, <2>1,
       <2>2, <2>3, ServingStaysWhole
<1>17. CASE r.op = "GET" /\ handle_get_request(t, r.key, q)
  <2>1. ServedWhole(t) /\ Calm(t)'
    BY <1>5, <1>6, <1>14, <1>17, GetServesWhole DEF Expected, Requests
  <2>2. HandledAs(t, "GET", r.key, r.val, q)
    BY <1>1, <1>3, <1>5, <1>6, <1>8, <1>17, GetIsHandled
  <2>3. t \in Listed' => ExpectedListed(t)'
    BY <1>3, <1>6, <1>15, <1>17, <2>1, <2>2
    DEF Pushed, ExpectedListed, Expected
  <2> QED
    BY <1>5, <1>9, <1>10, <1>7, <1>11, <1>12, <1>13, <1>15, <1>17, <2>1,
       <2>2, <2>3, ServingStaysWhole
<1> QED
  BY <1>2, <1>3, <1>4, <1>16, <1>17 DEF ServePending

(* Dropping a request that is calm. *)
LEMMA DroppedServesWhole ==
    ASSUME RInv, Whole, NEW t \in Tids, Calm(t), UNCHANGED s2c,
           remove_server_pending_request(t, db, sorted_q)
    PROVE  /\ ServedWhole(t) /\ Calm(t)'
           /\ t \notin Listed'
           /\ \A u \in Tids \ {t} : /\ internal_q'[u] = internal_q[u]
                                    /\ u \in Listed' => u \in Listed
<1>1. /\ ServerTypeOK /\ db \in [Keys -> Entry]
      /\ waiting_fin_q \in [Tids -> Keys \cup {NoKey}]
      /\ sorted_q \in Seq(Tids) /\ IsInjective(sorted_q)
  BY WholeTypes DEF RInv, TInv, ListInOrder
<1>2. /\ db' = Released(db, t)
      /\ waiting_fin_q' = [waiting_fin_q EXCEPT ![t] = NoKey]
      /\ internal_q' = [internal_q EXCEPT ![t] = NoReq]
      /\ sorted_q' = RemoveFirst(sorted_q, t)
  BY DEF remove_server_pending_request
<1>3. FillingIsLocked'
  <2>1. /\ \A k \in Keys : db[k].filling => db[k].num_writers = 1
        /\ waiting_fin_q[t] # NoKey => ~db[waiting_fin_q[t]].filling
    BY DEF Whole, FillingIsLocked, Calm
  <2> QED
    BY <1>1, <1>2, <2>1, ReleasedStaysLocked
<1>4. Calm(t)'
  BY <1>1, <1>2 DEF Calm
<1>5. Listed' = Listed \ {t}
  BY <1>1, <1>2, ListElements DEF Listed
<1>6. \A u \in Tids \ {t} : internal_q'[u] = internal_q[u]
  BY <1>1, <1>2 DEF ServerTypeOK
<1> QED
  BY <1>3, <1>4, <1>5, <1>6 DEF ServedWhole

(* A FIN is sent when the write is over; a client whose requests are       *)
(* dropped has none in its table.                                          *)
LEMMA DropsStayWhole ==
    ASSUME RInv, Whole,
           InvalidateRequest \/ \E c \in Clients : RecvFin(c)
    PROVE  Whole'
<1>1. /\ TypeOK /\ PolledAreSends /\ \A b \in Clients : Orderly(b) /\ Secured(b)
      /\ waiting_fin_q \in [Tids -> Keys \cup {NoKey}] /\ WaitedArePresent
      /\ closing \in Clients \cup {NoClient}
  BY WholeTypes DEF RInv, TInv, IInv, TypeOK, LoopTypeOK
<1>2. CASE InvalidateRequest
  <2>1. PICK c : c = closing
    OBVIOUS
  <2>2. PICK t \in Tids : /\ Owner(t) = c /\ internal_q[t] # NoReq
                          /\ remove_server_pending_request(t, db, sorted_q)
    BY <1>2, <2>1 DEF InvalidateRequest, QueuedBy
  <2>3. UNCHANGED <<s2c, c2s, wcq, pending, tid, pc>> /\ c \in Clients
    BY <1>1, <1>2, <2>1 DEF InvalidateRequest, clientVars
  <2>4. ~Alive(c)
    BY <2>1, <2>3, RunningSlots
  <2>5. Calm(t)
    <3>1. pending[t] = NoReq
      BY <2>2, <2>4 DEF Whole, RecordRight
    <3> QED
      BY <3>1 DEF Whole, Waits
  <2>6. /\ Spares(t) /\ ServedWhole(t) /\ Calm(t)' /\ t \notin Listed'
        /\ \A u \in Tids \ {t} : /\ internal_q'[u] = internal_q[u]
                                 /\ u \in Listed' => u \in Listed
    BY <2>2, <2>3, <2>5, RemovalSpares, DroppedServesWhole
  <2>7. t \notin TidsIn(wcq[c])
    BY <1>1, <2>3, <2>4, RunningSlots DEF TidsIn, Completed
  <2>8. Posted(c)' = Posted(c)
    BY <2>3 DEF Posted
  <2> QED
    BY <2>2, <2>3, <2>6, <2>7, <2>8, ServingStaysWhole
<1>3. ASSUME NEW c \in Clients, RecvFin(c)
      PROVE  Whole'
  <2>1. PICK m : m = Head(c2s[c])
    OBVIOUS
  <2>2. TakeRequest(c, "FIN") /\ closing = NoClient
    BY <1>3 DEF RecvFin, TakeRequest
  <2>3. /\ m \in Posted(c) /\ m.op = "FIN"
        /\ \A n \in Posted(c)' : n \in Posted(c) /\ n.tid # m.tid
        /\ \A b \in Clients \ {c} : c2s'[b] = c2s[b]
        /\ UNCHANGED <<pending, tid, pc, wcq>>
    BY <1>1, <2>1, <2>2, TakenIsPosted
  <2>4. m.tid \in Tids /\ m.key \in Keys
    BY <1>1, <2>1, <2>2, TakenFields DEF SendOps
  <2>5. waiting_fin_q[m.tid] = m.key /\ m.key # NoKey /\ db[m.key].present
    <3>1. PostedLocked(c, m)
      BY <1>1, <2>3 DEF Secured
    <3>2. waiting_fin_q[m.tid] = m.key
      BY <2>2, <2>3, <3>1, LoopAssumption DEF PostedLocked
    <3> QED
      BY <1>1, <2>4, <3>2, ClientsAssumption DEF WaitedArePresent
  <2>6. /\ remove_server_pending_request(m.tid, db, sorted_q)
        /\ UNCHANGED s2c
    BY <1>3, <2>1, <2>5 DEF RecvFin
  <2>7. Calm(m.tid)
    BY <2>3 DEF Whole, Expected
  <2>8. /\ Spares(m.tid) /\ ServedWhole(m.tid) /\ m.tid \notin Listed'
        /\ \A u \in Tids \ {m.tid} : /\ internal_q'[u] = internal_q[u]
                                     /\ u \in Listed' => u \in Listed
    BY <2>4, <2>6, <2>7, RemovalSpares, DroppedServesWhole
  <2>9. Owner(m.tid) = c /\ m.tid \notin TidsIn(wcq[c])
    BY <1>1, <2>3, <2>4, PostedElsewhere
  <2> QED
    BY <2>3, <2>4, <2>8, <2>9, ServingStaysWhole
<1> QED
  BY <1>2, <1>3

(* At the start nothing is filled. *)
LEMMA InitWhole == Init => Whole
<1> SUFFICES ASSUME Init
             PROVE  Whole
  OBVIOUS
<1>1. /\ \A t \in Tids : waiting_fin_q[t] = NoKey /\ pending[t] = NoReq
      /\ \A k \in Keys : ~db[k].filling
      /\ \A c \in Clients : c2s[c] = <<>> /\ s2c[c] = <<>> /\ wcq[c] = <<>>
      /\ sorted_q = <<>>
  BY DEF Init, ServerInit, FreshEntry
<1>2. /\ Listed = {}
      /\ \A c \in Clients :
            Posted(c) = {} /\ Replied(c) = {} /\ Completed(c) = {}
  BY <1>1, NoElements DEF Listed, Posted, Replied, Completed
<1> QED
  BY <1>1, <1>2 DEF Whole, FillingIsLocked, Calm

(* No step makes a value that is read in part, if no client dies. *)
LEMMA WholeStep ==
    ASSUME RInv, Whole, [Next]_vars, Unreliable = {}
    PROVE  Whole'
<1>1. ASSUME NEW c \in Clients, ClientStep(c)
      PROVE  Whole'
  <2>1. ~ClientDie(c)
    BY DEF ClientDie
  <2> QED
    BY <1>1, <2>1, CallsStayWhole, ReturnsStayWhole, PollsStayWhole
    DEF ClientStep
<1>2. ASSUME NEW c \in Clients, NetworkStep(c)
      PROVE  Whole'
  <2>1. CASE QpError(c)
    BY <2>1, QuietStaysWhole DEF QpError
  <2> QED
    BY <1>2, <2>1, WriteStaysWhole, ReadStaysWhole DEF NetworkStep
<1>3. CASE \/ ibv_poll_cq \/ StartPass \/ EndPass
           \/ \E c \in Clients : RemoveFailedConnection(c)
  BY <1>3, QuietStaysWhole
  DEF ibv_poll_cq, StartPass, EndPass, RemoveFailedConnection
<1>4. ASSUME NEW c \in Clients,
             \/ handle_recv_request(c) \/ RemoveConnection(c)
             \/ accept_new_connection(c)
      PROVE  Whole'
  BY <1>4, RecvStaysWhole, DropsStayWhole, SessionsStayWhole
  DEF handle_recv_request
<1>5. CASE InvalidateRequest \/ ServePending
  BY <1>5, DropsStayWhole, ServeStaysWhole
<1>6. CASE UNCHANGED vars
  BY <1>6, QuietStaysWhole DEF vars
<1> QED
  BY <1>1, <1>2, <1>3, <1>4, <1>5, <1>6 DEF Next, ServerStep

(* As long as no client dies or leaves requests unsent when it closes, no  *)
(* get hands out a value that was written in part: the entry stays locked  *)
(* until the FIN of the SET, which is sent when the RDMA write is over.    *)
THEOREM GetsAreWhole ==
    ASSUME Unreliable = {}
    PROVE  Spec => []NoTornGet
<1>1. RInv /\ Whole /\ [Next]_vars => Whole'
  BY WholeStep
<1>2. Whole => NoTornGet
  BY DEF Whole, RecordRight, NoTornGet
<1> QED
  BY InitWhole, SecuredInvariance, <1>1, <1>2, PTL DEF Spec
=============================================================================
