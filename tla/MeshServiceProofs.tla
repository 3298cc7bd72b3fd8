------------------------- MODULE MeshServiceProofs -------------------------
(***************************************************************************)
(* Proofs about MeshService, for any number of clients, any number of      *)
(* blocks and counters of any width that the blocks divide.                *)
(*                                                                         *)
(* Flight(e) is what e has posted and not taken back, in order: the NIC    *)
(* moves it from the send queue to the acknowledgements and on to the      *)
(* completion queue without touching it.  RingInv ties it to the counters  *)
(* of the ring, PhaseInv says how far a connection is: there is one        *)
(* request and one response, and only then writes.                         *)
(***************************************************************************)
EXTENDS MeshService, FiniteSetTheorems, SequenceTheorems, WellFoundedInduction, TLAPS

SendOps == {"SEND", "WRITE"}
RecvOps == {"RECV"}

\* A completion as the work request it reports.
RequestsOf(q) == [i \in 1..Len(q) |-> [op |-> q[i].op, block |-> q[i].block]]

\* The work requests of e in flight, and the receives that have completed.
Flight(e) == RequestsOf(Done(e, SendOps)) \o unacked[e] \o sq[e]
Arrived(e) == Done(e, RecvOps)

\* The blocks b are those between the counters of a ring.
OnRing(b, last, next) ==
    /\ next = (last + Len(b)) % IntRange
    /\ \A k \in 1..Len(b) : b[k] = BlockOf((last + k) % IntRange)

RingInv ==
    \A e \in End : OnRing(BlocksOf(Flight(e)), ring[e].slast, ring[e].snext)

\* The receives of the server: none before they are posted, then always all.
Receives(c) == BlocksOf(Arrived(Server(c))) \o recvs[Server(c)]

RecvInv ==
    \A c \in Clients :
        /\ OnRing(Receives(c), ring[Server(c)].rlast, ring[Server(c)].rnext)
        /\ Len(Receives(c)) = IF stage["server"] = "start" THEN 0 ELSE NUM_BLOCK

\* The sync goes through the channels, and no client runs before the server has
\* posted its receives.
SyncInv ==
    /\ syncing = Len(Channels) + 1 <=> stage["server"] = "running"
    /\ \A c \in Clients :
          said[Server(c)] \/ stage[c] = "running" => stage["server"] # "start"

\* The receives of a client as they were posted, and the counter after that.
Full == Handed(MinusOne, NUM_BLOCK)
FullNext == (MinusOne + NUM_BLOCK) % IntRange

Posted(c) ==
    IF stage[c] = "start" THEN ring[Client(c)].rnext = MinusOne /\ recvs[Client(c)] = <<>>
    ELSE ring[Client(c)].rnext = FullNext /\ recvs[Client(c)] = Full

\* No more than the request is in flight; writes are in flight.
Asking(f) == Len(f) <= 1 /\ \A k \in 1..Len(f) : f[k].op = "SEND"
Writing(f) ==
    \/ Len(f) = NUM_BLOCK - 1 /\ \A k \in 1..Len(f) : f[k].op = "WRITE"
    \/ Len(f) = NUM_BLOCK /\ \A k \in 1..Len(f) : f[k].op = IF k = 1 THEN "SEND" ELSE "WRITE"

\* The server has not answered client c yet.
Unanswered(c) ==
    /\ Flight(Server(c)) = <<>> /\ ring[Server(c)].snext = MinusOne
    /\ Arrived(Client(c)) = <<>> /\ peer_comm[c] = "unset" /\ Posted(c)

\* The client has not asked; its request is on the way; it has arrived; the
\* response is on the way; it has arrived; the client writes.
Silent(c) ==
    /\ stage[c] # "running" /\ Flight(Client(c)) = <<>> /\ Arrived(Server(c)) = <<>>
    /\ Unanswered(c)

Asked(c) ==
    /\ stage[c] = "running" /\ Len(sq[Client(c)]) = 1 /\ Asking(Flight(Client(c)))
    /\ Arrived(Server(c)) = <<>> /\ Unanswered(c)

Heard(c) ==
    /\ stage[c] = "running" /\ sq[Client(c)] = <<>> /\ Asking(Flight(Client(c)))
    /\ Len(Arrived(Server(c))) = 1 /\ Unanswered(c)

Answered(c) ==
    /\ stage[c] = "running" /\ sq[Client(c)] = <<>> /\ Asking(Flight(Client(c)))
    /\ Arrived(Server(c)) = <<>>
    /\ Len(sq[Server(c)]) = 1 /\ sq[Server(c)][1].block = 0 /\ Asking(Flight(Server(c)))
    /\ sendmem[Server(c)][0] = "desc"
    /\ Arrived(Client(c)) = <<>> /\ peer_comm[c] = "unset" /\ Posted(c)

Delivered(c) ==
    /\ stage[c] = "running" /\ sq[Client(c)] = <<>> /\ Asking(Flight(Client(c)))
    /\ Arrived(Server(c)) = <<>>
    /\ sq[Server(c)] = <<>> /\ Asking(Flight(Server(c)))
    /\ Len(Arrived(Client(c))) = 1 /\ recvmem[c][0] = "desc"
    /\ peer_comm[c] = "unset" /\ ring[Client(c)].rnext = FullNext

Streaming(c) ==
    /\ stage[c] = "running" /\ Writing(Flight(Client(c)))
    /\ \A k \in 1..Len(sq[Client(c)]) : sq[Client(c)][k].op = "WRITE"
    /\ Arrived(Server(c)) = <<>>
    /\ sq[Server(c)] = <<>> /\ Asking(Flight(Server(c)))
    /\ Arrived(Client(c)) = <<>> /\ peer_comm[c] = "desc"

Phase(c) ==
    \/ Silent(c) \/ Asked(c) \/ Heard(c) \/ Answered(c) \/ Delivered(c) \/ Streaming(c)

PhaseInv == \A c \in Clients : Phase(c)

IndInv == TypeOK /\ SyncInv /\ RingInv /\ RecvInv /\ PhaseInv

-----------------------------------------------------------------------------
(* Selecting from a completion queue *)

\* G lists the members of P, a set of numbers, in order.
Lists(G, m, P) ==
    /\ m \in Nat /\ P \subseteq Nat
    /\ G \in [1..m -> P]
    /\ \A i, j \in 1..m : i < j => G[i] < G[j]
    /\ \A p \in P : \E k \in 1..m : G[k] = p

\* A set listed without repetition has as many members as the list.
LEMMA ListCard ==
    ASSUME NEW m \in Nat, NEW P, NEW G \in [1..m -> P],
           \A i, j \in 1..m : G[i] = G[j] => i = j,
           \A p \in P : \E k \in 1..m : G[k] = p
    PROVE  Cardinality(P) = m
  <1>1. G \in Bijection(1..m, P)
    BY DEF Bijection, Injection, Surjection, IsInjective
  <1>2. IsFiniteSet(1..m) /\ Cardinality(1..m) = m
    BY FS_Interval
  <1>3. QED
    BY <1>1, <1>2, FS_Bijection DEF ExistsBijection

\* What Nth finds is the list.
LEMMA NthIs ==
    ASSUME NEW m, NEW G, NEW P, Lists(G, m, P)
    PROVE  Cardinality(P) = m /\ \A k \in 1..m : Nth(P, k) = G[k]
  <1>1. /\ m \in Nat /\ P \subseteq Nat /\ G \in [1..m -> P]
        /\ \A i, j \in 1..m : i < j => G[i] < G[j]
        /\ \A p \in P : \E k \in 1..m : G[k] = p
    BY DEF Lists
  <1>2. \A i \in 1..m : G[i] \in Nat
    BY <1>1
  <1>3. \A i, j \in 1..m : (G[i] <= G[j] <=> i <= j) /\ (G[i] = G[j] => i = j)
    <2> SUFFICES ASSUME NEW i \in 1..m, NEW j \in 1..m
                 PROVE  (G[i] <= G[j] <=> i <= j) /\ (G[i] = G[j] => i = j)
      OBVIOUS
    <2>1. /\ G[i] \in Nat /\ G[j] \in Nat
          /\ i < j => G[i] < G[j]
          /\ j < i => G[j] < G[i]
      BY <1>1, <1>2
    <2>2. QED
      BY <2>1
  <1>4. Cardinality(P) = m
    <2>1. \A i, j \in 1..m : G[i] = G[j] => i = j
      BY <1>3
    <2>2. QED
      BY <1>1, <2>1, ListCard
  <1>5. ASSUME NEW l \in 1..m PROVE Cardinality({j \in P : j <= G[l]}) = l
    <2> DEFINE Q == {j \in P : j <= G[l]}
               H == [i \in 1..l |-> G[i]]
    <2>1. l \in Nat /\ \A i \in 1..l : i \in 1..m /\ i <= l
      BY <1>1
    <2>2. H \in [1..l -> Q]
      BY <1>1, <1>3, <2>1
    <2>3. \A i, j \in 1..l : H[i] = H[j] => i = j
      BY <1>3, <2>1
    <2>4. \A p \in Q : \E k \in 1..l : H[k] = p
      <3> SUFFICES ASSUME NEW p \in P, p <= G[l] PROVE \E k \in 1..l : H[k] = p
        OBVIOUS
      <3>1. PICK k \in 1..m : G[k] = p
        BY <1>1
      <3>2. k <= l
        BY <1>3, <3>1
      <3>3. k \in 1..l /\ H[k] = p
        BY <3>1, <3>2, <2>1
      <3>4. QED
        BY <3>3
    <2> HIDE DEF H, Q
    <2>5. Cardinality(Q) = l
      BY <2>1, <2>2, <2>3, <2>4, ListCard
    <2>6. QED
      BY <2>5 DEF Q
  <1>6. ASSUME NEW k \in 1..m PROVE Nth(P, k) = G[k]
    <2>1. G[k] \in P /\ Cardinality({j \in P : j <= G[k]}) = k
      BY <1>1, <1>5
    <2>2. ASSUME NEW i \in P, Cardinality({j \in P : j <= i}) = k PROVE i = G[k]
      <3>1. PICK l \in 1..m : G[l] = i
        BY <1>1
      <3>2. Cardinality({j \in P : j <= i}) = l
        BY <1>5, <3>1
      <3>3. QED
        BY <2>2, <3>1, <3>2
    <2>3. QED
      BY <2>1, <2>2 DEF Nth
  <1>7. QED
    BY <1>4, <1>6

\* So the selection is the list applied to the queue.
LEMMA SelectIs ==
    ASSUME NEW q, NEW e, NEW ops, NEW m, NEW G, Lists(G, m, Places(q, e, ops))
    PROVE  Select(q, e, ops) = [k \in 1..m |-> q[G[k]]]
  <1> DEFINE P == Places(q, e, ops)
  <1>1. Cardinality(P) = m /\ \A k \in 1..m : Nth(P, k) = G[k]
    BY NthIs
  <1>2. Select(q, e, ops) = [k \in 1..Cardinality(P) |-> q[Nth(P, k)]]
    BY DEF Select
  <1> HIDE DEF P
  <1>3. [k \in 1..Cardinality(P) |-> q[Nth(P, k)]] = [k \in 1..m |-> q[G[k]]]
    BY <1>1
  <1>4. QED
    BY <1>2, <1>3

Matches(x, e, ops) == x.end = e /\ x.op \in ops

\* A completion is added at the end of the queue.
LEMMA ListAppend ==
    ASSUME NEW q \in Seq(Completion), NEW x \in Completion, NEW e, NEW ops,
           NEW m, NEW G, Lists(G, m, Places(q, e, ops))
    PROVE  LET H == [k \in 1..(m + 1) |-> IF k <= m THEN G[k] ELSE Len(q) + 1] IN
           /\ Matches(x, e, ops) => Lists(H, m + 1, Places(Append(q, x), e, ops))
           /\ ~Matches(x, e, ops) => Lists(G, m, Places(Append(q, x), e, ops))
  <1> DEFINE H == [k \in 1..(m + 1) |-> IF k <= m THEN G[k] ELSE Len(q) + 1]
             P == Places(q, e, ops)
             r == Append(q, x)
             n == Len(q)
             R == Places(r, e, ops)
  <1>1. n \in Nat /\ Len(r) = n + 1 /\ r[n + 1] = x /\ \A i \in 1..n : r[i] = q[i]
    BY AppendProperties, LenProperties
  <1>2. \A i : i \in P <=> i \in 1..n /\ q[i].end = e /\ q[i].op \in ops
    BY DEF Places
  <1>3. \A i : i \in R <=> i \in 1..Len(r) /\ r[i].end = e /\ r[i].op \in ops
    BY DEF Places
  <1> HIDE DEF r, n
  <1>4. \A i \in 1..(n + 1) : i \in 1..n \/ i = n + 1
    BY <1>1
  <1>5. \A i : i \in R <=> i \in P \/ (i = n + 1 /\ Matches(x, e, ops))
    <2> SUFFICES ASSUME NEW i PROVE i \in R <=> i \in P \/ (i = n + 1 /\ Matches(x, e, ops))
      OBVIOUS
    <2>1. CASE i \in 1..n
      BY <2>1, <1>1, <1>2, <1>3
    <2>2. CASE i = n + 1
      BY <2>2, <1>1, <1>2, <1>3 DEF Matches
    <2>3. CASE i \notin 1..n /\ i # n + 1
      BY <2>3, <1>1, <1>2, <1>3, <1>4
    <2>4. QED
      BY <2>1, <2>2, <2>3
  <1>6. \A i \in P : i \in Nat /\ i < n + 1
    BY <1>1, <1>2
  <1>7. /\ m \in Nat /\ P \subseteq Nat /\ G \in [1..m -> P]
        /\ \A i, j \in 1..m : i < j => G[i] < G[j]
        /\ \A p \in P : \E k \in 1..m : G[k] = p
    BY DEF Lists
  <1> HIDE DEF P, R
  <1>8. ASSUME ~Matches(x, e, ops) PROVE Lists(G, m, R)
    <2>1. R = P
      BY <1>5, <1>8
    <2>2. QED
      BY <2>1, <1>7 DEF Lists
  <1>9. ASSUME Matches(x, e, ops) PROVE Lists(H, m + 1, R)
    <2>1. R = P \cup {n + 1} /\ R \subseteq Nat
      BY <1>1, <1>5, <1>6, <1>9
    <2>2. /\ \A k \in 1..m : k \in 1..(m + 1) /\ H[k] = G[k] /\ H[k] \in P
          /\ H[m + 1] = n + 1 /\ m + 1 \in 1..(m + 1)
      BY <1>1, <1>7 DEF n
    <2>3. \A k \in 1..(m + 1) : k \in 1..m \/ k = m + 1
      BY <1>7
    <2>4. H \in [1..(m + 1) -> R]
      <3>1. \A k \in 1..(m + 1) : H[k] \in R
        BY <2>1, <2>2, <2>3
      <3>2. H = [k \in 1..(m + 1) |-> H[k]]
        OBVIOUS
      <3> HIDE DEF H
      <3>3. QED
        BY <3>1, <3>2
    <2> HIDE DEF H
    <2>5. ASSUME NEW i \in 1..(m + 1), NEW j \in 1..(m + 1), i < j PROVE H[i] < H[j]
      <3>1. i \in 1..m
        BY <2>5, <1>7
      <3>2. CASE j \in 1..m
        BY <3>1, <3>2, <2>2, <2>5, <1>7
      <3>3. CASE j = m + 1
        BY <3>1, <3>3, <2>2, <1>6
      <3>4. QED
        BY <2>3, <3>2, <3>3
    <2>6. ASSUME NEW p \in R PROVE \E k \in 1..(m + 1) : H[k] = p
      <3>1. CASE p = n + 1
        BY <3>1, <2>2
      <3>2. CASE p \in P
        <4>1. PICK k \in 1..m : G[k] = p
          BY <3>2, <1>7
        <4>2. QED
          BY <4>1, <2>2
      <3>3. QED
        BY <2>1, <3>1, <3>2
    <2>7. QED
      BY <1>7, <2>1, <2>4, <2>5, <2>6 DEF Lists
  <1>10. QED
    BY <1>8, <1>9 DEF H, R, r, n

\* Nothing is selected from an empty queue.
LEMMA ListEmpty ==
    ASSUME NEW e, NEW ops
    PROVE  \A G \in [1..0 -> {}] : Lists(G, 0, Places(<<>>, e, ops))
  <1>1. Places(<<>>, e, ops) = {}
    <2>1. 1..Len(<<>>) = {}
      OBVIOUS
    <2>2. QED
      BY <2>1 DEF Places
  <1>2. 1..0 = {}
    OBVIOUS
  <1>3. QED
    BY <1>1, <1>2 DEF Lists

\* Every queue has a list of the places: by induction on its length, as the
\* absence of a shortest queue without one.
LEMMA ListExists ==
    ASSUME NEW e, NEW ops
    PROVE  \A q \in Seq(Completion) : \E m \in Nat : \E G : Lists(G, m, Places(q, e, ops))
  <1> DEFINE Good(q) == \E m \in Nat : \E G : Lists(G, m, Places(q, e, ops))
             Bad == {n \in Nat : \E q \in Seq(Completion) : Len(q) = n /\ ~Good(q)}
             L == OpToRel(<, Nat)
  <1>1. \A q \in Seq(Completion), x \in Completion : Good(q) => Good(Append(q, x))
    <2> SUFFICES ASSUME NEW q \in Seq(Completion), NEW x \in Completion, Good(q)
                 PROVE  Good(Append(q, x))
      OBVIOUS
    <2>1. PICK m \in Nat : \E G : Lists(G, m, Places(q, e, ops))
      OBVIOUS
    <2>2. PICK G : Lists(G, m, Places(q, e, ops))
      BY <2>1
    <2>3. CASE Matches(x, e, ops)
      <3>1. \E H : Lists(H, m + 1, Places(Append(q, x), e, ops))
        BY <2>2, <2>3, ListAppend
      <3>2. m + 1 \in Nat
        OBVIOUS
      <3>3. QED
        BY <3>1, <3>2
    <2>4. CASE ~Matches(x, e, ops)
      <3>1. \E H : Lists(H, m, Places(Append(q, x), e, ops))
        BY <2>2, <2>4, ListAppend
      <3>2. QED
        BY <3>1
    <2>5. QED
      BY <2>3, <2>4
  <1>2. Good(<<>>)
    <2>1. [k \in 1..0 |-> 0] \in [1..0 -> {}]
      OBVIOUS
    <2>2. \E G : Lists(G, 0, Places(<<>>, e, ops))
      BY <2>1, ListEmpty
    <2>3. QED
      BY <2>2
  <1> HIDE DEF Good
  <1>3. ASSUME Bad # {} PROVE FALSE
    <2>1. \E n \in Bad : \A k \in Bad : ~(<<k, n>> \in L)
      <3>1. IsWellFoundedOn(L, Nat) /\ Bad \subseteq Nat
        BY NatLessThanWellFounded
      <3> HIDE DEF L, Bad
      <3>2. QED
        BY <1>3, <3>1, WFMin
    <2>2. PICK n \in Bad : \A k \in Bad : ~(<<k, n>> \in L)
      BY <2>1
    <2>3. n \in Nat /\ \A k \in Nat : k < n => k \notin Bad
      BY <2>2 DEF OpToRel
    <2>4. PICK q \in Seq(Completion) : Len(q) = n /\ ~Good(q)
      BY <2>2
    <2>5. q # <<>>
      BY <2>4, <1>2
    <2>6. PICK p \in Seq(Completion), x \in Completion : q = Append(p, x)
      BY <2>5, SequenceEmptyOrAppend
    <2>7. Len(p) \in Nat /\ Len(p) < n
      <3>1. Len(q) = Len(p) + 1 /\ Len(p) \in Nat
        BY <2>6, AppendProperties, LenProperties
      <3>2. QED
        BY <2>3, <2>4, <3>1
    <2>8. Good(p)
      BY <2>3, <2>7
    <2>9. QED
      BY <1>1, <2>4, <2>6, <2>8
  <1>4. ASSUME NEW q \in Seq(Completion) PROVE Good(q)
    <2>1. Len(q) \in Nat
      BY LenProperties
    <2>2. QED
      BY <1>3, <2>1
  <1>5. QED
    BY <1>4 DEF Good

\* What is selected are completions of the queue that match.
LEMMA SelectType ==
    ASSUME NEW q \in Seq(Completion), NEW e, NEW ops
    PROVE  /\ Select(q, e, ops) \in Seq(Completion)
           /\ \A k \in 1..Len(Select(q, e, ops)) : Matches(Select(q, e, ops)[k], e, ops)
  <1>1. PICK m \in Nat : \E G : Lists(G, m, Places(q, e, ops))
    BY ListExists
  <1>2. PICK G : Lists(G, m, Places(q, e, ops))
    BY <1>1
  <1>3. Select(q, e, ops) = [k \in 1..m |-> q[G[k]]]
    BY <1>2, SelectIs
  <1>4. \A k \in 1..m : G[k] \in Places(q, e, ops)
    BY <1>2 DEF Lists
  <1>5. \A k \in 1..m : q[G[k]] \in Completion /\ Matches(q[G[k]], e, ops)
    <2> SUFFICES ASSUME NEW k \in 1..m PROVE q[G[k]] \in Completion /\ Matches(q[G[k]], e, ops)
      OBVIOUS
    <2>1. G[k] \in 1..Len(q) /\ q[G[k]].end = e /\ q[G[k]].op \in ops
      BY <1>4 DEF Places
    <2>2. q[G[k]] \in Completion
      BY <2>1, ElementOfSeq
    <2>3. QED
      BY <2>1, <2>2 DEF Matches
  <1> DEFINE s == [k \in 1..m |-> q[G[k]]]
  <1>6. s \in Seq(Completion) /\ Len(s) = m /\ \A k \in 1..m : s[k] = q[G[k]]
    BY <1>5
  <1> HIDE DEF s
  <1>7. Select(q, e, ops) = s
    BY <1>3 DEF s
  <1>8. QED
    BY <1>5, <1>6, <1>7

LEMMA SelectEmpty == ASSUME NEW e, NEW ops PROVE Select(<<>>, e, ops) = <<>>
  <1>1. PICK G : G \in [1..0 -> {}]
    <2>1. [k \in 1..0 |-> 0] \in [1..0 -> {}]
      OBVIOUS
    <2>2. QED
      BY <2>1
  <1>2. PICK q : q = <<>>
    OBVIOUS
  <1>3. Lists(G, 0, Places(q, e, ops))
    BY <1>1, <1>2, ListEmpty
  <1>4. Select(q, e, ops) = [k \in 1..0 |-> q[G[k]]]
    BY <1>3, SelectIs
  <1>5. QED
    BY <1>2, <1>4

\* A completion is added to the queue.
LEMMA SelectAppend ==
    ASSUME NEW q \in Seq(Completion), NEW x \in Completion, NEW e, NEW ops
    PROVE  Select(Append(q, x), e, ops) =
               IF Matches(x, e, ops) THEN Append(Select(q, e, ops), x) ELSE Select(q, e, ops)
  <1>1. PICK m \in Nat : \E G : Lists(G, m, Places(q, e, ops))
    BY ListExists
  <1>2. PICK G : Lists(G, m, Places(q, e, ops))
    BY <1>1
  <1> DEFINE H == [k \in 1..(m + 1) |-> IF k <= m THEN G[k] ELSE Len(q) + 1]
             r == Append(q, x)
             s == Select(q, e, ops)
             n == Len(q)
  <1>3. n \in Nat /\ r[n + 1] = x /\ \A i \in 1..n : r[i] = q[i]
    BY AppendProperties, LenProperties
  <1>4. \A k \in 1..m : G[k] \in 1..n
    BY <1>2 DEF Lists, Places
  <1>5. s = [k \in 1..m |-> q[G[k]]]
    BY <1>2, SelectIs
  <1>6. s \in Seq(Completion) /\ Len(s) = m /\ \A k \in 1..m : s[k] = q[G[k]]
    BY <1>5, SelectType
  <1>7. CASE Matches(x, e, ops)
    <2>1. Lists(H, m + 1, Places(r, e, ops))
      BY <1>2, <1>7, ListAppend
    <2>2. Select(r, e, ops) = [k \in 1..(m + 1) |-> r[H[k]]]
      <3> HIDE DEF H, r
      <3>1. QED
        BY <2>1, SelectIs
    <2>3. /\ Append(s, x) \in Seq(Completion) /\ Len(Append(s, x)) = m + 1
          /\ \A k \in 1..m : Append(s, x)[k] = s[k]
          /\ Append(s, x)[m + 1] = x
      BY <1>6, AppendProperties
    <2>4. \A k \in 1..m : H[k] = G[k]
      BY <1>1
    <2>5. H[m + 1] = n + 1
      BY <1>1
    <2> DEFINE y == Select(r, e, ops)
    <2>6. y \in Seq(Completion)
      BY AppendProperties, SelectType
    <2>7. Len(y) = m + 1 /\ \A k \in 1..(m + 1) : y[k] = r[H[k]]
      <3> HIDE DEF H, r
      <3>1. m + 1 \in Nat
        BY <1>1
      <3>2. QED
        BY <2>2, <2>6, <3>1
    <2> HIDE DEF H, r, n, s, y
    <2>8. ASSUME NEW k \in 1..(m + 1) PROVE y[k] = Append(s, x)[k]
      <3>1. CASE k \in 1..m
        BY <3>1, <1>3, <1>4, <1>6, <2>3, <2>4, <2>7
      <3>2. CASE k = m + 1
        BY <3>2, <1>3, <2>3, <2>5, <2>7
      <3>3. k \in 1..m \/ k = m + 1
        BY <1>1
      <3>4. QED
        BY <3>1, <3>2, <3>3
    <2>9. y = Append(s, x)
      BY <2>3, <2>6, <2>7, <2>8, SeqEqual
    <2>10. QED
      BY <1>7, <2>9 DEF s, r, y
  <1>8. CASE ~Matches(x, e, ops)
    <2>1. Lists(G, m, Places(r, e, ops))
      BY <1>2, <1>8, ListAppend
    <2>2. Select(r, e, ops) = [k \in 1..m |-> r[G[k]]]
      <3> HIDE DEF r
      <3>1. QED
        BY <2>1, SelectIs
    <2>3. \A k \in 1..m : r[G[k]] = q[G[k]]
      BY <1>3, <1>4
    <2> HIDE DEF r, s
    <2>4. Select(r, e, ops) = s
      BY <2>2, <2>3, <1>5
    <2>5. QED
      BY <1>8, <2>4 DEF s, r
  <1>9. QED
    BY <1>7, <1>8

\* The completion at the head of the queue is polled.
LEMMA SelectTail ==
    ASSUME NEW q \in Seq(Completion), q # <<>>, NEW e, NEW ops
    PROVE  LET s == Select(q, e, ops) IN
           /\ Matches(Head(q), e, ops) =>
                 s # <<>> /\ Head(s) = Head(q) /\ Select(Tail(q), e, ops) = Tail(s)
           /\ ~Matches(Head(q), e, ops) => Select(Tail(q), e, ops) = s
  <1>1. PICK m \in Nat : \E G : Lists(G, m, Places(q, e, ops))
    BY ListExists
  <1>2. PICK G : Lists(G, m, Places(q, e, ops))
    BY <1>1
  <1> DEFINE r == Tail(q)
             s == Select(q, e, ops)
             P == Places(q, e, ops)
             R == Places(r, e, ops)
             n == Len(q)
  <1>3. /\ n \in Nat \ {0} /\ r \in Seq(Completion) /\ Len(r) = n - 1
        /\ \A i \in 1..(n - 1) : r[i] = q[i + 1]
    BY HeadTailProperties, EmptySeq
  <1>4. q[1] = Head(q)
    OBVIOUS
  <1>5. s = [k \in 1..m |-> q[G[k]]]
    BY <1>2, SelectIs
  <1>6. s \in Seq(Completion) /\ Len(s) = m /\ \A k \in 1..m : s[k] = q[G[k]]
    BY <1>5, SelectType
  <1>7. \A i : i \in P <=> i \in 1..n /\ q[i].end = e /\ q[i].op \in ops
    BY DEF Places
  <1>8. \A i : i \in R <=> i \in 1..Len(r) /\ r[i].end = e /\ r[i].op \in ops
    BY DEF Places
  <1>9. /\ P \subseteq Nat /\ G \in [1..m -> P]
        /\ \A i, j \in 1..m : i < j => G[i] < G[j]
        /\ \A p \in P : \E k \in 1..m : G[k] = p
    BY <1>2 DEF Lists
  <1> HIDE DEF r, s, P, R, n
  <1>10. \A i \in P : i \in Nat /\ i >= 1 /\ i <= n
    BY <1>3, <1>7
  <1>11. \A i : i \in R <=> i \in Nat /\ i >= 1 /\ i + 1 \in P
    <2> SUFFICES ASSUME NEW i PROVE i \in R <=> i \in Nat /\ i >= 1 /\ i + 1 \in P
      OBVIOUS
    <2>1. CASE i \in 1..(n - 1)
      <3>1. i + 1 \in 1..n /\ i \in Nat /\ i >= 1 /\ r[i] = q[i + 1] /\ i \in 1..Len(r)
        BY <2>1, <1>3
      <3>2. QED
        BY <3>1, <1>7, <1>8
    <2>2. CASE i \notin 1..(n - 1)
      <3>1. i \notin R
        BY <2>2, <1>3, <1>8
      <3>2. ~(i \in Nat /\ i >= 1 /\ i + 1 \in P)
        BY <2>2, <1>3, <1>10
      <3>3. QED
        BY <3>1, <3>2
    <2>3. QED
      BY <2>1, <2>2
  <1>12. R \subseteq Nat
    BY <1>11
  <1>13. 1 \in P <=> Matches(Head(q), e, ops)
    BY <1>3, <1>4, <1>7 DEF Matches
  <1>14. CASE ~Matches(Head(q), e, ops)
    <2> DEFINE H == [k \in 1..m |-> G[k] - 1]
    <2>1. \A k \in 1..m : /\ G[k] \in P /\ G[k] \in Nat /\ G[k] > 1 /\ H[k] = G[k] - 1
                          /\ H[k] \in Nat /\ H[k] >= 1 /\ H[k] + 1 = G[k] /\ H[k] <= n - 1
      <3> SUFFICES ASSUME NEW k \in 1..m
                   PROVE  /\ G[k] \in P /\ G[k] \in Nat /\ G[k] > 1 /\ H[k] = G[k] - 1
                          /\ H[k] \in Nat /\ H[k] >= 1 /\ H[k] + 1 = G[k] /\ H[k] <= n - 1
        OBVIOUS
      <3>1. G[k] \in P /\ G[k] # 1
        BY <1>9, <1>13, <1>14
      <3>2. G[k] \in Nat /\ G[k] >= 1 /\ G[k] <= n
        BY <1>10, <3>1
      <3>3. QED
        BY <1>3, <3>1, <3>2
    <2>2. H \in [1..m -> R]
      BY <1>11, <2>1
    <2> HIDE DEF H
    <2>3. \A i, j \in 1..m : i < j => H[i] < H[j]
      BY <1>9, <2>1
    <2>4. ASSUME NEW p \in R PROVE \E k \in 1..m : H[k] = p
      <3>1. p \in Nat /\ p + 1 \in P
        BY <1>11
      <3>2. PICK k \in 1..m : G[k] = p + 1
        BY <1>9, <3>1
      <3>3. H[k] = p
        BY <2>1, <3>1, <3>2
      <3>4. QED
        BY <3>3
    <2>5. Lists(H, m, R)
      BY <1>12, <2>2, <2>3, <2>4 DEF Lists
    <2>6. Select(r, e, ops) = [k \in 1..m |-> r[H[k]]]
      BY <2>5, SelectIs DEF R
    <2>7. \A k \in 1..m : r[H[k]] = q[G[k]]
      <3> SUFFICES ASSUME NEW k \in 1..m PROVE r[H[k]] = q[G[k]]
        OBVIOUS
      <3>1. H[k] \in 1..(n - 1) /\ H[k] + 1 = G[k]
        BY <1>3, <2>1
      <3>2. QED
        BY <1>3, <3>1
    <2>8. Select(r, e, ops) = s
      BY <1>5, <2>6, <2>7
    <2>9. QED
      BY <1>14, <2>8 DEF r, s
  <1>15. CASE Matches(Head(q), e, ops)
    <2>1. PICK k1 \in 1..m : G[k1] = 1
      BY <1>9, <1>13, <1>15
    <2>2. m >= 1 /\ 1 \in 1..m
      BY <2>1
    <2>3. G[1] = 1
      <3>1. k1 > 1 => G[1] < G[k1]
        BY <1>9, <2>2
      <3>2. G[1] \in Nat /\ G[1] >= 1
        BY <1>9, <1>10, <2>2
      <3>3. QED
        BY <2>1, <3>1, <3>2
    <2>4. s # <<>> /\ Head(s) = Head(q)
      <3>1. s[1] = q[1]
        BY <1>6, <2>2, <2>3
      <3>2. s # <<>>
        BY <1>6, <2>2
      <3>3. QED
        BY <1>4, <1>6, <3>1, <3>2
    <2> DEFINE H == [k \in 1..(m - 1) |-> G[k + 1] - 1]
    <2>5. \A k \in 1..(m - 1) : /\ k + 1 \in 1..m /\ G[k + 1] \in P /\ H[k] = G[k + 1] - 1
                                /\ H[k] \in Nat /\ H[k] >= 1 /\ H[k] + 1 = G[k + 1]
                                /\ H[k] <= n - 1
      <3> SUFFICES ASSUME NEW k \in 1..(m - 1)
                   PROVE  /\ k + 1 \in 1..m /\ G[k + 1] \in P /\ H[k] = G[k + 1] - 1
                          /\ H[k] \in Nat /\ H[k] >= 1 /\ H[k] + 1 = G[k + 1]
                          /\ H[k] <= n - 1
        OBVIOUS
      <3>1. k + 1 \in 1..m /\ 1 < k + 1
        BY <1>1
      <3>2. G[k + 1] \in P /\ G[1] < G[k + 1]
        BY <1>9, <2>2, <3>1
      <3>3. G[k + 1] \in Nat /\ G[k + 1] > 1 /\ G[k + 1] <= n
        BY <1>10, <2>3, <3>2
      <3>4. QED
        BY <1>3, <3>1, <3>2, <3>3
    <2>6. H \in [1..(m - 1) -> R]
      BY <1>11, <2>5
    <2> HIDE DEF H
    <2>7. \A i, j \in 1..(m - 1) : i < j => H[i] < H[j]
      <3> SUFFICES ASSUME NEW i \in 1..(m - 1), NEW j \in 1..(m - 1), i < j
                   PROVE  H[i] < H[j]
        OBVIOUS
      <3>1. i + 1 < j + 1 /\ i + 1 \in 1..m /\ j + 1 \in 1..m
        BY <2>5
      <3>2. G[i + 1] < G[j + 1]
        BY <1>9, <3>1
      <3>3. G[i + 1] = H[i] + 1 /\ G[j + 1] = H[j] + 1 /\ H[i] \in Nat /\ H[j] \in Nat
        BY <2>5
      <3>4. QED
        BY <3>2, <3>3
    <2>8. ASSUME NEW p \in R PROVE \E k \in 1..(m - 1) : H[k] = p
      <3>1. p \in Nat /\ p >= 1 /\ p + 1 \in P
        BY <1>11
      <3>2. PICK l \in 1..m : G[l] = p + 1
        BY <1>9, <3>1
      <3>3. l # 1
        BY <2>3, <3>1, <3>2
      <3>4. l - 1 \in 1..(m - 1) /\ (l - 1) + 1 = l
        BY <1>1, <3>3
      <3>5. H[l - 1] = G[l] - 1
        BY <2>5, <3>4
      <3>6. H[l - 1] = p
        BY <3>1, <3>2, <3>5
      <3>7. QED
        BY <3>4, <3>6
    <2>9. m - 1 \in Nat
      BY <1>1, <2>2
    <2>10. Lists(H, m - 1, R)
      BY <1>12, <2>6, <2>7, <2>8, <2>9 DEF Lists
    <2>11. PICK l \in Nat : l = m - 1
      BY <2>9
    <2>12. Select(r, e, ops) = [k \in 1..l |-> r[H[k]]]
      BY <2>10, <2>11, SelectIs DEF R
    <2>13. \A k \in 1..l : r[H[k]] = s[k + 1]
      <3> SUFFICES ASSUME NEW k \in 1..l PROVE r[H[k]] = s[k + 1]
        OBVIOUS
      <3>1. H[k] \in 1..(n - 1) /\ H[k] + 1 = G[k + 1] /\ k + 1 \in 1..m
        BY <1>3, <2>5, <2>11
      <3>2. QED
        BY <1>3, <1>6, <3>1
    <2>14. /\ Tail(s) \in Seq(Completion) /\ Len(Tail(s)) = l
           /\ \A k \in 1..l : Tail(s)[k] = s[k + 1]
      BY <1>6, <2>4, <2>11, HeadTailProperties
    <2> DEFINE y == Select(r, e, ops)
    <2>15. y \in Seq(Completion)
      BY <1>3, SelectType
    <2>16. Len(y) = l /\ \A k \in 1..l : y[k] = r[H[k]]
      BY <2>11, <2>12, <2>15
    <2> HIDE DEF y
    <2>17. y = Tail(s)
      BY <2>13, <2>14, <2>15, <2>16, SeqEqual
    <2>18. QED
      BY <1>15, <2>4, <2>17 DEF r, s, y
  <1>16. QED
    BY <1>14, <1>15

-----------------------------------------------------------------------------
(* Counters and rings *)

\* A remainder is what is left of a multiple.
LEMMA ModOf ==
    ASSUME NEW a \in Nat, NEW t \in Nat \ {0}, NEW q \in Nat, NEW r \in Nat, r < t,
           a = t * q + r
    PROVE  a % t = r
  OBVIOUS

\* Division with remainder.
LEMMA DivMod ==
    ASSUME NEW a \in Nat, NEW t \in Nat \ {0}
    PROVE  /\ a % t \in Nat /\ a % t < t
           /\ \E q \in Nat : a = t * q + (a % t)
  <1>1. a \div t \in Nat /\ a % t \in Nat /\ a % t < t /\ a = t * (a \div t) + (a % t)
    OBVIOUS
  <1>2. QED
    BY <1>1

\* A counter that has wrapped counts on like one that has not.
LEMMA ModAdd ==
    ASSUME NEW a \in Nat, NEW k \in Nat, NEW t \in Nat \ {0}
    PROVE  ((a % t) + k) % t = (a + k) % t
  <1>1. PICK r \in Nat, q \in Nat : a % t = r /\ a = t * q + r
    BY DivMod
  <1>2. PICK s \in Nat, p \in Nat : s < t /\ (r + k) % t = s /\ r + k = t * p + s
    <2>1. r + k \in Nat
      OBVIOUS
    <2>2. QED
      BY <2>1, DivMod
  <1>3. a + k = t * q + (r + k)
    <2>1. t * q \in Nat
      OBVIOUS
    <2>2. QED
      BY <1>1, <2>1
  <1>4. a + k = t * (q + p) + s
    <2>1. t * (q + p) = t * q + t * p /\ t * q \in Nat /\ t * p \in Nat
      OBVIOUS
    <2>2. QED
      BY <1>2, <1>3, <2>1
  <1>5. (a + k) % t = s
    <2>1. a + k \in Nat /\ q + p \in Nat
      OBVIOUS
    <2>2. QED
      BY <1>2, <1>4, <2>1, ModOf
  <1>6. QED
    BY <1>1, <1>2, <1>5

\* The distance between two counters.
LEMMA ModSub ==
    ASSUME NEW t \in Nat \ {0}, NEW a \in 0..(t - 1), NEW n \in 0..(t - 1)
    PROVE  (((a + n) % t) - a) % t = n
  <1>1. CASE a + n < t
    <2>1. (a + n) % t = a + n
      BY <1>1
    <2>2. n % t = n
      OBVIOUS
    <2>3. (a + n) - a = n
      OBVIOUS
    <2>4. QED
      BY <2>1, <2>2, <2>3
  <1>2. CASE a + n >= t
    <2>1. (a + n) % t = a + n - t
      <3>1. a + n = t * 1 + (a + n - t) /\ a + n - t \in Nat /\ a + n - t < t
        BY <1>2
      <3>2. a + n \in Nat
        OBVIOUS
      <3>3. QED
        BY <3>1, <3>2, ModOf
    <2>2. (a + n - t) - a = n - t
      OBVIOUS
    <2>3. (n - t) % t = n
      OBVIOUS
    <2>4. QED
      BY <2>1, <2>2, <2>3
  <1>3. QED
    BY <1>1, <1>2

\* The constants.
LEMMA Constants ==
    /\ NUM_BLOCK \in Nat \ {0} /\ NUM_BLOCK > 1
    /\ IntRange \in Nat \ {0} /\ IntRange > NUM_BLOCK
    /\ MinusOne \in Counter /\ MinusOne \in Nat /\ MinusOne + 1 = IntRange
    /\ 0 \in Block
  BY MeshAssumption DEF MinusOne, Counter, Block

\* Types of counters and blocks.
LEMMA CounterTypes ==
    /\ \A n \in Nat : n % IntRange \in Counter /\ BlockOf(n) \in Block
    /\ \A n \in Counter : n \in Nat /\ Inc(n) \in Counter /\ Inc(n) = (n + 1) % IntRange
  <1>1. \A n \in Nat : n % IntRange \in 0..(IntRange - 1) /\ n % NUM_BLOCK \in 0..(NUM_BLOCK - 1)
    <2> SUFFICES ASSUME NEW n \in Nat
                 PROVE  n % IntRange \in 0..(IntRange - 1) /\ n % NUM_BLOCK \in 0..(NUM_BLOCK - 1)
      OBVIOUS
    <2>1. n % IntRange \in Nat /\ n % IntRange < IntRange
      BY Constants, DivMod
    <2>2. n % NUM_BLOCK \in Nat /\ n % NUM_BLOCK < NUM_BLOCK
      BY Constants, DivMod
    <2>3. QED
      BY <2>1, <2>2, Constants
  <1>2. \A n \in Counter : n \in Nat /\ n + 1 \in Nat
    BY Constants DEF Counter
  <1>3. QED
    BY <1>1, <1>2 DEF Counter, Block, BlockOf, Inc

\* The remainder of a remainder by a multiple.
LEMMA ModMod ==
    ASSUME NEW a \in Nat, NEW t \in Nat \ {0}, NEW j \in Nat \ {0}
    PROVE  (a % (t * j)) % t = a % t
  <1> DEFINE m == t * j
  <1>1. m \in Nat \ {0}
    OBVIOUS
  <1>2. PICK r \in Nat, q \in Nat : a % m = r /\ a = m * q + r
    <2> HIDE DEF m
    <2>1. QED
      BY <1>1, DivMod
  <1>3. PICK s \in Nat, p \in Nat : s < t /\ r % t = s /\ r = t * p + s
    BY DivMod
  <1>4. a = t * (j * q + p) + s /\ j * q + p \in Nat
    <2>1. m * q = t * (j * q)
      OBVIOUS
    <2>2. /\ t * (j * q + p) = t * (j * q) + t * p
          /\ j * q \in Nat /\ t * (j * q) \in Nat /\ t * p \in Nat
      OBVIOUS
    <2> HIDE DEF m
    <2>3. QED
      BY <1>2, <1>3, <2>1, <2>2
  <1>5. a % t = s
    BY <1>3, <1>4, ModOf
  <1>6. QED
    BY <1>2, <1>3, <1>5

\* The blocks divide the range of the counters.
LEMMA RangeMultiple == \E j \in Nat \ {0} : IntRange = NUM_BLOCK * j
  <1>1. PICK j \in Nat : IntRange = NUM_BLOCK * j + (IntRange % NUM_BLOCK)
    BY Constants, DivMod
  <1>2. IntRange % NUM_BLOCK = 0
    BY MeshAssumption
  <1>3. IntRange = NUM_BLOCK * j
    BY <1>1, <1>2, Constants
  <1>4. j # 0
    BY <1>3, Constants
  <1>5. QED
    BY <1>3, <1>4

LEMMA BlockOfMod ==
    ASSUME NEW a \in Nat
    PROVE  BlockOf(a % IntRange) = a % NUM_BLOCK
  <1>1. PICK j \in Nat \ {0} : IntRange = NUM_BLOCK * j
    BY RangeMultiple
  <1>2. (a % (NUM_BLOCK * j)) % NUM_BLOCK = a % NUM_BLOCK
    BY Constants, ModMod
  <1>3. QED
    BY <1>1, <1>2 DEF BlockOf

\* What k calls of next() hand out.
LEMMA HandedFacts ==
    ASSUME NEW n \in Counter, NEW k \in Nat
    PROVE  /\ Handed(n, k) \in Seq(Block) /\ Len(Handed(n, k)) = k
           /\ \A i \in 1..k : Handed(n, k)[i] = BlockOf((n + i) % IntRange)
  <1>1. \A i \in 1..k : BlockOf((n + i) % IntRange) \in Block
    <2> SUFFICES ASSUME NEW i \in 1..k PROVE BlockOf((n + i) % IntRange) \in Block
      OBVIOUS
    <2>1. n + i \in Nat
      BY CounterTypes
    <2>2. (n + i) % IntRange \in Nat
      BY <2>1, Constants, DivMod
    <2>3. QED
      BY <2>2, CounterTypes
  <1>2. Handed(n, k) = [i \in 1..k |-> BlockOf((n + i) % IntRange)]
    BY DEF Handed
  <1>3. QED
    BY <1>1, <1>2

\* The first block is block 0, for the response and for its receiver.
LEMMA FirstBlock ==
    /\ Inc(MinusOne) = 0 /\ BlockOf(0) = 0
    /\ Full \in Seq(Block) /\ Len(Full) = NUM_BLOCK /\ Full[1] = 0
    /\ FullNext \in Counter /\ ReadBlock(FullNext) = 0
    /\ Handed(MinusOne, 1)[1] = 0
  <1>1. IntRange % IntRange = 0 /\ 0 % NUM_BLOCK = 0
    BY Constants
  <1>2. Inc(MinusOne) = 0 /\ BlockOf(0) = 0 /\ (MinusOne + 1) % IntRange = 0
    BY <1>1, Constants DEF Inc, BlockOf
  <1>3. /\ Full \in Seq(Block) /\ Len(Full) = NUM_BLOCK /\ Full[1] = 0
        /\ Handed(MinusOne, 1)[1] = 0
    <2>1. 1 \in 1..NUM_BLOCK /\ 1 \in 1..1 /\ 1 \in Nat /\ NUM_BLOCK \in Nat
      BY Constants
    <2>2. /\ Handed(MinusOne, NUM_BLOCK) \in Seq(Block)
          /\ Len(Handed(MinusOne, NUM_BLOCK)) = NUM_BLOCK
          /\ Handed(MinusOne, NUM_BLOCK)[1] = BlockOf((MinusOne + 1) % IntRange)
      BY <2>1, Constants, HandedFacts
    <2>3. Handed(MinusOne, 1)[1] = BlockOf((MinusOne + 1) % IntRange)
      BY <2>1, Constants, HandedFacts
    <2>4. QED
      BY <1>2, <2>2, <2>3 DEF Full
  <1>4. FullNext \in Counter
    <2>1. MinusOne + NUM_BLOCK \in Nat
      BY Constants
    <2>2. QED
      BY <2>1, CounterTypes DEF FullNext
  <1>5. ReadBlock(FullNext) = 0
    <2> DEFINE a == MinusOne + NUM_BLOCK
    <2>1. a \in Nat /\ a + 1 = IntRange + NUM_BLOCK /\ a + 1 \in Nat
      BY Constants
    <2>2. FullNext = a % IntRange
      BY DEF FullNext
    <2> HIDE DEF a
    <2>3. Inc(FullNext) = (a + 1) % IntRange
      <3>1. ((a % IntRange) + 1) % IntRange = (a + 1) % IntRange
        <4>1. a \in Nat /\ 1 \in Nat /\ IntRange \in Nat \ {0}
          BY <2>1, Constants
        <4>2. QED
          BY <4>1, ModAdd
      <3>2. QED
        BY <2>2, <3>1 DEF Inc
    <2>4. ReadBlock(FullNext) = (a + 1) % NUM_BLOCK
      BY <2>1, <2>3, BlockOfMod DEF ReadBlock
    <2>5. (a + 1) % NUM_BLOCK = 0
      <3>1. PICK j \in Nat : IntRange = NUM_BLOCK * j
        BY RangeMultiple
      <3>2. a + 1 = NUM_BLOCK * (j + 1) + 0 /\ j + 1 \in Nat
        BY <2>1, <3>1, Constants
      <3>3. PICK b \in Nat : b = a + 1
        BY <2>1
      <3>4. b = NUM_BLOCK * (j + 1) + 0 /\ NUM_BLOCK \in Nat \ {0} /\ 0 < NUM_BLOCK
        BY <3>2, <3>3, Constants
      <3>5. b % NUM_BLOCK = 0
        BY <3>2, <3>4, ModOf
      <3>6. QED
        BY <3>3, <3>5
    <2>6. QED
      BY <2>4, <2>5
  <1>6. QED
    BY <1>2, <1>3, <1>4, <1>5

-----------------------------------------------------------------------------
(* Sequences of work requests and of blocks *)

\* The head of a sequence is taken from the whole it begins.
LEMMA TailConcat ==
    ASSUME NEW S, NEW a \in Seq(S), NEW b \in Seq(S), a # <<>>
    PROVE  a \o b # <<>> /\ Head(a \o b) = Head(a) /\ Tail(a \o b) = Tail(a) \o b
  <1> DEFINE m == Len(a)
             n == Len(b)
             ab == a \o b
             ta == Tail(a)
  <1>1. /\ m \in Nat \ {0} /\ n \in Nat /\ ab \in Seq(S) /\ Len(ab) = m + n
        /\ \A i \in 1..(m + n) : ab[i] = IF i <= m THEN a[i] ELSE b[i - m]
    BY ConcatProperties, LenProperties, EmptySeq
  <1>2. ta \in Seq(S) /\ Len(ta) = m - 1 /\ \A i \in 1..(m - 1) : ta[i] = a[i + 1]
    BY HeadTailProperties
  <1>3. ab # <<>>
    BY <1>1, EmptySeq
  <1>4. Head(ab) = Head(a)
    <2>1. ab[1] = a[1]
      BY <1>1
    <2>2. QED
      BY <2>1, <1>3
  <1> HIDE DEF ab, ta
  <1> DEFINE x == Tail(ab)
             y == ta \o b
  <1>5. x \in Seq(S) /\ Len(x) = m + n - 1 /\ \A i \in 1..Len(x) : x[i] = ab[i + 1]
    BY <1>1, <1>3, HeadTailProperties
  <1>6. /\ y \in Seq(S) /\ Len(y) = m - 1 + n
        /\ \A i \in 1..(m - 1 + n) : y[i] = IF i <= m - 1 THEN ta[i] ELSE b[i - (m - 1)]
    <2>1. /\ y \in Seq(S) /\ Len(y) = Len(ta) + Len(b)
          /\ \A i \in 1..(Len(ta) + Len(b)) :
                y[i] = IF i <= Len(ta) THEN ta[i] ELSE b[i - Len(ta)]
      BY <1>2, ConcatProperties
    <2>2. QED
      BY <1>2, <2>1
  <1> HIDE DEF x, y, m, n
  <1>7. ASSUME NEW i \in 1..Len(x) PROVE x[i] = y[i]
    <2>1. i \in 1..(m - 1 + n) /\ i + 1 \in 1..(m + n) /\ i \in Nat
      BY <1>1, <1>5
    <2>2. x[i] = IF i + 1 <= m THEN a[i + 1] ELSE b[(i + 1) - m]
      BY <1>1, <1>5, <2>1
    <2>3. CASE i + 1 <= m
      <3>1. i \in 1..(m - 1) /\ i <= m - 1
        BY <1>1, <2>1, <2>3
      <3>2. y[i] = a[i + 1]
        BY <1>2, <1>6, <2>1, <3>1
      <3>3. QED
        BY <2>2, <2>3, <3>2
    <2>4. CASE ~(i + 1 <= m)
      <3>1. ~(i <= m - 1) /\ i - (m - 1) = (i + 1) - m
        BY <1>1, <2>1, <2>4
      <3>2. y[i] = b[i - (m - 1)]
        BY <1>6, <2>1, <3>1
      <3>3. QED
        BY <2>2, <2>4, <3>1, <3>2
    <2>5. QED
      BY <2>3, <2>4
  <1>8. Len(x) = Len(y)
    BY <1>1, <1>5, <1>6
  <1>9. x = y
    BY <1>5, <1>6, <1>7, <1>8, SeqEqual
  <1>10. QED
    BY <1>3, <1>4, <1>9 DEF x, y, ab, ta

\* The head of one sequence moves to the end of the one before it.
LEMMA MoveHead ==
    ASSUME NEW S, NEW a \in Seq(S), NEW b \in Seq(S), b # <<>>
    PROVE  Append(a, Head(b)) \o Tail(b) = a \o b
  <1> DEFINE h == Head(b)
             t == Tail(b)
  <1>1. h \in S /\ t \in Seq(S) /\ <<h>> \in Seq(S)
    BY HeadTailProperties
  <1>2. b = <<h>> \o t
    <2> DEFINE u == <<h>> \o t
    <2>1. /\ u \in Seq(S) /\ Len(u) = 1 + Len(t)
          /\ \A i \in 1..(1 + Len(t)) : u[i] = IF i <= 1 THEN <<h>>[i] ELSE t[i - 1]
      BY <1>1, ConcatProperties
    <2>2. Len(t) = Len(b) - 1 /\ \A i \in 1..Len(t) : t[i] = b[i + 1]
      BY HeadTailProperties
    <2>3. Len(b) \in Nat /\ Len(t) \in Nat /\ <<h>>[1] = b[1]
      BY <1>1, LenProperties
    <2> HIDE DEF u, h, t
    <2>4. Len(u) = Len(b)
      BY <2>1, <2>2, <2>3
    <2>5. ASSUME NEW i \in 1..Len(b) PROVE b[i] = u[i]
      <3>1. CASE i = 1
        BY <3>1, <2>1, <2>2, <2>3
      <3>2. CASE i # 1
        <4>1. i - 1 \in 1..Len(t) /\ i \in 1..(1 + Len(t)) /\ ~(i <= 1) /\ (i - 1) + 1 = i
          BY <3>2, <2>2, <2>3
        <4>2. QED
          BY <4>1, <2>1, <2>2
      <3>3. QED
        BY <3>1, <3>2
    <2>6. QED
      BY <2>1, <2>4, <2>5, SeqEqual DEF u
  <1>3. Append(a, h) = a \o <<h>>
    BY <1>1, AppendIsConcat
  <1> HIDE DEF h, t
  <1>4. (a \o <<h>>) \o t = a \o (<<h>> \o t)
    BY <1>1, ConcatAssociative
  <1>5. QED
    BY <1>2, <1>3, <1>4 DEF h, t

\* Completions of work requests as work requests.
LEMMA RequestsOfFacts ==
    ASSUME NEW q \in Seq(Completion), \A k \in 1..Len(q) : q[k].op \in SendOps
    PROVE  /\ RequestsOf(q) \in Seq(Request) /\ Len(RequestsOf(q)) = Len(q)
           /\ \A k \in 1..Len(q) :
                 RequestsOf(q)[k] = [op |-> q[k].op, block |-> q[k].block]
  <1> DEFINE n == Len(q)
  <1>1. n \in Nat /\ \A k \in 1..n : q[k] \in Completion
    BY LenProperties, ElementOfSeq
  <1>2. RequestsOf(q) = [k \in 1..n |-> [op |-> q[k].op, block |-> q[k].block]]
    BY DEF RequestsOf
  <1> HIDE DEF n
  <1>3. \A k \in 1..n : [op |-> q[k].op, block |-> q[k].block] \in Request
    BY <1>1 DEF Completion, Request, SendOps, n
  <1>4. QED
    BY <1>1, <1>2, <1>3 DEF n

LEMMA RequestsOfAppend ==
    ASSUME NEW q \in Seq(Completion), \A k \in 1..Len(q) : q[k].op \in SendOps,
           NEW x \in Completion, x.op \in SendOps
    PROVE  RequestsOf(Append(q, x)) = Append(RequestsOf(q), [op |-> x.op, block |-> x.block])
  <1> DEFINE n == Len(q)
             r == Append(q, x)
             w == [op |-> x.op, block |-> x.block]
             Q == RequestsOf(q)
             R == RequestsOf(r)
             A == Append(Q, w)
  <1>1. /\ n \in Nat /\ r \in Seq(Completion) /\ Len(r) = n + 1 /\ r[n + 1] = x
        /\ \A i \in 1..n : r[i] = q[i]
    BY AppendProperties, LenProperties
  <1>2. /\ Q \in Seq(Request) /\ Len(Q) = n
        /\ \A k \in 1..n : Q[k] = [op |-> q[k].op, block |-> q[k].block]
    BY RequestsOfFacts
  <1>3. w \in Request
    BY DEF Completion, Request, SendOps
  <1> HIDE DEF r, n, w
  <1>4. \A k \in 1..(n + 1) : k \in 1..n \/ k = n + 1
    BY <1>1
  <1>5. \A k \in 1..Len(r) : r[k].op \in SendOps
    BY <1>1, <1>4 DEF n
  <1>6. /\ R \in Seq(Request) /\ Len(R) = n + 1
        /\ \A k \in 1..(n + 1) : R[k] = [op |-> r[k].op, block |-> r[k].block]
    BY <1>1, <1>5, RequestsOfFacts
  <1> HIDE DEF Q, R
  <1>7. /\ A \in Seq(Request) /\ Len(A) = n + 1 /\ A[n + 1] = w
        /\ \A k \in 1..n : A[k] = Q[k]
    BY <1>2, <1>3, AppendProperties
  <1> HIDE DEF A
  <1>8. \A k \in 1..(n + 1) : R[k] = A[k]
    <2>1. R[n + 1] = w
      BY <1>1, <1>6 DEF w
    <2>2. \A k \in 1..n : R[k] = Q[k]
      BY <1>1, <1>2, <1>6
    <2>3. QED
      BY <1>4, <1>7, <2>1, <2>2
  <1>9. R = A
    BY <1>6, <1>7, <1>8, SeqEqual
  <1>10. QED
    BY <1>9 DEF A, R, Q, r, w

LEMMA RequestsOfTail ==
    ASSUME NEW q \in Seq(Completion), \A k \in 1..Len(q) : q[k].op \in SendOps, q # <<>>
    PROVE  /\ RequestsOf(q) # <<>>
           /\ Head(RequestsOf(q)) = [op |-> Head(q).op, block |-> Head(q).block]
           /\ RequestsOf(Tail(q)) = Tail(RequestsOf(q))
  <1> DEFINE n == Len(q)
             r == Tail(q)
             Q == RequestsOf(q)
             R == RequestsOf(r)
             A == Tail(Q)
  <1>1. /\ n \in Nat \ {0} /\ r \in Seq(Completion) /\ Len(r) = n - 1
        /\ \A i \in 1..(n - 1) : r[i] = q[i + 1]
    BY HeadTailProperties, EmptySeq
  <1>2. /\ Q \in Seq(Request) /\ Len(Q) = n
        /\ \A k \in 1..n : Q[k] = [op |-> q[k].op, block |-> q[k].block]
    BY RequestsOfFacts
  <1>3. Head(q) = q[1]
    OBVIOUS
  <1> HIDE DEF r, Q
  <1>4. Q # <<>> /\ Head(Q) = Q[1]
    BY <1>1, <1>2, EmptySeq
  <1>5. Head(Q) = [op |-> Head(q).op, block |-> Head(q).block]
    <2>1. 1 \in 1..n
      BY <1>1
    <2>2. Q[1] = [op |-> q[1].op, block |-> q[1].block]
      BY <1>2, <2>1
    <2>3. QED
      BY <1>3, <1>4, <2>2
  <1>6. \A k \in 1..(n - 1) : k + 1 \in 1..n
    BY <1>1
  <1>7. \A k \in 1..Len(r) : r[k].op \in SendOps
    BY <1>1, <1>6
  <1>8. /\ R \in Seq(Request) /\ Len(R) = n - 1
        /\ \A k \in 1..(n - 1) : R[k] = [op |-> r[k].op, block |-> r[k].block]
    BY <1>1, <1>7, RequestsOfFacts
  <1>9. /\ A \in Seq(Request) /\ Len(A) = n - 1
        /\ \A k \in 1..(n - 1) : A[k] = Q[k + 1]
    BY <1>2, <1>4, HeadTailProperties
  <1> HIDE DEF R, A, n
  <1>10. ASSUME NEW k \in 1..(n - 1) PROVE R[k] = A[k]
    <2>1. k + 1 \in 1..n
      BY <1>6
    <2>2. R[k] = [op |-> q[k + 1].op, block |-> q[k + 1].block]
      BY <1>1, <1>8
    <2>3. Q[k + 1] = [op |-> q[k + 1].op, block |-> q[k + 1].block]
      BY <1>2, <2>1
    <2>4. A[k] = Q[k + 1]
      BY <1>9
    <2>5. QED
      BY <2>2, <2>3, <2>4
  <1>11. R = A
    BY <1>8, <1>9, <1>10, SeqEqual
  <1>12. QED
    BY <1>4, <1>5, <1>11 DEF A, R, Q, r

\* The blocks of work requests or completions.
LEMMA BlocksOfFacts ==
    ASSUME NEW S, \A x \in S : x.block \in Block, NEW q \in Seq(S)
    PROVE  /\ BlocksOf(q) \in Seq(Block) /\ Len(BlocksOf(q)) = Len(q)
           /\ \A k \in 1..Len(q) : BlocksOf(q)[k] = q[k].block
  <1> DEFINE n == Len(q)
  <1>1. n \in Nat /\ \A k \in 1..n : q[k].block \in Block
    BY LenProperties, ElementOfSeq
  <1>2. BlocksOf(q) = [k \in 1..n |-> q[k].block]
    BY DEF BlocksOf
  <1> HIDE DEF n
  <1>3. QED
    BY <1>1, <1>2 DEF n

LEMMA BlocksOfConcat ==
    ASSUME NEW S, \A x \in S : x.block \in Block, NEW a \in Seq(S), NEW b \in Seq(S)
    PROVE  BlocksOf(a \o b) = BlocksOf(a) \o BlocksOf(b)
  <1> DEFINE m == Len(a)
             n == Len(b)
             ab == a \o b
             A == BlocksOf(a)
             B == BlocksOf(b)
             X == BlocksOf(ab)
             Y == A \o B
  <1>1. /\ m \in Nat /\ n \in Nat /\ ab \in Seq(S) /\ Len(ab) = m + n
        /\ \A i \in 1..(m + n) : ab[i] = IF i <= m THEN a[i] ELSE b[i - m]
    BY ConcatProperties, LenProperties
  <1>2. /\ A \in Seq(Block) /\ Len(A) = m /\ \A k \in 1..m : A[k] = a[k].block
        /\ B \in Seq(Block) /\ Len(B) = n /\ \A k \in 1..n : B[k] = b[k].block
    BY BlocksOfFacts
  <1> HIDE DEF A, B, ab
  <1>3. X \in Seq(Block) /\ Len(X) = m + n /\ \A k \in 1..(m + n) : X[k] = ab[k].block
    BY <1>1, BlocksOfFacts
  <1>4. /\ Y \in Seq(Block) /\ Len(Y) = m + n
        /\ \A i \in 1..(m + n) : Y[i] = IF i <= m THEN A[i] ELSE B[i - m]
    <2>1. A \in Seq(Block) /\ B \in Seq(Block)
      BY <1>2
    <2>2. /\ Y \in Seq(Block) /\ Len(Y) = Len(A) + Len(B)
          /\ \A i \in 1..(Len(A) + Len(B)) : Y[i] = IF i <= Len(A) THEN A[i] ELSE B[i - Len(A)]
      BY <2>1, ConcatProperties, Zenon
    <2>3. QED
      BY <1>2, <2>2
  <1> HIDE DEF X, Y, m, n
  <1>5. ASSUME NEW i \in 1..(m + n) PROVE X[i] = Y[i]
    <2>1. CASE i <= m
      <3>1. i \in 1..m
        BY <1>1, <2>1
      <3>2. X[i] = a[i].block
        BY <2>1, <1>1, <1>3
      <3>3. Y[i] = A[i] /\ A[i] = a[i].block
        BY <2>1, <3>1, <1>2, <1>4
      <3>4. QED
        BY <3>2, <3>3
    <2>2. CASE ~(i <= m)
      <3>1. i - m \in 1..n
        BY <1>1, <2>2
      <3>2. X[i] = b[i - m].block
        BY <2>2, <1>1, <1>3
      <3>3. Y[i] = B[i - m] /\ B[i - m] = b[i - m].block
        BY <2>2, <3>1, <1>2, <1>4
      <3>4. QED
        BY <3>2, <3>3
    <2>3. QED
      BY <2>1, <2>2
  <1>6. X = Y
    BY <1>3, <1>4, <1>5, SeqEqual
  <1>7. QED
    BY <1>6 DEF X, Y, A, B, ab

LEMMA BlocksOfTail ==
    ASSUME NEW S, \A x \in S : x.block \in Block, NEW q \in Seq(S), q # <<>>
    PROVE  /\ BlocksOf(q) # <<>> /\ BlocksOf(q)[1] = Head(q).block
           /\ BlocksOf(Tail(q)) = Tail(BlocksOf(q))
  <1> DEFINE n == Len(q)
             r == Tail(q)
             Q == BlocksOf(q)
             R == BlocksOf(r)
             A == Tail(Q)
  <1>1. /\ n \in Nat \ {0} /\ r \in Seq(S) /\ Len(r) = n - 1
        /\ \A i \in 1..(n - 1) : r[i] = q[i + 1]
    BY HeadTailProperties, EmptySeq
  <1>2. Q \in Seq(Block) /\ Len(Q) = n /\ \A k \in 1..n : Q[k] = q[k].block
    BY BlocksOfFacts
  <1>3. Head(q) = q[1]
    OBVIOUS
  <1> HIDE DEF r, Q
  <1>4. Q # <<>>
    BY <1>1, <1>2, EmptySeq
  <1>5. Q[1] = Head(q).block
    <2>1. 1 \in 1..n
      BY <1>1
    <2>2. QED
      BY <1>2, <1>3, <2>1
  <1>6. R \in Seq(Block) /\ Len(R) = n - 1 /\ \A k \in 1..(n - 1) : R[k] = r[k].block
    BY <1>1, BlocksOfFacts
  <1>7. A \in Seq(Block) /\ Len(A) = n - 1 /\ \A k \in 1..(n - 1) : A[k] = Q[k + 1]
    BY <1>2, <1>4, HeadTailProperties
  <1> HIDE DEF R, A, n
  <1>8. \A k \in 1..(n - 1) : k + 1 \in 1..n
    BY <1>1
  <1>9. ASSUME NEW k \in 1..(n - 1) PROVE R[k] = A[k]
    <2>1. k + 1 \in 1..n
      BY <1>8
    <2>2. R[k] = q[k + 1].block
      BY <1>1, <1>6
    <2>3. A[k] = Q[k + 1] /\ Q[k + 1] = q[k + 1].block
      BY <1>2, <1>7, <2>1
    <2>4. QED
      BY <2>2, <2>3
  <1>10. R = A
    BY <1>6, <1>7, <1>9, SeqEqual
  <1>11. QED
    BY <1>4, <1>5, <1>10 DEF A, R, Q, r

\* Work requests posted for the blocks of a ring.
LEMMA RequestsFacts ==
    ASSUME NEW op \in SendOps, NEW b \in Seq(Block)
    PROVE  /\ Requests(op, b) \in Seq(Request) /\ Len(Requests(op, b)) = Len(b)
           /\ \A k \in 1..Len(b) : Requests(op, b)[k] = [op |-> op, block |-> b[k]]
           /\ BlocksOf(Requests(op, b)) = b
  <1> DEFINE n == Len(b)
             R == Requests(op, b)
             B == BlocksOf(R)
  <1>1. n \in Nat /\ \A k \in 1..n : b[k] \in Block
    BY LenProperties, ElementOfSeq
  <1>2. R = [k \in 1..n |-> [op |-> op, block |-> b[k]]]
    BY DEF Requests
  <1>3. \A k \in 1..n : [op |-> op, block |-> b[k]] \in Request
    BY <1>1 DEF Request, SendOps
  <1> HIDE DEF n, R
  <1>4. /\ R \in Seq(Request) /\ Len(R) = n
        /\ \A k \in 1..n : R[k] = [op |-> op, block |-> b[k]]
    BY <1>1, <1>2, <1>3
  <1>5. \A x \in Request : x.block \in Block
    BY DEF Request
  <1>6. B \in Seq(Block) /\ Len(B) = n /\ \A k \in 1..n : B[k] = R[k].block
    BY <1>4, <1>5, BlocksOfFacts
  <1>7. \A k \in 1..n : R[k].block = b[k]
    BY <1>4
  <1> HIDE DEF B
  <1>8. B = b
    BY <1>6, <1>7, SeqEqual DEF n
  <1>9. QED
    BY <1>4, <1>8 DEF n, B, R

\* Handing out blocks extends the ring at its end.
LEMMA RingPost ==
    ASSUME NEW b \in Seq(Block), NEW last \in Counter, NEW next \in Counter, NEW k \in Nat,
           OnRing(b, last, next)
    PROVE  /\ b \o Handed(next, k) \in Seq(Block)
           /\ OnRing(b \o Handed(next, k), last, (next + k) % IntRange)
  <1> DEFINE n == Len(b)
             h == Handed(next, k)
             bh == b \o h
  <1>1. h \in Seq(Block) /\ Len(h) = k /\ \A i \in 1..k : h[i] = BlockOf((next + i) % IntRange)
    BY HandedFacts
  <1>2. n \in Nat /\ last \in Nat /\ next \in Nat
    BY LenProperties, CounterTypes
  <1>3. next = (last + n) % IntRange /\ \A i \in 1..n : b[i] = BlockOf((last + i) % IntRange)
    BY DEF OnRing
  <1> HIDE DEF h
  <1>4. /\ bh \in Seq(Block) /\ Len(bh) = n + k
        /\ \A i \in 1..(n + k) : bh[i] = IF i <= n THEN b[i] ELSE h[i - n]
    <2>1. /\ bh \in Seq(Block) /\ Len(bh) = Len(b) + Len(h)
          /\ \A i \in 1..(Len(b) + Len(h)) : bh[i] = IF i <= Len(b) THEN b[i] ELSE h[i - Len(b)]
      BY <1>1, ConcatProperties
    <2>2. QED
      BY <1>1, <2>1
  <1> HIDE DEF bh, n
  <1>5. \A i \in Nat : (next + i) % IntRange = (last + (n + i)) % IntRange
    <2> SUFFICES ASSUME NEW i \in Nat
                 PROVE  (next + i) % IntRange = (last + (n + i)) % IntRange
      OBVIOUS
    <2>1. PICK a \in Nat : a = last + n
      BY <1>2
    <2>2. ((a % IntRange) + i) % IntRange = (a + i) % IntRange
      BY Constants, ModAdd
    <2>3. a + i = last + (n + i)
      BY <1>2, <2>1
    <2>4. next = a % IntRange
      BY <1>3, <2>1
    <2>5. QED
      BY <2>2, <2>3, <2>4
  <1>6. ASSUME NEW i \in 1..(n + k) PROVE bh[i] = BlockOf((last + i) % IntRange)
    <2>1. CASE i <= n
      <3>1. i \in 1..n
        BY <1>2, <2>1
      <3>2. QED
        BY <2>1, <3>1, <1>3, <1>4
    <2>2. CASE ~(i <= n)
      <3>1. PICK j \in 1..k : j = i - n
        BY <1>2, <2>2
      <3>2. j \in Nat /\ n + j = i
        BY <1>2, <3>1
      <3>3. bh[i] = h[j]
        BY <1>4, <2>2, <3>1
      <3>4. h[j] = BlockOf((next + j) % IntRange)
        BY <1>1
      <3>5. (next + j) % IntRange = (last + i) % IntRange
        BY <1>5, <3>2
      <3>6. QED
        BY <3>3, <3>4, <3>5
    <2>3. QED
      BY <2>1, <2>2
  <1>7. OnRing(bh, last, (next + k) % IntRange)
    BY <1>4, <1>5, <1>6 DEF OnRing
  <1>8. QED
    BY <1>4, <1>7 DEF bh, h

\* last() takes back the oldest block.
LEMMA RingTake ==
    ASSUME NEW b \in Seq(Block), NEW last \in Counter, NEW next \in Counter, b # <<>>,
           OnRing(b, last, next)
    PROVE  OnRing(Tail(b), Inc(last), next)
  <1> DEFINE n == Len(b)
             t == Tail(b)
  <1>1. n \in Nat \ {0} /\ Len(t) = n - 1 /\ \A i \in 1..(n - 1) : t[i] = b[i + 1]
    BY HeadTailProperties, EmptySeq
  <1>2. last \in Nat /\ Inc(last) = (last + 1) % IntRange
    BY CounterTypes
  <1>3. next = (last + n) % IntRange /\ \A i \in 1..n : b[i] = BlockOf((last + i) % IntRange)
    BY DEF OnRing
  <1> HIDE DEF n, t
  <1>4. \A i \in Nat : (Inc(last) + i) % IntRange = (last + (i + 1)) % IntRange
    <2> SUFFICES ASSUME NEW i \in Nat
                 PROVE  (Inc(last) + i) % IntRange = (last + (i + 1)) % IntRange
      OBVIOUS
    <2>1. PICK a \in Nat : a = last + 1
      BY <1>2
    <2>2. ((a % IntRange) + i) % IntRange = (a + i) % IntRange
      BY Constants, ModAdd
    <2>3. a + i = last + (i + 1)
      BY <1>2, <2>1
    <2>4. QED
      BY <1>2, <2>1, <2>2, <2>3
  <1>5. next = (Inc(last) + (n - 1)) % IntRange
    <2>1. n - 1 \in Nat /\ (n - 1) + 1 = n
      BY <1>1
    <2>2. QED
      BY <1>3, <1>4, <2>1
  <1>6. ASSUME NEW i \in 1..(n - 1) PROVE t[i] = BlockOf((Inc(last) + i) % IntRange)
    <2>1. i \in Nat /\ i + 1 \in 1..n
      BY <1>1
    <2>2. QED
      BY <1>1, <1>3, <1>4, <2>1
  <1>7. QED
    BY <1>1, <1>5, <1>6 DEF OnRing, t

\* As long as the ring has not come round, its counters tell its blocks.
LEMMA RingIs ==
    ASSUME NEW b \in Seq(Block), NEW last \in Counter, NEW next \in Counter,
           Len(b) < IntRange, OnRing(b, last, next)
    PROVE  b = Handed(last, (next - last) % IntRange)
  <1>1. PICK n \in Nat : n = Len(b)
    BY LenProperties
  <1>2. n \in 0..(IntRange - 1) /\ last \in 0..(IntRange - 1)
    BY <1>1, Constants DEF Counter
  <1>3. next = (last + n) % IntRange /\ \A i \in 1..n : b[i] = BlockOf((last + i) % IntRange)
    BY <1>1 DEF OnRing
  <1>4. (next - last) % IntRange = n
    BY <1>2, <1>3, Constants, ModSub
  <1> DEFINE h == Handed(last, n)
  <1>5. h \in Seq(Block) /\ Len(h) = n /\ \A i \in 1..n : h[i] = BlockOf((last + i) % IntRange)
    BY HandedFacts
  <1> HIDE DEF h
  <1>6. b = h
    BY <1>1, <1>3, <1>5, SeqEqual
  <1>7. QED
    BY <1>4, <1>6 DEF h

-----------------------------------------------------------------------------
(* Ends, and what is in flight at them *)

\* The two ends of a connection.
LEMMA EndFacts ==
    /\ \A c \in Clients :
          /\ Client(c) \in End /\ Owner(Client(c)) = c /\ Other(Client(c)) = Server(c)
          /\ Server(c) \in End /\ Owner(Server(c)) = "server" /\ Other(Server(c)) = Client(c)
          /\ Client(c)[1] = c /\ Server(c)[1] = c /\ c \in Thread /\ c # "server"
    /\ \A c, d \in Clients :
          /\ Client(c) # Server(d)
          /\ Client(c) = Client(d) => c = d
          /\ Server(c) = Server(d) => c = d
    /\ \A e \in End : /\ \E c \in Clients : e = Client(c) \/ e = Server(c)
                      /\ Owner(e) \in Thread /\ Other(e) \in End /\ Other(e) # e
    /\ "server" \in Thread
  <1>1. ASSUME NEW c \in Clients
        PROVE  /\ Client(c) \in End /\ Server(c) \in End
               /\ Client(c)[1] = c /\ Server(c)[1] = c /\ Client(c) # Server(c)
    BY DEF Client, Server, End
  <1>2. \A c, d \in Clients : /\ Client(c) # Server(d)
                              /\ Client(c) = Client(d) => c = d
                              /\ Server(c) = Server(d) => c = d
    BY DEF Client, Server
  <1>3. \A c \in Clients : c \in Thread /\ c # "server"
    BY MeshAssumption DEF Thread
  <1>4. "server" \in Thread
    BY DEF Thread
  <1>5. ASSUME NEW c \in Clients
        PROVE  /\ Owner(Client(c)) = c /\ Other(Client(c)) = Server(c)
               /\ Owner(Server(c)) = "server" /\ Other(Server(c)) = Client(c)
    BY <1>1 DEF Owner, Other
  <1>6. ASSUME NEW e \in End
        PROVE  \E c \in Clients : e = Client(c) \/ e = Server(c)
    BY DEF End, Client, Server
  <1>7. ASSUME NEW e \in End
        PROVE  Owner(e) \in Thread /\ Other(e) \in End /\ Other(e) # e
    <2>1. PICK c \in Clients : e = Client(c) \/ e = Server(c)
      BY <1>6
    <2>2. QED
      BY <2>1, <1>1, <1>3, <1>4, <1>5
  <1>8. QED
    BY <1>1, <1>2, <1>3, <1>4, <1>5, <1>6, <1>7

\* The types of work requests and completions.
LEMMA RecordTypes ==
    /\ \A x \in Request : x.block \in Block /\ x.op \in SendOps
    /\ \A x \in Completion : x.block \in Block /\ x.op \in Op /\ x.end \in End
    /\ \A e \in End, op \in Op, b \in Block :
          LET x == [end |-> e, op |-> op, block |-> b] IN
          x \in Completion /\ x.end = e /\ x.op = op /\ x.block = b
    /\ SendOps \subseteq Op /\ "RECV" \in Op /\ "RECV" \notin SendOps
    /\ "SEND" \in SendOps /\ "WRITE" \in SendOps
    /\ "RECV" \in RecvOps /\ \A op \in SendOps : op \notin RecvOps
  BY DEF Request, Completion, SendOps, RecvOps, Op

\* Completions of a thread, by end and kind.
LEMMA DoneFacts ==
    ASSUME TypeOK, NEW e \in End, NEW ops
    PROVE  /\ Done(e, ops) \in Seq(Completion)
           /\ \A k \in 1..Len(Done(e, ops)) :
                 Done(e, ops)[k].end = e /\ Done(e, ops)[k].op \in ops
  <1>1. cq[Owner(e)] \in Seq(Completion)
    BY EndFacts DEF TypeOK
  <1>2. QED
    BY <1>1, SelectType DEF Done, Matches

LEMMA DoneSame ==
    ASSUME cq' = cq, NEW e, NEW ops
    PROVE  Done(e, ops)' = Done(e, ops)
  BY DEF Done

\* A completion x comes in for thread t.
LEMMA DoneAppend ==
    ASSUME TypeOK, NEW p \in End, NEW x \in Completion, x.end = p,
           cq' = [cq EXCEPT ![Owner(p)] = Append(@, x)], NEW e \in End, NEW ops
    PROVE  Done(e, ops)' = IF e = p /\ x.op \in ops THEN Append(Done(e, ops), x)
                           ELSE Done(e, ops)
  <1>1. /\ cq[Owner(e)] \in Seq(Completion)
        /\ Owner(e) = Owner(p) => cq'[Owner(e)] = Append(cq[Owner(e)], x)
        /\ Owner(e) # Owner(p) => cq'[Owner(e)] = cq[Owner(e)]
    BY EndFacts DEF TypeOK
  <1>2. Done(e, ops)' = Select(cq'[Owner(e)], e, ops) /\ Done(e, ops) = Select(cq[Owner(e)], e, ops)
    BY DEF Done
  <1>3. Matches(x, e, ops) <=> e = p /\ x.op \in ops
    BY DEF Matches
  <1>4. CASE Owner(e) = Owner(p)
    <2>1. Done(e, ops)' = Select(Append(cq[Owner(e)], x), e, ops)
      BY <1>1, <1>2, <1>4
    <2>2. Select(Append(cq[Owner(e)], x), e, ops) =
              IF Matches(x, e, ops) THEN Append(Select(cq[Owner(e)], e, ops), x)
              ELSE Select(cq[Owner(e)], e, ops)
      BY <1>1, SelectAppend
    <2>3. QED
      BY <1>2, <1>3, <2>1, <2>2
  <1>5. CASE Owner(e) # Owner(p)
    BY <1>1, <1>2, <1>5
  <1>6. QED
    BY <1>4, <1>5

\* The same for the two kinds of completions the service tells apart.
LEMMA DoneAppends ==
    ASSUME TypeOK, NEW p \in End, NEW x \in Completion, x.end = p,
           cq' = [cq EXCEPT ![Owner(p)] = Append(@, x)], NEW e \in End
    PROVE  /\ Done(e, SendOps)' = IF e = p /\ x.op \in SendOps
                                  THEN Append(Done(e, SendOps), x) ELSE Done(e, SendOps)
           /\ Done(e, RecvOps)' = IF e = p /\ x.op \in RecvOps
                                  THEN Append(Done(e, RecvOps), x) ELSE Done(e, RecvOps)
  <1>1. \A ops : Done(e, ops)' = IF e = p /\ x.op \in ops THEN Append(Done(e, ops), x)
                                 ELSE Done(e, ops)
    BY DoneAppend, ZenonT(30)
  <1>2. QED
    BY <1>1

\* The thread of end p polls a completion of p.
LEMMA DonePolled ==
    ASSUME TypeOK, NEW p \in End, NEW op, Polled(Owner(p), p, op), NEW e \in End, NEW ops
    PROVE  IF e = p /\ op \in ops
           THEN /\ Done(e, ops) # <<>> /\ Head(Done(e, ops)).op = op
                /\ Done(e, ops)' = Tail(Done(e, ops))
           ELSE Done(e, ops)' = Done(e, ops)
  <1>1. /\ cq[Owner(e)] \in Seq(Completion)
        /\ cq[Owner(p)] # <<>> /\ Head(cq[Owner(p)]).end = p /\ Head(cq[Owner(p)]).op = op
        /\ Owner(e) = Owner(p) => cq'[Owner(e)] = Tail(cq[Owner(e)])
        /\ Owner(e) # Owner(p) => cq'[Owner(e)] = cq[Owner(e)]
    BY EndFacts DEF TypeOK, Polled
  <1>2. Done(e, ops)' = Select(cq'[Owner(e)], e, ops) /\ Done(e, ops) = Select(cq[Owner(e)], e, ops)
    BY DEF Done
  <1>3. CASE Owner(e) = Owner(p)
    <2>1. Matches(Head(cq[Owner(e)]), e, ops) <=> e = p /\ op \in ops
      BY <1>1, <1>3 DEF Matches
    <2>2. /\ Matches(Head(cq[Owner(e)]), e, ops) =>
                /\ Done(e, ops) # <<>> /\ Head(Done(e, ops)) = Head(cq[Owner(e)])
                /\ Done(e, ops)' = Tail(Done(e, ops))
          /\ ~Matches(Head(cq[Owner(e)]), e, ops) => Done(e, ops)' = Done(e, ops)
      BY <1>1, <1>2, <1>3, SelectTail
    <2>3. QED
      BY <1>1, <1>3, <2>1, <2>2
  <1>4. CASE Owner(e) # Owner(p)
    BY <1>1, <1>2, <1>4
  <1>5. QED
    BY <1>3, <1>4

\* Work requests one after the other.
LEMMA RequestsAssociative ==
    \A a, b, c \in Seq(Request) : (a \o b) \o c = a \o (b \o c)
  <1> SUFFICES ASSUME NEW a \in Seq(Request), NEW b \in Seq(Request), NEW c \in Seq(Request)
               PROVE  (a \o b) \o c = a \o (b \o c)
    OBVIOUS
  <1>1. PICK S : S = Request
    OBVIOUS
  <1>2. a \in Seq(S) /\ b \in Seq(S) /\ c \in Seq(S)
    BY <1>1
  <1>3. QED
    BY <1>2, ConcatAssociative

\* What is in flight at an end, and how it comes to its send queue.
LEMMA FlightFacts ==
    ASSUME TypeOK, NEW e \in End
    PROVE  /\ Flight(e) \in Seq(Request)
           /\ RequestsOf(Done(e, SendOps)) \in Seq(Request)
           /\ unacked[e] \in Seq(Request) /\ sq[e] \in Seq(Request)
           /\ Len(sq[e]) <= Len(Flight(e))
           /\ \A k \in 1..Len(sq[e]) :
                 \E i \in 1..Len(Flight(e)) : sq[e][k] = Flight(e)[i]
  <1> DEFINE d == RequestsOf(Done(e, SendOps))
             u == unacked[e]
             s == sq[e]
             du == d \o u
             f == du \o s
  <1>1. d \in Seq(Request)
    BY DoneFacts, RequestsOfFacts
  <1>2. u \in Seq(Request) /\ s \in Seq(Request)
    BY DEF TypeOK
  <1>3. Flight(e) = f
    BY DEF Flight
  <1> HIDE DEF d, u, s
  <1>4. du \in Seq(Request)
    BY <1>1, <1>2, ConcatProperties
  <1> HIDE DEF du
  <1> DEFINE m == Len(du)
             n == Len(s)
  <1>5. /\ f \in Seq(Request) /\ Len(f) = m + n /\ m \in Nat /\ n \in Nat
        /\ \A i \in 1..(m + n) : f[i] = IF i <= m THEN du[i] ELSE s[i - m]
    BY <1>2, <1>4, ConcatProperties, LenProperties
  <1> HIDE DEF f, m, n
  <1>6. n <= Len(f)
    BY <1>5
  <1>7. ASSUME NEW k \in 1..n PROVE \E i \in 1..Len(f) : s[k] = f[i]
    <2>1. m + k \in 1..(m + n) /\ ~(m + k <= m) /\ (m + k) - m = k
      BY <1>5
    <2>2. f[m + k] = s[k]
      BY <1>5, <2>1
    <2>3. QED
      BY <1>5, <2>1, <2>2
  <1>8. QED
    BY <1>1, <1>2, <1>3, <1>5, <1>6, <1>7 DEF d, u, s, n

LEMMA FlightSame ==
    ASSUME NEW e, Done(e, SendOps)' = Done(e, SendOps), unacked'[e] = unacked[e],
           sq'[e] = sq[e]
    PROVE  Flight(e)' = Flight(e)
  BY DEF Flight

\* Work requests are posted.
LEMMA FlightPosted ==
    ASSUME TypeOK, NEW e \in End, Done(e, SendOps)' = Done(e, SendOps),
           unacked'[e] = unacked[e], NEW r \in Seq(Request), sq'[e] = sq[e] \o r
    PROVE  Flight(e)' = Flight(e) \o r
  <1> DEFINE du == RequestsOf(Done(e, SendOps)) \o unacked[e]
  <1>1. du \in Seq(Request) /\ sq[e] \in Seq(Request)
    BY FlightFacts, ConcatProperties
  <1>2. Flight(e) = du \o sq[e] /\ Flight(e)' = du \o (sq[e] \o r)
    BY DEF Flight
  <1> HIDE DEF du
  <1>3. (du \o sq[e]) \o r = du \o (sq[e] \o r)
    BY <1>1, RequestsAssociative, Zenon
  <1>4. QED
    BY <1>2, <1>3

\* The NIC executes the oldest work request.
LEMMA FlightExecuted ==
    ASSUME TypeOK, NEW e \in End, Done(e, SendOps)' = Done(e, SendOps), sq[e] # <<>>,
           unacked'[e] = Append(unacked[e], Head(sq[e])), sq'[e] = Tail(sq[e])
    PROVE  Flight(e)' = Flight(e)
  <1> DEFINE d == RequestsOf(Done(e, SendOps))
             u == unacked[e]
             s == sq[e]
  <1>1. d \in Seq(Request) /\ u \in Seq(Request) /\ s \in Seq(Request)
    BY FlightFacts
  <1>2. Flight(e) = (d \o u) \o s /\ Flight(e)' = (d \o Append(u, Head(s))) \o Tail(s)
    BY DEF Flight
  <1>3. s # <<>>
    OBVIOUS
  <1> HIDE DEF d, u, s
  <1> DEFINE a == Append(u, Head(s))
             t == Tail(s)
  <1>4. a \in Seq(Request) /\ t \in Seq(Request)
    BY <1>1, <1>3, HeadTailProperties, AppendProperties
  <1>5. a \o t = u \o s
    BY <1>1, <1>3, MoveHead
  <1> HIDE DEF a, t
  <1>6. (d \o a) \o t = d \o (a \o t)
    <2>1. d \in Seq(Request) /\ a \in Seq(Request) /\ t \in Seq(Request)
      BY <1>1, <1>4
    <2>2. QED
      BY <2>1, RequestsAssociative, Zenon
  <1>7. (d \o u) \o s = d \o (u \o s)
    BY <1>1, RequestsAssociative, Zenon
  <1>8. QED
    BY <1>2, <1>5, <1>6, <1>7 DEF a, t

\* The completion of the oldest executed work request comes in.
LEMMA FlightAcknowledged ==
    ASSUME TypeOK, NEW e \in End, unacked[e] # <<>>, unacked'[e] = Tail(unacked[e]),
           sq'[e] = sq[e], NEW x \in Completion,
           x.op = Head(unacked[e]).op, x.block = Head(unacked[e]).block,
           Done(e, SendOps)' = Append(Done(e, SendOps), x)
    PROVE  Flight(e)' = Flight(e)
  <1> DEFINE q == Done(e, SendOps)
             d == RequestsOf(q)
             u == unacked[e]
             w == Head(u)
  <1>1. /\ q \in Seq(Completion) /\ \A k \in 1..Len(q) : q[k].op \in SendOps
        /\ d \in Seq(Request) /\ u \in Seq(Request) /\ u # <<>>
    BY FlightFacts, DoneFacts
  <1>2. Flight(e) = (d \o u) \o sq[e] /\ Flight(e)' = (RequestsOf(Append(q, x)) \o Tail(u)) \o sq[e]
    BY DEF Flight
  <1>3. x.op = w.op /\ x.block = w.block
    OBVIOUS
  <1> HIDE DEF q, u
  <1>4. w \in Request
    BY <1>1, HeadTailProperties
  <1>5. w = [op |-> x.op, block |-> x.block] /\ x.op \in SendOps
    BY <1>3, <1>4 DEF Request, SendOps
  <1>6. RequestsOf(Append(q, x)) = Append(d, w)
    BY <1>1, <1>5, RequestsOfAppend
  <1>7. Append(d, Head(u)) \o Tail(u) = d \o u
    BY <1>1, MoveHead
  <1>8. QED
    BY <1>2, <1>6, <1>7

\* The oldest completion is polled; work requests may be posted with that.
LEMMA FlightPolled ==
    ASSUME TypeOK, NEW e \in End, Done(e, SendOps) # <<>>,
           Done(e, SendOps)' = Tail(Done(e, SendOps)), unacked'[e] = unacked[e],
           NEW r \in Seq(Request), sq'[e] = sq[e] \o r
    PROVE  /\ Flight(e) # <<>> /\ Flight(e)[1].op = Head(Done(e, SendOps)).op
           /\ Flight(e)' = Tail(Flight(e)) \o r
  <1> DEFINE q == Done(e, SendOps)
             d == RequestsOf(q)
             u == unacked[e]
             s == sq[e]
             us == u \o s
  <1>1. /\ q \in Seq(Completion) /\ \A k \in 1..Len(q) : q[k].op \in SendOps
        /\ d \in Seq(Request) /\ u \in Seq(Request) /\ s \in Seq(Request) /\ q # <<>>
    BY FlightFacts, DoneFacts
  <1>2. Flight(e) = (d \o u) \o s /\ Flight(e)' = (RequestsOf(Tail(q)) \o u) \o (s \o r)
    BY DEF Flight
  <1>3. /\ d # <<>> /\ Head(d) = [op |-> Head(q).op, block |-> Head(q).block]
        /\ RequestsOf(Tail(q)) = Tail(d)
    <2> HIDE DEF q
    <2>1. QED
      BY <1>1, RequestsOfTail
  <1> HIDE DEF d, u, s
  <1>4. us \in Seq(Request) /\ (d \o u) \o s = d \o us
    <2>1. us \in Seq(Request)
      BY <1>1, ConcatProperties, Zenon
    <2>2. (d \o u) \o s = d \o us
      BY <1>1, RequestsAssociative, Zenon
    <2>3. QED
      BY <2>1, <2>2
  <1> DEFINE td == Tail(d)
  <1>5. td \in Seq(Request)
    BY <1>1, <1>3, HeadTailProperties
  <1>6. (td \o u) \o (s \o r) = (td \o us) \o r
    <2> HIDE DEF td
    <2>1. s \o r \in Seq(Request) /\ td \o us \in Seq(Request)
      BY <1>1, <1>4, <1>5, ConcatProperties
    <2>2. (td \o u) \o (s \o r) = td \o (u \o (s \o r))
      BY <1>1, <1>5, <2>1, RequestsAssociative, Zenon
    <2>3. u \o (s \o r) = us \o r
      BY <1>1, RequestsAssociative, Zenon
    <2>4. (td \o us) \o r = td \o (us \o r)
      BY <1>4, <1>5, RequestsAssociative, Zenon
    <2>5. QED
      BY <2>2, <2>3, <2>4
  <1> HIDE DEF us
  <1>7. d \o us # <<>> /\ Head(d \o us) = Head(d) /\ Tail(d \o us) = td \o us
    BY <1>1, <1>3, <1>4, TailConcat
  <1>8. Flight(e) = d \o us
    BY <1>2, <1>4
  <1>9. Flight(e) # <<>> /\ Head(Flight(e)) = Head(d) /\ Tail(Flight(e)) = td \o us
    BY <1>7, <1>8
  <1>10. Flight(e)' = Tail(Flight(e)) \o r
    BY <1>2, <1>3, <1>6, <1>9
  <1>11. Flight(e)[1] = Head(Flight(e))
    BY <1>9, FlightFacts
  <1>12. Head(d).op = Head(q).op
    BY <1>3
  <1>13. QED
    BY <1>9, <1>10, <1>11, <1>12

-----------------------------------------------------------------------------
(* What a step leaves alone *)

\* A step does not concern the connection of c.
Apart(c) ==
    /\ (stage'[c] = "start" <=> stage[c] = "start")
    /\ (stage'[c] = "running" <=> stage[c] = "running")
    /\ Flight(Client(c))' = Flight(Client(c)) /\ Flight(Server(c))' = Flight(Server(c))
    /\ Arrived(Client(c))' = Arrived(Client(c)) /\ Arrived(Server(c))' = Arrived(Server(c))
    /\ sq'[Client(c)] = sq[Client(c)] /\ sq'[Server(c)] = sq[Server(c)]
    /\ recvs'[Client(c)] = recvs[Client(c)] /\ peer_comm'[c] = peer_comm[c]
    /\ ring'[Client(c)].rnext = ring[Client(c)].rnext
    /\ ring'[Server(c)].snext = ring[Server(c)].snext
    /\ sendmem'[Server(c)][0] = sendmem[Server(c)][0]
    /\ recvmem'[c][0] = recvmem[c][0]

LEMMA PhaseSame ==
    ASSUME NEW c \in Clients, Apart(c), Phase(c)
    PROVE  Phase(c)'
  <1>1. Posted(c)' <=> Posted(c)
    BY Zenon DEF Posted, Apart
  <1>2. Unanswered(c)' <=> Unanswered(c)
    BY <1>1, Zenon DEF Unanswered, Apart
  <1>3. CASE Silent(c)
    BY <1>2, <1>3, Zenon DEF Silent, Apart, Phase
  <1>4. CASE Asked(c)
    BY <1>2, <1>4, Zenon DEF Asked, Apart, Phase
  <1>5. CASE Heard(c)
    BY <1>2, <1>5, Zenon DEF Heard, Apart, Phase
  <1>6. CASE Answered(c)
    BY <1>1, <1>6, Zenon DEF Answered, Apart, Phase
  <1>7. CASE Delivered(c)
    BY <1>7, Zenon DEF Delivered, Apart, Phase
  <1>8. CASE Streaming(c)
    BY <1>8, Zenon DEF Streaming, Apart, Phase
  <1>9. QED
    BY <1>3, <1>4, <1>5, <1>6, <1>7, <1>8 DEF Phase

LEMMA RingSame ==
    ASSUME NEW e, Flight(e)' = Flight(e), ring'[e].slast = ring[e].slast,
           ring'[e].snext = ring[e].snext,
           OnRing(BlocksOf(Flight(e)), ring[e].slast, ring[e].snext)
    PROVE  OnRing(BlocksOf(Flight(e)), ring[e].slast, ring[e].snext)'
  BY DEF OnRing, BlocksOf

LEMMA ReceivesSame ==
    ASSUME NEW c, Arrived(Server(c))' = Arrived(Server(c)),
           recvs'[Server(c)] = recvs[Server(c)]
    PROVE  Receives(c)' = Receives(c)
  BY DEF Receives, BlocksOf

\* The types of what the invariants relate.
LEMMA ViewTypes ==
    ASSUME TypeOK
    PROVE  /\ \A e \in End : /\ Flight(e) \in Seq(Request)
                             /\ BlocksOf(Flight(e)) \in Seq(Block)
                             /\ Len(BlocksOf(Flight(e))) = Len(Flight(e))
                             /\ Arrived(e) \in Seq(Completion)
                             /\ ring[e].slast \in Counter /\ ring[e].snext \in Counter
                             /\ ring[e].rlast \in Counter /\ ring[e].rnext \in Counter
                             /\ recvs[e] \in Seq(Block) /\ sq[e] \in Seq(Request)
           /\ \A c \in Clients : Receives(c) \in Seq(Block)
  <1>1. ASSUME NEW e \in End
        PROVE  /\ Flight(e) \in Seq(Request) /\ BlocksOf(Flight(e)) \in Seq(Block)
               /\ Len(BlocksOf(Flight(e))) = Len(Flight(e))
    <2>1. Flight(e) \in Seq(Request)
      BY FlightFacts
    <2>2. QED
      BY <2>1, RecordTypes, BlocksOfFacts
  <1>2. ASSUME NEW e \in End
        PROVE  Arrived(e) \in Seq(Completion) /\ BlocksOf(Arrived(e)) \in Seq(Block)
    <2>1. Arrived(e) \in Seq(Completion)
      BY DoneFacts DEF Arrived
    <2>2. QED
      BY <2>1, RecordTypes, BlocksOfFacts
  <1>3. ASSUME NEW e \in End
        PROVE  /\ ring[e].slast \in Counter /\ ring[e].snext \in Counter
               /\ ring[e].rlast \in Counter /\ ring[e].rnext \in Counter
               /\ recvs[e] \in Seq(Block) /\ sq[e] \in Seq(Request)
    BY DEF TypeOK, Ring
  <1>4. ASSUME NEW c \in Clients PROVE Receives(c) \in Seq(Block)
    <2>1. BlocksOf(Arrived(Server(c))) \in Seq(Block) /\ recvs[Server(c)] \in Seq(Block)
      BY <1>2, <1>3, EndFacts
    <2>2. QED
      BY <2>1, ConcatProperties DEF Receives
  <1>5. QED
    BY <1>1, <1>2, <1>3, <1>4

\* A step that moves no work request beyond what is in flight.
LEMMA QuietStep ==
    ASSUME IndInv, UNCHANGED <<ring, sendmem, recvmem, peer_comm, recvs, sq>>,
           \A e \in End : Flight(e)' = Flight(e) /\ Arrived(e)' = Arrived(e),
           \A t \in Thread : stage'[t] = "start" <=> stage[t] = "start",
           \A c \in Clients : stage'[c] = "running" <=> stage[c] = "running"
    PROVE  RingInv' /\ RecvInv' /\ PhaseInv'
  <1>1. \A e \in End : Flight(e)' = Flight(e) /\ Arrived(e)' = Arrived(e)
    OBVIOUS
  <1>2. RingInv'
    <2> SUFFICES ASSUME NEW e \in End
                 PROVE  OnRing(BlocksOf(Flight(e)), ring[e].slast, ring[e].snext)'
      BY DEF RingInv
    <2>1. QED
      BY <1>1, RingSame DEF IndInv, RingInv
  <1>3. \A c \in Clients : Receives(c)' = Receives(c)
    BY <1>1, EndFacts, ReceivesSame
  <1>4. RecvInv'
    <2>1. stage'["server"] = "start" <=> stage["server"] = "start"
      BY EndFacts
    <2> SUFFICES ASSUME NEW c \in Clients
                 PROVE  /\ OnRing(Receives(c), ring[Server(c)].rlast, ring[Server(c)].rnext)'
                        /\ Len(Receives(c))' = IF stage'["server"] = "start" THEN 0 ELSE NUM_BLOCK
      BY DEF RecvInv
    <2>2. /\ OnRing(Receives(c), ring[Server(c)].rlast, ring[Server(c)].rnext)
          /\ Len(Receives(c)) = IF stage["server"] = "start" THEN 0 ELSE NUM_BLOCK
      BY DEF IndInv, RecvInv
    <2>3. QED
      BY <1>3, <2>1, <2>2 DEF OnRing
  <1>5. PhaseInv'
    <2> SUFFICES ASSUME NEW c \in Clients PROVE Phase(c)'
      BY DEF PhaseInv
    <2>1. Apart(c)
      BY <1>1, EndFacts DEF Apart
    <2>2. QED
      BY <2>1, PhaseSame DEF IndInv, PhaseInv
  <1>6. QED
    BY <1>2, <1>4, <1>5

\* Before the polling loops a step moves nothing at all.
LEMMA SyncFrame ==
    ASSUME IndInv, UNCHANGED <<ring, sendmem, recvmem, peer_comm, recvs, sq, unacked, cq>>,
           \A t \in Thread : stage'[t] = "start" <=> stage[t] = "start",
           \A c \in Clients : stage'[c] = "running" <=> stage[c] = "running"
    PROVE  RingInv' /\ RecvInv' /\ PhaseInv'
  <1>1. \A e \in End : Flight(e)' = Flight(e) /\ Arrived(e)' = Arrived(e)
    BY DoneSame, FlightSame DEF Arrived
  <1>2. QED
    BY <1>1, QuietStep

-----------------------------------------------------------------------------
(* The steps before the polling loops *)

LEMMA InitInv == Init => IndInv
  <1> SUFFICES ASSUME Init PROVE IndInv
    OBVIOUS
  <1>1. /\ \A t \in Thread : stage[t] = "start" /\ cq[t] = <<>>
        /\ \A e \in End : /\ said[e] = FALSE /\ recvs[e] = <<>> /\ sq[e] = <<>>
                          /\ unacked[e] = <<>>
                          /\ ring[e].snext = MinusOne /\ ring[e].slast = MinusOne
                          /\ ring[e].rnext = MinusOne /\ ring[e].rlast = MinusOne
        /\ \A c \in Clients : peer_comm[c] = "unset"
    BY DEF Init
  <1>2. Len(Channels) \in Nat \ {0}
    BY MeshAssumption, EmptySeq
  <1>3. TypeOK
    <2>1. FreshBuffer \in [Block -> Content]
      BY DEF FreshBuffer, Content
    <2>2. [snext |-> MinusOne, slast |-> MinusOne, rnext |-> MinusOne, rlast |-> MinusOne] \in Ring
      BY Constants DEF Ring
    <2>3. <<>> \in Seq(Block) /\ <<>> \in Seq(Request) /\ <<>> \in Seq(Completion)
      BY EmptySeq
    <2>4. syncing \in 1..(Len(Channels) + 1)
      BY <1>2 DEF Init
    <2>5. said \in [End -> BOOLEAN]
      BY DEF Init
    <2>6. QED
      BY <2>1, <2>2, <2>3, <2>4, <2>5 DEF Init, TypeOK, Content
  <1>4. SyncInv
    <2>1. stage["server"] = "start" /\ syncing = 1 /\ syncing # Len(Channels) + 1
      BY <1>1, <1>2, EndFacts DEF Init
    <2>2. \A c \in Clients : ~said[Server(c)] /\ stage[c] # "running"
      BY <1>1, EndFacts
    <2>3. QED
      BY <2>1, <2>2 DEF SyncInv
  <1>5. \A e \in End : Done(e, SendOps) = <<>> /\ Arrived(e) = <<>>
    BY <1>1, EndFacts, SelectEmpty DEF Done, Arrived
  <1>6. 1..0 = {}
    OBVIOUS
  <1>7. RequestsOf(<<>>) = <<>> /\ BlocksOf(<<>>) = <<>>
    <2>1. Len(<<>>) = 0
      OBVIOUS
    <2>2. \A f : [i \in {} |-> f[i]] = <<>>
      OBVIOUS
    <2>3. QED
      BY <1>6, <2>1 DEF RequestsOf, BlocksOf
  <1>8. \A e \in End : Flight(e) = <<>>
    BY <1>1, <1>5, <1>7 DEF Flight
  <1>9. OnRing(<<>>, MinusOne, MinusOne)
    <2>1. (MinusOne + 0) % IntRange = MinusOne
      BY Constants
    <2>2. Len(<<>>) = 0
      OBVIOUS
    <2>3. QED
      BY <2>1, <2>2, <1>6 DEF OnRing
  <1>10. RingInv
    BY <1>1, <1>7, <1>8, <1>9 DEF RingInv
  <1>11. \A c \in Clients : Receives(c) = <<>>
    BY <1>1, <1>5, <1>7, EndFacts DEF Receives
  <1>12. RecvInv
    <2>1. Len(<<>>) = 0
      OBVIOUS
    <2>2. QED
      BY <1>1, <1>9, <1>11, <2>1, EndFacts DEF RecvInv
  <1>13. PhaseInv
    <2> SUFFICES ASSUME NEW c \in Clients PROVE Silent(c)
      BY DEF PhaseInv, Phase
    <2>1. QED
      BY <1>1, <1>5, <1>8, EndFacts DEF Silent, Unanswered, Posted
  <1>14. QED
    BY <1>3, <1>4, <1>10, <1>12, <1>13 DEF IndInv

\* The channel the server syncs with.
LEMMA SyncChannel ==
    ASSUME IndInv, stage["server"] # "running"
    PROVE  /\ Len(Channels) \in Nat \ {0} /\ syncing \in 1..Len(Channels)
           /\ Channels[syncing] \in Clients
  <1>1. Len(Channels) \in Nat \ {0}
    BY MeshAssumption, EmptySeq
  <1>2. syncing \in 1..(Len(Channels) + 1) /\ syncing # Len(Channels) + 1
    BY DEF IndInv, SyncInv, TypeOK
  <1>3. syncing \in 1..Len(Channels)
    BY <1>1, <1>2
  <1>4. QED
    BY <1>1, <1>3 DEF Clients

LEMMA ServerSyncSendStep == ASSUME IndInv, ServerSyncSend PROVE IndInv'
  <1>1. PICK c \in Clients : Channels[syncing] = c
    BY SyncChannel DEF ServerSyncSend
  <1>2. /\ stage["server"] = "posted" /\ stage' = [stage EXCEPT !["server"] = "sent"]
        /\ said' = [said EXCEPT ![Server(c)] = TRUE]
        /\ UNCHANGED <<syncing, ring, sendmem, recvmem, peer_comm, recvs, sq, unacked, cq>>
    BY <1>1 DEF ServerSyncSend
  <1>3. TypeOK'
    <2>1. said' \in [End -> BOOLEAN]
      BY <1>2 DEF IndInv, TypeOK
    <2>2. stage' \in [Thread -> {"start", "posted", "sent", "running"}]
      BY <1>2 DEF IndInv, TypeOK
    <2>3. QED
      BY <1>2, <2>1, <2>2 DEF IndInv, TypeOK
  <1>4. /\ stage'["server"] = "sent"
        /\ \A t \in Thread : t # "server" => stage'[t] = stage[t]
    BY <1>2, EndFacts DEF IndInv, TypeOK
  <1>5. SyncInv'
    BY <1>2, <1>4, EndFacts DEF IndInv, SyncInv
  <1>6. RingInv' /\ RecvInv' /\ PhaseInv'
    BY <1>2, <1>4, EndFacts, SyncFrame
  <1>7. QED
    BY <1>3, <1>5, <1>6 DEF IndInv

LEMMA ServerSyncRecvStep == ASSUME IndInv, ServerSyncRecv PROVE IndInv'
  <1>1. /\ stage["server"] = "sent" /\ syncing' = syncing + 1
        /\ stage' = [stage EXCEPT !["server"] =
                        IF syncing = Len(Channels) THEN "running" ELSE "posted"]
        /\ UNCHANGED <<said, ring, sendmem, recvmem, peer_comm, recvs, sq, unacked, cq>>
    BY DEF ServerSyncRecv
  <1>2. Len(Channels) \in Nat \ {0} /\ syncing \in 1..Len(Channels)
    BY <1>1, SyncChannel
  <1>3. TypeOK'
    <2>1. syncing' \in 1..(Len(Channels) + 1)
      BY <1>1, <1>2
    <2>2. stage' \in [Thread -> {"start", "posted", "sent", "running"}]
      BY <1>1 DEF IndInv, TypeOK
    <2>3. QED
      BY <1>1, <2>1, <2>2 DEF IndInv, TypeOK
  <1>4. /\ stage'["server"] = IF syncing = Len(Channels) THEN "running" ELSE "posted"
        /\ \A t \in Thread : t # "server" => stage'[t] = stage[t]
    BY <1>1, EndFacts DEF IndInv, TypeOK
  <1>5. SyncInv'
    <2>1. syncing' = Len(Channels) + 1 <=> stage'["server"] = "running"
      BY <1>1, <1>2, <1>4
    <2>2. stage'["server"] # "start"
      BY <1>4
    <2>3. QED
      BY <2>1, <2>2 DEF SyncInv
  <1>6. RingInv' /\ RecvInv' /\ PhaseInv'
    <2>1. \A t \in Thread : stage'[t] = "start" <=> stage[t] = "start"
      BY <1>1, <1>4
    <2>2. \A c \in Clients : stage'[c] = "running" <=> stage[c] = "running"
      BY <1>4, EndFacts
    <2>3. QED
      BY <1>1, <2>1, <2>2, SyncFrame
  <1>7. QED
    BY <1>3, <1>5, <1>6 DEF IndInv

LEMMA ClientSyncSendStep == ASSUME IndInv, NEW c \in Clients, ClientSyncSend(c) PROVE IndInv'
  <1>1. /\ stage[c] = "posted" /\ stage' = [stage EXCEPT ![c] = "sent"]
        /\ said' = [said EXCEPT ![Client(c)] = TRUE]
        /\ UNCHANGED <<syncing, ring, sendmem, recvmem, peer_comm, recvs, sq, unacked, cq>>
    BY DEF ClientSyncSend
  <1>2. TypeOK'
    <2>1. said' \in [End -> BOOLEAN]
      BY <1>1 DEF IndInv, TypeOK
    <2>2. stage' \in [Thread -> {"start", "posted", "sent", "running"}]
      BY <1>1 DEF IndInv, TypeOK
    <2>3. QED
      BY <1>1, <2>1, <2>2 DEF IndInv, TypeOK
  <1>3. stage'[c] = "sent" /\ \A t \in Thread : t # c => stage'[t] = stage[t]
    BY <1>1, EndFacts DEF IndInv, TypeOK
  <1>4. \A d \in Clients : said'[Server(d)] = said[Server(d)]
    <2>1. \A f \in End : f # Client(c) => said'[f] = said[f]
      BY <1>1, Zenon DEF IndInv, TypeOK
    <2>2. \A d \in Clients : Server(d) \in End /\ Server(d) # Client(c)
      BY EndFacts
    <2>3. QED
      BY <2>1, <2>2, Zenon
  <1>5. SyncInv'
    BY <1>1, <1>3, <1>4, EndFacts DEF IndInv, SyncInv
  <1>6. RingInv' /\ RecvInv' /\ PhaseInv'
    <2>1. \A t \in Thread : stage'[t] = "start" <=> stage[t] = "start"
      BY <1>1, <1>3
    <2>2. \A d \in Clients : stage'[d] = "running" <=> stage[d] = "running"
      BY <1>1, <1>3, EndFacts
    <2>3. QED
      BY <1>1, <2>1, <2>2, SyncFrame
  <1>7. QED
    BY <1>2, <1>5, <1>6 DEF IndInv

LEMMA PostReceivesStep == ASSUME IndInv, NEW t \in Thread, PostReceives(t) PROVE IndInv'
  <1>1. /\ stage[t] = "start" /\ stage' = [stage EXCEPT ![t] = "posted"]
        /\ recvs' = [e \in End |->
              IF Owner(e) = t THEN Handed(ring[e].rnext, NUM_BLOCK) ELSE recvs[e]]
        /\ ring' = [e \in End |->
              IF Owner(e) = t THEN [ring[e] EXCEPT !.rnext = (@ + NUM_BLOCK) % IntRange]
              ELSE ring[e]]
        /\ UNCHANGED <<syncing, said, sendmem, recvmem, peer_comm, sq, unacked, cq>>
    BY DEF PostReceives
  <1>2. TypeOK
    BY DEF IndInv
  <1>3. stage'[t] = "posted" /\ \A s \in Thread : s # t => stage'[s] = stage[s]
    BY <1>1, <1>2 DEF TypeOK
  <1>4. ASSUME NEW e \in End
        PROVE  /\ ring[e] \in Ring /\ ring'[e] \in Ring
               /\ ring'[e].slast = ring[e].slast /\ ring'[e].snext = ring[e].snext
               /\ ring'[e].rlast = ring[e].rlast
               /\ IF Owner(e) = t
                  THEN /\ ring'[e].rnext = (ring[e].rnext + NUM_BLOCK) % IntRange
                       /\ recvs'[e] = Handed(ring[e].rnext, NUM_BLOCK)
                  ELSE ring'[e].rnext = ring[e].rnext /\ recvs'[e] = recvs[e]
    <2>1. ring[e] \in Ring /\ ring[e].rnext \in Counter
      BY <1>2 DEF TypeOK, Ring
    <2>2. (ring[e].rnext + NUM_BLOCK) % IntRange \in Counter
      <3>1. PICK n \in Nat : n = ring[e].rnext
        BY <2>1, CounterTypes
      <3>2. n + NUM_BLOCK \in Nat
        BY Constants
      <3>3. QED
        BY <3>1, <3>2, CounterTypes
    <2>3. CASE Owner(e) = t
      <3>1. /\ ring'[e] = [ring[e] EXCEPT !.rnext = (ring[e].rnext + NUM_BLOCK) % IntRange]
            /\ recvs'[e] = Handed(ring[e].rnext, NUM_BLOCK)
        BY <1>1, <2>3
      <3>2. QED
        BY <2>1, <2>2, <2>3, <3>1 DEF Ring
    <2>4. CASE Owner(e) # t
      <3>1. ring'[e] = ring[e] /\ recvs'[e] = recvs[e]
        BY <1>1, <2>4
      <3>2. QED
        BY <2>1, <2>4, <3>1
    <2>5. QED
      BY <2>3, <2>4
  <1>5. TypeOK'
    <2>1. ring' \in [End -> Ring]
      BY <1>1, <1>4
    <2>2. \A e \in End : recvs'[e] \in Seq(Block)
      <3> SUFFICES ASSUME NEW e \in End PROVE recvs'[e] \in Seq(Block)
        OBVIOUS
      <3>1. recvs[e] \in Seq(Block) /\ ring[e].rnext \in Counter
        BY <1>2 DEF TypeOK, Ring
      <3>2. Handed(ring[e].rnext, NUM_BLOCK) \in Seq(Block)
        BY <3>1, Constants, HandedFacts
      <3>3. QED
        BY <1>4, <3>1, <3>2
    <2>3. recvs' \in [End -> Seq(Block)]
      BY <1>1, <2>2
    <2>4. stage' \in [Thread -> {"start", "posted", "sent", "running"}]
      BY <1>1, <1>2 DEF TypeOK
    <2>5. said' \in [End -> BOOLEAN]
      BY <1>1, <1>2 DEF TypeOK
    <2>6. QED
      BY <1>1, <1>2, <2>1, <2>3, <2>4, <2>5 DEF TypeOK
  <1>6. SyncInv'
    <2>1. syncing' = Len(Channels) + 1 <=> stage'["server"] = "running"
      BY <1>1, <1>3, EndFacts DEF IndInv, SyncInv
    <2>2. \A c \in Clients : said'[Server(c)] = said[Server(c)]
      BY <1>1
    <2>3. \A c \in Clients : stage'[c] = "running" => stage[c] = "running"
      BY <1>3, EndFacts
    <2>4. stage["server"] # "start" => stage'["server"] # "start"
      BY <1>3, EndFacts
    <2>5. QED
      BY <2>1, <2>2, <2>3, <2>4 DEF IndInv, SyncInv
  <1>7. \A e \in End : Flight(e)' = Flight(e) /\ Arrived(e)' = Arrived(e)
    BY <1>1, DoneSame, FlightSame DEF Arrived
  <1>8. RingInv'
    <2> SUFFICES ASSUME NEW e \in End
                 PROVE  OnRing(BlocksOf(Flight(e)), ring[e].slast, ring[e].snext)'
      BY DEF RingInv
    <2>1. QED
      BY <1>4, <1>7, RingSame DEF IndInv, RingInv
  <1>9. ASSUME NEW c \in Clients
        PROVE  /\ OnRing(Receives(c), ring[Server(c)].rlast, ring[Server(c)].rnext)'
               /\ Len(Receives(c))' = IF stage'["server"] = "start" THEN 0 ELSE NUM_BLOCK
    <2>1. /\ OnRing(Receives(c), ring[Server(c)].rlast, ring[Server(c)].rnext)
          /\ Len(Receives(c)) = IF stage["server"] = "start" THEN 0 ELSE NUM_BLOCK
      BY DEF IndInv, RecvInv
    <2>2. Server(c) \in End /\ Owner(Server(c)) = "server"
      BY EndFacts
    <2>3. CASE t = "server"
      <3> DEFINE e == Server(c)
                 a == BlocksOf(Arrived(e))
                 h == Handed(ring[e].rnext, NUM_BLOCK)
                 b == Receives(c)
                 last == ring[e].rlast
                 next == ring[e].rnext
      <3>1. /\ b \in Seq(Block) /\ recvs[e] \in Seq(Block)
            /\ last \in Counter /\ next \in Counter /\ Arrived(e) \in Seq(Completion)
        BY <1>2, <2>2, ViewTypes
      <3>2. a \in Seq(Block)
        BY <3>1, RecordTypes, BlocksOfFacts
      <3>3. b = a \o recvs[e] /\ Len(b) = 0
        BY <1>1, <2>1, <2>3 DEF Receives
      <3>4. recvs[e] = <<>>
        <4>1. b = <<>>
          BY <3>1, <3>3, EmptySeq
        <4>2. PICK x \in Seq(Block), y \in Seq(Block) : x = a /\ y = recvs[e]
          BY <3>1, <3>2
        <4>3. x \o y = <<>>
          BY <3>3, <4>1, <4>2
        <4>4. y = <<>>
          BY <4>3, ConcatEqualIffEmpty
        <4>5. QED
          BY <4>2, <4>4
      <3>5. b = a
        BY <3>2, <3>3, <3>4, ConcatEmptySeq
      <3>6. Receives(c)' = b \o h
        BY <1>4, <1>7, <2>2, <2>3, <3>5 DEF Receives, BlocksOf
      <3>7. ring'[e].rlast = last /\ ring'[e].rnext = (next + NUM_BLOCK) % IntRange
        BY <1>4, <2>2, <2>3
      <3>8. OnRing(b, last, next)
        BY <2>1
      <3>9. h \in Seq(Block) /\ Len(h) = NUM_BLOCK
        BY <3>1, Constants, HandedFacts
      <3> HIDE DEF b, h, last, next
      <3>10. OnRing(b \o h, last, (next + NUM_BLOCK) % IntRange)
        BY <3>1, <3>8, Constants, RingPost DEF h, next
      <3>11. Len(b \o h) = NUM_BLOCK
        <4>1. Len(b \o h) = Len(b) + Len(h)
          BY <3>1, <3>9, ConcatProperties
        <4>2. QED
          BY <4>1, <3>3, <3>9, Constants
      <3>12. stage'["server"] # "start"
        BY <1>3, <2>3
      <3>13. QED
        BY <3>6, <3>7, <3>10, <3>11, <3>12 DEF OnRing
    <2>4. CASE t # "server"
      <3>1. ring'[Server(c)] = ring[Server(c)] /\ recvs'[Server(c)] = recvs[Server(c)]
        BY <1>1, <2>2, <2>4
      <3>2. Receives(c)' = Receives(c)
        BY <3>1, <1>7, <2>2, ReceivesSame
      <3>3. stage'["server"] = stage["server"]
        BY <1>3, <2>4, EndFacts
      <3>4. QED
        BY <2>1, <3>1, <3>2, <3>3 DEF OnRing
    <2>5. QED
      BY <2>3, <2>4
  <1>10. ASSUME NEW c \in Clients PROVE Phase(c)'
    <2>1. /\ Client(c) \in End /\ Owner(Client(c)) = c /\ c \in Thread
          /\ Server(c) \in End /\ Phase(c)
      BY EndFacts DEF IndInv, PhaseInv
    <2>2. CASE t = c
      <3>1. Silent(c)
        BY <1>1, <2>1, <2>2 DEF Phase, Asked, Heard, Answered, Delivered, Streaming
      <3>2. ring[Client(c)].rnext = MinusOne /\ Posted(c)
        BY <1>1, <2>2, <3>1 DEF Silent, Unanswered, Posted
      <3>3. stage'[c] = "posted"
        BY <1>3, <2>2
      <3>4. Posted(c)'
        BY <1>4, <2>1, <2>2, <3>2, <3>3 DEF Posted, Full, FullNext
      <3>5. ring'[Server(c)].snext = ring[Server(c)].snext /\ peer_comm'[c] = peer_comm[c]
        BY <1>1, <1>4, <2>1
      <3>6. Unanswered(c)'
        BY <1>7, <2>1, <3>1, <3>4, <3>5 DEF Silent, Unanswered
      <3>7. Silent(c)'
        BY <1>7, <2>1, <3>1, <3>3, <3>6 DEF Silent
      <3>8. QED
        BY <3>7 DEF Phase
    <2>3. CASE t # c
      <3>1. /\ ring'[Client(c)].rnext = ring[Client(c)].rnext
            /\ recvs'[Client(c)] = recvs[Client(c)]
            /\ ring'[Server(c)].snext = ring[Server(c)].snext
        BY <1>4, <2>1, <2>3
      <3>2. Apart(c)
        BY <1>1, <1>3, <1>7, <2>1, <2>3, <3>1 DEF Apart
      <3>3. QED
        BY <2>1, <3>2, PhaseSame
    <2>4. QED
      BY <2>2, <2>3
  <1>11. QED
    BY <1>5, <1>6, <1>8, <1>9, <1>10 DEF IndInv, RecvInv, PhaseInv

-----------------------------------------------------------------------------
(* What posting and polling does to the work requests in flight *)

LEMMA RingPrime ==
    ASSUME NEW e, NEW f, NEW last, NEW next, Flight(e)' = f, ring'[e].slast = last,
           ring'[e].snext = next, OnRing(BlocksOf(f), last, next)
    PROVE  OnRing(BlocksOf(Flight(e)), ring[e].slast, ring[e].snext)'
  BY DEF OnRing, BlocksOf

LEMMA PostRing ==
    ASSUME NEW f \in Seq(Request), NEW last \in Counter, NEW next \in Counter,
           NEW op \in SendOps, NEW k \in Nat, OnRing(BlocksOf(f), last, next)
    PROVE  OnRing(BlocksOf(f \o Requests(op, Handed(next, k))), last, (next + k) % IntRange)
  <1> DEFINE h == Handed(next, k)
             r == Requests(op, h)
  <1>1. h \in Seq(Block)
    BY HandedFacts
  <1>2. OnRing(BlocksOf(f) \o h, last, (next + k) % IntRange)
    <2>1. BlocksOf(f) \in Seq(Block)
      BY RecordTypes, BlocksOfFacts
    <2>2. QED
      BY <2>1, RingPost
  <1> HIDE DEF h
  <1>3. r \in Seq(Request) /\ BlocksOf(r) = h
    BY <1>1, RequestsFacts
  <1> HIDE DEF r
  <1>4. BlocksOf(f \o r) = BlocksOf(f) \o BlocksOf(r)
    BY <1>3, RecordTypes, BlocksOfConcat
  <1>5. QED
    BY <1>2, <1>3, <1>4 DEF r, h

LEMMA TakeRing ==
    ASSUME NEW f \in Seq(Request), f # <<>>, NEW last \in Counter, NEW next \in Counter,
           OnRing(BlocksOf(f), last, next)
    PROVE  Tail(f) \in Seq(Request) /\ OnRing(BlocksOf(Tail(f)), Inc(last), next)
  <1>1. Tail(f) \in Seq(Request)
    BY HeadTailProperties
  <1>2. BlocksOf(f) \in Seq(Block)
    BY RecordTypes, BlocksOfFacts
  <1>3. BlocksOf(f) # <<>> /\ BlocksOf(Tail(f)) = Tail(BlocksOf(f))
    BY RecordTypes, BlocksOfTail
  <1>4. OnRing(Tail(BlocksOf(f)), Inc(last), next)
    BY <1>2, <1>3, RingTake
  <1>5. QED
    BY <1>1, <1>3, <1>4

\* Requests posted from a ring.
LEMMA PostedRequests ==
    ASSUME NEW op \in SendOps, NEW n \in Counter, NEW k \in Nat
    PROVE  LET r == Requests(op, Handed(n, k)) IN
           /\ r \in Seq(Request) /\ Len(r) = k
           /\ \A i \in 1..k : r[i].op = op
           /\ k = 1 => r[1].block = Handed(n, 1)[1]
  <1> DEFINE h == Handed(n, k)
             r == Requests(op, h)
  <1>1. h \in Seq(Block) /\ Len(h) = k
    BY HandedFacts
  <1> HIDE DEF h
  <1>2. /\ r \in Seq(Request) /\ Len(r) = k
        /\ \A i \in 1..k : r[i] = [op |-> op, block |-> h[i]]
    BY <1>1, RequestsFacts
  <1> HIDE DEF r
  <1>3. \A i \in 1..k : r[i].op = op /\ r[i].block = h[i]
    BY <1>2
  <1>4. k = 1 => 1 \in 1..k
    OBVIOUS
  <1>5. k = 1 => r[1].block = h[1]
    BY <1>3, <1>4
  <1>6. QED
    BY <1>2, <1>3, <1>5 DEF r, h

\* The same for one request.
LEMMA PostedOne ==
    ASSUME NEW op \in SendOps, NEW n \in Counter
    PROVE  LET r == Requests(op, Handed(n, 1)) IN
           /\ r \in Seq(Request) /\ Len(r) = 1
           /\ \A i \in 1..1 : r[i].op = op
           /\ r[1].block = Handed(n, 1)[1]
  <1>1. PICK k \in Nat : k = 1
    OBVIOUS
  <1>2. /\ Requests(op, Handed(n, k)) \in Seq(Request)
        /\ Len(Requests(op, Handed(n, k))) = k
        /\ \A i \in 1..k : Requests(op, Handed(n, k))[i].op = op
        /\ k = 1 => Requests(op, Handed(n, k))[1].block = Handed(n, 1)[1]
    BY PostedRequests
  <1>3. QED
    BY <1>1, <1>2

\* Two sequences of work requests, one after the other.
LEMMA ConcatOps ==
    ASSUME NEW f \in Seq(Request), NEW r \in Seq(Request)
    PROVE  /\ f \o r \in Seq(Request) /\ Len(f \o r) = Len(f) + Len(r)
           /\ Len(f) \in Nat /\ Len(r) \in Nat
           /\ \A i \in 1..(Len(f) + Len(r)) :
                 \/ i \in 1..Len(f) /\ (f \o r)[i] = f[i]
                 \/ ~(i \in 1..Len(f)) /\ i - Len(f) \in 1..Len(r) /\ (f \o r)[i] = r[i - Len(f)]
  <1> DEFINE m == Len(f)
             n == Len(r)
             g == f \o r
  <1>1. /\ g \in Seq(Request) /\ Len(g) = m + n /\ m \in Nat /\ n \in Nat
        /\ \A i \in 1..(m + n) : g[i] = IF i <= m THEN f[i] ELSE r[i - m]
    BY ConcatProperties, LenProperties
  <1> HIDE DEF m, n, g
  <1>2. ASSUME NEW i \in 1..(m + n)
        PROVE  \/ i \in 1..m /\ g[i] = f[i]
               \/ ~(i \in 1..m) /\ i - m \in 1..n /\ g[i] = r[i - m]
    <2>1. CASE i <= m
      <3>1. i \in 1..m /\ g[i] = f[i]
        BY <1>1, <2>1
      <3>2. QED
        BY <3>1
    <2>2. CASE ~(i <= m)
      <3>1. ~(i \in 1..m) /\ i - m \in 1..n /\ g[i] = r[i - m]
        BY <1>1, <2>2
      <3>2. QED
        BY <3>1
    <2>3. QED
      BY <2>1, <2>2
  <1>3. QED
    BY <1>1, <1>2 DEF m, n, g

LEMMA TailOps ==
    ASSUME NEW f \in Seq(Request), f # <<>>
    PROVE  /\ Tail(f) \in Seq(Request) /\ Len(f) \in Nat \ {0} /\ Len(Tail(f)) = Len(f) - 1
           /\ \A i \in 1..(Len(f) - 1) : i + 1 \in 1..Len(f) /\ i + 1 # 1 /\ Tail(f)[i] = f[i + 1]
  <1>1. /\ Tail(f) \in Seq(Request) /\ Len(f) \in Nat \ {0} /\ Len(Tail(f)) = Len(f) - 1
        /\ \A i \in 1..Len(Tail(f)) : Tail(f)[i] = f[i + 1]
    BY HeadTailProperties, EmptySeq
  <1>2. \A i \in 1..(Len(f) - 1) : i + 1 \in 1..Len(f) /\ i + 1 # 1
    BY <1>1
  <1>3. QED
    BY <1>1, <1>2

\* The request or the response is polled.
LEMMA AskingTail ==
    ASSUME NEW f \in Seq(Request), f # <<>>, Asking(f)
    PROVE  Asking(Tail(f))
  <1>1. Len(f) \in Nat \ {0} /\ Len(Tail(f)) = Len(f) - 1
    BY TailOps
  <1>2. Len(f) <= 1
    BY DEF Asking
  <1>3. Len(Tail(f)) = 0
    BY <1>1, <1>2
  <1>4. QED
    BY <1>3 DEF Asking

\* The client starts writing.
LEMMA WritingStarts ==
    ASSUME NEW f \in Seq(Request), Asking(f), NEW n \in Counter
    PROVE  Writing(f \o Requests("WRITE", Handed(n, Burst)))
  <1> DEFINE r == Requests("WRITE", Handed(n, Burst))
             g == f \o r
  <1>1. Burst \in Nat /\ Burst = NUM_BLOCK - 1
    BY Constants DEF Burst
  <1>2. r \in Seq(Request) /\ Len(r) = Burst /\ \A i \in 1..Burst : r[i].op = "WRITE"
    BY <1>1, RecordTypes, PostedRequests
  <1> HIDE DEF r
  <1>3. /\ Len(g) = Len(f) + Burst /\ Len(f) \in Nat
        /\ \A i \in 1..(Len(f) + Burst) :
                 \/ i \in 1..Len(f) /\ g[i] = f[i]
                 \/ ~(i \in 1..Len(f)) /\ i - Len(f) \in 1..Burst /\ g[i] = r[i - Len(f)]
    <2>1. r \in Seq(Request) /\ Len(r) = Burst
      BY <1>2
    <2>2. QED
      BY <2>1, ConcatOps
  <1> HIDE DEF g
  <1>4. CASE Len(f) = 0
    <2>1. Len(g) = NUM_BLOCK - 1
      BY <1>1, <1>3, <1>4
    <2>2. ASSUME NEW i \in 1..Len(g) PROVE g[i].op = "WRITE"
      <3>1. i \in 1..(Len(f) + Burst) /\ ~(i \in 1..Len(f))
        BY <1>3, <1>4
      <3>2. QED
        BY <1>2, <1>3, <3>1
    <2>3. QED
      BY <2>1, <2>2 DEF Writing, g, r
  <1>5. CASE Len(f) = 1
    <2>1. Len(g) = NUM_BLOCK
      BY <1>1, <1>3, <1>5, Constants
    <2>2. ASSUME NEW i \in 1..Len(g) PROVE g[i].op = IF i = 1 THEN "SEND" ELSE "WRITE"
      <3>1. i \in 1..(Len(f) + Burst) /\ (i \in 1..Len(f) <=> i = 1)
        BY <1>1, <1>3, <1>5
      <3>2. CASE i = 1
        BY <1>3, <3>1, <3>2 DEF Asking
      <3>3. CASE i # 1
        BY <1>2, <1>3, <3>1, <3>3
      <3>4. QED
        BY <3>2, <3>3
    <2>3. QED
      BY <2>1, <2>2 DEF Writing, g, r
  <1>6. PICK m \in Nat : m = Len(f)
    BY <1>3
  <1>7. Len(f) = 0 \/ Len(f) = 1
    <2>1. m <= 1
      BY <1>6 DEF Asking
    <2>2. m = 0 \/ m = 1
      BY <2>1
    <2>3. QED
      BY <1>6, <2>2
  <1>8. QED
    BY <1>4, <1>5, <1>7

\* The request is polled while writes are in flight.
LEMMA WritingAsked ==
    ASSUME NEW f \in Seq(Request), f # <<>>, Writing(f), f[1].op = "SEND"
    PROVE  Writing(Tail(f))
  <1>1. 1 \in 1..Len(f)
    BY TailOps
  <1>2. /\ Len(f) = NUM_BLOCK
        /\ \A k \in 1..Len(f) : f[k].op = IF k = 1 THEN "SEND" ELSE "WRITE"
    BY <1>1 DEF Writing
  <1>3. Len(Tail(f)) = NUM_BLOCK - 1
    BY <1>2, TailOps
  <1>4. \A k \in 1..(Len(f) - 1) : Tail(f)[k].op = "WRITE"
    BY <1>2, TailOps
  <1>5. QED
    BY <1>2, <1>3, <1>4 DEF Writing

\* A write is polled and the next one posted.
LEMMA WritingGoesOn ==
    ASSUME NEW f \in Seq(Request), f # <<>>, Writing(f), f[1].op = "WRITE", NEW n \in Counter
    PROVE  Writing(Tail(f) \o Requests("WRITE", Handed(n, 1)))
  <1> DEFINE r == Requests("WRITE", Handed(n, 1))
             t == Tail(f)
             g == t \o r
  <1>1. 1 \in 1..Len(f)
    BY TailOps
  <1>2. Len(f) = NUM_BLOCK - 1 /\ \A k \in 1..Len(f) : f[k].op = "WRITE"
    BY <1>1 DEF Writing
  <1>3. /\ t \in Seq(Request) /\ Len(t) = NUM_BLOCK - 2
        /\ \A k \in 1..Len(t) : t[k].op = "WRITE"
    <2>1. t \in Seq(Request) /\ Len(t) = Len(f) - 1
      BY TailOps
    <2>2. \A k \in 1..(Len(f) - 1) : t[k].op = "WRITE"
      BY <1>2, TailOps
    <2>3. QED
      BY <1>2, <2>1, <2>2, Constants
  <1>4. r \in Seq(Request) /\ Len(r) = 1 /\ \A i \in 1..1 : r[i].op = "WRITE"
    <2>1. "WRITE" \in SendOps
      BY RecordTypes
    <2>2. QED
      BY <2>1, PostedOne
  <1> HIDE DEF r, t
  <1>5. /\ Len(g) = Len(t) + 1 /\ Len(t) \in Nat
        /\ \A i \in 1..(Len(t) + 1) :
                 \/ i \in 1..Len(t) /\ g[i] = t[i]
                 \/ ~(i \in 1..Len(t)) /\ i - Len(t) \in 1..1 /\ g[i] = r[i - Len(t)]
    <2>1. /\ Len(g) = Len(t) + Len(r) /\ Len(t) \in Nat
          /\ \A i \in 1..(Len(t) + Len(r)) :
                 \/ i \in 1..Len(t) /\ g[i] = t[i]
                 \/ ~(i \in 1..Len(t)) /\ i - Len(t) \in 1..Len(r) /\ g[i] = r[i - Len(t)]
      BY <1>3, <1>4, ConcatOps
    <2>2. QED
      BY <1>4, <2>1
  <1> HIDE DEF g
  <1>6. Len(g) = NUM_BLOCK - 1
    BY <1>3, <1>5, Constants
  <1>7. \A i \in 1..Len(g) : g[i].op = "WRITE"
    BY <1>3, <1>4, <1>5
  <1>8. QED
    BY <1>6, <1>7 DEF Writing, g, t, r

-----------------------------------------------------------------------------
(* The NIC *)

LEMMA BlocksOfAppend ==
    ASSUME NEW q \in Seq(Completion), NEW x \in Completion
    PROVE  BlocksOf(Append(q, x)) = Append(BlocksOf(q), x.block)
  <1> DEFINE n == Len(q)
             r == Append(q, x)
             Q == BlocksOf(q)
             R == BlocksOf(r)
             A == Append(Q, x.block)
  <1>1. /\ n \in Nat /\ r \in Seq(Completion) /\ Len(r) = n + 1 /\ r[n + 1] = x
        /\ \A i \in 1..n : r[i] = q[i]
    BY AppendProperties, LenProperties
  <1>2. Q \in Seq(Block) /\ Len(Q) = n /\ \A k \in 1..n : Q[k] = q[k].block
    BY RecordTypes, BlocksOfFacts
  <1> HIDE DEF r, n
  <1>3. R \in Seq(Block) /\ Len(R) = n + 1 /\ \A k \in 1..(n + 1) : R[k] = r[k].block
    BY <1>1, RecordTypes, BlocksOfFacts
  <1> HIDE DEF Q, R
  <1>4. x.block \in Block
    BY RecordTypes
  <1>5. /\ A \in Seq(Block) /\ Len(A) = n + 1 /\ A[n + 1] = x.block
        /\ \A k \in 1..n : A[k] = Q[k]
    BY <1>2, <1>4, AppendProperties
  <1> HIDE DEF A
  <1>6. ASSUME NEW k \in 1..(n + 1) PROVE R[k] = A[k]
    <2>1. R[k] = r[k].block
      BY <1>3
    <2>2. k \in 1..n \/ k = n + 1
      BY <1>1
    <2>3. CASE k \in 1..n
      <3>1. r[k] = q[k] /\ A[k] = Q[k] /\ Q[k] = q[k].block
        BY <1>1, <1>2, <1>5, <2>3
      <3>2. QED
        BY <2>1, <3>1
    <2>4. CASE k = n + 1
      BY <1>1, <1>5, <2>1, <2>4
    <2>5. QED
      BY <2>2, <2>3, <2>4
  <1>7. R = A
    BY <1>3, <1>5, <1>6, SeqEqual
  <1>8. QED
    BY <1>7 DEF A, R, Q, r

\* A receive of the server completes: its block stays in the ring.
LEMMA ReceivesMoved ==
    ASSUME TypeOK, NEW c \in Clients, recvs[Server(c)] # <<>>, NEW x \in Completion,
           x.block = Head(recvs[Server(c)]),
           Arrived(Server(c))' = Append(Arrived(Server(c)), x),
           recvs'[Server(c)] = Tail(recvs[Server(c)])
    PROVE  Receives(c)' = Receives(c)
  <1> DEFINE q == Arrived(Server(c))
             a == BlocksOf(q)
             r == recvs[Server(c)]
  <1>1. q \in Seq(Completion) /\ r \in Seq(Block) /\ r # <<>>
    BY ViewTypes, EndFacts
  <1>2. a \in Seq(Block)
    BY <1>1, RecordTypes, BlocksOfFacts
  <1>3. Receives(c)' = BlocksOf(Append(q, x)) \o Tail(r)
    BY DEF Receives, BlocksOf
  <1>4. BlocksOf(Append(q, x)) = Append(a, Head(r))
    BY <1>1, BlocksOfAppend
  <1>5. Receives(c) = a \o r
    BY DEF Receives
  <1> HIDE DEF a, q, r
  <1>6. Append(a, Head(r)) \o Tail(r) = a \o r
    BY <1>1, <1>2, MoveHead
  <1>7. QED
    BY <1>3, <1>4, <1>5, <1>6

\* What is at the head of a send queue is in flight.
LEMMA HeadOfQueue ==
    ASSUME TypeOK, NEW e \in End, sq[e] # <<>>
    PROVE  /\ Flight(e) # <<>> /\ Head(sq[e]) = sq[e][1] /\ Head(sq[e]) \in Request
           /\ 1 \in 1..Len(sq[e]) /\ Tail(sq[e]) \in Seq(Request)
           /\ Asking(Flight(e)) => Head(sq[e]).op = "SEND"
  <1>1. sq[e] \in Seq(Request) /\ Flight(e) \in Seq(Request)
    BY FlightFacts
  <1>2. Len(sq[e]) \in Nat \ {0} /\ Head(sq[e]) = sq[e][1] /\ Head(sq[e]) \in Request
        /\ Tail(sq[e]) \in Seq(Request)
    BY <1>1, EmptySeq, HeadTailProperties
  <1>3. 1 \in 1..Len(sq[e])
    BY <1>2
  <1>4. PICK i \in 1..Len(Flight(e)) : sq[e][1] = Flight(e)[i]
    BY <1>3, FlightFacts
  <1>5. Flight(e) # <<>>
    <2>1. Len(Flight(e)) # 0
      BY <1>4
    <2>2. QED
      BY <2>1, EmptySeq
  <1>6. Asking(Flight(e)) => Head(sq[e]).op = "SEND"
    BY <1>2, <1>4 DEF Asking
  <1>7. QED
    BY <1>2, <1>3, <1>5, <1>6

\* The response is in the server's send queue only when it is due.
LEMMA ServerQueue ==
    ASSUME IndInv, NEW c \in Clients, sq[Server(c)] # <<>>
    PROVE  Answered(c) /\ Head(sq[Server(c)]).op = "SEND"
  <1>1. TypeOK /\ Phase(c) /\ Server(c) \in End
    BY EndFacts DEF IndInv, PhaseInv
  <1>2. Flight(Server(c)) # <<>> /\ (Asking(Flight(Server(c))) => Head(sq[Server(c)]).op = "SEND")
    BY <1>1, HeadOfQueue
  <1>3. Answered(c)
    BY <1>1, <1>2 DEF Phase, Silent, Asked, Heard, Delivered, Streaming, Unanswered
  <1>4. QED
    BY <1>2, <1>3 DEF Answered

\* A client's send queue holds its request, or writes.
LEMMA ClientQueue ==
    ASSUME IndInv, NEW c \in Clients, sq[Client(c)] # <<>>
    PROVE  \/ Asked(c) /\ Head(sq[Client(c)]).op = "SEND"
           \/ Streaming(c) /\ Head(sq[Client(c)]).op = "WRITE"
  <1>1. TypeOK /\ Phase(c) /\ Client(c) \in End
    BY EndFacts DEF IndInv, PhaseInv
  <1>2. /\ Flight(Client(c)) # <<>> /\ 1 \in 1..Len(sq[Client(c)])
        /\ Head(sq[Client(c)]) = sq[Client(c)][1]
        /\ Asking(Flight(Client(c))) => Head(sq[Client(c)]).op = "SEND"
    BY <1>1, HeadOfQueue
  <1>3. Asked(c) \/ Streaming(c)
    BY <1>1, <1>2 DEF Phase, Silent, Heard, Answered, Delivered
  <1>4. Asked(c) => Head(sq[Client(c)]).op = "SEND"
    BY <1>2 DEF Asked
  <1>5. Streaming(c) => Head(sq[Client(c)]).op = "WRITE"
    BY <1>2 DEF Streaming
  <1>6. QED
    BY <1>3, <1>4, <1>5

LEMMA AcknowledgeStep == ASSUME IndInv, NEW e \in End, Acknowledge(e) PROVE IndInv'
  <1>1. TypeOK
    BY DEF IndInv
  <1>2. PICK w : w = Head(unacked[e])
    OBVIOUS
  <1>3. PICK x : x = [end |-> e, op |-> w.op, block |-> w.block]
    OBVIOUS
  <1>4. /\ unacked[e] # <<>> /\ unacked' = [unacked EXCEPT ![e] = Tail(@)]
        /\ cq' = [cq EXCEPT ![Owner(e)] = Append(@, x)]
        /\ UNCHANGED <<stage, syncing, said, ring, sendmem, recvmem, peer_comm, recvs, sq>>
    BY <1>2, <1>3 DEF Acknowledge
  <1>5. unacked[e] \in Seq(Request) /\ w \in Request /\ Tail(unacked[e]) \in Seq(Request)
    <2>1. unacked[e] \in Seq(Request)
      BY <1>1 DEF TypeOK
    <2>2. QED
      BY <1>2, <1>4, <2>1, HeadTailProperties
  <1>6. /\ x \in Completion /\ x.end = e /\ x.op = w.op /\ x.block = w.block
        /\ x.op \in SendOps /\ x.op \notin RecvOps
    BY <1>3, <1>5, RecordTypes
  <1>7. /\ unacked'[e] = Tail(unacked[e])
        /\ \A f \in End : f # e => unacked'[f] = unacked[f]
    BY <1>1, <1>4 DEF TypeOK
  <1>8. TypeOK'
    <2>1. unacked' \in [End -> Seq(Request)]
      BY <1>1, <1>4, <1>5 DEF TypeOK
    <2>2. cq' \in [Thread -> Seq(Completion)]
      <3>1. cq \in [Thread -> Seq(Completion)] /\ Owner(e) \in Thread
        BY <1>1, EndFacts DEF TypeOK
      <3>2. Append(cq[Owner(e)], x) \in Seq(Completion)
        BY <1>6, <3>1, AppendProperties
      <3>3. QED
        BY <1>4, <3>1, <3>2
    <2>3. said' \in [End -> BOOLEAN]
      BY <1>1, <1>4 DEF TypeOK
    <2>4. QED
      BY <1>1, <1>4, <2>1, <2>2, <2>3 DEF TypeOK
  <1>9. SyncInv'
    BY <1>4 DEF IndInv, SyncInv
  <1>10. \A f \in End : /\ Done(f, SendOps)' = IF f = e THEN Append(Done(f, SendOps), x)
                                               ELSE Done(f, SendOps)
                        /\ Done(f, RecvOps)' = Done(f, RecvOps)
    <2> SUFFICES ASSUME NEW f \in End
                 PROVE  /\ Done(f, SendOps)' = IF f = e THEN Append(Done(f, SendOps), x)
                                               ELSE Done(f, SendOps)
                        /\ Done(f, RecvOps)' = Done(f, RecvOps)
      OBVIOUS
    <2>1. x \in Completion /\ x.end = e /\ cq' = [cq EXCEPT ![Owner(e)] = Append(@, x)]
      BY <1>4, <1>6
    <2>2. /\ Done(f, SendOps)' = IF f = e /\ x.op \in SendOps
                                 THEN Append(Done(f, SendOps), x) ELSE Done(f, SendOps)
          /\ Done(f, RecvOps)' = IF f = e /\ x.op \in RecvOps
                                 THEN Append(Done(f, RecvOps), x) ELSE Done(f, RecvOps)
      BY <1>1, <2>1, DoneAppends
    <2>3. QED
      BY <1>6, <2>2
  <1>11. ASSUME NEW f \in End PROVE Flight(f)' = Flight(f) /\ Arrived(f)' = Arrived(f)
    <2>1. Arrived(f)' = Arrived(f)
      BY <1>10 DEF Arrived
    <2>2. CASE f = e
      <3>1. Done(e, SendOps)' = Append(Done(e, SendOps), x) /\ sq'[e] = sq[e]
        BY <1>4, <1>10
      <3>2. Flight(e)' = Flight(e)
        BY <1>1, <1>2, <1>4, <1>6, <1>7, <3>1, FlightAcknowledged
      <3>3. QED
        BY <2>1, <2>2, <3>2
    <2>3. CASE f # e
      BY <1>4, <1>7, <1>10, <2>1, <2>3, FlightSame
    <2>4. QED
      BY <2>2, <2>3
  <1>12. RingInv' /\ RecvInv' /\ PhaseInv'
    BY <1>4, <1>11, QuietStep
  <1>13. QED
    BY <1>8, <1>9, <1>12 DEF IndInv

LEMMA ExecuteWriteStep == ASSUME IndInv, NEW e \in End, ExecuteWrite(e) PROVE IndInv'
  <1>1. TypeOK
    BY DEF IndInv
  <1>2. PICK w : w = Head(sq[e])
    OBVIOUS
  <1>3. /\ sq[e] # <<>> /\ w.op = "WRITE" /\ sq' = [sq EXCEPT ![e] = Tail(@)]
        /\ unacked' = [unacked EXCEPT ![e] = Append(@, w)]
        /\ sendmem' = [sendmem EXCEPT ![Other(e)][0] = sendmem[e][w.block]]
        /\ UNCHANGED <<stage, syncing, said, ring, recvmem, peer_comm, recvs, cq>>
    BY <1>2 DEF ExecuteWrite
  <1>4. w \in Request /\ w = sq[e][1] /\ Tail(sq[e]) \in Seq(Request)
    BY <1>1, <1>2, <1>3, HeadOfQueue
  <1>5. PICK c \in Clients : e = Client(c) /\ Streaming(c)
    <2>1. PICK c \in Clients : e = Client(c) \/ e = Server(c)
      BY EndFacts
    <2>2. CASE e = Server(c)
      BY <1>2, <1>3, <2>2, ServerQueue
    <2>3. CASE e = Client(c)
      BY <1>2, <1>3, <2>3, ClientQueue
    <2>4. QED
      BY <2>1, <2>2, <2>3
  <1>6. /\ sq'[e] = Tail(sq[e]) /\ unacked'[e] = Append(unacked[e], w)
        /\ \A f \in End : f # e => sq'[f] = sq[f] /\ unacked'[f] = unacked[f]
    BY <1>1, <1>3 DEF TypeOK
  <1>7. TypeOK'
    <2>1. sq' \in [End -> Seq(Request)]
      BY <1>1, <1>3, <1>4 DEF TypeOK
    <2>2. unacked' \in [End -> Seq(Request)]
      <3>1. unacked \in [End -> Seq(Request)] /\ Append(unacked[e], w) \in Seq(Request)
        BY <1>1, <1>4, AppendProperties DEF TypeOK
      <3>2. QED
        BY <1>3, <3>1
    <2>3. sendmem' \in [End -> [Block -> Content]]
      <3>1. w.block \in Block /\ Other(e) \in End
        BY <1>4, RecordTypes, EndFacts
      <3>2. sendmem \in [End -> [Block -> Content]] /\ sendmem[e][w.block] \in Content
        BY <1>1, <3>1 DEF TypeOK
      <3>3. [sendmem[Other(e)] EXCEPT ![0] = sendmem[e][w.block]] \in [Block -> Content]
        BY <3>1, <3>2, Constants
      <3>4. QED
        BY <1>3, <3>1, <3>2, <3>3
    <2>4. said' \in [End -> BOOLEAN]
      BY <1>1, <1>3 DEF TypeOK
    <2>5. QED
      BY <1>1, <1>3, <2>1, <2>2, <2>3, <2>4 DEF TypeOK
  <1>8. SyncInv'
    BY <1>3 DEF IndInv, SyncInv
  <1>9. ASSUME NEW f \in End PROVE Flight(f)' = Flight(f) /\ Arrived(f)' = Arrived(f)
    <2>1. Arrived(f)' = Arrived(f) /\ Done(f, SendOps)' = Done(f, SendOps)
      BY <1>3, DoneSame DEF Arrived
    <2>2. CASE f = e
      <3>1. Flight(e)' = Flight(e)
        BY <1>1, <1>2, <1>3, <1>6, <2>1, <2>2, FlightExecuted
      <3>2. QED
        BY <2>1, <2>2, <3>1
    <2>3. CASE f # e
      BY <1>6, <2>1, <2>3, FlightSame
    <2>4. QED
      BY <2>2, <2>3
  <1>10. RingInv'
    <2> SUFFICES ASSUME NEW f \in End
                 PROVE  OnRing(BlocksOf(Flight(f)), ring[f].slast, ring[f].snext)'
      BY DEF RingInv
    <2>1. QED
      BY <1>3, <1>9, RingSame DEF IndInv, RingInv
  <1>11. RecvInv'
    <2>1. \A d \in Clients : Receives(d)' = Receives(d)
      BY <1>3, <1>9, EndFacts, ReceivesSame
    <2> SUFFICES ASSUME NEW d \in Clients
                 PROVE  /\ OnRing(Receives(d), ring[Server(d)].rlast, ring[Server(d)].rnext)'
                        /\ Len(Receives(d))' = IF stage'["server"] = "start" THEN 0 ELSE NUM_BLOCK
      BY DEF RecvInv
    <2>2. /\ OnRing(Receives(d), ring[Server(d)].rlast, ring[Server(d)].rnext)
          /\ Len(Receives(d)) = IF stage["server"] = "start" THEN 0 ELSE NUM_BLOCK
      BY DEF IndInv, RecvInv
    <2>3. QED
      BY <1>3, <2>1, <2>2 DEF OnRing
  <1>12. ASSUME NEW d \in Clients PROVE Phase(d)'
    <2>1. Client(d) \in End /\ Server(d) \in End /\ Server(d) # e /\ Other(e) = Server(c)
      BY <1>5, EndFacts
    <2>2. CASE d = c
      <3> DEFINE q == sq[e]
      <3>1. \A k \in 1..Len(q) : q[k].op = "WRITE"
        BY <1>5 DEF Streaming
      <3>2. q \in Seq(Request) /\ q # <<>>
        BY <1>1, <1>3 DEF TypeOK
      <3> HIDE DEF q
      <3>3. \A k \in 1..Len(Tail(q)) : Tail(q)[k].op = "WRITE"
        BY <3>1, <3>2, TailOps
      <3>4. sq'[Client(c)] = Tail(q)
        BY <1>5, <1>6 DEF q
      <3>5. \A k \in 1..Len(sq'[Client(c)]) : sq'[Client(c)][k].op = "WRITE"
        BY <3>3, <3>4
      <3>6. sq'[Server(c)] = sq[Server(c)]
        BY <1>6, <2>1, <2>2
      <3>7. Streaming(c)'
        BY <1>3, <1>5, <1>9, <2>1, <2>2, <3>5, <3>6 DEF Streaming, Writing, Asking
      <3>8. QED
        BY <2>2, <3>7 DEF Phase
    <2>3. CASE d # c
      <3>1. Client(d) # e /\ Server(d) # Other(e)
        BY <1>5, <2>1, <2>3, EndFacts
      <3>2. sendmem'[Server(d)] = sendmem[Server(d)]
        BY <1>1, <1>3, <2>1, <3>1 DEF TypeOK
      <3>3. Apart(d)
        BY <1>3, <1>6, <1>9, <2>1, <3>1, <3>2 DEF Apart
      <3>4. QED
        BY <3>3, PhaseSame DEF IndInv, PhaseInv
    <2>4. QED
      BY <2>2, <2>3
  <1>13. QED
    BY <1>7, <1>8, <1>10, <1>11, <1>12 DEF IndInv, PhaseInv

LEMMA ExecuteSendStep == ASSUME IndInv, NEW e \in End, ExecuteSend(e) PROVE IndInv'
  <1>1. TypeOK
    BY DEF IndInv
  <1>2. PICK w, p, b : w = Head(sq[e]) /\ p = Other(e) /\ b = Head(recvs[p])
    OBVIOUS
  <1>3. PICK x : x = [end |-> p, op |-> "RECV", block |-> b]
    OBVIOUS
  <1>4. /\ sq[e] # <<>> /\ w.op = "SEND" /\ recvs[p] # <<>>
        /\ sq' = [sq EXCEPT ![e] = Tail(@)]
        /\ unacked' = [unacked EXCEPT ![e] = Append(@, w)]
        /\ recvs' = [recvs EXCEPT ![p] = Tail(@)]
        /\ recvmem' = IF p = Client(e[1])
                      THEN [recvmem EXCEPT ![e[1]][b] = sendmem[e][w.block]]
                      ELSE recvmem
        /\ cq' = [cq EXCEPT ![Owner(p)] = Append(@, x)]
        /\ UNCHANGED <<stage, syncing, said, ring, sendmem, peer_comm>>
    BY <1>2, <1>3 DEF ExecuteSend
  <1>5. w \in Request /\ w = sq[e][1] /\ Tail(sq[e]) \in Seq(Request) /\ w.block \in Block
    BY <1>1, <1>2, <1>4, HeadOfQueue, RecordTypes
  <1>6. p \in End /\ p # e /\ recvs[p] \in Seq(Block) /\ b \in Block /\ Tail(recvs[p]) \in Seq(Block)
    <2>1. p \in End /\ p # e
      BY <1>2, EndFacts
    <2>2. recvs[p] \in Seq(Block)
      BY <1>1, <2>1 DEF TypeOK
    <2>3. QED
      BY <1>2, <1>4, <2>1, <2>2, HeadTailProperties
  <1>7. /\ x \in Completion /\ x.end = p /\ x.op = "RECV" /\ x.block = b
        /\ x.op \in RecvOps /\ x.op \notin SendOps
    BY <1>3, <1>6, RecordTypes
  <1>8. PICK c \in Clients : e = Client(c) \/ e = Server(c)
    BY EndFacts
  <1>9. /\ Client(c) \in End /\ Server(c) \in End /\ Client(c) # Server(c) /\ e[1] = c
        /\ e = Client(c) => p = Server(c) /\ p # Client(e[1])
        /\ e = Server(c) => p = Client(c) /\ p = Client(e[1])
    BY <1>2, <1>8, EndFacts
  <1>10. /\ sq'[e] = Tail(sq[e]) /\ unacked'[e] = Append(unacked[e], w)
         /\ recvs'[p] = Tail(recvs[p])
         /\ \A f \in End : f # e => sq'[f] = sq[f] /\ unacked'[f] = unacked[f]
         /\ \A f \in End : f # p => recvs'[f] = recvs[f]
    BY <1>1, <1>4, <1>6 DEF TypeOK
  <1>11. TypeOK'
    <2>1. sq' \in [End -> Seq(Request)]
      BY <1>1, <1>4, <1>5 DEF TypeOK
    <2>2. unacked' \in [End -> Seq(Request)]
      <3>1. unacked \in [End -> Seq(Request)] /\ Append(unacked[e], w) \in Seq(Request)
        BY <1>1, <1>5, AppendProperties DEF TypeOK
      <3>2. QED
        BY <1>4, <3>1
    <2>3. recvs' \in [End -> Seq(Block)]
      BY <1>1, <1>4, <1>6 DEF TypeOK
    <2>4. recvmem' \in [Clients -> [Block -> Content]]
      <3>1. recvmem \in [Clients -> [Block -> Content]] /\ sendmem[e][w.block] \in Content
        BY <1>1, <1>5 DEF TypeOK
      <3>2. [recvmem[c] EXCEPT ![b] = sendmem[e][w.block]] \in [Block -> Content]
        BY <3>1, <1>6
      <3>3. QED
        BY <1>4, <1>9, <3>1, <3>2
    <2>5. cq' \in [Thread -> Seq(Completion)]
      <3>1. cq \in [Thread -> Seq(Completion)] /\ Owner(p) \in Thread
        BY <1>1, <1>6, EndFacts DEF TypeOK
      <3>2. Append(cq[Owner(p)], x) \in Seq(Completion)
        BY <1>7, <3>1, AppendProperties
      <3>3. QED
        BY <1>4, <3>1, <3>2
    <2>6. said' \in [End -> BOOLEAN]
      BY <1>1, <1>4 DEF TypeOK
    <2>7. QED
      BY <1>1, <1>4, <2>1, <2>2, <2>3, <2>4, <2>5, <2>6 DEF TypeOK
  <1>12. SyncInv'
    BY <1>4 DEF IndInv, SyncInv
  <1>13. ASSUME NEW f \in End
         PROVE  /\ Done(f, SendOps)' = Done(f, SendOps)
                /\ Arrived(f)' = IF f = p THEN Append(Arrived(f), x) ELSE Arrived(f)
    <2>1. x \in Completion /\ x.end = p /\ cq' = [cq EXCEPT ![Owner(p)] = Append(@, x)]
      BY <1>4, <1>7
    <2>2. p \in End
      BY <1>6
    <2>3. /\ Done(f, SendOps)' = IF f = p /\ x.op \in SendOps
                                 THEN Append(Done(f, SendOps), x) ELSE Done(f, SendOps)
          /\ Done(f, RecvOps)' = IF f = p /\ x.op \in RecvOps
                                 THEN Append(Done(f, RecvOps), x) ELSE Done(f, RecvOps)
      BY <1>1, <2>1, <2>2, DoneAppends
    <2>4. QED
      BY <1>7, <2>3 DEF Arrived
  <1>14. ASSUME NEW f \in End PROVE Flight(f)' = Flight(f)
    <2>1. CASE f = e
      BY <1>1, <1>2, <1>4, <1>10, <1>13, <2>1, FlightExecuted
    <2>2. CASE f # e
      BY <1>10, <1>13, <2>2, FlightSame
    <2>3. QED
      BY <2>1, <2>2
  <1>15. RingInv'
    <2> SUFFICES ASSUME NEW f \in End
                 PROVE  OnRing(BlocksOf(Flight(f)), ring[f].slast, ring[f].snext)'
      BY DEF RingInv
    <2>1. QED
      BY <1>4, <1>14, RingSame DEF IndInv, RingInv
  <1>16. ASSUME NEW d \in Clients PROVE Receives(d)' = Receives(d)
    <2>1. Server(d) \in End
      BY EndFacts
    <2>2. CASE Server(d) = p
      <3>1. /\ recvs[Server(d)] # <<>> /\ x.block = Head(recvs[Server(d)])
            /\ Arrived(Server(d))' = Append(Arrived(Server(d)), x)
            /\ recvs'[Server(d)] = Tail(recvs[Server(d)])
        BY <1>2, <1>4, <1>7, <1>10, <1>13, <2>1, <2>2
      <3>2. QED
        BY <1>1, <1>7, <3>1, ReceivesMoved
    <2>3. CASE Server(d) # p
      <3>1. Arrived(Server(d))' = Arrived(Server(d)) /\ recvs'[Server(d)] = recvs[Server(d)]
        BY <1>10, <1>13, <2>1, <2>3
      <3>2. QED
        BY <3>1, ReceivesSame
    <2>4. QED
      BY <2>2, <2>3
  <1>17. RecvInv'
    <2> SUFFICES ASSUME NEW d \in Clients
                 PROVE  /\ OnRing(Receives(d), ring[Server(d)].rlast, ring[Server(d)].rnext)'
                        /\ Len(Receives(d))' = IF stage'["server"] = "start" THEN 0 ELSE NUM_BLOCK
      BY DEF RecvInv
    <2>1. /\ OnRing(Receives(d), ring[Server(d)].rlast, ring[Server(d)].rnext)
          /\ Len(Receives(d)) = IF stage["server"] = "start" THEN 0 ELSE NUM_BLOCK
      BY DEF IndInv, RecvInv
    <2>2. QED
      BY <1>4, <1>16, <2>1 DEF OnRing
  <1>18. \A a \in Seq(Completion) : a = <<>> => Len(Append(a, x)) = 1
    BY <1>7, AppendProperties
  <1>19. ASSUME e = Client(c) PROVE Phase(c)'
    <2>1. Asked(c)
      BY <1>2, <1>4, <1>19, ClientQueue
    <2>2. sq'[Client(c)] = <<>>
      <3>1. Len(sq[e]) = 1 /\ sq[e] \in Seq(Request)
        BY <1>1, <1>19, <2>1 DEF Asked, TypeOK
      <3>2. Len(Tail(sq[e])) = 0
        BY <1>4, <3>1, TailOps
      <3>3. QED
        BY <1>5, <1>10, <1>19, <3>2, EmptySeq
    <2>3. Len(Arrived(Server(c))') = 1
      <3>1. Arrived(Server(c))' = Append(Arrived(Server(c)), x)
        BY <1>9, <1>13, <1>19
      <3>2. Arrived(Server(c)) = <<>> /\ Arrived(Server(c)) \in Seq(Completion)
        BY <1>1, <1>9, <2>1, ViewTypes DEF Asked
      <3>3. QED
        BY <3>1, <3>2, <1>18
    <2>4. /\ recvs'[Client(c)] = recvs[Client(c)] /\ Arrived(Client(c))' = Arrived(Client(c))
          /\ ring' = ring /\ peer_comm' = peer_comm /\ stage' = stage
          /\ Flight(Client(c))' = Flight(Client(c)) /\ Flight(Server(c))' = Flight(Server(c))
      BY <1>4, <1>9, <1>10, <1>13, <1>14, <1>19
    <2>5. Unanswered(c)'
      BY <2>1, <2>4, Zenon DEF Asked, Unanswered, Posted
    <2>6. Heard(c)'
      BY <2>1, <2>2, <2>3, <2>4, <2>5 DEF Asked, Heard, Asking
    <2>7. QED
      BY <2>6 DEF Phase
  <1>20. ASSUME e = Server(c) PROVE Phase(c)'
    <2>1. Answered(c)
      BY <1>4, <1>20, ServerQueue
    <2>2. recvs[p] = Full /\ ring[Client(c)].rnext = FullNext
      BY <1>9, <1>20, <2>1 DEF Answered, Posted
    <2>3. b = 0
      <3>1. Head(recvs[p]) = recvs[p][1]
        BY <1>4, <1>6
      <3>2. QED
        BY <1>2, <2>2, <3>1, FirstBlock
    <2>4. w.block = 0 /\ sendmem[e][0] = "desc"
      BY <1>5, <1>20, <2>1 DEF Answered
    <2>5. recvmem'[c][0] = "desc"
      <3>1. recvmem' = [recvmem EXCEPT ![c][0] = "desc"]
        BY <1>4, <1>9, <1>20, <2>3, <2>4
      <3>2. QED
        BY <1>1, <3>1, Constants DEF TypeOK
    <2>6. sq'[Server(c)] = <<>>
      <3>1. Len(sq[e]) = 1 /\ sq[e] \in Seq(Request)
        BY <1>1, <1>20, <2>1 DEF Answered, TypeOK
      <3>2. Len(Tail(sq[e])) = 0
        BY <1>4, <3>1, TailOps
      <3>3. QED
        BY <1>5, <1>10, <1>20, <3>2, EmptySeq
    <2>7. Len(Arrived(Client(c))') = 1
      <3>1. Arrived(Client(c))' = Append(Arrived(Client(c)), x)
        BY <1>9, <1>13, <1>20
      <3>2. Arrived(Client(c)) = <<>> /\ Arrived(Client(c)) \in Seq(Completion)
        BY <1>1, <1>9, <2>1, ViewTypes DEF Answered
      <3>3. QED
        BY <3>1, <3>2, <1>18
    <2>8. /\ sq'[Client(c)] = sq[Client(c)] /\ Arrived(Server(c))' = Arrived(Server(c))
          /\ ring' = ring /\ peer_comm' = peer_comm /\ stage' = stage
          /\ Flight(Client(c))' = Flight(Client(c)) /\ Flight(Server(c))' = Flight(Server(c))
      BY <1>4, <1>9, <1>10, <1>13, <1>14, <1>20
    <2>9. Delivered(c)'
      BY <2>1, <2>2, <2>5, <2>6, <2>7, <2>8 DEF Answered, Delivered, Asking
    <2>10. QED
      BY <2>9 DEF Phase
  <1>21. ASSUME NEW d \in Clients, d # c PROVE Phase(d)'
    <2>1. /\ Client(d) \in End /\ Server(d) \in End /\ Client(d) # e /\ Server(d) # e
          /\ Client(d) # p /\ Server(d) # p
      BY <1>8, <1>9, <1>21, EndFacts
    <2>2. recvmem'[d] = recvmem[d]
      BY <1>1, <1>4, <1>9, <1>21 DEF TypeOK
    <2>3. Apart(d)
      BY <1>4, <1>10, <1>13, <1>14, <2>1, <2>2 DEF Apart
    <2>4. QED
      BY <2>3, PhaseSame DEF IndInv, PhaseInv
  <1>22. PhaseInv'
    <2>1. Phase(c)'
      BY <1>8, <1>19, <1>20
    <2>2. \A d \in Clients : Phase(d)'
      BY <2>1, <1>21
    <2>3. QED
      BY <2>2 DEF PhaseInv
  <1>23. QED
    BY <1>11, <1>12, <1>15, <1>17, <1>22 DEF IndInv

-----------------------------------------------------------------------------
(* The request, and the polling loops *)

\* A step that leaves the receives of the server alone.
LEMMA RecvFrame ==
    ASSUME IndInv, stage'["server"] = "start" <=> stage["server"] = "start",
           NEW c \in Clients, Arrived(Server(c))' = Arrived(Server(c)),
           recvs'[Server(c)] = recvs[Server(c)],
           ring'[Server(c)].rlast = ring[Server(c)].rlast,
           ring'[Server(c)].rnext = ring[Server(c)].rnext
    PROVE  /\ OnRing(Receives(c), ring[Server(c)].rlast, ring[Server(c)].rnext)'
           /\ Len(Receives(c))' = IF stage'["server"] = "start" THEN 0 ELSE NUM_BLOCK
  <1>1. Receives(c)' = Receives(c)
    BY ReceivesSame
  <1>2. /\ OnRing(Receives(c), ring[Server(c)].rlast, ring[Server(c)].rnext)
        /\ Len(Receives(c)) = IF stage["server"] = "start" THEN 0 ELSE NUM_BLOCK
    BY DEF IndInv, RecvInv
  <1>3. QED
    BY <1>1, <1>2 DEF OnRing

LEMMA ClientSyncRecvStep == ASSUME IndInv, NEW c \in Clients, ClientSyncRecv(c) PROVE IndInv'
  <1>1. TypeOK
    BY DEF IndInv
  <1>2. PICK e, n, r : /\ e = Client(c) /\ n = ring[e].snext
                       /\ r = Requests("SEND", Handed(n, 1))
    OBVIOUS
  <1>3. /\ stage[c] = "sent" /\ said[Server(c)] /\ stage' = [stage EXCEPT ![c] = "running"]
        /\ ring' = [ring EXCEPT ![e].snext = Inc(@)]
        /\ sq' = [sq EXCEPT ![e] = @ \o r]
        /\ UNCHANGED <<syncing, said, sendmem, recvmem, peer_comm, recvs, unacked, cq>>
    BY <1>2 DEF ClientSyncRecv
  <1>4. /\ e \in End /\ c \in Thread /\ c # "server" /\ "server" \in Thread /\ Server(c) # e
        /\ Server(c) \in End
    BY <1>2, EndFacts
  <1>5. n \in Counter /\ Inc(n) \in Counter /\ Inc(n) = (n + 1) % IntRange
    BY <1>1, <1>2, <1>4, ViewTypes, CounterTypes
  <1>6. r \in Seq(Request) /\ Len(r) = 1 /\ \A i \in 1..1 : r[i].op = "SEND"
    <2>1. "SEND" \in SendOps
      BY RecordTypes
    <2>2. QED
      BY <1>2, <1>5, <2>1, PostedOne
  <1>7. /\ stage'[c] = "running" /\ \A t \in Thread : t # c => stage'[t] = stage[t]
        /\ sq'[e] = sq[e] \o r
        /\ \A f \in End : f # e => sq'[f] = sq[f] /\ ring'[f] = ring[f]
    BY <1>1, <1>3, <1>4 DEF TypeOK
  <1>8. /\ ring'[e] \in Ring /\ ring'[e].snext = Inc(n) /\ ring'[e].slast = ring[e].slast
        /\ ring'[e].rnext = ring[e].rnext /\ ring'[e].rlast = ring[e].rlast
    <2>1. ring[e] \in Ring /\ ring'[e] = [ring[e] EXCEPT !.snext = Inc(n)]
      BY <1>1, <1>2, <1>3, <1>4 DEF TypeOK
    <2>2. QED
      BY <1>5, <2>1 DEF Ring
  <1>9. TypeOK'
    <2>1. ring' \in [End -> Ring]
      BY <1>1, <1>3, <1>7, <1>8 DEF TypeOK
    <2>2. sq' \in [End -> Seq(Request)]
      <3>1. sq \in [End -> Seq(Request)] /\ sq[e] \o r \in Seq(Request)
        BY <1>1, <1>4, <1>6, ConcatProperties DEF TypeOK
      <3>2. QED
        BY <1>3, <3>1
    <2>3. stage' \in [Thread -> {"start", "posted", "sent", "running"}]
      BY <1>1, <1>3 DEF TypeOK
    <2>4. said' \in [End -> BOOLEAN]
      BY <1>1, <1>3 DEF TypeOK
    <2>5. QED
      BY <1>1, <1>3, <2>1, <2>2, <2>3, <2>4 DEF TypeOK
  <1>10. SyncInv'
    <2>1. stage["server"] # "start" /\ stage'["server"] = stage["server"]
      BY <1>3, <1>4, <1>7 DEF IndInv, SyncInv
    <2>2. QED
      BY <1>3, <2>1 DEF IndInv, SyncInv
  <1>11. \A f \in End : /\ Done(f, SendOps)' = Done(f, SendOps)
                        /\ Arrived(f)' = Arrived(f)
                        /\ f # e => Flight(f)' = Flight(f)
    BY <1>3, <1>7, DoneSame, FlightSame DEF Arrived
  <1>12. Flight(e)' = Flight(e) \o r
    BY <1>1, <1>3, <1>4, <1>6, <1>7, <1>11, FlightPosted
  <1>13. RingInv'
    <2> SUFFICES ASSUME NEW f \in End
                 PROVE  OnRing(BlocksOf(Flight(f)), ring[f].slast, ring[f].snext)'
      BY DEF RingInv
    <2>1. OnRing(BlocksOf(Flight(f)), ring[f].slast, ring[f].snext)
      BY DEF IndInv, RingInv
    <2>2. CASE f = e
      <3>1. PICK g, last : g = Flight(e) /\ last = ring[e].slast
        OBVIOUS
      <3>2. PICK k \in Nat : k = 1
        OBVIOUS
      <3>3. g \in Seq(Request) /\ last \in Counter /\ OnRing(BlocksOf(g), last, n)
        BY <1>1, <1>2, <1>4, <2>1, <2>2, <3>1, ViewTypes
      <3>4. OnRing(BlocksOf(g \o Requests("SEND", Handed(n, k))), last, (n + k) % IntRange)
        BY <1>5, <3>3, RecordTypes, PostRing
      <3>5. OnRing(BlocksOf(g \o r), last, Inc(n))
        BY <1>2, <1>5, <3>2, <3>4
      <3>6. QED
        BY <1>8, <1>12, <2>2, <3>1, <3>5, RingPrime
    <2>3. CASE f # e
      BY <1>7, <1>11, <2>1, <2>3, RingSame
    <2>4. QED
      BY <2>2, <2>3
  <1>14. RecvInv'
    <2>1. stage'["server"] = "start" <=> stage["server"] = "start"
      BY <1>4, <1>7
    <2>2. \A d \in Clients : Server(d) \in End /\ Server(d) # e
      BY <1>2, EndFacts
    <2>3. QED
      BY <1>3, <1>7, <1>11, <2>1, <2>2, RecvFrame DEF RecvInv
  <1>15. Phase(c)'
    <2>1. Silent(c)
      BY <1>3 DEF IndInv, PhaseInv, Phase, Asked, Heard, Answered, Delivered, Streaming
    <2>2. Flight(e) = <<>> /\ sq[e] = <<>>
      <3>1. Flight(e) = <<>>
        BY <1>2, <2>1 DEF Silent
      <3>2. QED
        BY <1>1, <1>4, <3>1, HeadOfQueue
    <2>3. <<>> \o r = r
      BY <1>6, ConcatEmptySeq
    <2>4. Flight(e)' = r /\ sq'[e] = r
      BY <1>7, <1>12, <2>2, <2>3
    <2>5. Asking(r)
      BY <1>6 DEF Asking
    <2>6. Unanswered(c)'
      <3>1. Unanswered(c) /\ stage[c] # "start" /\ stage'[c] # "start"
        BY <1>3, <1>7, <2>1 DEF Silent
      <3>2. Posted(c)'
        BY <1>2, <1>3, <1>8, <3>1 DEF Unanswered, Posted
      <3>3. ring'[Server(c)].snext = ring[Server(c)].snext
        BY <1>4, <1>7
      <3>4. QED
        BY <1>2, <1>3, <1>4, <1>11, <3>1, <3>2, <3>3 DEF Unanswered
    <2>7. Arrived(Server(c))' = <<>>
      BY <1>4, <1>11, <2>1 DEF Silent
    <2>8. Asked(c)'
      BY <1>2, <1>6, <1>7, <2>4, <2>5, <2>6, <2>7 DEF Asked, Asking
    <2>9. QED
      BY <2>8 DEF Phase
  <1>16. ASSUME NEW d \in Clients, d # c PROVE Phase(d)'
    <2>1. Client(d) \in End /\ Server(d) \in End /\ Client(d) # e /\ Server(d) # e /\ d \in Thread
      BY <1>2, <1>16, EndFacts
    <2>2. Apart(d)
      BY <1>3, <1>7, <1>11, <1>16, <2>1 DEF Apart
    <2>3. QED
      BY <2>2, PhaseSame DEF IndInv, PhaseInv
  <1>17. PhaseInv'
    <2>1. \A d \in Clients : Phase(d)'
      BY <1>15, <1>16
    <2>2. QED
      BY <2>1 DEF PhaseInv
  <1>18. QED
    BY <1>9, <1>10, <1>13, <1>14, <1>17 DEF IndInv

LEMMA PolledType ==
    ASSUME TypeOK, NEW t \in Thread, NEW e, NEW op, Polled(t, e, op)
    PROVE  cq' \in [Thread -> Seq(Completion)]
  <1>1. cq \in [Thread -> Seq(Completion)] /\ cq[t] \in Seq(Completion) /\ cq[t] # <<>>
    BY DEF TypeOK, Polled
  <1>2. Tail(cq[t]) \in Seq(Completion)
    BY <1>1, HeadTailProperties
  <1>3. QED
    BY <1>1, <1>2 DEF Polled

\* The completion of a work request is polled, and the requests r are posted.
LEMMA PolledRequest ==
    ASSUME TypeOK, NEW p \in End, NEW op \in SendOps, Polled(Owner(p), p, op),
           unacked' = unacked, NEW r \in Seq(Request), sq'[p] = sq[p] \o r,
           \A f \in End : f # p => sq'[f] = sq[f]
    PROVE  /\ Flight(p) # <<>> /\ Flight(p)[1].op = op /\ Flight(p)' = Tail(Flight(p)) \o r
           /\ \A f \in End : (f # p => Flight(f)' = Flight(f)) /\ Arrived(f)' = Arrived(f)
  <1>1. op \notin RecvOps
    BY RecordTypes
  <1>2. ASSUME NEW f \in End PROVE Arrived(f)' = Arrived(f)
    BY <1>1, DonePolled DEF Arrived
  <1>3. ASSUME NEW f \in End, f # p PROVE Flight(f)' = Flight(f)
    <2>1. Done(f, SendOps)' = Done(f, SendOps)
      BY <1>3, DonePolled
    <2>2. QED
      BY <1>3, <2>1, FlightSame
  <1>4. /\ Done(p, SendOps) # <<>> /\ Head(Done(p, SendOps)).op = op
        /\ Done(p, SendOps)' = Tail(Done(p, SendOps))
    BY DonePolled
  <1>5. Flight(p) # <<>> /\ Flight(p)[1].op = op /\ Flight(p)' = Tail(Flight(p)) \o r
    BY <1>4, FlightPolled
  <1>6. QED
    BY <1>2, <1>3, <1>5

\* The completion of a receive is polled.
LEMMA PolledReceive ==
    ASSUME TypeOK, NEW p \in End, Polled(Owner(p), p, "RECV")
    PROVE  /\ Arrived(p) # <<>> /\ Arrived(p)' = Tail(Arrived(p))
           /\ \A f \in End : /\ f # p => Arrived(f)' = Arrived(f)
                             /\ Done(f, SendOps)' = Done(f, SendOps)
  <1>1. "RECV" \in RecvOps /\ "RECV" \notin SendOps
    BY RecordTypes
  <1>2. ASSUME NEW f \in End PROVE Done(f, SendOps)' = Done(f, SendOps)
    BY <1>1, DonePolled
  <1>3. ASSUME NEW f \in End, f # p PROVE Arrived(f)' = Arrived(f)
    BY <1>3, DonePolled DEF Arrived
  <1>4. Arrived(p) # <<>> /\ Arrived(p)' = Tail(Arrived(p))
    BY <1>1, DonePolled DEF Arrived
  <1>5. QED
    BY <1>2, <1>3, <1>4

LEMMA SendDoneStep == ASSUME IndInv, NEW e \in End, SendDone(e) PROVE IndInv'
  <1>1. TypeOK
    BY DEF IndInv
  <1>2. /\ Polled(Owner(e), e, "SEND") /\ ring' = [ring EXCEPT ![e].slast = Inc(@)]
        /\ UNCHANGED <<stage, syncing, said, sendmem, recvmem, peer_comm, recvs, sq, unacked>>
    BY DEF SendDone
  <1>3. PICK n \in Counter : n = ring[e].slast
    BY <1>1, ViewTypes
  <1>4. /\ ring'[e] \in Ring /\ ring'[e].slast = Inc(n) /\ ring'[e].snext = ring[e].snext
        /\ ring'[e].rnext = ring[e].rnext /\ ring'[e].rlast = ring[e].rlast
    <2>1. ring[e] \in Ring /\ ring'[e] = [ring[e] EXCEPT !.slast = Inc(n)]
      BY <1>1, <1>2, <1>3 DEF TypeOK
    <2>2. Inc(n) \in Counter
      BY CounterTypes
    <2>3. QED
      BY <2>1, <2>2 DEF Ring
  <1>5. \A f \in End : f # e => ring'[f] = ring[f]
    BY <1>1, <1>2 DEF TypeOK
  <1>6. \A f \in End : ring'[f].snext = ring[f].snext /\ ring'[f].rnext = ring[f].rnext
                       /\ ring'[f].rlast = ring[f].rlast
    BY <1>4, <1>5
  <1>7. TypeOK'
    <2>1. ring' \in [End -> Ring]
      BY <1>1, <1>2, <1>4, <1>5 DEF TypeOK
    <2>2. cq' \in [Thread -> Seq(Completion)]
      BY <1>1, <1>2, EndFacts, PolledType
    <2>3. said' \in [End -> BOOLEAN]
      BY <1>1, <1>2 DEF TypeOK
    <2>4. QED
      BY <1>1, <1>2, <2>1, <2>2, <2>3 DEF TypeOK
  <1>8. SyncInv'
    BY <1>2 DEF IndInv, SyncInv
  <1>9. PICK g : g = Flight(e)
    OBVIOUS
  <1>10. g \in Seq(Request)
    BY <1>1, <1>9, ViewTypes
  <1>11. /\ g # <<>> /\ g[1].op = "SEND" /\ Flight(e)' = Tail(g)
         /\ \A f \in End : (f # e => Flight(f)' = Flight(f)) /\ Arrived(f)' = Arrived(f)
    <2>1. PICK r \in Seq(Request) : r = <<>>
      BY EmptySeq
    <2>2. sq'[e] = sq[e] \o r
      <3>1. sq[e] \in Seq(Request) /\ sq'[e] = sq[e]
        BY <1>1, <1>2 DEF TypeOK
      <3>2. QED
        BY <2>1, <3>1, ConcatEmptySeq
    <2>3. \A f \in End : f # e => sq'[f] = sq[f]
      BY <1>2
    <2>4. "SEND" \in SendOps /\ unacked' = unacked
      BY <1>2, RecordTypes
    <2>5. /\ Flight(e) # <<>> /\ Flight(e)[1].op = "SEND" /\ Flight(e)' = Tail(Flight(e)) \o r
          /\ \A f \in End : (f # e => Flight(f)' = Flight(f)) /\ Arrived(f)' = Arrived(f)
      BY <1>1, <1>2, <2>2, <2>3, <2>4, PolledRequest
    <2>6. g # <<>> /\ Flight(e)' = Tail(g) \o r
      BY <1>9, <2>5
    <2>7. Tail(g) \o r = Tail(g)
      <3>1. Tail(g) \in Seq(Request)
        BY <1>10, <2>6, HeadTailProperties
      <3>2. QED
        BY <2>1, <3>1, ConcatEmptySeq
    <2>8. QED
      BY <1>9, <2>5, <2>6, <2>7
  <1>12. RingInv'
    <2> SUFFICES ASSUME NEW f \in End
                 PROVE  OnRing(BlocksOf(Flight(f)), ring[f].slast, ring[f].snext)'
      BY DEF RingInv
    <2>1. OnRing(BlocksOf(Flight(f)), ring[f].slast, ring[f].snext)
      BY DEF IndInv, RingInv
    <2>2. CASE f = e
      <3>1. PICK next \in Counter : next = ring[e].snext
        BY <1>1, ViewTypes
      <3>2. OnRing(BlocksOf(g), n, next)
        BY <1>3, <1>9, <2>1, <2>2, <3>1
      <3>3. OnRing(BlocksOf(Tail(g)), Inc(n), next)
        BY <1>10, <1>11, <3>2, TakeRing
      <3>4. ring'[e].slast = Inc(n) /\ ring'[e].snext = next
        BY <1>4, <3>1
      <3>5. QED
        BY <1>11, <2>2, <3>3, <3>4, RingPrime
    <2>3. CASE f # e
      BY <1>5, <1>11, <2>1, <2>3, RingSame
    <2>4. QED
      BY <2>2, <2>3
  <1>13. RecvInv'
    <2>1. \A d \in Clients : Server(d) \in End
      BY EndFacts
    <2>2. QED
      BY <1>2, <1>6, <1>11, <2>1, RecvFrame DEF RecvInv
  <1>14. Asking(g) => Asking(Tail(g))
    BY <1>10, <1>11, AskingTail
  <1>15. Writing(g) => Writing(Tail(g))
    BY <1>10, <1>11, WritingAsked
  <1>16. ASSUME NEW d \in Clients PROVE Phase(d)'
    <2>1. /\ Client(d) \in End /\ Server(d) \in End /\ Client(d) # Server(d) /\ Phase(d)
      BY EndFacts DEF IndInv, PhaseInv
    <2>2. /\ Arrived(Client(d))' = Arrived(Client(d)) /\ Arrived(Server(d))' = Arrived(Server(d))
          /\ ring'[Client(d)].rnext = ring[Client(d)].rnext
          /\ ring'[Server(d)].snext = ring[Server(d)].snext
      BY <1>6, <1>11, <2>1
    <2>3. CASE Client(d) # e /\ Server(d) # e
      <3>1. Apart(d)
        BY <1>2, <1>11, <2>1, <2>2, <2>3 DEF Apart
      <3>2. QED
        BY <2>1, <3>1, PhaseSame
    <2>4. CASE Client(d) = e
      <3>1. Flight(Client(d)) = g /\ Flight(Client(d))' = Tail(g) /\ Flight(Server(d))' = Flight(Server(d))
        BY <1>9, <1>11, <2>1, <2>4
      <3>2. ~Silent(d)
        BY <1>11, <3>1 DEF Silent
      <3>3. Posted(d)' <=> Posted(d)
        BY <1>2, <2>2, Zenon DEF Posted
      <3>4. Unanswered(d)' <=> Unanswered(d)
        BY <1>2, <2>2, <3>1, <3>3, Zenon DEF Unanswered
      <3>5. Asked(d) => Asked(d)'
        BY <1>2, <1>14, <2>2, <3>1, <3>4, Zenon DEF Asked
      <3>6. Heard(d) => Heard(d)'
        BY <1>2, <1>14, <2>2, <3>1, <3>4, Zenon DEF Heard
      <3>7. Answered(d) => Answered(d)'
        BY <1>2, <1>14, <2>2, <3>1, <3>3, Zenon DEF Answered
      <3>8. Delivered(d) => Delivered(d)'
        BY <1>2, <1>14, <2>2, <3>1, Zenon DEF Delivered
      <3>9. Streaming(d) => Streaming(d)'
        BY <1>2, <1>15, <2>2, <3>1, Zenon DEF Streaming
      <3>10. QED
        BY <2>1, <3>2, <3>5, <3>6, <3>7, <3>8, <3>9 DEF Phase
    <2>5. CASE Server(d) = e
      <3>1. Flight(Server(d)) = g /\ Flight(Server(d))' = Tail(g) /\ Flight(Client(d))' = Flight(Client(d))
        BY <1>9, <1>11, <2>1, <2>5
      <3>2. ~Unanswered(d)
        BY <1>11, <3>1 DEF Unanswered
      <3>3. Posted(d)' <=> Posted(d)
        BY <1>2, <2>2, Zenon DEF Posted
      <3>4. Answered(d) => Answered(d)'
        BY <1>2, <1>14, <2>2, <3>1, <3>3, Zenon DEF Answered
      <3>5. Delivered(d) => Delivered(d)'
        BY <1>2, <1>14, <2>2, <3>1, Zenon DEF Delivered
      <3>6. Streaming(d) => Streaming(d)'
        BY <1>2, <1>14, <2>2, <3>1, Zenon DEF Streaming
      <3>7. QED
        BY <2>1, <3>2, <3>4, <3>5, <3>6 DEF Phase, Silent, Asked, Heard
    <2>6. QED
      BY <2>3, <2>4, <2>5
  <1>17. PhaseInv'
    BY <1>16 DEF PhaseInv
  <1>18. QED
    BY <1>7, <1>8, <1>12, <1>13, <1>17 DEF IndInv

\* A receive of the server is polled, and receives are posted on the blocks h.
LEMMA ReceivesPolled ==
    ASSUME TypeOK, NEW c \in Clients, Arrived(Server(c)) # <<>>,
           Arrived(Server(c))' = Tail(Arrived(Server(c))), NEW h \in Seq(Block),
           recvs'[Server(c)] = recvs[Server(c)] \o h
    PROVE  Receives(c) # <<>> /\ Receives(c)' = Tail(Receives(c)) \o h
  <1> DEFINE q == Arrived(Server(c))
             a == BlocksOf(q)
             r == recvs[Server(c)]
  <1>1. q \in Seq(Completion) /\ r \in Seq(Block) /\ q # <<>>
    BY ViewTypes, EndFacts
  <1>2. a \in Seq(Block)
    BY <1>1, RecordTypes, BlocksOfFacts
  <1>3. a # <<>> /\ BlocksOf(Tail(q)) = Tail(a)
    BY <1>1, RecordTypes, BlocksOfTail
  <1>4. Receives(c)' = BlocksOf(Tail(q)) \o (r \o h)
    BY DEF Receives, BlocksOf
  <1>5. Receives(c) = a \o r
    BY DEF Receives
  <1> HIDE DEF a, q, r
  <1>6. a \o r # <<>> /\ Tail(a \o r) = Tail(a) \o r
    BY <1>1, <1>2, <1>3, TailConcat
  <1>7. PICK t \in Seq(Block) : t = Tail(a)
    BY <1>2, <1>3, HeadTailProperties
  <1>8. (t \o r) \o h = t \o (r \o h)
    <2>1. PICK S : S = Block
      OBVIOUS
    <2>2. t \in Seq(S) /\ r \in Seq(S) /\ h \in Seq(S)
      BY <1>1, <2>1
    <2>3. QED
      BY <2>2, ConcatAssociative
  <1>9. QED
    BY <1>3, <1>4, <1>5, <1>6, <1>7, <1>8

LEMMA ServerRecvStep == ASSUME IndInv, NEW c \in Clients, ServerRecv(c) PROVE IndInv'
  <1>1. TypeOK
    BY DEF IndInv
  <1>2. PICK e : e = Server(c)
    OBVIOUS
  <1>3. e \in End /\ Owner(e) = "server" /\ Client(c) \in End /\ Client(c) # e
    BY <1>2, EndFacts
  <1>4. PICK n \in Counter, slast \in Counter, m \in Counter, last \in Counter :
           n = ring[e].snext /\ slast = ring[e].slast /\ m = ring[e].rnext /\ last = ring[e].rlast
    BY <1>1, <1>3, ViewTypes
  <1>5. PICK r : r = Requests("SEND", Handed(n, 1))
    OBVIOUS
  <1>6. /\ Polled(Owner(e), e, "RECV")
        /\ ring' = [ring EXCEPT ![e] = [snext |-> Inc(n), slast |-> slast,
                                        rnext |-> Inc(m), rlast |-> Inc(last)]]
        /\ sendmem' = [sendmem EXCEPT ![e][BlockOf(Inc(n))] = "desc"]
        /\ sq' = [sq EXCEPT ![e] = @ \o r]
        /\ recvs' = [recvs EXCEPT ![e] = @ \o Handed(m, 1)]
        /\ UNCHANGED <<stage, syncing, said, recvmem, peer_comm, unacked>>
    <2>1. Polled("server", e, "RECV")
      BY <1>2 DEF ServerRecv
    <2>2. ring' = [ring EXCEPT ![e] = [snext |-> Inc(n), slast |-> slast,
                                       rnext |-> Inc(m), rlast |-> Inc(last)]]
      BY <1>2, <1>4 DEF ServerRecv
    <2>3. /\ sendmem' = [sendmem EXCEPT ![e][BlockOf(Inc(n))] = "desc"]
          /\ sq' = [sq EXCEPT ![e] = @ \o r]
          /\ recvs' = [recvs EXCEPT ![e] = @ \o Handed(m, 1)]
          /\ UNCHANGED <<stage, syncing, said, recvmem, peer_comm, unacked>>
      BY <1>2, <1>4, <1>5 DEF ServerRecv
    <2>4. QED
      BY <1>3, <2>1, <2>2, <2>3
  <1>7. /\ Inc(n) \in Counter /\ Inc(m) \in Counter /\ Inc(last) \in Counter
        /\ Inc(n) = (n + 1) % IntRange /\ Inc(m) = (m + 1) % IntRange
    BY CounterTypes
  <1>8. /\ r \in Seq(Request) /\ Len(r) = 1 /\ \A i \in 1..1 : r[i].op = "SEND"
        /\ r[1].block = Handed(n, 1)[1]
    <2>1. "SEND" \in SendOps
      BY RecordTypes
    <2>2. QED
      BY <1>5, <2>1, PostedOne
  <1>9. Handed(m, 1) \in Seq(Block) /\ Len(Handed(m, 1)) = 1
    <2>1. 1 \in Nat
      OBVIOUS
    <2>2. QED
      BY <2>1, HandedFacts
  <1>10. /\ ring'[e] = [snext |-> Inc(n), slast |-> slast, rnext |-> Inc(m), rlast |-> Inc(last)]
         /\ sq'[e] = sq[e] \o r /\ recvs'[e] = recvs[e] \o Handed(m, 1)
         /\ \A f \in End : f # e => /\ ring'[f] = ring[f] /\ sq'[f] = sq[f]
                                    /\ recvs'[f] = recvs[f] /\ sendmem'[f] = sendmem[f]
    BY <1>1, <1>3, <1>6 DEF TypeOK
  <1>11. /\ ring'[e].snext = Inc(n) /\ ring'[e].slast = slast
         /\ ring'[e].rnext = Inc(m) /\ ring'[e].rlast = Inc(last) /\ ring'[e] \in Ring
    BY <1>7, <1>10 DEF Ring
  <1>12. /\ Arrived(e) # <<>> /\ Arrived(e)' = Tail(Arrived(e))
         /\ \A f \in End : /\ f # e => Arrived(f)' = Arrived(f)
                           /\ Done(f, SendOps)' = Done(f, SendOps)
    BY <1>1, <1>3, <1>6, PolledReceive
  <1>13. Heard(c)
    BY <1>2, <1>12 DEF IndInv, PhaseInv, Phase, Silent, Asked, Answered, Delivered, Streaming
  <1>14. n = MinusOne /\ Flight(e) = <<>> /\ Posted(c)
    BY <1>2, <1>4, <1>13 DEF Heard, Unanswered
  <1>15. BlockOf(Inc(n)) = 0 /\ r[1].block = 0
    BY <1>8, <1>14, FirstBlock
  <1>16. TypeOK'
    <2>1. ring' \in [End -> Ring]
      <3>1. ring \in [End -> Ring]
        BY <1>1 DEF TypeOK
      <3>2. QED
        BY <1>6, <1>10, <1>11, <3>1
    <2>2. sq' \in [End -> Seq(Request)]
      <3>1. sq \in [End -> Seq(Request)] /\ sq[e] \o r \in Seq(Request)
        BY <1>1, <1>3, <1>8, ConcatProperties DEF TypeOK
      <3>2. QED
        BY <1>6, <3>1
    <2>3. recvs' \in [End -> Seq(Block)]
      <3>1. recvs \in [End -> Seq(Block)] /\ recvs[e] \o Handed(m, 1) \in Seq(Block)
        BY <1>1, <1>3, <1>9, ConcatProperties DEF TypeOK
      <3>2. QED
        BY <1>6, <3>1
    <2>4. sendmem' \in [End -> [Block -> Content]]
      <3>1. sendmem \in [End -> [Block -> Content]] /\ "desc" \in Content
        BY <1>1 DEF TypeOK, Content
      <3>2. [sendmem[e] EXCEPT ![0] = "desc"] \in [Block -> Content]
        BY <1>3, <3>1, Constants
      <3>3. QED
        BY <1>6, <1>15, <3>1, <3>2
    <2>5. cq' \in [Thread -> Seq(Completion)]
      BY <1>1, <1>3, <1>6, EndFacts, PolledType
    <2>6. said' \in [End -> BOOLEAN]
      BY <1>1, <1>6 DEF TypeOK
    <2>7. QED
      BY <1>1, <1>6, <2>1, <2>2, <2>3, <2>4, <2>5, <2>6 DEF TypeOK
  <1>17. SyncInv'
    BY <1>6 DEF IndInv, SyncInv
  <1>18. Flight(e)' = Flight(e) \o r /\ \A f \in End : f # e => Flight(f)' = Flight(f)
    <2>1. Flight(e)' = Flight(e) \o r
      BY <1>1, <1>3, <1>6, <1>8, <1>10, <1>12, FlightPosted
    <2>2. \A f \in End : f # e => Flight(f)' = Flight(f)
      BY <1>6, <1>10, <1>12, FlightSame
    <2>3. QED
      BY <2>1, <2>2
  <1>19. RingInv'
    <2> SUFFICES ASSUME NEW f \in End
                 PROVE  OnRing(BlocksOf(Flight(f)), ring[f].slast, ring[f].snext)'
      BY DEF RingInv
    <2>1. OnRing(BlocksOf(Flight(f)), ring[f].slast, ring[f].snext)
      BY DEF IndInv, RingInv
    <2>2. CASE f = e
      <3>1. PICK g : g = Flight(e)
        OBVIOUS
      <3>2. PICK k \in Nat : k = 1
        OBVIOUS
      <3>3. g \in Seq(Request) /\ OnRing(BlocksOf(g), slast, n)
        BY <1>1, <1>3, <1>4, <2>1, <2>2, <3>1, ViewTypes
      <3>4. OnRing(BlocksOf(g \o Requests("SEND", Handed(n, k))), slast, (n + k) % IntRange)
        BY <3>3, RecordTypes, PostRing
      <3>5. OnRing(BlocksOf(g \o r), slast, Inc(n))
        BY <1>5, <1>7, <3>2, <3>4
      <3>6. QED
        BY <1>11, <1>18, <2>2, <3>1, <3>5, RingPrime
    <2>3. CASE f # e
      BY <1>10, <1>18, <2>1, <2>3, RingSame
    <2>4. QED
      BY <2>2, <2>3
  <1>20. ASSUME NEW d \in Clients
         PROVE  /\ OnRing(Receives(d), ring[Server(d)].rlast, ring[Server(d)].rnext)'
                /\ Len(Receives(d))' = IF stage'["server"] = "start" THEN 0 ELSE NUM_BLOCK
    <2>1. Server(d) \in End
      BY EndFacts
    <2>2. CASE Server(d) = e
      <3>1. PICK b, h : b = Receives(d) /\ h = Handed(m, 1)
        OBVIOUS
      <3>2. stage["server"] = "running" /\ stage'["server"] = "running"
        BY <1>3, <1>6 DEF Polled
      <3>3. b \in Seq(Block) /\ OnRing(b, last, m) /\ Len(b) = NUM_BLOCK
        BY <1>1, <1>4, <2>2, <3>1, <3>2, ViewTypes DEF IndInv, RecvInv
      <3>4. h \in Seq(Block) /\ Len(h) = 1
        BY <1>9, <3>1
      <3>5. b # <<>> /\ Receives(d)' = Tail(b) \o h
        BY <1>1, <1>10, <1>12, <2>2, <3>1, <3>4, ReceivesPolled
      <3>6. OnRing(Tail(b), Inc(last), m) /\ Tail(b) \in Seq(Block) /\ Len(Tail(b)) = NUM_BLOCK - 1
        BY <3>3, <3>5, RingTake, HeadTailProperties
      <3>7. PICK t \in Seq(Block) : t = Tail(b)
        BY <3>6
      <3>8. PICK k \in Nat : k = 1
        OBVIOUS
      <3>9. OnRing(t \o Handed(m, k), Inc(last), (m + k) % IntRange)
        BY <1>7, <3>6, <3>7, RingPost
      <3>10. OnRing(t \o h, Inc(last), Inc(m))
        BY <1>7, <3>1, <3>8, <3>9
      <3>11. Len(t \o h) = NUM_BLOCK
        <4>1. Len(t \o h) = Len(t) + Len(h)
          BY <3>4, ConcatProperties
        <4>2. QED
          BY <4>1, <3>4, <3>6, <3>7, Constants
      <3>12. ring'[Server(d)].rlast = Inc(last) /\ ring'[Server(d)].rnext = Inc(m)
        BY <1>11, <2>2
      <3>13. QED
        BY <3>2, <3>5, <3>7, <3>10, <3>11, <3>12 DEF OnRing
    <2>3. CASE Server(d) # e
      BY <1>6, <1>10, <1>12, <2>1, <2>3, RecvFrame
    <2>4. QED
      BY <2>2, <2>3
  <1>21. Phase(c)'
    <2>1. <<>> \o r = r
      BY <1>8, ConcatEmptySeq
    <2>2. sq[e] = <<>>
      BY <1>1, <1>3, <1>14, HeadOfQueue
    <2>3. Flight(e)' = r /\ sq'[e] = r /\ Asking(r)
      BY <1>8, <1>10, <1>14, <1>18, <2>1, <2>2 DEF Asking
    <2>4. Arrived(e)' = <<>>
      <3>1. PICK a \in Seq(Completion) : a = Arrived(e)
        BY <1>1, <1>3, ViewTypes
      <3>2. Len(a) = 1 /\ a # <<>>
        BY <1>2, <1>12, <1>13, <3>1 DEF Heard
      <3>3. Tail(a) \in Seq(Completion) /\ Len(Tail(a)) = 0
        BY <3>2, HeadTailProperties
      <3>4. Tail(a) = <<>>
        BY <3>3, EmptySeq
      <3>5. QED
        BY <1>12, <3>1, <3>4
    <2>5. sendmem'[e][0] = "desc"
      BY <1>1, <1>3, <1>6, <1>15, Constants DEF TypeOK
    <2>6. /\ Flight(Client(c))' = Flight(Client(c)) /\ Arrived(Client(c))' = Arrived(Client(c))
          /\ sq'[Client(c)] = sq[Client(c)] /\ recvs'[Client(c)] = recvs[Client(c)]
          /\ ring'[Client(c)] = ring[Client(c)] /\ stage' = stage /\ peer_comm' = peer_comm
      BY <1>3, <1>6, <1>10, <1>12, <1>18
    <2>7. Posted(c)'
      BY <1>14, <2>6 DEF Posted
    <2>8. Len(sq'[Server(c)]) = 1 /\ sq'[Server(c)][1].block = 0 /\ Asking(Flight(Server(c))')
      BY <1>2, <1>8, <1>15, <2>3
    <2>9. Answered(c)'
      BY <1>2, <1>13, <2>4, <2>5, <2>6, <2>7, <2>8 DEF Heard, Unanswered, Answered, Asking
    <2>10. QED
      BY <2>9 DEF Phase
  <1>22. ASSUME NEW d \in Clients, d # c PROVE Phase(d)'
    <2>1. Client(d) \in End /\ Server(d) \in End /\ Client(d) # e /\ Server(d) # e
      BY <1>2, <1>22, EndFacts
    <2>2. Apart(d)
      BY <1>6, <1>10, <1>12, <1>18, <2>1 DEF Apart
    <2>3. QED
      BY <2>2, PhaseSame DEF IndInv, PhaseInv
  <1>23. RecvInv' /\ PhaseInv'
    <2>1. \A d \in Clients : Phase(d)'
      BY <1>21, <1>22
    <2>2. QED
      BY <1>20, <2>1 DEF RecvInv, PhaseInv
  <1>24. QED
    BY <1>16, <1>17, <1>19, <1>23 DEF IndInv

LEMMA ClientRecvStep == ASSUME IndInv, NEW c \in Clients, ClientRecv(c) PROVE IndInv'
  <1>1. TypeOK
    BY DEF IndInv
  <1>2. PICK e : e = Client(c)
    OBVIOUS
  <1>3. e \in End /\ Owner(e) = c /\ c \in Thread /\ Server(c) \in End /\ Server(c) # e
    BY <1>2, EndFacts
  <1>4. PICK n \in Counter, slast \in Counter, m \in Counter, last \in Counter :
           n = ring[e].snext /\ slast = ring[e].slast /\ m = ring[e].rnext /\ last = ring[e].rlast
    BY <1>1, <1>3, ViewTypes
  <1>5. PICK r, next : r = Requests("WRITE", Handed(n, Burst)) /\ next = (n + Burst) % IntRange
    OBVIOUS
  <1>6. /\ Polled(Owner(e), e, "RECV")
        /\ peer_comm' = [peer_comm EXCEPT ![c] = recvmem[c][ReadBlock(m)]]
        /\ ring' = [ring EXCEPT ![e] = [snext |-> next, slast |-> slast,
                                        rnext |-> Inc(m), rlast |-> Inc(last)]]
        /\ sq' = [sq EXCEPT ![e] = @ \o r]
        /\ UNCHANGED <<stage, syncing, said, sendmem, recvmem, recvs, unacked>>
    <2>1. Polled(c, e, "RECV")
      BY <1>2 DEF ClientRecv
    <2>2. ring' = [ring EXCEPT ![e] = [snext |-> next, slast |-> slast,
                                       rnext |-> Inc(m), rlast |-> Inc(last)]]
      BY <1>2, <1>4, <1>5 DEF ClientRecv
    <2>3. /\ peer_comm' = [peer_comm EXCEPT ![c] = recvmem[c][ReadBlock(m)]]
          /\ sq' = [sq EXCEPT ![e] = @ \o r]
          /\ UNCHANGED <<stage, syncing, said, sendmem, recvmem, recvs, unacked>>
      BY <1>2, <1>4, <1>5 DEF ClientRecv
    <2>4. QED
      BY <1>3, <2>1, <2>2, <2>3
  <1>7. Burst \in Nat
    BY Constants DEF Burst
  <1>8. Inc(m) \in Counter /\ Inc(last) \in Counter /\ next \in Counter
    <2>1. n + Burst \in Nat
      BY <1>7, CounterTypes
    <2>2. QED
      BY <1>5, <2>1, CounterTypes
  <1>9. r \in Seq(Request) /\ Len(r) = Burst /\ \A i \in 1..Burst : r[i].op = "WRITE"
    BY <1>5, <1>7, RecordTypes, PostedRequests
  <1>10. /\ ring'[e] = [snext |-> next, slast |-> slast, rnext |-> Inc(m), rlast |-> Inc(last)]
         /\ sq'[e] = sq[e] \o r
         /\ \A f \in End : f # e => ring'[f] = ring[f] /\ sq'[f] = sq[f]
         /\ \A d \in Clients : d # c => peer_comm'[d] = peer_comm[d]
         /\ peer_comm'[c] = recvmem[c][ReadBlock(m)]
    BY <1>1, <1>3, <1>6 DEF TypeOK
  <1>11. ring'[e].snext = next /\ ring'[e].slast = slast /\ ring'[e] \in Ring
    BY <1>8, <1>10 DEF Ring
  <1>12. /\ Arrived(e) # <<>> /\ Arrived(e)' = Tail(Arrived(e))
         /\ \A f \in End : /\ f # e => Arrived(f)' = Arrived(f)
                           /\ Done(f, SendOps)' = Done(f, SendOps)
    BY <1>1, <1>3, <1>6, PolledReceive
  <1>13. Delivered(c)
    BY <1>2, <1>12
    DEF IndInv, PhaseInv, Phase, Silent, Asked, Heard, Unanswered, Answered, Streaming
  <1>14. peer_comm'[c] = "desc"
    <2>1. m = FullNext /\ recvmem[c][0] = "desc"
      BY <1>2, <1>4, <1>13 DEF Delivered
    <2>2. QED
      BY <1>10, <2>1, FirstBlock
  <1>15. TypeOK'
    <2>1. ring' \in [End -> Ring]
      <3>1. ring \in [End -> Ring]
        BY <1>1 DEF TypeOK
      <3>2. QED
        BY <1>6, <1>10, <1>11, <3>1
    <2>2. sq' \in [End -> Seq(Request)]
      <3>1. sq \in [End -> Seq(Request)] /\ sq[e] \o r \in Seq(Request)
        BY <1>1, <1>3, <1>9, ConcatProperties DEF TypeOK
      <3>2. QED
        BY <1>6, <3>1
    <2>3. peer_comm' \in [Clients -> Content \cup {"unset"}]
      <3>1. peer_comm \in [Clients -> Content \cup {"unset"}] /\ "desc" \in Content
        BY <1>1 DEF TypeOK, Content
      <3>2. QED
        BY <1>6, <1>10, <1>14, <3>1
    <2>4. cq' \in [Thread -> Seq(Completion)]
      BY <1>1, <1>3, <1>6, PolledType
    <2>5. said' \in [End -> BOOLEAN]
      BY <1>1, <1>6 DEF TypeOK
    <2>6. QED
      BY <1>1, <1>6, <2>1, <2>2, <2>3, <2>4, <2>5 DEF TypeOK
  <1>16. SyncInv'
    BY <1>6 DEF IndInv, SyncInv
  <1>17. Flight(e)' = Flight(e) \o r /\ \A f \in End : f # e => Flight(f)' = Flight(f)
    <2>1. Flight(e)' = Flight(e) \o r
      BY <1>1, <1>3, <1>6, <1>9, <1>10, <1>12, FlightPosted
    <2>2. \A f \in End : f # e => Flight(f)' = Flight(f)
      BY <1>6, <1>10, <1>12, FlightSame
    <2>3. QED
      BY <2>1, <2>2
  <1>18. PICK g \in Seq(Request) : g = Flight(e)
    BY <1>1, <1>3, ViewTypes
  <1>19. RingInv'
    <2> SUFFICES ASSUME NEW f \in End
                 PROVE  OnRing(BlocksOf(Flight(f)), ring[f].slast, ring[f].snext)'
      BY DEF RingInv
    <2>1. OnRing(BlocksOf(Flight(f)), ring[f].slast, ring[f].snext)
      BY DEF IndInv, RingInv
    <2>2. CASE f = e
      <3>1. OnRing(BlocksOf(g), slast, n)
        BY <1>4, <1>18, <2>1, <2>2
      <3>2. OnRing(BlocksOf(g \o r), slast, next)
        BY <1>5, <1>7, <3>1, RecordTypes, PostRing
      <3>3. QED
        BY <1>11, <1>17, <1>18, <2>2, <3>2, RingPrime
    <2>3. CASE f # e
      BY <1>10, <1>17, <2>1, <2>3, RingSame
    <2>4. QED
      BY <2>2, <2>3
  <1>20. RecvInv'
    <2>1. \A d \in Clients : Server(d) \in End /\ Server(d) # e
      BY <1>2, EndFacts
    <2>2. QED
      BY <1>6, <1>10, <1>12, <2>1, RecvFrame DEF RecvInv
  <1>21. Phase(c)'
    <2>1. Writing(g \o r)
      BY <1>2, <1>5, <1>13, <1>18, WritingStarts DEF Delivered
    <2>2. sq'[e] = r
      <3>1. <<>> \o r = r
        BY <1>9, ConcatEmptySeq
      <3>2. sq[e] = <<>>
        BY <1>2, <1>13 DEF Delivered
      <3>3. QED
        BY <1>10, <3>1, <3>2
    <2>3. Arrived(e)' = <<>>
      <3>1. PICK a \in Seq(Completion) : a = Arrived(e)
        BY <1>1, <1>3, ViewTypes
      <3>2. Len(a) = 1 /\ a # <<>>
        BY <1>2, <1>12, <1>13, <3>1 DEF Delivered
      <3>3. Tail(a) \in Seq(Completion) /\ Len(Tail(a)) = 0
        BY <3>2, HeadTailProperties
      <3>4. Tail(a) = <<>>
        BY <3>3, EmptySeq
      <3>5. QED
        BY <1>12, <3>1, <3>4
    <2>4. /\ Flight(Server(c))' = Flight(Server(c)) /\ Arrived(Server(c))' = Arrived(Server(c))
          /\ sq'[Server(c)] = sq[Server(c)] /\ stage' = stage
      BY <1>3, <1>6, <1>10, <1>12, <1>17
    <2>5. /\ Writing(Flight(Client(c))') /\ Arrived(Client(c))' = <<>>
          /\ \A k \in 1..Len(sq'[Client(c)]) : sq'[Client(c)][k].op = "WRITE"
      BY <1>2, <1>9, <1>17, <1>18, <2>1, <2>2, <2>3
    <2>6. Streaming(c)'
      BY <1>13, <1>14, <2>4, <2>5 DEF Delivered, Streaming, Asking, Writing
    <2>7. QED
      BY <2>6 DEF Phase
  <1>22. ASSUME NEW d \in Clients, d # c PROVE Phase(d)'
    <2>1. Client(d) \in End /\ Server(d) \in End /\ Client(d) # e /\ Server(d) # e
      BY <1>2, <1>22, EndFacts
    <2>2. Apart(d)
      BY <1>6, <1>10, <1>12, <1>17, <1>22, <2>1 DEF Apart
    <2>3. QED
      BY <2>2, PhaseSame DEF IndInv, PhaseInv
  <1>23. PhaseInv'
    <2>1. \A d \in Clients : Phase(d)'
      BY <1>21, <1>22
    <2>2. QED
      BY <2>1 DEF PhaseInv
  <1>24. QED
    BY <1>15, <1>16, <1>19, <1>20, <1>23 DEF IndInv

LEMMA ClientWriteDoneStep ==
    ASSUME IndInv, NEW c \in Clients, ClientWriteDone(c) PROVE IndInv'
  <1>1. TypeOK
    BY DEF IndInv
  <1>2. PICK e : e = Client(c)
    OBVIOUS
  <1>3. e \in End /\ Owner(e) = c /\ c \in Thread /\ Server(c) \in End /\ Server(c) # e
    BY <1>2, EndFacts
  <1>4. PICK n \in Counter, last \in Counter : n = ring[e].snext /\ last = ring[e].slast
    BY <1>1, <1>3, ViewTypes
  <1>5. PICK r : r = Requests("WRITE", Handed(n, 1))
    OBVIOUS
  <1>6. /\ Polled(Owner(e), e, "WRITE")
        /\ ring' = [ring EXCEPT ![e].slast = Inc(@), ![e].snext = Inc(@)]
        /\ sq' = [sq EXCEPT ![e] = @ \o r]
        /\ UNCHANGED <<stage, syncing, said, sendmem, recvmem, peer_comm, recvs, unacked>>
    BY <1>2, <1>3, <1>4, <1>5 DEF ClientWriteDone
  <1>7. Inc(n) \in Counter /\ Inc(last) \in Counter /\ Inc(n) = (n + 1) % IntRange
    BY CounterTypes
  <1>8. r \in Seq(Request) /\ Len(r) = 1 /\ \A i \in 1..1 : r[i].op = "WRITE"
    <2>1. "WRITE" \in SendOps
      BY RecordTypes
    <2>2. QED
      BY <1>5, <2>1, PostedOne
  <1>9. /\ ring'[e] \in Ring /\ ring'[e].slast = Inc(last) /\ ring'[e].snext = Inc(n)
        /\ ring'[e].rnext = ring[e].rnext /\ ring'[e].rlast = ring[e].rlast
    <2>1. /\ ring[e] \in Ring
          /\ ring'[e] = [[ring[e] EXCEPT !.slast = Inc(last)] EXCEPT !.snext = Inc(n)]
      BY <1>1, <1>3, <1>4, <1>6 DEF TypeOK, Ring
    <2>2. QED
      BY <1>7, <2>1 DEF Ring
  <1>10. /\ sq'[e] = sq[e] \o r
         /\ \A f \in End : f # e => ring'[f] = ring[f] /\ sq'[f] = sq[f]
    BY <1>1, <1>3, <1>6 DEF TypeOK
  <1>11. TypeOK'
    <2>1. ring' \in [End -> Ring]
      <3>1. ring \in [End -> Ring]
        BY <1>1 DEF TypeOK
      <3>2. QED
        BY <1>6, <1>9, <1>10, <3>1
    <2>2. sq' \in [End -> Seq(Request)]
      <3>1. sq \in [End -> Seq(Request)] /\ sq[e] \o r \in Seq(Request)
        BY <1>1, <1>3, <1>8, ConcatProperties DEF TypeOK
      <3>2. QED
        BY <1>6, <3>1
    <2>3. cq' \in [Thread -> Seq(Completion)]
      BY <1>1, <1>3, <1>6, PolledType
    <2>4. said' \in [End -> BOOLEAN]
      BY <1>1, <1>6 DEF TypeOK
    <2>5. QED
      BY <1>1, <1>6, <2>1, <2>2, <2>3, <2>4 DEF TypeOK
  <1>12. SyncInv'
    BY <1>6 DEF IndInv, SyncInv
  <1>13. PICK g \in Seq(Request) : g = Flight(e)
    BY <1>1, <1>3, ViewTypes
  <1>14. /\ g # <<>> /\ g[1].op = "WRITE" /\ Flight(e)' = Tail(g) \o r
         /\ \A f \in End : (f # e => Flight(f)' = Flight(f)) /\ Arrived(f)' = Arrived(f)
    <2>1. "WRITE" \in SendOps /\ unacked' = unacked
      BY <1>6, RecordTypes
    <2>2. /\ Flight(e) # <<>> /\ Flight(e)[1].op = "WRITE" /\ Flight(e)' = Tail(Flight(e)) \o r
          /\ \A f \in End : (f # e => Flight(f)' = Flight(f)) /\ Arrived(f)' = Arrived(f)
      BY <1>1, <1>3, <1>6, <1>8, <1>10, <2>1, PolledRequest
    <2>3. QED
      BY <1>13, <2>2
  <1>15. Streaming(c)
    <2>1. 1 \in 1..Len(g)
      BY <1>14, TailOps
    <2>2. ~Asking(g)
      BY <1>14, <2>1 DEF Asking
    <2>3. QED
      BY <1>2, <1>13, <1>14, <2>2
      DEF IndInv, PhaseInv, Phase, Silent, Asked, Heard, Answered, Delivered
  <1>16. RingInv'
    <2> SUFFICES ASSUME NEW f \in End
                 PROVE  OnRing(BlocksOf(Flight(f)), ring[f].slast, ring[f].snext)'
      BY DEF RingInv
    <2>1. OnRing(BlocksOf(Flight(f)), ring[f].slast, ring[f].snext)
      BY DEF IndInv, RingInv
    <2>2. CASE f = e
      <3>1. OnRing(BlocksOf(g), last, n)
        BY <1>4, <1>13, <2>1, <2>2
      <3>2. PICK t \in Seq(Request) : t = Tail(g) /\ OnRing(BlocksOf(t), Inc(last), n)
        BY <1>14, <3>1, TakeRing
      <3>3. PICK k \in Nat : k = 1
        OBVIOUS
      <3>4. OnRing(BlocksOf(t \o Requests("WRITE", Handed(n, k))), Inc(last), (n + k) % IntRange)
        BY <1>7, <3>2, RecordTypes, PostRing
      <3>5. OnRing(BlocksOf(t \o r), Inc(last), Inc(n))
        BY <1>5, <1>7, <3>3, <3>4
      <3>6. QED
        BY <1>9, <1>14, <2>2, <3>2, <3>5, RingPrime
    <2>3. CASE f # e
      BY <1>10, <1>14, <2>1, <2>3, RingSame
    <2>4. QED
      BY <2>2, <2>3
  <1>17. RecvInv'
    <2>1. \A d \in Clients : Server(d) \in End /\ Server(d) # e
      BY <1>2, EndFacts
    <2>2. QED
      BY <1>6, <1>10, <1>14, <2>1, RecvFrame DEF RecvInv
  <1>18. Phase(c)'
    <2>1. Writing(Tail(g) \o r)
      BY <1>2, <1>5, <1>13, <1>14, <1>15, WritingGoesOn DEF Streaming
    <2>2. \A k \in 1..Len(sq[e] \o r) : (sq[e] \o r)[k].op = "WRITE"
      <3>1. PICK q \in Seq(Request) : q = sq[e]
        BY <1>1, <1>3, ViewTypes
      <3>2. \A k \in 1..Len(q) : q[k].op = "WRITE"
        BY <1>2, <1>15, <3>1 DEF Streaming
      <3>3. /\ Len(q \o r) = Len(q) + Len(r)
            /\ \A i \in 1..(Len(q) + Len(r)) :
                 \/ i \in 1..Len(q) /\ (q \o r)[i] = q[i]
                 \/ ~(i \in 1..Len(q)) /\ i - Len(q) \in 1..Len(r) /\ (q \o r)[i] = r[i - Len(q)]
        BY <1>8, ConcatOps
      <3>4. \A i \in 1..Len(q \o r) : (q \o r)[i].op = "WRITE"
        BY <1>8, <3>2, <3>3
      <3>5. QED
        BY <3>1, <3>4
    <2>3. /\ Writing(Flight(Client(c))')
          /\ \A k \in 1..Len(sq'[Client(c)]) : sq'[Client(c)][k].op = "WRITE"
      BY <1>2, <1>10, <1>14, <2>1, <2>2
    <2>4. /\ Flight(Server(c))' = Flight(Server(c)) /\ Arrived(Server(c))' = Arrived(Server(c))
          /\ Arrived(Client(c))' = Arrived(Client(c)) /\ sq'[Server(c)] = sq[Server(c)]
          /\ stage' = stage /\ peer_comm' = peer_comm
      BY <1>2, <1>3, <1>6, <1>10, <1>14
    <2>5. Streaming(c)'
      BY <1>15, <2>3, <2>4 DEF Streaming, Asking, Writing
    <2>6. QED
      BY <2>5 DEF Phase
  <1>19. ASSUME NEW d \in Clients, d # c PROVE Phase(d)'
    <2>1. Client(d) \in End /\ Server(d) \in End /\ Client(d) # e /\ Server(d) # e
      BY <1>2, <1>19, EndFacts
    <2>2. Apart(d)
      BY <1>6, <1>10, <1>14, <2>1 DEF Apart
    <2>3. QED
      BY <2>2, PhaseSame DEF IndInv, PhaseInv
  <1>20. PhaseInv'
    <2>1. \A d \in Clients : Phase(d)'
      BY <1>18, <1>19
    <2>2. QED
      BY <2>1 DEF PhaseInv
  <1>21. QED
    BY <1>11, <1>12, <1>16, <1>17, <1>20 DEF IndInv

-----------------------------------------------------------------------------
(* The inductive invariant and what it implies *)

LEMMA StepInv == IndInv /\ [Next]_vars => IndInv'
  <1> SUFFICES ASSUME IndInv, [Next]_vars PROVE IndInv'
    OBVIOUS
  <1>1. CASE UNCHANGED vars
    <2>1. /\ UNCHANGED <<ring, sendmem, recvmem, peer_comm, recvs, sq, unacked, cq>>
          /\ stage' = stage /\ syncing' = syncing /\ said' = said
      BY <1>1 DEF vars
    <2>2. TypeOK'
      <3>1. said' \in [End -> BOOLEAN]
        BY <2>1 DEF IndInv, TypeOK
      <3>2. QED
        BY <2>1, <3>1 DEF IndInv, TypeOK
    <2>3. SyncInv'
      BY <2>1 DEF IndInv, SyncInv
    <2>4. RingInv' /\ RecvInv' /\ PhaseInv'
      BY <2>1, SyncFrame
    <2>5. QED
      BY <2>2, <2>3, <2>4 DEF IndInv
  <1>2. CASE ServerStep
    <2>1. CASE PostReceives("server")
      BY <2>1, EndFacts, PostReceivesStep
    <2>2. CASE ServerSyncSend
      BY <2>2, ServerSyncSendStep
    <2>3. CASE ServerSyncRecv
      BY <2>3, ServerSyncRecvStep
    <2>4. ASSUME NEW c \in Clients, SendDone(Server(c)) PROVE IndInv'
      BY <2>4, EndFacts, SendDoneStep
    <2>5. ASSUME NEW c \in Clients, ServerRecv(c) PROVE IndInv'
      BY <2>5, ServerRecvStep
    <2>6. QED
      BY <1>2, <2>1, <2>2, <2>3, <2>4, <2>5 DEF ServerStep
  <1>3. ASSUME NEW c \in Clients, ClientStep(c) PROVE IndInv'
    <2>1. CASE PostReceives(c)
      BY <2>1, EndFacts, PostReceivesStep
    <2>2. CASE ClientSyncSend(c)
      BY <2>2, ClientSyncSendStep
    <2>3. CASE ClientSyncRecv(c)
      BY <2>3, ClientSyncRecvStep
    <2>4. CASE SendDone(Client(c))
      BY <2>4, EndFacts, SendDoneStep
    <2>5. CASE ClientRecv(c)
      BY <2>5, ClientRecvStep
    <2>6. CASE ClientWriteDone(c)
      BY <2>6, ClientWriteDoneStep
    <2>7. QED
      BY <1>3, <2>1, <2>2, <2>3, <2>4, <2>5, <2>6 DEF ClientStep
  <1>4. ASSUME NEW e \in End, Execute(e) \/ Acknowledge(e) PROVE IndInv'
    <2>1. CASE ExecuteSend(e)
      BY <2>1, ExecuteSendStep
    <2>2. CASE ExecuteWrite(e)
      BY <2>2, ExecuteWriteStep
    <2>3. CASE Acknowledge(e)
      BY <2>3, AcknowledgeStep
    <2>4. QED
      BY <1>4, <2>1, <2>2, <2>3 DEF Execute
  <1>5. QED
    BY <1>1, <1>2, <1>3, <1>4 DEF Next

\* What is outstanding are the blocks of what is in flight.
LEMMA OutstandingIs ==
    ASSUME TypeOK, NEW e \in End
    PROVE  Outstanding(e) = BlocksOf(Flight(e))
  <1>1. PICK q, d, u, s : /\ q = Done(e, SendOps) /\ d = RequestsOf(q)
                          /\ u = unacked[e] /\ s = sq[e]
    OBVIOUS
  <1>2. /\ q \in Seq(Completion) /\ \A k \in 1..Len(q) : q[k].op \in SendOps
        /\ d \in Seq(Request) /\ u \in Seq(Request) /\ s \in Seq(Request)
    BY <1>1, FlightFacts, DoneFacts
  <1>3. Flight(e) = (d \o u) \o s
    BY <1>1 DEF Flight
  <1>4. Outstanding(e) = (BlocksOf(q) \o BlocksOf(u)) \o BlocksOf(s)
    BY <1>1 DEF Outstanding, SendOps
  <1>5. BlocksOf(q) = BlocksOf(d)
    <2>1. /\ Len(d) = Len(q)
          /\ \A k \in 1..Len(q) : d[k] = [op |-> q[k].op, block |-> q[k].block]
      BY <1>1, <1>2, RequestsOfFacts
    <2>2. ASSUME NEW k \in 1..Len(q) PROVE d[k].block = q[k].block
      <3>1. d[k] = [op |-> q[k].op, block |-> q[k].block]
        BY <2>1
      <3>2. QED
        BY <3>1
    <2>3. QED
      BY <2>1, <2>2 DEF BlocksOf
  <1>6. \A x \in Request : x.block \in Block
    BY RecordTypes
  <1>7. BlocksOf(d \o u) = BlocksOf(d) \o BlocksOf(u) /\ d \o u \in Seq(Request)
    BY <1>2, <1>6, BlocksOfConcat, ConcatProperties
  <1>8. PICK du \in Seq(Request) : du = d \o u
    BY <1>7
  <1>9. BlocksOf(du \o s) = BlocksOf(du) \o BlocksOf(s)
    BY <1>2, <1>6, BlocksOfConcat
  <1>10. QED
    BY <1>3, <1>4, <1>5, <1>7, <1>8, <1>9

\* No end has more than NUM_BLOCK work requests in flight.
LEMMA FlightBound ==
    ASSUME IndInv, NEW e \in End
    PROVE  Len(Flight(e)) <= NUM_BLOCK
  <1>1. PICK c \in Clients : e = Client(c) \/ e = Server(c)
    BY EndFacts
  <1>2. Flight(e) = <<>> \/ Asking(Flight(e)) \/ Writing(Flight(e))
    BY <1>1 DEF IndInv, PhaseInv, Phase, Silent, Asked, Heard, Unanswered, Answered,
                Delivered, Streaming
  <1>3. PICK n \in Nat : n = Len(Flight(e))
    BY ViewTypes DEF IndInv
  <1>4. n = 0 \/ n <= 1 \/ n = NUM_BLOCK - 1 \/ n = NUM_BLOCK
    <2>1. Flight(e) = <<>> => n = 0
      BY <1>3
    <2>2. Asking(Flight(e)) => n <= 1
      BY <1>3 DEF Asking
    <2>3. Writing(Flight(e)) => n = NUM_BLOCK - 1 \/ n = NUM_BLOCK
      BY <1>3 DEF Writing
    <2>4. QED
      BY <1>2, <2>1, <2>2, <2>3
  <1>5. n <= NUM_BLOCK
    BY <1>4, Constants
  <1>6. QED
    BY <1>3, <1>5

\* The invariant of the mesh service is inductive: between last_active and
\* next_active lie the blocks of the work requests in flight, a server that has
\* posted its receives has NUM_BLOCK of them posted or completed, and a connection
\* goes through its phases in order (mesh_comm_service.cc:96-185, 252-350).
THEOREM MeshInductive == Spec => []IndInv
  <1>1. Init => IndInv
    BY InitInv
  <1>2. IndInv /\ [Next]_vars => IndInv'
    BY StepInv
  <1>3. QED
    BY <1>1, <1>2, PTL DEF Spec

\* The variables keep their types: the counters of a ring stay in their range, and
\* the sync does not go past the last channel (mesh_comm_service.cc:106-110).
THEOREM MeshTypeCorrect == Spec => []TypeOK
  <1>1. IndInv => TypeOK
    BY DEF IndInv
  <1>2. QED
    BY <1>1, MeshInductive, PTL

\* The send queue never overflows, whatever the number of blocks and of clients:
\* the request and NUM_BLOCK - 1 writes fit in (rdma_device.cc:500-507,
\* mesh_comm_service.cc:322-329).
THEOREM SendQueueSafe == Spec => []SendQueueFits
  <1>1. IndInv => SendQueueFits
    <2> SUFFICES ASSUME IndInv, NEW e \in End PROVE Len(Outstanding(e)) <= NUM_BLOCK
      BY DEF SendQueueFits
    <2>1. TypeOK
      BY DEF IndInv
    <2>2. Outstanding(e) = BlocksOf(Flight(e)) /\ Len(BlocksOf(Flight(e))) = Len(Flight(e))
      BY <2>1, OutstandingIs, ViewTypes
    <2>3. QED
      BY <2>2, FlightBound
  <1>2. QED
    BY <1>1, MeshInductive, PTL

\* A completion takes back its own block, also across the wrap of the counters, and
\* no block is handed out while the NIC still uses it (rdma_buffer.h:116-129).
THEOREM RingsSafe == Spec => []RingsFollowQueues
  <1>1. ASSUME IndInv, NEW e \in End PROVE SendRingFollows(e)
    <2>1. TypeOK
      BY <1>1 DEF IndInv
    <2>2. PICK b \in Seq(Block), last \in Counter, next \in Counter :
             b = BlocksOf(Flight(e)) /\ last = ring[e].slast /\ next = ring[e].snext
      BY <2>1, ViewTypes
    <2>3. OnRing(b, last, next)
      BY <1>1, <2>2 DEF IndInv, RingInv
    <2>4. Len(b) < IntRange
      <3>1. PICK n \in Nat : n = Len(b)
        BY LenProperties
      <3>2. n <= NUM_BLOCK
        BY <1>1, <2>1, <2>2, <3>1, FlightBound, ViewTypes
      <3>3. n < IntRange
        BY <3>2, Constants
      <3>4. QED
        BY <3>1, <3>3
    <2>5. b = Handed(last, (next - last) % IntRange)
      BY <2>3, <2>4, RingIs
    <2>6. QED
      BY <2>1, <2>2, <2>5, OutstandingIs DEF SendRingFollows
  <1>2. ASSUME IndInv, NEW c \in Clients PROVE RecvRingFollows(Server(c))
    <2>1. TypeOK
      BY <1>2 DEF IndInv
    <2>2. PICK b \in Seq(Block), last \in Counter, next \in Counter :
             b = Receives(c) /\ last = ring[Server(c)].rlast /\ next = ring[Server(c)].rnext
      BY <2>1, EndFacts, ViewTypes
    <2>3. OnRing(b, last, next) /\ (Len(b) = 0 \/ Len(b) = NUM_BLOCK)
      BY <1>2, <2>2 DEF IndInv, RecvInv
    <2>4. Len(b) < IntRange
      BY <2>3, Constants
    <2>5. b = Handed(last, (next - last) % IntRange)
      BY <2>3, <2>4, RingIs
    <2>6. QED
      BY <2>2, <2>5 DEF RecvRingFollows, Receives, Arrived, RecvOps
  <1>3. IndInv => RingsFollowQueues
    BY <1>1, <1>2 DEF RingsFollowQueues
  <1>4. QED
    BY <1>3, MeshInductive, PTL

\* The client reads the descriptor from the block it landed in, and nothing was
\* written to that block of the server before (mesh_comm_service.cc:313-316).
THEOREM DescriptorSafe == Spec => []DescriptorRead
  <1>1. IndInv => DescriptorRead
    <2> SUFFICES ASSUME IndInv, NEW c \in Clients PROVE peer_comm[c] \in {"unset", "desc"}
      BY DEF DescriptorRead
    <2>1. peer_comm[c] = "unset" \/ peer_comm[c] = "desc"
      BY DEF IndInv, PhaseInv, Phase, Silent, Asked, Heard, Unanswered, Answered,
             Delivered, Streaming
    <2>2. QED
      BY <2>1
  <1>2. QED
    BY <1>1, MeshInductive, PTL

\* Every SEND the NIC executes finds a receive posted at the peer
\* (rdma_device.cc:420, mesh_comm_service.cc:96-110, 252-266).
THEOREM ReceiveReady == Spec => []SendFindsReceive
  <1>1. ASSUME IndInv, NEW c \in Clients, sq[Server(c)] # <<>> PROVE recvs[Client(c)] # <<>>
    <2>1. Answered(c)
      BY <1>1, ServerQueue
    <2>2. recvs[Client(c)] = Full
      BY <2>1 DEF Answered, Posted
    <2>3. Len(Full) > 0
      BY FirstBlock, Constants
    <2>4. QED
      BY <2>2, <2>3
  <1>2. ASSUME IndInv, NEW c \in Clients, sq[Client(c)] # <<>>, Head(sq[Client(c)]).op = "SEND"
        PROVE  recvs[Server(c)] # <<>>
    <2>1. Asked(c)
      BY <1>2, ClientQueue
    <2>2. Arrived(Server(c)) = <<>> /\ stage["server"] # "start"
      BY <1>2, <2>1 DEF Asked, IndInv, SyncInv
    <2>3. Len(Receives(c)) = NUM_BLOCK
      BY <1>2, <2>2 DEF IndInv, RecvInv
    <2>4. PICK a \in Seq(Block), r \in Seq(Block) :
             a = BlocksOf(Arrived(Server(c))) /\ r = recvs[Server(c)] /\ Len(a) = 0
      <3>1. PICK q \in Seq(Completion) : q = Arrived(Server(c)) /\ Len(q) = 0
        BY <2>2, EmptySeq
      <3>2. BlocksOf(q) \in Seq(Block) /\ Len(BlocksOf(q)) = 0
        BY <3>1, RecordTypes, BlocksOfFacts
      <3>3. recvs[Server(c)] \in Seq(Block)
        BY <1>2, EndFacts DEF IndInv, TypeOK
      <3>4. QED
        BY <3>1, <3>2, <3>3
    <2>5. Len(a \o r) = NUM_BLOCK /\ Len(a \o r) = Len(a) + Len(r)
      BY <2>3, <2>4, ConcatProperties DEF Receives
    <2>6. Len(r) # 0
      BY <2>4, <2>5, Constants
    <2>7. QED
      BY <2>4, <2>6
  <1>3. IndInv => SendFindsReceive
    <2> SUFFICES ASSUME IndInv, NEW e \in End, sq[e] # <<>>, Head(sq[e]).op = "SEND"
                 PROVE  recvs[Other(e)] # <<>>
      BY DEF SendFindsReceive
    <2>1. PICK c \in Clients : e = Client(c) \/ e = Server(c)
      BY EndFacts
    <2>2. Other(Client(c)) = Server(c) /\ Other(Server(c)) = Client(c)
      BY EndFacts
    <2>3. QED
      BY <1>1, <1>2, <2>1, <2>2
  <1>4. QED
    BY <1>3, MeshInductive, PTL
=============================================================================
