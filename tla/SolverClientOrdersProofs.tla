---------------------- MODULE SolverClientOrdersProofs ----------------------
(***************************************************************************)
(* Proofs about SolverClientOrders for every set of clients, order ids and *)
(* heap cells, every wait period and batch size, and every bound.          *)
(***************************************************************************)
EXTENDS SolverClientOrders, CollectionTheorems, SequenceTheorems, TLAPS

-----------------------------------------------------------------------------
(***************************************************************************)
(* Facts about sequences.                                                  *)
(***************************************************************************)

\* Draining a prefix (get_order_batch) leaves only elements that were there.
LEMMA SuffixFacts ==
    ASSUME NEW S, NEW s \in Seq(S), NEW n \in Nat, n <= Len(s)
    PROVE  /\ SubSeq(s, n + 1, Len(s)) \in Seq(S)
           /\ \A k \in DOMAIN SubSeq(s, n + 1, Len(s)) :
                \E j \in DOMAIN s : SubSeq(s, n + 1, Len(s))[k] = s[j]
<1>1. Len(s) \in Nat /\ DOMAIN s = 1 .. Len(s)
  BY LenProperties
<1>2. /\ SubSeq(s, n + 1, Len(s)) \in Seq(S)
      /\ Len(SubSeq(s, n + 1, Len(s))) = IF n + 1 <= Len(s) THEN Len(s) - (n + 1) + 1 ELSE 0
      /\ \A k \in 1 .. Len(s) - (n + 1) + 1 :
            SubSeq(s, n + 1, Len(s))[k] = s[n + 1 + k - 1]
  BY <1>1, SubSeqProperties
<1>3. DOMAIN SubSeq(s, n + 1, Len(s)) = 1 .. Len(s) - n
  BY <1>1, <1>2, LenProperties
<1>4. ASSUME NEW k \in 1 .. Len(s) - n
      PROVE  \E j \in DOMAIN s : SubSeq(s, n + 1, Len(s))[k] = s[j]
  <2>1. n + k \in DOMAIN s
    BY <1>1
  <2>2. SubSeq(s, n + 1, Len(s))[k] = s[n + k]
    BY <1>1, <1>2
  <2> QED
    BY <2>1, <2>2
<1> QED
  BY <1>2, <1>3, <1>4

-----------------------------------------------------------------------------
(***************************************************************************)
(* The inductive invariant. QueueHoldsOrders and NoLostNotification need   *)
(* to know that the queues of the solver refer to orders that exist.       *)
(***************************************************************************)
RefsAlive ==
    /\ \A k \in DOMAIN ready_orders : order[ready_orders[k]] # Null
    /\ \A a \in engaged : order[a] # Null

IndInv == TypeOK /\ RefsAlive /\ QueueHoldsOrders /\ NoLostNotification

\* An action that keeps every order where it is, with its client and id, only
\* has to account for the notifications of orders it makes Open.
LEMMA TouchOrders ==
    ASSUME IndInv,
           order' \in [Arcs -> SolverOrder \cup {Null}],
           \A a \in Arcs : order[a] # Null =>
                /\ order'[a] # Null
                /\ order'[a].client = order[a].client
                /\ order'[a].id = order[a].id,
           UNCHANGED <<client_orders, client_order_queues>>
    PROVE  QueueHoldsOrders'
<1> USE DEF IndInv, TypeOK
<1>1. ASSUME NEW c \in Clients, NEW o \in OrderIds, Exists(c, o)
      PROVE  GetClientOrder(c, o) \in Arcs
  BY <1>1 DEF Exists, GetClientOrder
<1>2. ASSUME NEW c \in Clients, NEW o \in OrderIds, Exists(c, o)
      PROVE  /\ order'[GetClientOrder(c, o)] # Null
             /\ order'[GetClientOrder(c, o)].client = c
             /\ order'[GetClientOrder(c, o)].id = o
  <2>1. GetClientOrder(c, o) \in Arcs
    BY <1>1, <1>2
  <2>2. /\ order[GetClientOrder(c, o)] # Null
        /\ order[GetClientOrder(c, o)].client = c
        /\ order[GetClientOrder(c, o)].id = o
    BY <1>2 DEF QueueHoldsOrders
  <2> QED
    BY <2>1, <2>2
<1> QED
  BY <1>2 DEF QueueHoldsOrders, Exists, GetClientOrder

\* The map's entry for an existing id is an allocated cell of that order.
LEMMA MapFacts ==
    ASSUME IndInv, NEW c \in Clients, NEW o \in OrderIds, Exists(c, o)
    PROVE  /\ GetClientOrder(c, o) \in Arcs
           /\ order[GetClientOrder(c, o)] \in SolverOrder
           /\ order[GetClientOrder(c, o)].client = c
           /\ order[GetClientOrder(c, o)].id = o
<1>1. GetClientOrder(c, o) \in Arcs
  BY DEF IndInv, TypeOK, Exists, GetClientOrder
<1> QED
  BY <1>1 DEF IndInv, TypeOK, QueueHoldsOrders

\* The oldest order of a client that has any is in the map.
LEMMA FrontFacts ==
    ASSUME IndInv, NEW c \in Clients, client_order_queues[c] # <<>>
    PROVE  /\ Head(client_order_queues[c]) \in OrderIds
           /\ Exists(c, Head(client_order_queues[c]))
           /\ FrontOrder(c) \in Arcs
           /\ order[FrontOrder(c)] \in SolverOrder
           /\ order[FrontOrder(c)].client = c
           /\ order[FrontOrder(c)].id = Head(client_order_queues[c])
<1> DEFINE q == client_order_queues[c]
<1>1. q \in Seq(OrderIds) /\ q # <<>>
  BY DEF IndInv, TypeOK
<1>2. Head(q) = q[1] /\ 1 \in DOMAIN q /\ Head(q) \in OrderIds
  BY <1>1
<1>3. Exists(c, Head(q))
  BY <1>2 DEF IndInv, QueueHoldsOrders
<1> QED
  BY <1>2, <1>3, MapFacts DEF FrontOrder

\* What NoLostNotification says of client c, now and after a step.
Announced(c) == \E i \in DOMAIN client_notify_queue : client_notify_queue[i] = c

\* An action that leaves map and queues alone keeps NoLostNotification if it
\* announces what it makes Open, and drops the announcement only of a client
\* whose oldest order it takes out of Open.
LEMMA TouchNotify ==
    ASSUME IndInv,
           UNCHANGED <<client_orders, client_order_queues>>,
           \A c \in Clients :
                client_order_queues[c] # <<>> /\ order'[FrontOrder(c)].status = "Open"
                    => \/ Announced(c)'
                       \/ order[FrontOrder(c)].status = "Open" /\ (Announced(c) => Announced(c)')
    PROVE  NoLostNotification'
<1>1. \A c \in Clients : FrontOrder(c)' = FrontOrder(c)
  BY DEF FrontOrder, GetClientOrder
<1>2. ASSUME NEW c \in Clients, client_order_queues[c] # <<>>,
             order'[FrontOrder(c)].status = "Open"
      PROVE  Announced(c)'
  <2>1. CASE order[FrontOrder(c)].status = "Open" /\ (Announced(c) => Announced(c)')
    BY <2>1, <1>2 DEF IndInv, NoLostNotification, Announced
  <2> QED
    BY <2>1, <1>2
<1> QED
  BY <1>1, <1>2 DEF NoLostNotification, Announced

\* Appending a client to the notification queue announces it and keeps the
\* other announcements.
LEMMA NotifyFacts ==
    ASSUME TypeOK, NEW d \in Clients,
           client_notify_queue' = Append(client_notify_queue, d)
    PROVE  /\ client_notify_queue' \in Seq(Clients)
           /\ Announced(d)'
           /\ \A c \in Clients : Announced(c) => Announced(c)'
<1>1. client_notify_queue \in Seq(Clients)
  BY DEF TypeOK
<1>2. client_notify_queue' \in Seq(Clients)
  BY <1>1
<1>3. Len(client_notify_queue) + 1 \in DOMAIN client_notify_queue'
      /\ client_notify_queue'[Len(client_notify_queue) + 1] = d
  BY <1>1
<1>4. \A i \in DOMAIN client_notify_queue :
        i \in DOMAIN client_notify_queue' /\ client_notify_queue'[i] = client_notify_queue[i]
  BY <1>1
<1> QED
  BY <1>2, <1>3, <1>4 DEF Announced

-----------------------------------------------------------------------------
(***************************************************************************)
(* Every action preserves IndInv: one lemma per action.                    *)
(***************************************************************************)
\* A new SolverClientOrders satisfies the invariant.
LEMMA InitIndInv == Init => IndInv
<1> SUFFICES ASSUME Init PROVE IndInv
  OBVIOUS
<1>1. TypeOK
  BY DEF Init, TypeOK
<1>2. RefsAlive
  BY DEF Init, RefsAlive
<1>3. QueueHoldsOrders
  BY DEF Init, QueueHoldsOrders, Exists, GetClientOrder
<1>4. NoLostNotification
  BY DEF Init, NoLostNotification
<1> QED
  BY <1>1, <1>2, <1>3, <1>4 DEF IndInv

\* add_client_order: the new order is the last of its client, which is
\* announced, so every client with an order to serve still is.
LEMMA AddPreserves ==
    ASSUME IndInv, NEW c \in Clients, NEW o \in OrderIds, NEW a \in Arcs, NEW age \in Ages,
           AddClientOrder(c, o, a, age)
    PROVE  IndInv'
<1> DEFINE new == [client |-> c, id |-> o, status |-> "Open", age |-> age, paid |-> FALSE]
           q == client_order_queues[c]
<1>1. new \in SolverOrder /\ new # Null
  <2>1. new \in SolverOrder
    BY DEF SolverOrder, Statuses
  <2> QED
    BY <2>1, NullAssumption
<1>2. order[a] = Null /\ order' = [order EXCEPT ![a] = new]
  BY DEF AddClientOrder
<1> HIDE DEF new
<1>3. q \in Seq(OrderIds) /\ client_order_queues' = [client_order_queues EXCEPT ![c] = Append(q, o)]
  BY DEF AddClientOrder, IndInv, TypeOK
<1>4. /\ client_notify_queue' \in Seq(Clients)
      /\ \A d \in Clients : Announced(d) => Announced(d)'
      /\ q = <<>> => Announced(c)'
  <2>1. CASE q = <<>>
    <3>1. client_notify_queue' = Append(client_notify_queue, c)
      BY <2>1 DEF AddClientOrder, Notify
    <3> QED
      BY <3>1, NotifyFacts DEF IndInv
  <2>2. CASE q # <<>>
    <3>1. client_notify_queue' = client_notify_queue
      BY <2>2 DEF AddClientOrder
    <3> QED
      BY <3>1, <2>2 DEF IndInv, TypeOK, Announced
  <2> QED
    BY <2>1, <2>2
<1>5. TypeOK'
  <2>1. order' \in [Arcs -> SolverOrder \cup {Null}]
    BY <1>1, <1>2 DEF IndInv, TypeOK
  <2>2. client_orders' \in [Clients -> [OrderIds -> Arcs \cup {Null}]]
    BY DEF AddClientOrder, IndInv, TypeOK
  <2>3. client_order_queues' \in [Clients -> Seq(OrderIds)]
    BY <1>3 DEF IndInv, TypeOK
  <2>4. used' \in [Clients -> SUBSET OrderIds]
    BY DEF AddClientOrder, IndInv, TypeOK
  <2> QED
    BY <2>1, <2>2, <2>3, <2>4, <1>4 DEF AddClientOrder, IndInv, TypeOK, pipeVars
<1>6. RefsAlive'
  BY <1>1, <1>2 DEF AddClientOrder, IndInv, TypeOK, RefsAlive, pipeVars
<1>7. \A d \in Clients, p \in OrderIds :
        /\ GetClientOrder(d, p)' = IF d = c /\ p = o THEN a ELSE GetClientOrder(d, p)
        /\ Exists(d, p)' <=> (d = c /\ p = o) \/ Exists(d, p)
  <2>1. a # Null
    BY NullAssumption
  <2>2. client_orders' = [client_orders EXCEPT ![c][o] = a]
    BY DEF AddClientOrder
  <2> QED
    BY <2>1, <2>2 DEF IndInv, TypeOK, GetClientOrder, Exists
<1>8. \A d \in Clients, p \in OrderIds : Exists(d, p) => GetClientOrder(d, p) # a
  BY <1>2, MapFacts, NullAssumption DEF IndInv, QueueHoldsOrders
<1>9. QueueHoldsOrders'
  <2> DEFINE r == Append(q, o)
  <2>1. \A d \in Clients : client_order_queues'[d] = IF d = c THEN r ELSE client_order_queues[d]
    BY <1>3 DEF IndInv, TypeOK
  <2>2. \A i \in DOMAIN q : q[i] # o
    BY DEF AddClientOrder, IndInv, QueueHoldsOrders
  <2>3. /\ DOMAIN r = 1 .. Len(q) + 1
        /\ DOMAIN q = 1 .. Len(q) /\ Len(q) \in Nat
        /\ \A i \in DOMAIN q : r[i] = q[i]
        /\ r[Len(q) + 1] = o
    BY <1>3
  <2> HIDE DEF q, r
  <2>4. ASSUME NEW d \in Clients
        PROVE  \A i, j \in DOMAIN client_order_queues'[d] :
                    client_order_queues'[d][i] = client_order_queues'[d][j] => i = j
    <3>1. CASE d = c
      <4>1. \A i, j \in DOMAIN q : q[i] = q[j] => i = j
        BY DEF IndInv, QueueHoldsOrders, q
      <4>2. \A i, j \in DOMAIN r : r[i] = r[j] => i = j
        BY <4>1, <2>2, <2>3
      <4> QED
        BY <3>1, <4>2, <2>1
    <3>2. CASE d # c
      BY <3>2, <2>1 DEF IndInv, QueueHoldsOrders
    <3> QED
      BY <3>1, <3>2
  <2>5. ASSUME NEW d \in Clients, NEW p \in OrderIds
        PROVE  Exists(d, p)' <=> \E i \in DOMAIN client_order_queues'[d] :
                                    client_order_queues'[d][i] = p
    <3>1. Exists(d, p) <=> \E i \in DOMAIN client_order_queues[d] : client_order_queues[d][i] = p
      BY DEF IndInv, QueueHoldsOrders
    <3>2. CASE d = c
      <4>1. (\E i \in DOMAIN r : r[i] = p) <=> p = o \/ \E i \in DOMAIN q : q[i] = p
        BY <2>3
      <4>2. Exists(c, p) <=> \E i \in DOMAIN q : q[i] = p
        BY <3>1, <3>2 DEF q
      <4> QED
        BY <4>1, <4>2, <3>2, <2>1, <1>7
    <3>3. CASE d # c
      BY <3>1, <3>3, <2>1, <1>7
    <3> QED
      BY <3>2, <3>3
  <2>6. ASSUME NEW d \in Clients, NEW p \in OrderIds, Exists(d, p)'
        PROVE  /\ order'[GetClientOrder(d, p)'] # Null
               /\ order'[GetClientOrder(d, p)'].client = d
               /\ order'[GetClientOrder(d, p)'].id = p
    <3>1. CASE d = c /\ p = o
      <4>1. order'[a] = new
        BY <1>2 DEF IndInv, TypeOK
      <4> QED
        BY <3>1, <4>1, <1>1, <1>7 DEF new
    <3>2. CASE ~(d = c /\ p = o)
      <4>1. /\ Exists(d, p) /\ GetClientOrder(d, p)' = GetClientOrder(d, p)
            /\ GetClientOrder(d, p) # a
        BY <3>2, <2>6, <1>7, <1>8
      <4>2. order'[GetClientOrder(d, p)] = order[GetClientOrder(d, p)]
        BY <4>1, <1>2, MapFacts DEF IndInv, TypeOK
      <4> QED
        BY <4>1, <4>2 DEF IndInv, QueueHoldsOrders
    <3> QED
      BY <3>1, <3>2
  <2> QED
    BY <2>4, <2>5, <2>6 DEF QueueHoldsOrders
<1>10. NoLostNotification'
  <2> SUFFICES ASSUME NEW d \in Clients, client_order_queues'[d] # <<>>,
                      order'[FrontOrder(d)'].status = "Open"
               PROVE  Announced(d)'
    BY DEF NoLostNotification, Announced
  <2>1. CASE d = c /\ q = <<>>
    BY <2>1, <1>4
  <2>2. CASE ~(d = c /\ q = <<>>)
    <3>1. client_order_queues[d] # <<>> /\ Head(client_order_queues'[d]) = Head(client_order_queues[d])
      BY <2>2, <1>3 DEF IndInv, TypeOK
    <3>2. FrontOrder(d)' = FrontOrder(d)
      BY <3>1, <1>7, FrontFacts DEF AddClientOrder, FrontOrder
    <3>3. FrontOrder(d) # a
      BY <3>1, <1>8, FrontFacts DEF FrontOrder
    <3>4. order'[FrontOrder(d)] = order[FrontOrder(d)]
      BY <3>1, <3>3, <1>2, FrontFacts DEF IndInv, TypeOK
    <3> QED
      BY <3>1, <3>2, <3>4, <1>4 DEF IndInv, NoLostNotification, Announced
  <2> QED
    BY <2>1, <2>2
<1> QED
  BY <1>5, <1>6, <1>9, <1>10 DEF IndInv

\* cancel_client_order: map and queue lose the same id, and a client whose
\* next order comes to the front is announced.
LEMMA CancelPreserves ==
    ASSUME IndInv, NEW c \in Clients, NEW o \in OrderIds, CancelClientOrder(c, o)
    PROVE  IndInv'
<1> DEFINE a == GetClientOrder(c, o)
           q == client_order_queues[c]
<1>1. PICK i \in DOMAIN q :
        /\ q[i] = o
        /\ client_order_queues' = [client_order_queues EXCEPT ![c] = RemoveAt(q, i)]
        /\ IF i = 1 /\ Len(q) > 1 THEN Notify(c) ELSE UNCHANGED client_notify_queue
  BY DEF CancelClientOrder
<1> DEFINE r == RemoveAt(q, i)
<1>2. /\ q \in Seq(OrderIds) /\ Len(q) \in Nat /\ DOMAIN q = 1 .. Len(q)
      /\ r \in Seq(OrderIds) /\ DOMAIN r = 1 .. Len(q) - 1 /\ Len(r) = Len(q) - 1
      /\ \A j \in 1 .. Len(q) - 1 : r[j] = IF j < i THEN q[j] ELSE q[j + 1]
  <2>1. q \in Seq(OrderIds) /\ Len(q) \in Nat /\ DOMAIN q = 1 .. Len(q)
    BY LenProperties DEF IndInv, TypeOK
  <2>2. /\ r \in Seq(OrderIds) /\ Len(r) = Len(q) - 1
        /\ \A j \in 1 .. Len(q) - 1 : r[j] = IF j < i THEN q[j] ELSE q[j + 1]
    BY <2>1, <1>1, RemoveAtFacts
  <2>3. DOMAIN r = 1 .. Len(r)
    BY <2>2, LenProperties
  <2> QED
    BY <2>1, <2>2, <2>3
<1>3. \A d \in Clients : client_order_queues'[d] = IF d = c THEN r ELSE client_order_queues[d]
  BY <1>1 DEF IndInv, TypeOK
<1>4. /\ client_notify_queue' \in Seq(Clients)
      /\ \A d \in Clients : Announced(d) => Announced(d)'
      /\ i = 1 /\ Len(q) > 1 => Announced(c)'
  <2>1. CASE i = 1 /\ Len(q) > 1
    <3>1. client_notify_queue' = Append(client_notify_queue, c)
      BY <2>1, <1>1 DEF Notify
    <3> QED
      BY <3>1, NotifyFacts DEF IndInv
  <2>2. CASE ~(i = 1 /\ Len(q) > 1)
    <3>1. client_notify_queue' = client_notify_queue
      BY <2>2, <1>1
    <3> QED
      BY <3>1, <2>2 DEF IndInv, TypeOK, Announced
  <2> QED
    BY <2>1, <2>2
<1>5. /\ a \in Arcs /\ order[a] \in SolverOrder
      /\ order[a].client = c /\ order[a].id = o
  BY MapFacts DEF CancelClientOrder
<1>6. /\ order' \in [Arcs -> SolverOrder \cup {Null}]
      /\ \A b \in Arcs : b # a \/ b \in engaged \cup Range(ready_orders)
                            => order'[b] = order[b]
  BY <1>5 DEF CancelClientOrder, IndInv, TypeOK
<1>7. \A d \in Clients, p \in OrderIds :
        /\ Exists(d, p)' <=> Exists(d, p) /\ ~(d = c /\ p = o)
        /\ Exists(d, p)' => GetClientOrder(d, p)' = GetClientOrder(d, p)
  BY DEF CancelClientOrder, IndInv, TypeOK, Exists, GetClientOrder
<1>8. \A d \in Clients, p \in OrderIds : Exists(d, p)' => GetClientOrder(d, p) # a
  BY <1>5, <1>7, MapFacts
<1> HIDE DEF a, q, r
<1>9. TypeOK'
  <2>1. client_orders' \in [Clients -> [OrderIds -> Arcs \cup {Null}]]
    BY DEF CancelClientOrder, IndInv, TypeOK
  <2>2. client_order_queues' \in [Clients -> Seq(OrderIds)]
    BY <1>1, <1>2 DEF IndInv, TypeOK, r
  <2> QED
    BY <2>1, <2>2, <1>4, <1>6 DEF CancelClientOrder, IndInv, TypeOK, pipeVars
<1>10. RefsAlive'
  BY <1>6 DEF CancelClientOrder, IndInv, TypeOK, RefsAlive, pipeVars, Range
<1>11. QueueHoldsOrders'
  <2>1. \A j, k \in DOMAIN q : q[j] = q[k] => j = k
    BY DEF IndInv, QueueHoldsOrders, q
  <2>2. \A j, k \in DOMAIN r : r[j] = r[k] => j = k
    <3> SUFFICES ASSUME NEW j \in DOMAIN r, NEW k \in DOMAIN r, r[j] = r[k] PROVE j = k
      OBVIOUS
    <3> DEFINE f(x) == IF x < i THEN x ELSE x + 1
    <3>1. f(j) \in DOMAIN q /\ f(k) \in DOMAIN q /\ r[j] = q[f(j)] /\ r[k] = q[f(k)]
      BY <1>1, <1>2
    <3>2. f(j) = f(k)
      BY <3>1, <2>1
    <3> QED
      BY <3>2, <1>1, <1>2
  <2>3. \A p \in OrderIds : (\E j \in DOMAIN r : r[j] = p) <=> p # o /\ \E j \in DOMAIN q : q[j] = p
    <3>1. ASSUME NEW p \in OrderIds, NEW j \in DOMAIN r, r[j] = p
          PROVE  p # o /\ \E k \in DOMAIN q : q[k] = p
      <4> DEFINE k == IF j < i THEN j ELSE j + 1
      <4>1. k \in DOMAIN q /\ r[j] = q[k] /\ k # i
        BY <1>1, <1>2
      <4> QED
        BY <4>1, <3>1, <2>1, <1>1
    <3>2. ASSUME NEW p \in OrderIds, p # o, NEW k \in DOMAIN q, q[k] = p
          PROVE  \E j \in DOMAIN r : r[j] = p
      <4> DEFINE j == IF k < i THEN k ELSE k - 1
      <4>1. k # i
        BY <3>2, <1>1
      <4>2. j \in DOMAIN r /\ r[j] = q[k]
        BY <4>1, <1>1, <1>2
      <4> QED
        BY <4>2, <3>2
    <3> QED
      BY <3>1, <3>2
  <2>4. ASSUME NEW d \in Clients
        PROVE  \A j, k \in DOMAIN client_order_queues'[d] :
                    client_order_queues'[d][j] = client_order_queues'[d][k] => j = k
    BY <2>2, <1>3 DEF IndInv, QueueHoldsOrders
  <2>5. ASSUME NEW d \in Clients, NEW p \in OrderIds
        PROVE  Exists(d, p)' <=> \E j \in DOMAIN client_order_queues'[d] :
                                    client_order_queues'[d][j] = p
    <3>1. Exists(d, p) <=> \E j \in DOMAIN client_order_queues[d] : client_order_queues[d][j] = p
      BY DEF IndInv, QueueHoldsOrders
    <3>2. CASE d = c
      <4>1. Exists(c, p) <=> \E j \in DOMAIN q : q[j] = p
        BY <3>1, <3>2 DEF q
      <4> QED
        BY <4>1, <2>3, <3>2, <1>3, <1>7
    <3>3. CASE d # c
      BY <3>1, <3>3, <1>3, <1>7
    <3> QED
      BY <3>2, <3>3
  <2>6. ASSUME NEW d \in Clients, NEW p \in OrderIds, Exists(d, p)'
        PROVE  /\ order'[GetClientOrder(d, p)'] # Null
               /\ order'[GetClientOrder(d, p)'].client = d
               /\ order'[GetClientOrder(d, p)'].id = p
    <3>1. /\ Exists(d, p) /\ GetClientOrder(d, p)' = GetClientOrder(d, p)
          /\ GetClientOrder(d, p) # a
      BY <2>6, <1>7, <1>8
    <3>2. order'[GetClientOrder(d, p)] = order[GetClientOrder(d, p)]
      BY <3>1, <1>6, MapFacts
    <3> QED
      BY <3>1, <3>2 DEF IndInv, QueueHoldsOrders
  <2> QED
    BY <2>4, <2>5, <2>6 DEF QueueHoldsOrders
<1>12. NoLostNotification'
  <2> SUFFICES ASSUME NEW d \in Clients, client_order_queues'[d] # <<>>,
                      order'[FrontOrder(d)'].status = "Open"
               PROVE  Announced(d)'
    BY DEF NoLostNotification, Announced
  <2>1. CASE d = c /\ i = 1
    <3>1. r # <<>> /\ Len(r) \in Nat
      BY <2>1, <1>2, <1>3
    <3>2. Len(r) > 0
      BY <3>1, <1>2
    <3> QED
      BY <2>1, <3>2, <1>2, <1>4
  <2>2. CASE ~(d = c /\ i = 1)
    <3>1. client_order_queues[d] # <<>> /\ Head(client_order_queues'[d]) = Head(client_order_queues[d])
      <4>1. CASE d # c
        BY <4>1, <1>3
      <4>2. CASE d = c
        <5>1. r # <<>> /\ Len(r) > 0
          BY <4>2, <1>2, <1>3
        <5>2. i > 1
          BY <4>2, <2>2, <1>1, <1>2
        <5>3. Head(r) = r[1] /\ r[1] = q[1] /\ Head(q) = q[1] /\ q # <<>>
          BY <5>1, <5>2, <1>2
        <5> QED
          BY <5>3, <4>2, <1>3 DEF q
      <4> QED
        BY <4>1, <4>2
    <3>2. PICK h \in OrderIds : h = Head(client_order_queues[d])
      BY <3>1, FrontFacts
    <3>3. ~(d = c /\ h = o)
      <4>1. SUFFICES ASSUME d = c, h = o PROVE FALSE
        OBVIOUS
      <4>2. q # <<>> /\ Head(q) = q[1] /\ 1 \in DOMAIN q
        BY <3>1, <4>1, <1>2 DEF q
      <4>3. 1 = i
        BY <3>2, <4>1, <4>2, <1>1 DEF IndInv, QueueHoldsOrders, q
      <4> QED
        BY <4>1, <4>3, <2>2
    <3>4. Exists(d, h)' /\ GetClientOrder(d, h)' = GetClientOrder(d, h)
      BY <3>1, <3>2, <3>3, <1>7, FrontFacts
    <3>5. FrontOrder(d)' = FrontOrder(d) /\ FrontOrder(d) = GetClientOrder(d, h)
      BY <3>1, <3>2, <3>4 DEF FrontOrder, GetClientOrder
    <3>6. order'[FrontOrder(d)] = order[FrontOrder(d)]
      BY <3>1, <3>4, <3>5, <1>6, <1>8, FrontFacts
    <3> QED
      BY <3>1, <3>5, <3>6, <1>4 DEF IndInv, NoLostNotification, Announced
  <2> QED
    BY <2>1, <2>2
<1> QED
  BY <1>9, <1>10, <1>11, <1>12 DEF IndInv

\* The common part of the actions that change status, age or payment of one
\* order of the map and may push it to ready_orders.
LEMMA TouchOnePreserves ==
    ASSUME IndInv, NEW a \in Arcs, order[a] # Null, NEW e \in SolverOrder,
           e.client = order[a].client, e.id = order[a].id,
           order' = [order EXCEPT ![a] = e],
           ready_orders' = ready_orders \/ ready_orders' = Append(ready_orders, a),
           engaged' \in SUBSET engaged,
           client_notify_queue' \in Seq(Clients),
           \A c \in Clients : Announced(c) =>
                \/ Announced(c)'
                \/ client_order_queues[c] # <<>> /\ FrontOrder(c) = a /\ e.status # "Open",
           e.status = "Open" => order[a].status = "Open"
                \/ \E d \in Clients : d = e.client /\ Announced(d)',
           UNCHANGED <<client_orders, client_order_queues, used>>,
           inflight' \in [Clients -> [OrderIds -> [Messages -> Nat]]],
           phase' \in {"idle", "serve", "engage"}
    PROVE  IndInv'
<1>1. e # Null
  BY NullAssumption
<1>2. order' \in [Arcs -> SolverOrder \cup {Null}] /\ order'[a] = e
      /\ \A b \in Arcs \ {a} : order'[b] = order[b]
  BY DEF IndInv, TypeOK
<1>0. /\ ready_orders' \in Seq(Arcs)
      /\ \A k \in DOMAIN ready_orders' :
            \/ ready_orders'[k] = a
            \/ k \in DOMAIN ready_orders /\ ready_orders'[k] = ready_orders[k]
  <2>1. ready_orders \in Seq(Arcs)
    BY DEF IndInv, TypeOK
  <2>2. CASE ready_orders' = ready_orders
    BY <2>1, <2>2
  <2>3. CASE ready_orders' = Append(ready_orders, a)
    BY <2>1, <2>3
  <2> QED
    BY <2>2, <2>3
<1>3. TypeOK'
  BY <1>0, <1>2 DEF IndInv, TypeOK
<1>4. RefsAlive'
  <2>1. ASSUME NEW k \in DOMAIN ready_orders' PROVE order'[ready_orders'[k]] # Null
    <3>1. ready_orders'[k] = a \/ (k \in DOMAIN ready_orders /\ ready_orders'[k] = ready_orders[k])
      BY <1>0
    <3>2. k \in DOMAIN ready_orders => ready_orders[k] \in Arcs /\ order[ready_orders[k]] # Null
      BY DEF IndInv, TypeOK, RefsAlive
    <3> QED
      BY <3>1, <3>2, <1>1, <1>2
  <2> QED
    BY <2>1, <1>1, <1>2 DEF IndInv, RefsAlive, TypeOK
<1>5. QueueHoldsOrders'
  BY <1>1, <1>2, TouchOrders
<1>6. NoLostNotification'
  <2>1. ASSUME NEW c \in Clients, client_order_queues[c] # <<>>,
               order'[FrontOrder(c)].status = "Open"
        PROVE  \/ Announced(c)'
               \/ order[FrontOrder(c)].status = "Open" /\ (Announced(c) => Announced(c)')
    <3>1. FrontOrder(c) \in Arcs /\ order[FrontOrder(c)].client = c
      BY <2>1, FrontFacts
    <3>2. CASE FrontOrder(c) = a
      BY <2>1, <3>1, <3>2, <1>2
    <3>3. CASE FrontOrder(c) # a
      BY <2>1, <3>1, <3>3, <1>2
    <3> QED
      BY <3>2, <3>3
  <2> QED
    BY <2>1, TouchNotify
<1> QED
  BY <1>3, <1>4, <1>5, <1>6 DEF IndInv

\* Facts used with TouchOnePreserves: the notification queue is left alone.
LEMMA SameNotify ==
    ASSUME IndInv, UNCHANGED client_notify_queue
    PROVE  /\ client_notify_queue' \in Seq(Clients)
           /\ \A c \in Clients : Announced(c) => Announced(c)'
BY DEF IndInv, TypeOK, Announced

\* Sending or consuming a message keeps the messages counted.
LEMMA InflightType ==
    ASSUME IndInv, NEW c \in Clients, NEW o \in OrderIds, NEW m \in Messages
    PROVE  /\ Consume(c, o, m) => inflight' \in [Clients -> [OrderIds -> [Messages -> Nat]]]
           /\ Send(c, o, m) => inflight' \in [Clients -> [OrderIds -> [Messages -> Nat]]]
<1> DEFINE n == inflight[c][o][m]
<1>1. n \in Nat /\ inflight \in [Clients -> [OrderIds -> [Messages -> Nat]]]
  BY DEF IndInv, TypeOK
<1>2. ASSUME NEW k \in Nat, inflight' = [inflight EXCEPT ![c][o][m] = k]
      PROVE  inflight' \in [Clients -> [OrderIds -> [Messages -> Nat]]]
  <2>1. [inflight[c][o] EXCEPT ![m] = k] \in [Messages -> Nat]
    BY <1>1
  <2>2. [inflight[c] EXCEPT ![o] = [inflight[c][o] EXCEPT ![m] = k]]
            \in [OrderIds -> [Messages -> Nat]]
    BY <1>1, <2>1
  <2> QED
    BY <1>1, <1>2, <2>2
<1>3. Consume(c, o, m) => n - 1 \in Nat /\ inflight' = [inflight EXCEPT ![c][o][m] = n - 1]
  BY <1>1 DEF Consume
<1>4. Send(c, o, m) => n + 1 \in Nat /\ inflight' = [inflight EXCEPT ![c][o][m] = n + 1]
  BY <1>1 DEF Send
<1> QED
  BY <1>2, <1>3, <1>4

\* Changing status, age and payment leaves an order an order of its client.
LEMMA SetStatusType ==
    ASSUME NEW w \in SolverOrder, NEW st \in Statuses
    PROVE  LET e == [w EXCEPT !.status = st]
           IN  e \in SolverOrder /\ e.client = w.client /\ e.id = w.id /\ e.status = st
BY DEF SolverOrder

\* put_back changes status and age together; the order keeps its type.
LEMMA SetStatusAgeType ==
    ASSUME NEW w \in SolverOrder, NEW st \in Statuses
    PROVE  LET e == [w EXCEPT !.status = st, !.age = 0]
           IN  e \in SolverOrder /\ e.client = w.client /\ e.id = w.id /\ e.status = st
<1>1. 0 \in Ages
  BY WaitAssumption DEF Ages
<1> QED
  BY <1>1 DEF SolverOrder

\* Setting the payment id leaves an order an order.
LEMMA SetPaidType ==
    ASSUME NEW w \in SolverOrder, NEW st \in Statuses
    PROVE  LET e == [w EXCEPT !.paid = TRUE, !.status = st]
           IN  e \in SolverOrder /\ e.client = w.client /\ e.id = w.id /\ e.status = st
BY DEF SolverOrder

\* update_client_order: the client moves to the back of the notification queue,
\* which still holds every client it held.
LEMMA UpdatePreserves ==
    ASSUME IndInv, NEW c \in Clients, NEW o \in OrderIds, UpdateClientOrder(c, o)
    PROVE  IndInv'
<1> DEFINE a == GetClientOrder(c, o)
           e == [order[a] EXCEPT !.age = 0]
<1>1. a \in Arcs /\ order[a] \in SolverOrder /\ order[a] # Null
  BY MapFacts, NullAssumption DEF UpdateClientOrder
<1>2. e \in SolverOrder /\ e.client = order[a].client /\ e.id = order[a].id
      /\ e.status = order[a].status
  BY <1>1, WaitAssumption DEF SolverOrder, Ages
<1>3. order' = [order EXCEPT ![a] = e]
  BY DEF UpdateClientOrder
<1>4. client_notify_queue' \in Seq(Clients) /\ \A d \in Clients : Announced(d) => Announced(d)'
  <2>1. CASE UNCHANGED client_notify_queue
    BY <2>1, SameNotify
  <2>2. ASSUME NEW i \in DOMAIN client_notify_queue, client_notify_queue[i] = c,
               client_notify_queue' = Append(RemoveAt(client_notify_queue, i), c)
        PROVE  client_notify_queue' \in Seq(Clients)
               /\ \A d \in Clients : Announced(d) => Announced(d)'
    <3> DEFINE n == client_notify_queue
               r == RemoveAt(n, i)
    <3>1. /\ n \in Seq(Clients) /\ Len(n) \in Nat /\ DOMAIN n = 1 .. Len(n)
          /\ i \in 1 .. Len(n)
      BY LenProperties DEF IndInv, TypeOK
    <3>2. /\ r \in Seq(Clients) /\ Len(r) = Len(n) - 1
          /\ \A j \in 1 .. Len(n) - 1 : r[j] = IF j < i THEN n[j] ELSE n[j + 1]
      BY <3>1, RemoveAtFacts
    <3> DEFINE t == Append(r, c)
    <3>3. /\ t \in Seq(Clients)
          /\ DOMAIN t = 1 .. Len(r) + 1
          /\ \A j \in 1 .. Len(r) : t[j] = r[j]
          /\ t[Len(r) + 1] = c
      <4> HIDE DEF r
      <4>1. /\ t \in Seq(Clients) /\ Len(t) = Len(r) + 1
            /\ \A j \in 1 .. Len(r) : t[j] = r[j]
            /\ t[Len(r) + 1] = c
        BY <3>2, AppendProperties
      <4> QED
        BY <4>1, LenProperties
    <3> HIDE DEF n, r, t
    <3>4. ASSUME NEW d \in Clients, NEW k \in DOMAIN n, n[k] = d
          PROVE  \E j \in DOMAIN t : t[j] = d
      <4>1. CASE k = i
        <5>1. d = c
          BY <4>1, <3>4, <2>2 DEF n
        <5>2. Len(r) + 1 \in DOMAIN t
          BY <3>1, <3>2, <3>3
        <5> QED
          BY <5>1, <5>2, <3>3
      <4>2. CASE k < i
        <5>0. k \in 1 .. Len(n) - 1 /\ k \in 1 .. Len(r)
          BY <4>2, <3>1, <3>2
        <5>1. k \in DOMAIN t /\ t[k] = n[k]
          BY <4>2, <5>0, <3>2, <3>3
        <5> QED
          BY <5>1, <3>4
      <4>3. CASE k > i
        <5>1. k - 1 \in 1 .. Len(n) - 1 /\ ~(k - 1 < i) /\ k - 1 + 1 = k
          BY <4>3, <3>1
        <5>2. k - 1 \in DOMAIN t /\ t[k - 1] = n[k]
          BY <5>1, <3>1, <3>2, <3>3
        <5> QED
          BY <5>2, <3>4
      <4> QED
        BY <4>1, <4>2, <4>3, <3>1
    <3>5. client_notify_queue' = t
      BY <2>2 DEF n, r, t
    <3> QED
      BY <3>3, <3>4, <3>5 DEF Announced, n
  <2> QED
    BY <2>1, <2>2 DEF UpdateClientOrder, MoveToBack
<1> HIDE DEF a, e
<1> QED
  BY <1>1, <1>2, <1>3, <1>4, TouchOnePreserves
    DEF UpdateClientOrder, pipeVars, IndInv, TypeOK

\* The index order manager's CollateralReady touches one order only.
LEMMA ReadyAckPreserves ==
    ASSUME IndInv, NEW c \in Clients, NEW o \in OrderIds, HandleReadyAck(c, o)
    PROVE  IndInv'
<1>1. inflight' \in [Clients -> [OrderIds -> [Messages -> Nat]]]
  BY InflightType DEF HandleReadyAck, Messages
<1>2. CASE ~Exists(c, o)
  <2>1. UNCHANGED <<order, client_orders, queueVars, pipeVars, used, phase>>
    BY <1>2 DEF HandleReadyAck, Consume, pipeVars
  <2> QED
    BY <2>1, <1>1 DEF IndInv, TypeOK, RefsAlive, QueueHoldsOrders, NoLostNotification,
        Exists, GetClientOrder, FrontOrder, queueVars, pipeVars
<1>3. CASE Exists(c, o)
  <2> DEFINE a == GetClientOrder(c, o)
             e == [order[a] EXCEPT !.status = "Ready", !.age = 0]
  <2>1. a \in Arcs /\ order[a] \in SolverOrder /\ order[a] # Null
    BY <1>3, MapFacts, NullAssumption
  <2>2. e \in SolverOrder /\ e.client = order[a].client /\ e.id = order[a].id
        /\ e.status = "Ready"
    <3>1. "Ready" \in Statuses
      BY DEF Statuses
    <3> QED
      BY <2>1, <3>1, SetStatusAgeType
  <2>3. order' = [order EXCEPT ![a] = e]
        /\ (ready_orders' = ready_orders \/ ready_orders' = Append(ready_orders, a))
    BY <1>3 DEF HandleReadyAck
  <2>4. client_notify_queue' \in Seq(Clients) /\ \A d \in Clients : Announced(d) => Announced(d)'
    BY SameNotify DEF HandleReadyAck, queueVars
  <2> HIDE DEF a, e
  <2> QED
    BY <1>1, <2>1, <2>2, <2>3, <2>4, TouchOnePreserves
      DEF HandleReadyAck, Consume, queueVars, IndInv, TypeOK
<1> QED
  BY <1>2, <1>3

\* CheckLater puts the order back and announces its client, or refuses it.
LEMMA CheckLaterPreserves ==
    ASSUME IndInv, NEW c \in Clients, NEW o \in OrderIds, NEW expired \in BOOLEAN,
           CollateralCheckLater(c, o, expired)
    PROVE  IndInv'
<1>1. inflight' \in [Clients -> [OrderIds -> [Messages -> Nat]]]
  BY InflightType DEF CollateralCheckLater, Messages
<1>2. CASE ~Exists(c, o)
  <2>1. UNCHANGED <<order, client_orders, queueVars, pipeVars, used, phase>>
    BY <1>2 DEF CollateralCheckLater, queueVars
  <2> QED
    BY <2>1, <1>1 DEF IndInv, TypeOK, RefsAlive, QueueHoldsOrders, NoLostNotification,
        Exists, GetClientOrder, FrontOrder, queueVars, pipeVars
<1>3. CASE Exists(c, o)
  <2> DEFINE a == GetClientOrder(c, o)
             failed == [order[a] EXCEPT !.status = "InvalidCollateral"]
             again == [order[a] EXCEPT !.status = "Open", !.age = 0]
  <2>1. a \in Arcs /\ order[a] \in SolverOrder /\ order[a] # Null /\ order[a].client = c
    BY <1>3, MapFacts, NullAssumption
  <2>2. "InvalidCollateral" \in Statuses /\ "Open" \in Statuses
    BY DEF Statuses
  <2>3. CASE SetStatus(a, "InvalidCollateral") /\ UNCHANGED client_notify_queue
    <3>1. failed \in SolverOrder /\ failed.client = order[a].client /\ failed.id = order[a].id
          /\ failed.status = "InvalidCollateral"
      BY <2>1, <2>2, SetStatusType
    <3>2. order' = [order EXCEPT ![a] = failed]
      BY <2>3 DEF SetStatus
    <3>3. client_notify_queue' \in Seq(Clients) /\ \A d \in Clients : Announced(d) => Announced(d)'
      BY <2>3, SameNotify
    <3> HIDE DEF a, failed
    <3> QED
      BY <1>1, <2>1, <3>1, <3>2, <3>3, TouchOnePreserves
        DEF CollateralCheckLater, pipeVars, IndInv, TypeOK
  <2>4. CASE PutBack(a, "Open")
    <3>1. again \in SolverOrder /\ again.client = order[a].client /\ again.id = order[a].id
          /\ again.status = "Open"
      BY <2>1, <2>2, SetStatusAgeType
    <3>2. order' = [order EXCEPT ![a] = again]
      BY <2>4 DEF PutBack
    <3>3. /\ client_notify_queue' \in Seq(Clients)
          /\ Announced(c)'
          /\ \A d \in Clients : Announced(d) => Announced(d)'
      BY <2>1, <2>4, NotifyFacts DEF PutBack, Notify, IndInv
    <3>4. \E d \in Clients : d = again.client /\ Announced(d)'
      BY <2>1, <3>1, <3>3
    <3> HIDE DEF a, again
    <3> QED
      BY <1>1, <2>1, <3>1, <3>2, <3>3, <3>4, TouchOnePreserves
        DEF CollateralCheckLater, pipeVars, IndInv, TypeOK
  <2> QED
    BY <1>3, <2>3, <2>4 DEF CollateralCheckLater
<1> QED
  BY <1>2, <1>3

\* NotReady changes the status of one order only.
LEMMA NotReadyPreserves ==
    ASSUME IndInv, NEW c \in Clients, NEW o \in OrderIds, CollateralNotReady(c, o)
    PROVE  IndInv'
<1>1. inflight' \in [Clients -> [OrderIds -> [Messages -> Nat]]]
  BY InflightType DEF CollateralNotReady, Messages
<1>2. CASE ~Exists(c, o)
  <2>1. UNCHANGED <<order, client_orders, queueVars, pipeVars, used, phase>>
    BY <1>2 DEF CollateralNotReady
  <2> QED
    BY <2>1, <1>1 DEF IndInv, TypeOK, RefsAlive, QueueHoldsOrders, NoLostNotification,
        Exists, GetClientOrder, FrontOrder, queueVars, pipeVars
<1>3. CASE Exists(c, o)
  <2> DEFINE a == GetClientOrder(c, o)
             e == [order[a] EXCEPT !.status = "InvalidCollateral"]
  <2>1. a \in Arcs /\ order[a] \in SolverOrder /\ order[a] # Null
    BY <1>3, MapFacts, NullAssumption
  <2>2. e \in SolverOrder /\ e.client = order[a].client /\ e.id = order[a].id
        /\ e.status = "InvalidCollateral"
    <3>1. "InvalidCollateral" \in Statuses
      BY DEF Statuses
    <3> QED
      BY <2>1, <3>1, SetStatusType
  <2>3. order' = [order EXCEPT ![a] = e]
    BY <1>3 DEF CollateralNotReady, SetStatus
  <2>4. client_notify_queue' \in Seq(Clients) /\ \A d \in Clients : Announced(d) => Announced(d)'
    BY SameNotify DEF CollateralNotReady, queueVars
  <2> HIDE DEF a, e
  <2> QED
    BY <1>1, <2>1, <2>2, <2>3, <2>4, TouchOnePreserves
      DEF CollateralNotReady, queueVars, pipeVars, IndInv, TypeOK
<1> QED
  BY <1>2, <1>3

\* Actions that leave orders, map and queues alone.
LEMMA IdlePreserves ==
    ASSUME IndInv,
           UNCHANGED <<order, client_orders, queueVars, pipeVars, used>>,
           inflight' \in [Clients -> [OrderIds -> [Messages -> Nat]]],
           phase' \in {"idle", "serve", "engage"}
    PROVE  IndInv'
BY DEF IndInv, TypeOK, RefsAlive, QueueHoldsOrders, NoLostNotification,
    Exists, GetClientOrder, FrontOrder, queueVars, pipeVars

\* A completed route only sends messages.
LEMMA RoutedPreserves ==
    ASSUME IndInv, NEW c \in Clients, NEW o \in OrderIds,
           NEW preauth \in BOOLEAN, NEW ready \in BOOLEAN,
           CollateralRouted(c, o, preauth, ready)
    PROVE  IndInv'
<1> DEFINE acks == (IF preauth THEN {"preauth"} ELSE {}) \cup (IF ready THEN {"ready"} ELSE {})
           old == inflight[c][o]
           new == [m \in Messages |-> IF m = "manage" THEN old[m] - 1
                                      ELSE IF m \in acks THEN old[m] + 1 ELSE old[m]]
<1>1. inflight' = [inflight EXCEPT ![c][o] = new]
  BY DEF CollateralRouted
<1>2. old \in [Messages -> Nat] /\ old["manage"] > 0
  BY DEF IndInv, TypeOK, CollateralRouted
<1>3. new \in [Messages -> Nat]
  <2> HIDE DEF acks, old
  <2>1. ASSUME NEW m \in Messages
        PROVE  (IF m = "manage" THEN old[m] - 1
                ELSE IF m \in acks THEN old[m] + 1 ELSE old[m]) \in Nat
    <3>1. old[m] \in Nat
      BY <1>2
    <3> QED
      BY <3>1, <1>2
  <2> QED
    BY <2>1
<1> HIDE DEF new
<1>4. inflight' \in [Clients -> [OrderIds -> [Messages -> Nat]]]
  BY <1>1, <1>3 DEF IndInv, TypeOK
<1> QED
  BY <1>4, IdlePreserves DEF CollateralRouted, IndInv, TypeOK

\* An approved authorisation touches one order only.
LEMMA PreAuthPreserves ==
    ASSUME IndInv, NEW c \in Clients, NEW o \in OrderIds, PreAuthApproved(c, o)
    PROVE  IndInv'
<1>1. inflight' \in [Clients -> [OrderIds -> [Messages -> Nat]]]
  BY InflightType DEF PreAuthApproved, Messages
<1>2. CASE ~Exists(c, o)
  BY <1>1, <1>2, IdlePreserves DEF PreAuthApproved, queueVars, pipeVars, IndInv, TypeOK
<1>3. CASE Exists(c, o)
  <2> DEFINE a == GetClientOrder(c, o)
             st == IF order[a].paid THEN order[a].status ELSE "Ready"
             e == [order[a] EXCEPT !.paid = TRUE, !.status = st]
  <2>1. a \in Arcs /\ order[a] \in SolverOrder /\ order[a] # Null
    BY <1>3, MapFacts, NullAssumption
  <2>2. st \in Statuses
    BY <2>1 DEF SolverOrder, Statuses
  <2>3. e \in SolverOrder /\ e.client = order[a].client /\ e.id = order[a].id
        /\ e.status = st
    BY <2>1, <2>2, SetPaidType
  <2>4. order' = [order EXCEPT ![a] = e]
        /\ (ready_orders' = ready_orders \/ ready_orders' = Append(ready_orders, a))
    BY <1>3 DEF PreAuthApproved
  <2>5. client_notify_queue' \in Seq(Clients) /\ \A d \in Clients : Announced(d) => Announced(d)'
    BY SameNotify DEF PreAuthApproved, queueVars
  <2>6. st = "Open" => order[a].status = "Open"
    OBVIOUS
  <2> HIDE DEF a, e, st
  <2> QED
    BY <1>1, <2>1, <2>3, <2>4, <2>5, <2>6, TouchOnePreserves
      DEF PreAuthApproved, queueVars, pipeVars, IndInv, TypeOK
<1> QED
  BY <1>2, <1>3

\* The order handed out by get_next_client_order leaves Open, so dropping its
\* client's notification loses no wake-up.
LEMMA ServePreserves ==
    ASSUME IndInv, ServeNextClient
    PROVE  IndInv'
<1>1. PICK c \in Clients : c = Head(client_notify_queue)
  BY DEF ServeNextClient, HasNextClientOrder, IndInv, TypeOK
<1>2. client_order_queues[c] # <<>> /\ NextClientOrder = FrontOrder(c)
  BY <1>1 DEF ServeNextClient, HasNextClientOrder, NextClientOrder, FrontOrder
<1> DEFINE a == NextClientOrder
<1>3. /\ a \in Arcs /\ order[a] \in SolverOrder /\ order[a] # Null
      /\ order[a].client = c /\ order[a].id \in OrderIds
  BY <1>2, FrontFacts, NullAssumption
<1>4. /\ client_notify_queue' \in Seq(Clients)
      /\ \A d \in Clients : Announced(d) => Announced(d)' \/ d = c
  <2> DEFINE n == client_notify_queue
  <2>1. n \in Seq(Clients) /\ n # <<>> /\ client_notify_queue' = Tail(n) /\ c = Head(n)
    BY <1>1 DEF ServeNextClient, HasNextClientOrder, IndInv, TypeOK
  <2>2. /\ Tail(n) \in Seq(Clients) /\ DOMAIN n = 1 .. Len(n) /\ Len(n) \in Nat
        /\ DOMAIN Tail(n) = 1 .. Len(n) - 1 /\ n[1] = c
        /\ \A k \in 1 .. Len(n) - 1 : Tail(n)[k] = n[k + 1]
    BY <2>1
  <2>3. ASSUME NEW d \in Clients, NEW i \in DOMAIN n, n[i] = d, d # c
        PROVE  \E k \in DOMAIN Tail(n) : Tail(n)[k] = d
    <3>1. i - 1 \in DOMAIN Tail(n) /\ Tail(n)[i - 1] = n[i - 1 + 1] /\ i - 1 + 1 = i
      BY <2>2, <2>3
    <3> QED
      BY <3>1, <2>3
  <2> QED
    BY <2>1, <2>2, <2>3 DEF Announced
<1>5. /\ engaged' = engaged /\ phase' = phase
      /\ UNCHANGED <<client_orders, client_order_queues, used>>
  BY DEF ServeNextClient
<1>6. ASSUME NEW e \in SolverOrder, e.client = order[a].client, e.id = order[a].id,
             e.status # "Open",
             order' = [order EXCEPT ![a] = e],
             ready_orders' = ready_orders \/ ready_orders' = Append(ready_orders, a),
             inflight' \in [Clients -> [OrderIds -> [Messages -> Nat]]]
      PROVE  IndInv'
  <2>1. \A d \in Clients : Announced(d) =>
            \/ Announced(d)'
            \/ client_order_queues[d] # <<>> /\ FrontOrder(d) = a /\ e.status # "Open"
    BY <1>2, <1>4, <1>6
  <2> HIDE DEF a
  <2> QED
    BY <1>3, <1>4, <1>5, <1>6, <2>1, TouchOnePreserves DEF IndInv, TypeOK
<1>7. "ManageCollateral" \in Statuses /\ "InternalError" \in Statuses
  BY DEF Statuses
<1>8. inflight \in [Clients -> [OrderIds -> [Messages -> Nat]]]
  BY DEF IndInv, TypeOK
<1>9. CASE ServeOpen
  <2>1. CASE SetStatus(a, "ManageCollateral")
             /\ Send(order[a].client, order[a].id, "manage")
    <3> DEFINE e == [order[a] EXCEPT !.status = "ManageCollateral"]
    <3>1. e \in SolverOrder /\ e.client = order[a].client /\ e.id = order[a].id
          /\ e.status = "ManageCollateral"
      BY <1>3, <1>7, SetStatusType
    <3>2. inflight' \in [Clients -> [OrderIds -> [Messages -> Nat]]]
      BY <2>1, <1>3, InflightType DEF Messages
    <3>3. order' = [order EXCEPT ![a] = e] /\ ready_orders' = ready_orders
      BY <2>1, <1>9 DEF SetStatus, ServeOpen
    <3> HIDE DEF e, a
    <3> QED
      BY <3>1, <3>2, <3>3, <1>6
  <2>2. CASE SetStatus(a, "InternalError") /\ UNCHANGED inflight
    <3> DEFINE e == [order[a] EXCEPT !.status = "InternalError"]
    <3>1. e \in SolverOrder /\ e.client = order[a].client /\ e.id = order[a].id
          /\ e.status = "InternalError"
      BY <1>3, <1>7, SetStatusType
    <3>2. order' = [order EXCEPT ![a] = e] /\ ready_orders' = ready_orders
      BY <2>2, <1>9 DEF SetStatus, ServeOpen
    <3> HIDE DEF e, a
    <3> QED
      BY <2>2, <3>1, <3>2, <1>6, <1>8
  <2> QED
    BY <2>1, <2>2, <1>9 DEF ServeOpen
<1>10. CASE ServeReady
  <2>1. order' = [order EXCEPT ![a] = order[a]] /\ order[a].status # "Open"
    BY <1>3, <1>10 DEF ServeReady, IndInv, TypeOK
  <2> QED
    BY <2>1, <1>3, <1>6, <1>8, <1>10 DEF ServeReady
<1>11. CASE ServeUnexpected
  <2> DEFINE e == [order[a] EXCEPT !.status = "InternalError"]
  <2>1. e \in SolverOrder /\ e.client = order[a].client /\ e.id = order[a].id
        /\ e.status = "InternalError"
    BY <1>3, <1>7, SetStatusType
  <2>2. order' = [order EXCEPT ![a] = e] /\ ready_orders' = ready_orders /\ inflight' = inflight
    BY <1>11 DEF SetStatus, ServeUnexpected
  <2> HIDE DEF e, a
  <2> QED
    BY <2>1, <2>2, <1>6, <1>8
<1> QED
  BY <1>9, <1>10, <1>11 DEF ServeNextClient

\* An engagement changes the status of one order and no queue.
LEMMA OrderEngagedPreserves ==
    ASSUME IndInv, NEW a \in Arcs, OrderEngaged(a)
    PROVE  IndInv'
<1> DEFINE e == [order[a] EXCEPT !.status = "Engaged"]
<1>1. order[a] \in SolverOrder /\ order[a] # Null
  BY DEF OrderEngaged, IndInv, TypeOK, RefsAlive
<1>2. e \in SolverOrder /\ e.client = order[a].client /\ e.id = order[a].id
      /\ e.status = "Engaged"
  <2>1. "Engaged" \in Statuses
    BY DEF Statuses
  <2> QED
    BY <1>1, <2>1, SetStatusType
<1>3. order' = [order EXCEPT ![a] = e]
  BY DEF OrderEngaged, SetStatus
<1>4. client_notify_queue' \in Seq(Clients) /\ \A d \in Clients : Announced(d) => Announced(d)'
  BY SameNotify DEF OrderEngaged, queueVars
<1> HIDE DEF e
<1> QED
  BY <1>1, <1>2, <1>3, <1>4, TouchOnePreserves
    DEF OrderEngaged, queueVars, pipeVars, IndInv, TypeOK

\* A batch that continues an order pushes it back to ready_orders.
LEMMA OrderContinuedPreserves ==
    ASSUME IndInv, NEW a \in Arcs, OrderContinued(a)
    PROVE  IndInv'
<1> DEFINE e == [order[a] EXCEPT !.status = "PartlyMintable"]
<1>1. order[a] \in SolverOrder /\ order[a] # Null
  BY DEF OrderContinued, IndInv, TypeOK, RefsAlive
<1>2. e \in SolverOrder /\ e.client = order[a].client /\ e.id = order[a].id
      /\ e.status = "PartlyMintable"
  <2>1. "PartlyMintable" \in Statuses
    BY DEF Statuses
  <2> QED
    BY <1>1, <2>1, SetStatusType
<1>3. order' = [order EXCEPT ![a] = e] /\ ready_orders' = Append(ready_orders, a)
      /\ engaged' \in SUBSET engaged
  BY DEF OrderContinued, SetStatus
<1>4. client_notify_queue' \in Seq(Clients) /\ \A d \in Clients : Announced(d) => Announced(d)'
  BY SameNotify DEF OrderContinued, queueVars
<1> HIDE DEF e
<1> QED
  BY <1>1, <1>2, <1>3, <1>4, TouchOnePreserves
    DEF OrderContinued, queueVars, IndInv, TypeOK

\* Actions that change many orders at once, or free cells, keep the invariant
\* if every order of the map stays, and none of them becomes Open.
LEMMA HeapPreserves ==
    ASSUME IndInv,
           order' \in [Arcs -> SolverOrder \cup {Null}],
           \A b \in Arcs : order[b] # Null =>
                \/ ~InMap(b)
                \/ /\ order'[b] # Null
                   /\ order'[b].client = order[b].client
                   /\ order'[b].id = order[b].id
                   /\ order'[b].status = "Open" => order[b].status = "Open",
           RefsAlive',
           ready_orders' \in Seq(Arcs), engaged' \in SUBSET Arcs,
           client_notify_queue' \in Seq(Clients),
           \A c \in Clients : Announced(c) => Announced(c)',
           UNCHANGED <<client_orders, client_order_queues, used, inflight>>,
           phase' \in {"idle", "serve", "engage"}
    PROVE  IndInv'
<1>1. TypeOK'
  BY DEF IndInv, TypeOK
<1>2. ASSUME NEW c \in Clients, NEW o \in OrderIds, Exists(c, o)
      PROVE  /\ order'[GetClientOrder(c, o)] # Null
             /\ order'[GetClientOrder(c, o)].client = c
             /\ order'[GetClientOrder(c, o)].id = o
             /\ order'[GetClientOrder(c, o)].status = "Open"
                    => order[GetClientOrder(c, o)].status = "Open"
  <2> DEFINE b == GetClientOrder(c, o)
  <2>1. b \in Arcs /\ order[b] # Null /\ order[b].client = c /\ order[b].id = o
    BY <1>2, MapFacts, NullAssumption
  <2>2. InMap(b)
    BY <2>1 DEF InMap, GetClientOrder
  <2> HIDE DEF b
  <2>3. /\ order'[b] # Null
        /\ order'[b].client = order[b].client
        /\ order'[b].id = order[b].id
        /\ order'[b].status = "Open" => order[b].status = "Open"
    BY <2>1, <2>2
  <2> QED
    BY <2>1, <2>3 DEF b
<1>3. QueueHoldsOrders'
  BY <1>2 DEF IndInv, QueueHoldsOrders, Exists, GetClientOrder
<1>4. NoLostNotification'
  <2>1. ASSUME NEW c \in Clients, client_order_queues[c] # <<>>,
               order'[FrontOrder(c)].status = "Open"
        PROVE  order[FrontOrder(c)].status = "Open" /\ (Announced(c) => Announced(c)')
    BY <2>1, <1>2, FrontFacts DEF FrontOrder
  <2> QED
    BY <2>1, TouchNotify
<1> QED
  BY <1>1, <1>3, <1>4 DEF IndInv

\* Freeing the cell of an order that left the map touches no order in it.
LEMMA OrderReleasedPreserves ==
    ASSUME IndInv, NEW a \in Arcs, OrderReleased(a)
    PROVE  IndInv'
<1>1. /\ order' \in [Arcs -> SolverOrder \cup {Null}]
      /\ \A b \in Arcs : order'[b] = order[b] \/ b = a
      /\ InMap(a) \/ a \in Range(ready_orders) => order'[a] = order[a]
  BY DEF OrderReleased, IndInv, TypeOK
<1>2. RefsAlive'
  <2>1. \A k \in DOMAIN ready_orders : ready_orders[k] \in Arcs /\ ready_orders[k] \in Range(ready_orders)
    BY DEF IndInv, TypeOK, Range
  <2>2. ready_orders' = ready_orders /\ engaged' = engaged \ {a} /\ engaged \in SUBSET Arcs
    BY DEF OrderReleased, IndInv, TypeOK
  <2>3. ASSUME NEW k \in DOMAIN ready_orders PROVE order'[ready_orders[k]] # Null
    <3>1. order'[ready_orders[k]] = order[ready_orders[k]]
      BY <2>1, <1>1
    <3> QED
      BY <3>1 DEF RefsAlive, IndInv
  <2>4. ASSUME NEW b \in engaged, b # a PROVE order'[b] # Null
    BY <2>2, <2>4, <1>1 DEF RefsAlive, IndInv
  <2> QED
    BY <2>2, <2>3, <2>4 DEF RefsAlive
<1>3. client_notify_queue' \in Seq(Clients) /\ \A d \in Clients : Announced(d) => Announced(d)'
  BY SameNotify DEF OrderReleased, queueVars
<1>4. ready_orders' \in Seq(Arcs) /\ engaged' \in SUBSET Arcs
      /\ UNCHANGED <<client_orders, client_order_queues, used, inflight>>
      /\ phase' \in {"idle", "serve", "engage"}
  BY DEF OrderReleased, queueVars, IndInv, TypeOK
<1>5. ASSUME NEW b \in Arcs PROVE ~InMap(b) \/ order'[b] = order[b]
  <2>1. CASE b = a
    BY <2>1, <1>1
  <2> QED
    BY <2>1, <1>1
<1> QED
  BY <1>1, <1>2, <1>3, <1>4, <1>5, HeapPreserves

\* Time passing changes the age of orders, not their status.
LEMMA ClockPreserves ==
    ASSUME IndInv, Clock
    PROVE  IndInv'
<1> DEFINE young == {a \in Arcs : order[a] # Null /\ order[a].age < WaitPeriod}
           older(a) == [order[a] EXCEPT !.age = @ + 1]
<1>1. order' = [a \in Arcs |-> IF a \in young THEN older(a) ELSE order[a]]
  BY DEF Clock
<1>2. ASSUME NEW a \in young
      PROVE  /\ older(a) \in SolverOrder /\ older(a) # Null
             /\ older(a).client = order[a].client /\ older(a).id = order[a].id
             /\ older(a).status = order[a].status
  <2>1. PICK w \in SolverOrder : w = order[a]
    BY DEF IndInv, TypeOK
  <2>2. w.age + 1 \in Ages
    <3>1. w.age \in Ages /\ w.age < WaitPeriod
      BY <2>1 DEF SolverOrder
    <3> QED
      BY <3>1, WaitAssumption DEF Ages
  <2>3. LET e == [w EXCEPT !.age = w.age + 1]
        IN  e \in SolverOrder /\ e.client = w.client /\ e.id = w.id /\ e.status = w.status
    BY <2>2 DEF SolverOrder
  <2> QED
    BY <2>1, <2>3, NullAssumption
<1> HIDE DEF older, young
<1>3. order' \in [Arcs -> SolverOrder \cup {Null}]
  BY <1>1, <1>2 DEF IndInv, TypeOK
<1>4. \A b \in Arcs : order[b] # Null =>
            /\ order'[b] # Null
            /\ order'[b].client = order[b].client
            /\ order'[b].id = order[b].id
            /\ order'[b].status = order[b].status
  BY <1>1, <1>2
<1>5. ready_orders' \in Seq(Arcs) /\ engaged' \in SUBSET Arcs
      /\ UNCHANGED <<client_orders, client_order_queues, used, inflight, ready_orders, engaged>>
      /\ phase' \in {"idle", "serve", "engage"}
  BY DEF Clock, queueVars, pipeVars, IndInv, TypeOK
<1>6. RefsAlive'
  BY <1>4, <1>5 DEF RefsAlive, IndInv, TypeOK
<1>7. client_notify_queue' \in Seq(Clients) /\ \A d \in Clients : Announced(d) => Announced(d)'
  BY SameNotify DEF Clock, queueVars
<1> QED
  BY <1>3, <1>4, <1>5, <1>6, <1>7, HeapPreserves

\* engage_more_orders drains a prefix of ready_orders and makes no order Open.
LEMMA EngagePreserves ==
    ASSUME IndInv, NEW n \in 0 .. BatchLen, NEW back \in [1 .. n -> 1 .. BatchLen],
           NEW taken \in SUBSET Arcs, EngageMoreOrders(back, taken)
    PROVE  IndInv'
<1> DEFINE put == {ready_orders[i] : i \in Range(back)}
           batch == {ready_orders[i] : i \in 1 .. BatchLen}
           gone(a) == a \in batch /\ ~InMap(a) /\ a \notin engaged' \cup Range(ready_orders')
           readied(a) == [order[a] EXCEPT !.status = "Ready", !.age = 0]
           more == [i \in 1 .. Len(back) |-> order[ready_orders[back[i]]].client]
<1>1. /\ ready_orders \in Seq(Arcs) /\ Len(ready_orders) \in Nat
      /\ DOMAIN ready_orders = 1 .. Len(ready_orders)
      /\ BatchLen \in Nat /\ BatchLen <= Len(ready_orders)
  <2>1. ready_orders \in Seq(Arcs)
    BY DEF IndInv, TypeOK
  <2> QED
    BY <2>1, BatchAssumption, LenProperties DEF BatchLen
<1>2. \A i \in 1 .. BatchLen : ready_orders[i] \in Arcs /\ order[ready_orders[i]] \in SolverOrder
  <2>1. ASSUME NEW i \in 1 .. BatchLen PROVE i \in DOMAIN ready_orders
    BY <1>1
  <2>2. ASSUME NEW i \in DOMAIN ready_orders
        PROVE  ready_orders[i] \in Arcs /\ order[ready_orders[i]] \in SolverOrder
    <3>1. ready_orders[i] \in Arcs /\ order[ready_orders[i]] # Null
      BY <1>1 DEF IndInv, RefsAlive
    <3> QED
      BY <3>1 DEF IndInv, TypeOK
  <2> QED
    BY <2>1, <2>2
<1>3. \A b \in batch : b \in Arcs /\ order[b] \in SolverOrder
  BY <1>2
<1>4. put \subseteq batch
  BY DEF Range
<1>5. /\ taken \subseteq batch \ put
      /\ engaged' = engaged \cup taken
      /\ ready_orders' = SubSeq(ready_orders, BatchLen + 1, Len(ready_orders))
      /\ client_notify_queue' = client_notify_queue \o more
      /\ order' = [a \in Arcs |-> IF gone(a) THEN Null
                                  ELSE IF a \in put THEN readied(a) ELSE order[a]]
      /\ phase' = "idle"
      /\ UNCHANGED <<client_orders, client_order_queues, inflight, used>>
  BY DEF EngageMoreOrders
<1>6. /\ ready_orders' \in Seq(Arcs)
      /\ \A k \in DOMAIN ready_orders' : \E j \in DOMAIN ready_orders : ready_orders'[k] = ready_orders[j]
  <2> DEFINE u == SubSeq(ready_orders, BatchLen + 1, Len(ready_orders))
  <2>1. u \in Seq(Arcs) /\ \A k \in DOMAIN u : \E j \in DOMAIN ready_orders : u[k] = ready_orders[j]
    BY <1>1, SuffixFacts
  <2>2. ready_orders' = u
    BY <1>5
  <2> HIDE DEF u
  <2> QED
    BY <2>1, <2>2
<1>7. /\ client_notify_queue' \in Seq(Clients)
      /\ \A d \in Clients : Announced(d) => Announced(d)'
  <2>1. back \in Seq(1 .. BatchLen) /\ Len(back) \in Nat /\ DOMAIN back = 1 .. Len(back)
    BY <1>1
  <2>2. \A i \in 1 .. Len(back) : order[ready_orders[back[i]]].client \in Clients
    BY <2>1, <1>2 DEF SolverOrder
  <2>3. more \in Seq(Clients) /\ client_notify_queue \in Seq(Clients)
    BY <2>1, <2>2 DEF IndInv, TypeOK
  <2> HIDE DEF more
  <2>4. /\ client_notify_queue \o more \in Seq(Clients)
        /\ \A i \in DOMAIN client_notify_queue :
            /\ i \in DOMAIN (client_notify_queue \o more)
            /\ (client_notify_queue \o more)[i] = client_notify_queue[i]
    BY <2>3, ConcatProperties, LenProperties
  <2> QED
    BY <2>4, <1>5 DEF Announced
<1>8. ASSUME NEW b \in batch
      PROVE  /\ readied(b) \in SolverOrder /\ readied(b) # Null
             /\ readied(b).client = order[b].client
             /\ readied(b).id = order[b].id
             /\ readied(b).status = "Ready"
  <2>1. "Ready" \in Statuses
    BY DEF Statuses
  <2>2. PICK w \in SolverOrder : w = order[b]
    BY <1>3
  <2>3. LET e == [w EXCEPT !.status = "Ready", !.age = 0]
        IN  e \in SolverOrder /\ e.client = w.client /\ e.id = w.id /\ e.status = "Ready"
    BY <2>1, SetStatusAgeType
  <2> QED
    BY <2>2, <2>3, NullAssumption
<1> HIDE DEF put, batch, gone, readied
<1>9. order' \in [Arcs -> SolverOrder \cup {Null}]
  BY <1>4, <1>5, <1>8 DEF IndInv, TypeOK
<1>10. \A b \in Arcs : gone(b) => ~InMap(b) /\ b \notin engaged' /\ b \notin Range(ready_orders')
  BY DEF gone
<1>11. \A b \in Arcs : order[b] # Null =>
            \/ ~InMap(b) /\ b \notin engaged' /\ b \notin Range(ready_orders')
            \/ /\ order'[b] # Null
               /\ order'[b].client = order[b].client
               /\ order'[b].id = order[b].id
               /\ order'[b].status = "Open" => order[b].status = "Open"
  BY <1>4, <1>5, <1>8, <1>10
<1>12. RefsAlive'
  <2>1. ASSUME NEW k \in DOMAIN ready_orders' PROVE order'[ready_orders'[k]] # Null
    <3>1. PICK j \in DOMAIN ready_orders : ready_orders'[k] = ready_orders[j]
      BY <1>6
    <3>2. ready_orders'[k] \in Range(ready_orders')
      BY DEF Range
    <3>3. ready_orders'[k] \in Arcs /\ order[ready_orders'[k]] # Null
      BY <3>1, <1>1 DEF IndInv, RefsAlive
    <3> QED
      BY <3>2, <3>3, <1>11
  <2>2. ASSUME NEW b \in engaged' PROVE order'[b] # Null
    <3>1. b \in engaged \/ b \in batch
      BY <1>5
    <3>2. b \in Arcs /\ order[b] # Null
      BY <3>1, <1>3, NullAssumption DEF IndInv, TypeOK, RefsAlive
    <3> QED
      BY <3>2, <1>11
  <2> QED
    BY <2>1, <2>2 DEF RefsAlive
<1>13. engaged' \in SUBSET Arcs
  BY <1>3, <1>5 DEF IndInv, TypeOK
<1> QED
  BY <1>5, <1>6, <1>7, <1>9, <1>11, <1>12, <1>13, HeapPreserves

-----------------------------------------------------------------------------
\* Every step keeps the invariant: one case per action.
LEMMA NextPreserves == IndInv /\ [Next]_vars => IndInv'
<1> SUFFICES ASSUME IndInv, [Next]_vars PROVE IndInv'
  OBVIOUS
<1>1. CASE UNCHANGED vars
  BY <1>1, IdlePreserves DEF vars, queueVars, pipeVars, IndInv, TypeOK
<1>2. CASE BeginSolve
  BY <1>2, IdlePreserves DEF BeginSolve, IndInv, TypeOK
<1>3. CASE EndServe
  BY <1>3, IdlePreserves DEF EndServe, IndInv, TypeOK
<1>4. CASE ServeNextClient
  BY <1>4, ServePreserves
<1>5. CASE EngageAny
  BY <1>5, EngagePreserves DEF EngageAny
<1>6. CASE Clock
  BY <1>6, ClockPreserves
<1>7. CASE \E a \in Arcs : OrderEngaged(a) \/ OrderContinued(a) \/ OrderReleased(a)
  BY <1>7, OrderEngagedPreserves, OrderContinuedPreserves, OrderReleasedPreserves
<1>8. ASSUME NEW c \in Clients, NEW o \in OrderIds,
             \/ \E a \in Arcs, age \in Ages : AddClientOrder(c, o, a, age)
             \/ CancelClientOrder(c, o)
             \/ UpdateClientOrder(c, o)
             \/ HandleReadyAck(c, o)
             \/ \E expired \in BOOLEAN : CollateralCheckLater(c, o, expired)
             \/ CollateralNotReady(c, o)
             \/ \E preauth, ready \in BOOLEAN : CollateralRouted(c, o, preauth, ready)
             \/ PreAuthApproved(c, o)
      PROVE  IndInv'
  BY <1>8, AddPreserves, CancelPreserves, UpdatePreserves, ReadyAckPreserves,
     CheckLaterPreserves, NotReadyPreserves, RoutedPreserves, PreAuthPreserves
<1> QED
  BY <1>1, <1>2, <1>3, <1>4, <1>5, <1>6, <1>7, <1>8 DEF Next

\* The inductive invariant holds in every behaviour of the order intake.
THEOREM IndInvCorrect == Spec => []IndInv
<1>1. Init => IndInv
  BY InitIndInv
<1>2. IndInv /\ [Next]_vars => IndInv'
  BY NextPreserves
<1> QED
  BY <1>1, <1>2, PTL DEF Spec

\* Every variable of the order intake keeps its type.
THEOREM TypeCorrect == Spec => []TypeOK
<1>1. IndInv => TypeOK
  BY DEF IndInv
<1> QED
  BY <1>1, IndInvCorrect, PTL

\* add_client_order and cancel_client_order keep the order map and the queues
\* of ids in agreement, whatever the solver does with the orders meanwhile.
THEOREM QueuesHoldOrders == Spec => []QueueHoldsOrders
<1>1. IndInv => QueueHoldsOrders
  BY DEF IndInv
<1> QED
  BY <1>1, IndInvCorrect, PTL

\* A client whose oldest order waits to be served is always in the
\* notification queue of serve_more_clients.
THEOREM NotificationsNotLost == Spec => []NoLostNotification
<1>1. IndInv => NoLostNotification
  BY DEF IndInv
<1> QED
  BY <1>1, IndInvCorrect, PTL

-----------------------------------------------------------------------------
(***************************************************************************)
(* Only the oldest order of a client is worked on, if ids are not used     *)
(* again (an answer names its order by id, and could meet a later order).  *)
(* The invariant says who may ask: an order behind the first has asked     *)
(* nothing of the collateral manager, so nothing arrives that concerns it. *)
(***************************************************************************)
Behind(c, o) ==
    \E i \in DOMAIN client_order_queues[c] : i > 1 /\ client_order_queues[c][i] = o

Waits(a) ==
    \E c \in Clients, o \in OrderIds : Behind(c, o) /\ GetClientOrder(c, o) = a

WaitsUntouched ==
    \A a \in Arcs : Waits(a) =>
        /\ order[a].status = "Open"
        /\ ~order[a].paid
        /\ \A k \in DOMAIN ready_orders : ready_orders[k] # a
        /\ a \notin engaged

AskedInFront ==
    \A c \in Clients, o \in OrderIds, m \in Messages :
        inflight[c][o][m] > 0 => o \in used[c] /\ ~Behind(c, o)

UsedKnown == \A c \in Clients, o \in OrderIds : Exists(c, o) => o \in used[c]

OneInv == IndInv /\ WaitsUntouched /\ AskedInFront /\ UsedKnown

\* An order that waits is in the map, and behind another of its client.
LEMMA WaitsFacts ==
    ASSUME IndInv, NEW c \in Clients, NEW o \in OrderIds, Behind(c, o)
    PROVE  /\ Exists(c, o)
           /\ client_order_queues[c] # <<>>
           /\ o # Head(client_order_queues[c])
<1> DEFINE q == client_order_queues[c]
<1>1. q \in Seq(OrderIds) /\ DOMAIN q = 1 .. Len(q) /\ Len(q) \in Nat
  BY LenProperties DEF IndInv, TypeOK
<1>2. PICK i \in DOMAIN q : i > 1 /\ q[i] = o
  BY DEF Behind
<1>3. 1 \in DOMAIN q /\ q # <<>> /\ Head(q) = q[1]
  BY <1>1, <1>2
<1>4. Exists(c, o)
  BY <1>2 DEF IndInv, QueueHoldsOrders
<1>5. \A j, k \in DOMAIN q : q[j] = q[k] => j = k
  BY DEF IndInv, QueueHoldsOrders
<1> HIDE DEF q
<1>6. o # q[1]
  BY <1>2, <1>3, <1>5
<1> QED
  BY <1>3, <1>4, <1>6 DEF q

\* The cell of an order of the map waits exactly if the order is behind.
LEMMA WaitsOfMap ==
    ASSUME IndInv, NEW c \in Clients, NEW o \in OrderIds, Exists(c, o)
    PROVE  Waits(GetClientOrder(c, o)) <=> Behind(c, o)
<1> DEFINE a == GetClientOrder(c, o)
<1>1. order[a].client = c /\ order[a].id = o
  BY MapFacts
<1>2. ASSUME NEW d \in Clients, NEW p \in OrderIds, Behind(d, p), GetClientOrder(d, p) = a
      PROVE  d = c /\ p = o
  <2>1. order[GetClientOrder(d, p)].client = d /\ order[GetClientOrder(d, p)].id = p
    BY <1>2, WaitsFacts, MapFacts
  <2> QED
    BY <2>1, <1>1, <1>2
<1> QED
  BY <1>2 DEF Waits

\* The oldest order of a client does not wait.
LEMMA FrontWaitsNot ==
    ASSUME IndInv, NEW c \in Clients, client_order_queues[c] # <<>>
    PROVE  ~Waits(FrontOrder(c)) /\ ~Behind(c, Head(client_order_queues[c]))
<1>1. Head(client_order_queues[c]) \in OrderIds /\ Exists(c, Head(client_order_queues[c]))
  BY FrontFacts
<1>2. ~Behind(c, Head(client_order_queues[c]))
  BY <1>1, WaitsFacts
<1> QED
  BY <1>1, <1>2, WaitsOfMap DEF FrontOrder

\* WaitsUntouched is OneOrderAtATime, said of cells.
LEMMA WaitsIsOneOrder == IndInv /\ WaitsUntouched => OneOrderAtATime
<1> SUFFICES ASSUME IndInv, WaitsUntouched, NEW c \in Clients,
                    NEW i \in DOMAIN client_order_queues[c], i > 1
             PROVE  LET a == GetClientOrder(c, client_order_queues[c][i])
                    IN  /\ order[a].status = "Open"
                        /\ ~order[a].paid
                        /\ \A k \in DOMAIN ready_orders : ready_orders[k] # a
                        /\ a \notin engaged
  BY DEF OneOrderAtATime
<1>1. PICK o \in OrderIds : o = client_order_queues[c][i]
  BY DEF IndInv, TypeOK
<1>2. Behind(c, o)
  BY <1>1 DEF Behind
<1>3. GetClientOrder(c, o) \in Arcs /\ Waits(GetClientOrder(c, o))
  BY <1>2, WaitsFacts, MapFacts DEF Waits
<1> QED
  BY <1>1, <1>3 DEF WaitsUntouched

\* What an action that leaves map and queues alone has to respect: it changes
\* no order that waits, hands none over, and asks only for an oldest order.
LEMMA TouchOne ==
    ASSUME OneInv, IndInv',
           UNCHANGED <<client_orders, client_order_queues, used>>,
           \A a \in Arcs : Waits(a) =>
                /\ order'[a].status = order[a].status
                /\ order'[a].paid = order[a].paid
                /\ \A k \in DOMAIN ready_orders' : ready_orders'[k] # a
                /\ a \notin engaged',
           \A c \in Clients, o \in OrderIds, m \in Messages :
                inflight'[c][o][m] > 0 =>
                    \/ \E n \in Messages : inflight[c][o][n] > 0
                    \/ Exists(c, o) /\ ~Behind(c, o)
    PROVE  OneInv'
<1>1. \A c \in Clients, o \in OrderIds :
        /\ Behind(c, o)' <=> Behind(c, o)
        /\ GetClientOrder(c, o)' = GetClientOrder(c, o)
        /\ Exists(c, o)' <=> Exists(c, o)
  BY DEF Behind, GetClientOrder, Exists
<1>2. \A a : Waits(a)' <=> Waits(a)
  BY <1>1 DEF Waits
<1>3. WaitsUntouched'
  BY <1>2 DEF OneInv, WaitsUntouched
<1>4. UsedKnown'
  BY <1>1 DEF OneInv, UsedKnown
<1>5. AskedInFront'
  BY <1>1 DEF OneInv, UsedKnown, AskedInFront
<1> QED
  BY <1>3, <1>4, <1>5 DEF OneInv

\* An answer of the collateral manager or the index order manager to a question
\* that was asked finds the oldest order of its client, or none.
LEMMA AnswerInFront ==
    ASSUME OneInv, NEW c \in Clients, NEW o \in OrderIds, NEW m \in Messages,
           inflight[c][o][m] > 0
    PROVE  ~Behind(c, o) /\ (Exists(c, o) => ~Waits(GetClientOrder(c, o)))
<1>1. ~Behind(c, o)
  BY DEF OneInv, AskedInFront
<1> QED
  BY <1>1, WaitsOfMap DEF OneInv

\* Taking a message that is in flight, or sending one, changes one counter.
LEMMA InflightChange ==
    ASSUME IndInv, NEW c \in Clients, NEW o \in OrderIds, NEW m \in Messages,
           Consume(c, o, m) \/ Send(c, o, m),
           NEW d \in Clients, NEW p \in OrderIds, NEW n \in Messages
    PROVE  inflight'[d][p][n] = inflight[d][p][n] \/ (d = c /\ p = o /\ n = m)
<1>1. inflight \in [Clients -> [OrderIds -> [Messages -> Nat]]]
  BY DEF IndInv, TypeOK
<1>2. PICK k : inflight' = [inflight EXCEPT ![c][o][m] = k]
  BY DEF Consume, Send
<1> QED
  BY <1>1, <1>2

\* An answer changes at most the order it names, which it may make ready.
LEMMA AnswerPreserves ==
    ASSUME OneInv, IndInv', NEW c \in Clients, NEW o \in OrderIds, NEW m \in Messages,
           Consume(c, o, m),
           UNCHANGED <<client_orders, client_order_queues, used, engaged>>,
           \A a \in Arcs : order'[a] = order[a] \/ (Exists(c, o) /\ a = GetClientOrder(c, o)),
           \/ ready_orders' = ready_orders
           \/ Exists(c, o) /\ ready_orders' = Append(ready_orders, GetClientOrder(c, o))
    PROVE  OneInv'
<1>1. inflight[c][o][m] > 0
  BY DEF Consume
<1>2. Exists(c, o) => ~Waits(GetClientOrder(c, o))
  BY <1>1, AnswerInFront
<1>3. ASSUME NEW a \in Arcs, Waits(a)
      PROVE  order'[a] = order[a]
  BY <1>2, <1>3
<1>4. ASSUME NEW a \in Arcs, Waits(a), NEW k \in DOMAIN ready_orders'
      PROVE  ready_orders'[k] # a
  <2>1. ready_orders \in Seq(Arcs) /\ \A j \in DOMAIN ready_orders : ready_orders[j] # a
    BY <1>4 DEF OneInv, WaitsUntouched, IndInv, TypeOK
  <2>2. CASE ready_orders' = ready_orders
    BY <2>1, <2>2
  <2>3. CASE Exists(c, o) /\ ready_orders' = Append(ready_orders, GetClientOrder(c, o))
    <3>1. PICK b \in Arcs : b = GetClientOrder(c, o)
      BY <2>3, MapFacts DEF OneInv
    <3>2. ready_orders'[k] = b \/ (k \in DOMAIN ready_orders /\ ready_orders'[k] = ready_orders[k])
      BY <2>1, <2>3, <3>1, <1>4
    <3>3. b # a
      BY <1>2, <1>4, <2>3, <3>1
    <3> QED
      BY <2>1, <3>2, <3>3
  <2> QED
    BY <2>2, <2>3
<1>5. ASSUME NEW a \in Arcs, Waits(a) PROVE a \notin engaged'
  BY <1>5 DEF OneInv, WaitsUntouched
<1>6. ASSUME NEW d \in Clients, NEW p \in OrderIds, NEW n \in Messages, inflight'[d][p][n] > 0
      PROVE  \E k \in Messages : inflight[d][p][k] > 0
  <2>1. inflight'[d][p][n] = inflight[d][p][n] \/ (d = c /\ p = o /\ n = m)
    BY InflightChange DEF OneInv
  <2> QED
    BY <2>1, <1>1, <1>6
<1> QED
  BY <1>3, <1>4, <1>5, <1>6, TouchOne

\* The four answers: the order named is the oldest of its client, or gone.
LEMMA AnswersPreserveOne ==
    ASSUME OneInv, IndInv', NEW c \in Clients, NEW o \in OrderIds,
           \/ HandleReadyAck(c, o)
           \/ \E expired \in BOOLEAN : CollateralCheckLater(c, o, expired)
           \/ CollateralNotReady(c, o)
           \/ PreAuthApproved(c, o)
    PROVE  OneInv'
<1> DEFINE a == GetClientOrder(c, o)
<1>0. order \in [Arcs -> SolverOrder \cup {Null}]
  BY DEF OneInv, IndInv, TypeOK
<1>1. CASE HandleReadyAck(c, o)
  <2>1. /\ Consume(c, o, "ready") /\ "ready" \in Messages
        /\ UNCHANGED <<client_orders, client_order_queues, used, engaged>>
    BY <1>1 DEF HandleReadyAck, queueVars, Messages
  <2>2. /\ \A b \in Arcs : order'[b] = order[b] \/ (Exists(c, o) /\ b = a)
        /\ \/ ready_orders' = ready_orders
           \/ Exists(c, o) /\ ready_orders' = Append(ready_orders, a)
    BY <1>0, <1>1 DEF HandleReadyAck
  <2> QED
    BY <2>1, <2>2, AnswerPreserves
<1>2. ASSUME NEW expired \in BOOLEAN, CollateralCheckLater(c, o, expired)
      PROVE  OneInv'
  <2>1. /\ Consume(c, o, "manage") /\ "manage" \in Messages
        /\ UNCHANGED <<client_orders, client_order_queues, used, engaged, ready_orders>>
    BY <1>2 DEF CollateralCheckLater, pipeVars, Messages
  <2>2. \A b \in Arcs : order'[b] = order[b] \/ (Exists(c, o) /\ b = a)
    BY <1>0, <1>2 DEF CollateralCheckLater, SetStatus, PutBack
  <2> QED
    BY <2>1, <2>2, AnswerPreserves
<1>3. CASE CollateralNotReady(c, o)
  <2>1. /\ Consume(c, o, "manage") /\ "manage" \in Messages
        /\ UNCHANGED <<client_orders, client_order_queues, used, engaged, ready_orders>>
    BY <1>3 DEF CollateralNotReady, pipeVars, queueVars, Messages
  <2>2. \A b \in Arcs : order'[b] = order[b] \/ (Exists(c, o) /\ b = a)
    BY <1>0, <1>3 DEF CollateralNotReady, SetStatus
  <2> QED
    BY <2>1, <2>2, AnswerPreserves
<1>4. CASE PreAuthApproved(c, o)
  <2>1. /\ Consume(c, o, "preauth") /\ "preauth" \in Messages
        /\ UNCHANGED <<client_orders, client_order_queues, used, engaged>>
    BY <1>4 DEF PreAuthApproved, queueVars, Messages
  <2>2. /\ \A b \in Arcs : order'[b] = order[b] \/ (Exists(c, o) /\ b = a)
        /\ \/ ready_orders' = ready_orders
           \/ Exists(c, o) /\ ready_orders' = Append(ready_orders, a)
    BY <1>0, <1>4 DEF PreAuthApproved
  <2> QED
    BY <2>1, <2>2, AnswerPreserves
<1> QED
  BY <1>1, <1>2, <1>3, <1>4

\* A routed deposit asks for the two acknowledgements of the order it was
\* routed for.
LEMMA RoutedPreservesOne ==
    ASSUME OneInv, IndInv', NEW c \in Clients, NEW o \in OrderIds,
           NEW preauth \in BOOLEAN, NEW ready \in BOOLEAN,
           CollateralRouted(c, o, preauth, ready)
    PROVE  OneInv'
<1>1. inflight[c][o]["manage"] > 0 /\ "manage" \in Messages
  BY DEF CollateralRouted, Messages
<1>2. PICK f : inflight' = [inflight EXCEPT ![c][o] = f]
  BY DEF CollateralRouted
<1>3. ASSUME NEW d \in Clients, NEW p \in OrderIds, NEW n \in Messages, inflight'[d][p][n] > 0
      PROVE  \E k \in Messages : inflight[d][p][k] > 0
  <2>1. inflight \in [Clients -> [OrderIds -> [Messages -> Nat]]]
    BY DEF OneInv, IndInv, TypeOK
  <2>2. (d = c /\ p = o) \/ inflight'[d][p] = inflight[d][p]
    BY <1>2, <2>1
  <2> QED
    BY <2>2, <1>1, <1>3
<1>4. \A a \in Arcs : Waits(a) =>
        /\ order'[a].status = order[a].status
        /\ order'[a].paid = order[a].paid
        /\ \A k \in DOMAIN ready_orders' : ready_orders'[k] # a
        /\ a \notin engaged'
  BY DEF CollateralRouted, pipeVars, OneInv, WaitsUntouched
<1>5. UNCHANGED <<client_orders, client_order_queues, used>>
  BY DEF CollateralRouted, queueVars
<1> QED
  BY <1>3, <1>4, <1>5, TouchOne

\* Steps that hand no order over and send nothing: reduced collateral, time,
\* and the beginning and end of serve_more_clients.
LEMMA QuietPreservesOne ==
    ASSUME OneInv, IndInv',
           \/ \E c \in Clients, o \in OrderIds : UpdateClientOrder(c, o)
           \/ BeginSolve \/ EndServe \/ Clock \/ UNCHANGED vars
    PROVE  OneInv'
<1>0. order \in [Arcs -> SolverOrder \cup {Null}]
  BY DEF OneInv, IndInv, TypeOK
<1>1. UNCHANGED <<client_orders, client_order_queues, used, ready_orders, engaged, inflight>>
  BY DEF UpdateClientOrder, BeginSolve, EndServe, Clock, queueVars, pipeVars, vars
<1>2. ASSUME NEW a \in Arcs, Waits(a)
      PROVE  order'[a].status = order[a].status /\ order'[a].paid = order[a].paid
  <2>1. a \in Arcs /\ order[a] \in SolverOrder
    <3>1. PICK c \in Clients, o \in OrderIds : Behind(c, o) /\ GetClientOrder(c, o) = a
      BY <1>2 DEF Waits
    <3> QED
      BY <3>1, WaitsFacts, MapFacts DEF OneInv
  <2>2. PICK w \in SolverOrder : w = order[a]
    BY <2>1
  <2>3. order'[a] = w \/ (\E n : order'[a] = [w EXCEPT !.age = n])
    <3>1. CASE \E c \in Clients, o \in OrderIds : UpdateClientOrder(c, o)
      <4>1. PICK c \in Clients, o \in OrderIds : UpdateClientOrder(c, o)
        BY <3>1
      <4>2. PICK b : b = GetClientOrder(c, o)
        OBVIOUS
      <4>3. order' = [order EXCEPT ![b] = [order[b] EXCEPT !.age = 0]]
        BY <4>1, <4>2 DEF UpdateClientOrder
      <4>4. order'[a] = order[a] \/ order'[a] = [order[a] EXCEPT !.age = 0]
        BY <4>3, <1>0, <2>1
      <4> QED
        BY <4>4, <2>2
    <3>2. CASE BeginSolve \/ EndServe \/ UNCHANGED vars
      BY <3>2, <2>2 DEF BeginSolve, EndServe, vars
    <3>3. CASE Clock
      BY <3>3, <2>2 DEF Clock
    <3> QED
      BY <3>1, <3>2, <3>3
  <2> QED
    BY <2>2, <2>3 DEF SolverOrder
<1>3. \A a \in Arcs : Waits(a) =>
        (\A k \in DOMAIN ready_orders' : ready_orders'[k] # a) /\ a \notin engaged'
  BY <1>1 DEF OneInv, WaitsUntouched
<1>4. \A c \in Clients, o \in OrderIds, m \in Messages :
        inflight'[c][o][m] > 0 => \E n \in Messages : inflight[c][o][n] > 0
  BY <1>1
<1> QED
  BY <1>1, <1>2, <1>3, <1>4, TouchOne

\* The batch manager and engage_more_orders touch only what was handed over.
LEMMA EngagedPreservesOne ==
    ASSUME OneInv, IndInv', NEW a \in Arcs,
           OrderEngaged(a) \/ OrderContinued(a) \/ OrderReleased(a)
    PROVE  OneInv'
<1>0. order \in [Arcs -> SolverOrder \cup {Null}] /\ ready_orders \in Seq(Arcs)
  BY DEF OneInv, IndInv, TypeOK
<1>1. ~Waits(a)
  BY DEF OrderEngaged, OrderContinued, OrderReleased, OneInv, WaitsUntouched
<1>2. \A b \in Arcs : b # a => order'[b] = order[b]
  BY <1>0 DEF OrderEngaged, OrderContinued, OrderReleased, SetStatus
<1>3. /\ UNCHANGED <<client_orders, client_order_queues, used, inflight>>
      /\ engaged' \in SUBSET engaged
      /\ ready_orders' = ready_orders \/ ready_orders' = Append(ready_orders, a)
  BY DEF OrderEngaged, OrderContinued, OrderReleased, queueVars, pipeVars
<1>4. ASSUME NEW b \in Arcs, Waits(b), NEW k \in DOMAIN ready_orders'
      PROVE  ready_orders'[k] # b
  <2>1. \A j \in DOMAIN ready_orders : ready_orders[j] # b
    BY <1>4 DEF OneInv, WaitsUntouched
  <2>2. ready_orders'[k] = a \/ (k \in DOMAIN ready_orders /\ ready_orders'[k] = ready_orders[k])
    BY <1>0, <1>3, <1>4
  <2> QED
    BY <2>1, <2>2, <1>1, <1>4
<1>5. ASSUME NEW b \in Arcs, Waits(b)
      PROVE  order'[b] = order[b] /\ b \notin engaged'
  BY <1>5, <1>1, <1>2, <1>3 DEF OneInv, WaitsUntouched
<1>6. \A c \in Clients, o \in OrderIds, m \in Messages :
        inflight'[c][o][m] > 0 => \E n \in Messages : inflight[c][o][n] > 0
  BY <1>3
<1> QED
  BY <1>3, <1>4, <1>5, <1>6, TouchOne

\* engage_more_orders works on the ready orders, none of which waits.
LEMMA EngagePreservesOne ==
    ASSUME OneInv, IndInv', NEW n \in 0 .. BatchLen, NEW back \in [1 .. n -> 1 .. BatchLen],
           NEW taken \in SUBSET Arcs, EngageMoreOrders(back, taken)
    PROVE  OneInv'
<1> DEFINE put == {ready_orders[i] : i \in Range(back)}
           batch == {ready_orders[i] : i \in 1 .. BatchLen}
           gone(a) == a \in batch /\ ~InMap(a) /\ a \notin engaged' \cup Range(ready_orders')
           readied(a) == [order[a] EXCEPT !.status = "Ready", !.age = 0]
<1>1. /\ ready_orders \in Seq(Arcs) /\ Len(ready_orders) \in Nat
      /\ DOMAIN ready_orders = 1 .. Len(ready_orders)
      /\ BatchLen \in Nat /\ BatchLen <= Len(ready_orders)
  <2>1. ready_orders \in Seq(Arcs)
    BY DEF OneInv, IndInv, TypeOK
  <2> QED
    BY <2>1, BatchAssumption, LenProperties DEF BatchLen
<1>2. /\ taken \subseteq batch \ put
      /\ engaged' = engaged \cup taken
      /\ ready_orders' = SubSeq(ready_orders, BatchLen + 1, Len(ready_orders))
      /\ order' = [a \in Arcs |-> IF gone(a) THEN Null
                                  ELSE IF a \in put THEN readied(a) ELSE order[a]]
      /\ UNCHANGED <<client_orders, client_order_queues, inflight, used>>
  BY DEF EngageMoreOrders
<1>3. put \subseteq batch
  BY DEF Range
<1>4. ASSUME NEW b \in Arcs, Waits(b) PROVE b \notin batch
  <2>1. \A k \in 1 .. BatchLen : k \in DOMAIN ready_orders
    BY <1>1
  <2>2. \A k \in DOMAIN ready_orders : ready_orders[k] # b
    BY <1>4 DEF OneInv, WaitsUntouched
  <2> QED
    BY <2>1, <2>2
<1>5. ASSUME NEW b \in Arcs, Waits(b), NEW k \in DOMAIN ready_orders'
      PROVE  ready_orders'[k] # b
  <2> DEFINE u == SubSeq(ready_orders, BatchLen + 1, Len(ready_orders))
  <2>1. \A j \in DOMAIN u : \E i \in DOMAIN ready_orders : u[j] = ready_orders[i]
    BY <1>1, SuffixFacts
  <2>2. u = ready_orders'
    BY <1>2
  <2> HIDE DEF u
  <2>3. PICK i \in DOMAIN ready_orders : ready_orders'[k] = ready_orders[i]
    BY <2>1, <2>2, <1>5
  <2> QED
    BY <2>3, <1>5 DEF OneInv, WaitsUntouched
<1> HIDE DEF put, batch, readied
<1>6. ASSUME NEW b \in Arcs, Waits(b)
      PROVE  order'[b] = order[b] /\ b \notin engaged'
  <2>1. b \notin batch /\ b \notin put /\ b \notin engaged
    BY <1>3, <1>4, <1>6 DEF OneInv, WaitsUntouched
  <2>2. ~gone(b)
    BY <2>1
  <2> HIDE DEF gone
  <2> QED
    BY <1>2, <1>6, <2>1, <2>2
<1>7. \A c \in Clients, o \in OrderIds, m \in Messages :
        inflight'[c][o][m] > 0 => \E k \in Messages : inflight[c][o][k] > 0
  BY <1>2
<1> QED
  BY <1>2, <1>5, <1>6, <1>7, TouchOne

\* add_client_order: the new order is the last of its client's queue, was never
\* asked about, and gets a cell nobody refers to.
LEMMA AddPreservesOne ==
    ASSUME ReuseIds = FALSE, OneInv, IndInv',
           NEW c \in Clients, NEW o \in OrderIds, NEW a \in Arcs, NEW age \in Ages,
           AddClientOrder(c, o, a, age)
    PROVE  OneInv'
<1> DEFINE new == [client |-> c, id |-> o, status |-> "Open", age |-> age, paid |-> FALSE]
           q == client_order_queues[c]
           r == Append(q, o)
<1>1. /\ order[a] = Null
      /\ order' = [order EXCEPT ![a] = new]
      /\ ~Exists(c, o)
      /\ o \notin used[c]
      /\ client_orders' = [client_orders EXCEPT ![c][o] = a]
      /\ client_order_queues' = [client_order_queues EXCEPT ![c] = r]
      /\ used' = [used EXCEPT ![c] = @ \cup {o}]
      /\ UNCHANGED <<ready_orders, engaged, inflight>>
  BY DEF AddClientOrder, pipeVars
<1>2. /\ order \in [Arcs -> SolverOrder \cup {Null}]
      /\ client_orders \in [Clients -> [OrderIds -> Arcs \cup {Null}]]
      /\ client_order_queues \in [Clients -> Seq(OrderIds)]
      /\ used \in [Clients -> SUBSET OrderIds]
      /\ q \in Seq(OrderIds) /\ Len(q) \in Nat /\ DOMAIN q = 1 .. Len(q)
  BY LenProperties DEF OneInv, IndInv, TypeOK
<1>3. /\ DOMAIN r = 1 .. Len(q) + 1
      /\ \A i \in DOMAIN q : r[i] = q[i]
      /\ r[Len(q) + 1] = o
  BY <1>2
<1>4. new.status = "Open" /\ ~new.paid
  OBVIOUS
<1> HIDE DEF new, q, r
<1>5. \A d \in Clients, p \in OrderIds : GetClientOrder(d, p)' = IF d = c /\ p = o THEN a ELSE GetClientOrder(d, p)
  BY <1>1, <1>2 DEF GetClientOrder
<1>6. a # Null
  BY NullAssumption
<1>7. \A d \in Clients, p \in OrderIds : Exists(d, p)' <=> (d = c /\ p = o) \/ Exists(d, p)
  BY <1>5, <1>6 DEF Exists, GetClientOrder
<1>8. \A d \in Clients : client_order_queues'[d] = IF d = c THEN r ELSE client_order_queues[d]
  BY <1>1, <1>2
<1>9. ASSUME NEW d \in Clients, NEW p \in OrderIds, Behind(d, p)'
      PROVE  (d = c /\ p = o) \/ Behind(d, p)
  <2>1. CASE d = c
    <3>1. PICK i \in DOMAIN r : i > 1 /\ r[i] = p
      BY <1>8, <1>9, <2>1 DEF Behind
    <3>2. CASE i \in DOMAIN q
      BY <1>3, <2>1, <3>1, <3>2 DEF Behind, q
    <3>3. CASE i = Len(q) + 1
      BY <1>3, <2>1, <3>1, <3>3
    <3> QED
      BY <1>2, <1>3, <3>2, <3>3
  <2>2. CASE d # c
    BY <1>8, <1>9, <2>2 DEF Behind
  <2> QED
    BY <2>1, <2>2
<1>10. UsedKnown'
  <2>1. \A d \in Clients : used[d] \subseteq used'[d]
    BY <1>1, <1>2
  <2>2. o \in used'[c]
    BY <1>1, <1>2
  <2> QED
    BY <1>7, <2>1, <2>2 DEF OneInv, UsedKnown
<1>11. AskedInFront'
  <2> SUFFICES ASSUME NEW d \in Clients, NEW p \in OrderIds, NEW m \in Messages,
                      inflight[d][p][m] > 0
               PROVE  p \in used'[d] /\ ~Behind(d, p)'
    BY <1>1 DEF AskedInFront
  <2>1. p \in used[d] /\ ~Behind(d, p)
    BY DEF OneInv, AskedInFront
  <2>2. ~(d = c /\ p = o)
    BY <2>1, <1>1
  <2>3. p \in used'[d]
    BY <2>1, <1>1, <1>2
  <2> QED
    BY <2>1, <2>2, <2>3, <1>9
<1>12. WaitsUntouched'
  <2> SUFFICES ASSUME NEW b \in Arcs, NEW d \in Clients, NEW p \in OrderIds,
                      Behind(d, p)', GetClientOrder(d, p)' = b
               PROVE  /\ order'[b].status = "Open"
                      /\ ~order'[b].paid
                      /\ \A k \in DOMAIN ready_orders : ready_orders[k] # b
                      /\ b \notin engaged
    BY <1>1 DEF WaitsUntouched, Waits
  <2>1. CASE d = c /\ p = o
    <3>1. b = a
      BY <2>1, <1>5
    <3>2. order'[a] = new
      BY <1>1, <1>2
    <3>3. (\A k \in DOMAIN ready_orders : ready_orders[k] # a) /\ a \notin engaged
      BY <1>1 DEF OneInv, IndInv, RefsAlive
    <3> QED
      BY <3>1, <3>2, <3>3, <1>4
  <2>2. CASE ~(d = c /\ p = o)
    <3>1. Behind(d, p) /\ GetClientOrder(d, p) = b
      BY <2>2, <1>5, <1>9
    <3>2. order[b] # Null
      BY <3>1, WaitsFacts, MapFacts, NullAssumption DEF OneInv
    <3>3. order'[b] = order[b]
      BY <3>2, <1>1, <1>2
    <3> QED
      BY <3>1, <3>3 DEF OneInv, WaitsUntouched, Waits
  <2> QED
    BY <2>1, <2>2
<1> QED
  BY <1>10, <1>11, <1>12 DEF OneInv

\* cancel_client_order: the orders behind the cancelled one move up, and an
\* order that still waits waited before.
LEMMA CancelPreservesOne ==
    ASSUME OneInv, IndInv', NEW c \in Clients, NEW o \in OrderIds, CancelClientOrder(c, o)
    PROVE  OneInv'
<1> DEFINE a == GetClientOrder(c, o)
           q == client_order_queues[c]
<1>0. /\ client_orders \in [Clients -> [OrderIds -> Arcs \cup {Null}]]
      /\ client_order_queues \in [Clients -> Seq(OrderIds)]
      /\ order \in [Arcs -> SolverOrder \cup {Null}]
      /\ q \in Seq(OrderIds) /\ Len(q) \in Nat /\ DOMAIN q = 1 .. Len(q)
  BY LenProperties DEF OneInv, IndInv, TypeOK
<1>1. PICK i \in DOMAIN q :
        q[i] = o /\ client_order_queues' = [client_order_queues EXCEPT ![c] = RemoveAt(q, i)]
  BY DEF CancelClientOrder
<1>2. PICK r : r = RemoveAt(q, i)
  OBVIOUS
<1>3. /\ DOMAIN r = 1 .. Len(q) - 1
      /\ \A j \in 1 .. Len(q) - 1 : r[j] = IF j < i THEN q[j] ELSE q[j + 1]
  <2>1. /\ r \in Seq(OrderIds) /\ Len(r) = Len(q) - 1
        /\ \A j \in 1 .. Len(q) - 1 : r[j] = IF j < i THEN q[j] ELSE q[j + 1]
    <3> HIDE DEF q
    <3>1. i \in 1 .. Len(q)
      BY <1>0, <1>1
    <3> QED
      BY <3>1, <1>0, <1>2, RemoveAtFacts
  <2> QED
    BY <2>1, LenProperties
<1>4. /\ Exists(c, o)
      /\ client_orders' = [client_orders EXCEPT ![c][o] = Null]
      /\ \A b \in Arcs : b # a => order'[b] = order[b]
      /\ UNCHANGED <<ready_orders, engaged, inflight, used>>
  BY <1>0 DEF CancelClientOrder, pipeVars
<1> HIDE DEF q
<1>5. \A d \in Clients, p \in OrderIds :
        ~(d = c /\ p = o) => GetClientOrder(d, p)' = GetClientOrder(d, p)
  BY <1>0, <1>4 DEF GetClientOrder
<1>6. ~Exists(c, o)'
  BY <1>0, <1>4 DEF Exists, GetClientOrder
<1>7. \A d \in Clients : client_order_queues'[d] = IF d = c THEN r ELSE client_order_queues[d]
  BY <1>0, <1>1, <1>2
<1>8. ASSUME NEW d \in Clients, NEW p \in OrderIds, Behind(d, p)'
      PROVE  Behind(d, p) /\ ~(d = c /\ p = o)
  <2>1. ~(d = c /\ p = o)
    <3>1. Exists(d, p)'
      <4>1. \E j \in DOMAIN client_order_queues'[d] : client_order_queues'[d][j] = p
        BY <1>8 DEF Behind
      <4> QED
        BY <4>1 DEF IndInv, QueueHoldsOrders
    <3> QED
      BY <3>1, <1>6
  <2>2. CASE d = c
    <3>1. PICK j \in DOMAIN r : j > 1 /\ r[j] = p
      BY <1>7, <1>8, <2>2 DEF Behind
    <3>2. \E k \in DOMAIN q : k > 1 /\ q[k] = p
      <4>1. CASE j < i
        <5>1. j \in DOMAIN q /\ q[j] = p
          BY <4>1, <3>1, <1>0, <1>1, <1>3
        <5> QED
          BY <5>1, <3>1
      <4>2. CASE ~(j < i)
        <5>1. j + 1 \in DOMAIN q /\ j + 1 > 1 /\ q[j + 1] = p
          BY <4>2, <3>1, <1>0, <1>1, <1>3
        <5> QED
          BY <5>1
      <4> QED
        BY <4>1, <4>2
    <3> QED
      BY <2>1, <2>2, <3>2 DEF Behind, q
  <2>3. CASE d # c
    BY <1>7, <1>8, <2>1, <2>3 DEF Behind
  <2> QED
    BY <2>2, <2>3
<1>9. UsedKnown'
  <2> SUFFICES ASSUME NEW d \in Clients, NEW p \in OrderIds, Exists(d, p)'
               PROVE  p \in used[d]
    BY <1>4 DEF UsedKnown
  <2>1. ~(d = c /\ p = o)
    BY <1>6
  <2>2. Exists(d, p)
    BY <2>1, <1>5 DEF Exists
  <2> QED
    BY <2>2 DEF OneInv, UsedKnown
<1>10. AskedInFront'
  BY <1>4, <1>8 DEF OneInv, AskedInFront
<1>11. WaitsUntouched'
  <2> SUFFICES ASSUME NEW b \in Arcs, NEW d \in Clients, NEW p \in OrderIds,
                      Behind(d, p)', GetClientOrder(d, p)' = b
               PROVE  /\ order'[b].status = "Open"
                      /\ ~order'[b].paid
                      /\ \A k \in DOMAIN ready_orders : ready_orders[k] # b
                      /\ b \notin engaged
    BY <1>4 DEF WaitsUntouched, Waits
  <2>1. Behind(d, p) /\ ~(d = c /\ p = o) /\ GetClientOrder(d, p) = b
    BY <1>5, <1>8
  <2>2. b # a
    <3>1. order[b].client = d /\ order[b].id = p
      BY <2>1, WaitsFacts, MapFacts DEF OneInv
    <3>2. order[a].client = c /\ order[a].id = o
      BY <1>4, MapFacts DEF OneInv
    <3> QED
      BY <2>1, <3>1, <3>2
  <2>3. order'[b] = order[b]
    BY <2>2, <1>4
  <2> QED
    BY <2>1, <2>3 DEF OneInv, WaitsUntouched, Waits
<1> QED
  BY <1>9, <1>10, <1>11 DEF OneInv

\* serve_more_clients takes the oldest order of the announced client, asks for
\* its collateral or hands it over.
LEMMA ServePreservesOne ==
    ASSUME OneInv, IndInv', ServeNextClient
    PROVE  OneInv'
<1> DEFINE c == Head(client_notify_queue)
           o == Head(client_order_queues[c])
           a == FrontOrder(c)
<1>0. /\ order \in [Arcs -> SolverOrder \cup {Null}] /\ ready_orders \in Seq(Arcs)
      /\ client_notify_queue \in Seq(Clients)
  BY DEF OneInv, IndInv, TypeOK
<1>1. c \in Clients /\ client_order_queues[c] # <<>>
  BY <1>0 DEF ServeNextClient, HasNextClientOrder
<1>2. NextClientOrder = a
  BY DEF NextClientOrder, FrontOrder
<1>3. /\ o \in OrderIds /\ Exists(c, o) /\ a \in Arcs
      /\ order[a].client = c /\ order[a].id = o
      /\ ~Waits(a) /\ ~Behind(c, o)
  BY <1>1, FrontFacts, FrontWaitsNot DEF OneInv
<1>4. UNCHANGED <<client_orders, client_order_queues, used, engaged>>
  BY DEF ServeNextClient
<1>5. "manage" \in Messages
  BY DEF Messages
<1> HIDE DEF c, o, a
<1>6. /\ \A b \in Arcs : b # a => order'[b] = order[b]
      /\ ready_orders' = ready_orders \/ ready_orders' = Append(ready_orders, a)
      /\ inflight' = inflight \/ Send(c, o, "manage")
  <2>1. CASE ServeOpen
    BY <2>1, <1>0, <1>2, <1>3 DEF ServeOpen, SetStatus
  <2>2. CASE ServeReady
    BY <2>2, <1>2 DEF ServeReady
  <2>3. CASE ServeUnexpected
    BY <2>3, <1>0, <1>2 DEF ServeUnexpected, SetStatus
  <2> QED
    BY <2>1, <2>2, <2>3 DEF ServeNextClient
<1>7. ASSUME NEW b \in Arcs, Waits(b), NEW k \in DOMAIN ready_orders'
      PROVE  ready_orders'[k] # b
  <2>1. \A j \in DOMAIN ready_orders : ready_orders[j] # b
    BY <1>7 DEF OneInv, WaitsUntouched
  <2>2. ready_orders'[k] = a \/ (k \in DOMAIN ready_orders /\ ready_orders'[k] = ready_orders[k])
    <3>1. CASE ready_orders' = ready_orders
      BY <3>1, <1>7
    <3>2. CASE ready_orders' = Append(ready_orders, a)
      BY <3>2, <1>0, <1>3, <1>7
    <3> QED
      BY <3>1, <3>2, <1>6
  <2> QED
    BY <2>1, <2>2, <1>3, <1>7
<1>8. ASSUME NEW b \in Arcs, Waits(b)
      PROVE  order'[b] = order[b] /\ b \notin engaged'
  BY <1>8, <1>3, <1>4, <1>6 DEF OneInv, WaitsUntouched
<1>9. ASSUME NEW d \in Clients, NEW p \in OrderIds, NEW m \in Messages, inflight'[d][p][m] > 0
      PROVE  (\E n \in Messages : inflight[d][p][n] > 0) \/ (Exists(d, p) /\ ~Behind(d, p))
  <2>1. CASE inflight' = inflight
    BY <2>1, <1>9
  <2>2. CASE Send(c, o, "manage")
    <3>1. inflight'[d][p][m] = inflight[d][p][m] \/ (d = c /\ p = o)
      BY <2>2, <1>1, <1>3, <1>5, InflightChange DEF OneInv
    <3> QED
      BY <3>1, <1>3, <1>9
  <2> QED
    BY <2>1, <2>2, <1>6
<1> QED
  BY <1>4, <1>7, <1>8, <1>9, TouchOne

\* Every step keeps the invariant: one case per group of actions.
LEMMA NextPreservesOne == ReuseIds = FALSE /\ OneInv /\ [Next]_vars => OneInv'
<1> SUFFICES ASSUME ReuseIds = FALSE, OneInv, [Next]_vars PROVE OneInv'
  OBVIOUS
<1>1. IndInv'
  BY NextPreserves DEF OneInv
<1>2. CASE BeginSolve \/ EndServe \/ Clock \/ UNCHANGED vars
  BY <1>1, <1>2, QuietPreservesOne
<1>3. CASE ServeNextClient
  BY <1>1, <1>3, ServePreservesOne
<1>4. CASE EngageAny
  BY <1>1, <1>4, EngagePreservesOne DEF EngageAny
<1>5. CASE \E a \in Arcs : OrderEngaged(a) \/ OrderContinued(a) \/ OrderReleased(a)
  BY <1>1, <1>5, EngagedPreservesOne
<1>6. ASSUME NEW c \in Clients, NEW o \in OrderIds,
             \/ \E a \in Arcs, age \in Ages : AddClientOrder(c, o, a, age)
             \/ CancelClientOrder(c, o)
             \/ UpdateClientOrder(c, o)
             \/ HandleReadyAck(c, o)
             \/ \E expired \in BOOLEAN : CollateralCheckLater(c, o, expired)
             \/ CollateralNotReady(c, o)
             \/ \E preauth, ready \in BOOLEAN : CollateralRouted(c, o, preauth, ready)
             \/ PreAuthApproved(c, o)
      PROVE  OneInv'
  <2>1. CASE \E a \in Arcs, age \in Ages : AddClientOrder(c, o, a, age)
    BY <2>1, <1>1, AddPreservesOne
  <2>2. CASE CancelClientOrder(c, o)
    BY <2>2, <1>1, CancelPreservesOne
  <2>3. CASE UpdateClientOrder(c, o)
    BY <2>3, <1>1, QuietPreservesOne
  <2>4. CASE \E preauth, ready \in BOOLEAN : CollateralRouted(c, o, preauth, ready)
    BY <2>4, <1>1, RoutedPreservesOne
  <2>5. CASE \/ HandleReadyAck(c, o)
             \/ \E expired \in BOOLEAN : CollateralCheckLater(c, o, expired)
             \/ CollateralNotReady(c, o)
             \/ PreAuthApproved(c, o)
    BY <2>5, <1>1, AnswersPreserveOne
  <2> QED
    BY <1>6, <2>1, <2>2, <2>3, <2>4, <2>5
<1> QED
  BY <1>2, <1>3, <1>4, <1>5, <1>6 DEF Next

\* "Only single order from single user can be actively executed": the queues of
\* SolverClientOrders keep every order behind the first untouched, as long as
\* no client uses the id of a finished order again.
THEOREM OneOrderActive == ASSUME ReuseIds = FALSE PROVE Spec => []OneOrderAtATime
<1>1. Init => OneInv
  <2> SUFFICES ASSUME Init PROVE OneInv
    OBVIOUS
  <2>1. IndInv
    BY InitIndInv
  <2>2. \A c \in Clients, o \in OrderIds : ~Behind(c, o)
    BY DEF Init, Behind
  <2>3. WaitsUntouched
    BY <2>2 DEF WaitsUntouched, Waits
  <2>4. AskedInFront
    BY DEF Init, AskedInFront
  <2>5. UsedKnown
    BY DEF Init, UsedKnown, Exists, GetClientOrder
  <2> QED
    BY <2>1, <2>3, <2>4, <2>5 DEF OneInv
<1>2. OneInv /\ [Next]_vars => OneInv'
  BY NextPreservesOne
<1>3. OneInv => OneOrderAtATime
  BY WaitsIsOneOrder DEF OneInv
<1> QED
  BY <1>1, <1>2, <1>3, PTL DEF Spec

=============================================================================
