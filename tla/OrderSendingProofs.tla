--------------------------- MODULE OrderSendingProofs ---------------------------
(***************************************************************************)
(* Proofs about OrderSending, for any number of orders, sessions,          *)
(* quantities and failures.                                                *)
(*                                                                         *)
(* Base is the inductive invariant.  It follows an asset order along the   *)
(* way it takes: the session's queue of commands, order_place(), the       *)
(* exchange, the user data stream of the session that placed it, and the   *)
(* channel to the tracker.  The exchange has an order only after the       *)
(* NewOrder notification was put on the channel, reports come back on the  *)
(* stream of the session that placed it, and an expiry is the last report  *)
(* of its order wherever the reports are: from that AnnouncedBeforeFilled  *)
(* follows.  OneFinalReport needs ClosedOnce on top of it.                 *)
(*                                                                         *)
(* ExecutionsBooked is about sums along the queues.  Each step moves a     *)
(* report from one place to the next (the Flow lemmas), so nothing is      *)
(* booked twice (NeverOverbooked), and while nothing failed QuietSound     *)
(* says what is still owed to every order: a live order waits for exactly  *)
(* what is left at the exchange plus what is on its way, so no fill finds  *)
(* it ended.                                                               *)
(***************************************************************************)
EXTENDS OrderSending, CollectionTheorems, SequenceTheorems

-----------------------------------------------------------------------------
\* Queues of notifications: the channel and the streams.
Queues == Seq(Notification)

\* Share(n, o) is what notification n books for order o.
Share(n, o) == IF n.kind = "Fill" /\ n.id = o THEN n.qty ELSE 0

Shares(queue, o) == [i \in DOMAIN queue |-> Share(queue[i], o)]

\* FillsIn is a sum of naturals over the positions of the queue.
LEMMA FillsInShares ==
    ASSUME NEW queue \in Queues, NEW o
    PROVE  /\ FillsIn(queue, o) = SumFunctionOnSet(Shares(queue, o), 1 .. Len(queue))
           /\ DOMAIN queue = 1 .. Len(queue)
           /\ Len(queue) \in Nat
           /\ IsFiniteSet(1 .. Len(queue))
           /\ \A i \in 1 .. Len(queue) : /\ queue[i] \in Notification
                                         /\ Shares(queue, o)[i] = Share(queue[i], o)
                                         /\ Shares(queue, o)[i] \in Nat
<1>1. DOMAIN queue = 1 .. Len(queue) /\ Len(queue) \in Nat
  BY LenProperties DEF Queues
<1>2. IsFiniteSet(1 .. Len(queue))
  BY <1>1, FS_Interval
<1>3. \A i \in 1 .. Len(queue) : queue[i] \in Notification
  BY <1>1, ElementOfSeq DEF Queues
<1>4. \A n \in Notification : Share(n, o) \in Nat
  BY DEF Notification, Share
<1>5. Shares(queue, o) = [i \in DOMAIN queue |->
            IF queue[i].kind = "Fill" /\ queue[i].id = o THEN queue[i].qty ELSE 0]
  BY DEF Shares, Share
<1>6. DOMAIN Shares(queue, o) = 1 .. Len(queue)
  BY <1>1 DEF Shares
<1>7. FillsIn(queue, o) = SumFunctionOnSet(Shares(queue, o), 1 .. Len(queue))
  BY <1>5, <1>6 DEF FillsIn, SumFunction
<1>8. \A i \in 1 .. Len(queue) : Shares(queue, o)[i] = Share(queue[i], o)
  BY <1>1 DEF Shares
<1> QED
  BY <1>1, <1>2, <1>3, <1>4, <1>7, <1>8

\* The fills reported for an order in a queue add up to a natural number.
LEMMA FillsInType ==
    ASSUME NEW queue \in Queues, NEW o
    PROVE  FillsIn(queue, o) \in Nat
BY FillsInShares, SumNatural

\* An empty queue reports nothing.
LEMMA FillsInEmpty == \A o : FillsIn(<<>>, o) = 0
<1> TAKE o
<1>1. <<>> \in Queues /\ Len(<<>>) = 0 /\ 1 .. 0 = {}
  BY DEF Queues
<1> QED
  BY <1>1, FillsInShares, SumEmpty

\* A queue without a fill of the order reports nothing for it.
LEMMA FillsInNone ==
    ASSUME NEW queue \in Queues, NEW o,
           \A i \in DOMAIN queue : ~(queue[i].kind = "Fill" /\ queue[i].id = o)
    PROVE  FillsIn(queue, o) = 0
<1>1. \A i \in 1 .. Len(queue) : Shares(queue, o)[i] = 0
  BY FillsInShares DEF Share
<1> QED
  BY <1>1, FillsInShares, SumZero

\* Each fill of the order in a queue is part of the sum.
LEMMA FillsInSome ==
    ASSUME NEW queue \in Queues, NEW o, NEW i \in DOMAIN queue,
           queue[i].kind = "Fill", queue[i].id = o
    PROVE  queue[i].qty <= FillsIn(queue, o)
<1>1. i \in 1 .. Len(queue) /\ Shares(queue, o)[i] = queue[i].qty
  BY FillsInShares DEF Share
<1>2. Shares(queue, o)[i] <= SumFunctionOnSet(Shares(queue, o), 1 .. Len(queue))
  BY <1>1, FillsInShares, SumMember
<1> QED
  BY <1>1, <1>2, FillsInShares

\* Publishing a notification adds its share to what the queue reports.
LEMMA FillsInAppend ==
    ASSUME NEW queue \in Queues, NEW n \in Notification, NEW o
    PROVE  /\ Append(queue, n) \in Queues
           /\ FillsIn(Append(queue, n), o) = FillsIn(queue, o) + Share(n, o)
<1> DEFINE next == Append(queue, n)
           k == Len(queue)
           f == Shares(next, o)
<1>1. /\ next \in Queues /\ Len(next) = k + 1 /\ k \in Nat
      /\ \A i \in 1 .. k : next[i] = queue[i]
      /\ next[k + 1] = n
  BY AppendProperties, LenProperties DEF Queues
<1> HIDE DEF next
<1>2. \A i \in 1 .. k + 1 : f[i] \in Int /\ f[i] = Share(next[i], o)
  BY <1>1, FillsInShares
<1>3. FillsIn(next, o) = SumFunctionOnSet(f, 1 .. k + 1)
  BY <1>1, FillsInShares
<1> HIDE DEF f
<1>4. SumFunctionOnSet(f, 1 .. k + 1) = SumFunctionOnSet(f, 1 .. k) + f[k + 1]
  BY <1>1, <1>2, SumLast
<1>5. SumFunctionOnSet(Shares(queue, o), 1 .. k) = SumFunctionOnSet(f, 1 .. k)
  <2>1. \A i \in 1 .. k : Shares(queue, o)[i] = f[i] /\ Shares(queue, o)[i] \in Int
    BY <1>1, <1>2, FillsInShares
  <2> QED
    BY <2>1, FillsInShares, SumAgrees
<1>6. f[k + 1] = Share(n, o)
  BY <1>1, <1>2
<1> QED
  BY <1>1, <1>3, <1>4, <1>5, <1>6, FillsInShares DEF next

\* Taking the head of a queue takes its share away.
LEMMA FillsInTail ==
    ASSUME NEW queue \in Queues, queue # <<>>, NEW o
    PROVE  /\ Tail(queue) \in Queues
           /\ Head(queue) \in Notification
           /\ FillsIn(queue, o) = FillsIn(Tail(queue), o) + Share(Head(queue), o)
<1> DEFINE rest == Tail(queue)
           k == Len(rest)
           f == Shares(queue, o)
           g == Shares(rest, o)
<1>1. /\ rest \in Queues /\ k \in Nat /\ Len(queue) = k + 1
      /\ \A i \in 1 .. k : rest[i] = queue[i + 1]
  BY HeadTailProperties, LenProperties DEF Queues
<1>2. Head(queue) = queue[1] /\ Head(queue) \in Notification
  BY HeadTailProperties DEF Queues
<1> HIDE DEF rest
<1>3. \A i \in 1 .. k + 1 : f[i] \in Int /\ f[i] = Share(queue[i], o)
  BY <1>1, FillsInShares
<1>4. \A i \in 1 .. k : g[i] = Share(rest[i], o)
  BY <1>1, FillsInShares
<1>5. FillsIn(queue, o) = SumFunctionOnSet(f, 1 .. k + 1)
  BY <1>1, FillsInShares
<1>6. FillsIn(rest, o) = SumFunctionOnSet(g, 1 .. k)
  BY <1>1, FillsInShares
<1>7. \A i \in 1 .. k : g[i] = f[i + 1]
  BY <1>1, <1>3, <1>4
<1> HIDE DEF f, g, k
<1>8. SumFunctionOnSet(f, 1 .. k + 1) = f[1] + SumFunctionOnSet(g, 1 .. k)
  BY <1>1, <1>3, <1>7, SumFirst
<1>9. f[1] = Share(Head(queue), o) /\ f[1] \in Int
  BY <1>1, <1>2, <1>3
<1>10. FillsIn(rest, o) \in Nat
  BY <1>1, FillsInType
<1> QED
  BY <1>1, <1>2, <1>5, <1>6, <1>8, <1>9, <1>10 DEF rest

\* Appending notifications that are no fills of the order changes nothing
\* for it: the queue that stop() or a session's setup extends.
LEMMA FillsInGrows ==
    ASSUME NEW queue \in Queues, NEW next \in Queues, NEW o,
           Len(queue) <= Len(next),
           \A i \in 1 .. Len(queue) : next[i] = queue[i],
           \A i \in Len(queue) + 1 .. Len(next) : ~(next[i].kind = "Fill" /\ next[i].id = o)
    PROVE  FillsIn(next, o) = FillsIn(queue, o)
<1> DEFINE k == Len(queue)
           m == Len(next)
           f == Shares(next, o)
<1>1. k \in Nat /\ m \in Nat
  BY FillsInShares
<1>2. \A i \in 1 .. m : f[i] \in Int /\ f[i] = Share(next[i], o)
  BY FillsInShares
<1>3. FillsIn(next, o) = SumFunctionOnSet(f, 1 .. m)
  BY FillsInShares
<1> HIDE DEF f
<1>4. \A i \in 1 .. k : f[i] = Shares(queue, o)[i] /\ Shares(queue, o)[i] \in Int
  BY <1>1, <1>2, FillsInShares
<1>5. \A i \in k + 1 .. m : f[i] = 0
  BY <1>1, <1>2 DEF Share
<1>6. /\ IsFiniteSet(1 .. k) /\ IsFiniteSet(k + 1 .. m)
      /\ 1 .. m = (1 .. k) \cup (k + 1 .. m)
      /\ (1 .. k) \cap (k + 1 .. m) = {}
  <2>1. k \in Nat /\ m \in Nat /\ k + 1 \in Int /\ k <= m
    BY <1>1
  <2>2. IsFiniteSet(1 .. k) /\ IsFiniteSet(k + 1 .. m)
    BY <2>1, FS_Interval
  <2> HIDE DEF k, m
  <2> QED
    BY <2>1, <2>2
<1>7. SumFunctionOnSet(f, 1 .. m) = SumFunctionOnSet(f, 1 .. k) + SumFunctionOnSet(f, k + 1 .. m)
  <2>1. \A i \in (1 .. k) \cup (k + 1 .. m) : f[i] \in Int
    BY <1>2, <1>6
  <2>2. SumFunctionOnSet(f, (1 .. k) \cup (k + 1 .. m))
            = SumFunctionOnSet(f, 1 .. k) + SumFunctionOnSet(f, k + 1 .. m)
    <3>1. IsFiniteSet(1 .. k) /\ IsFiniteSet(k + 1 .. m) /\ (1 .. k) \cap (k + 1 .. m) = {}
      BY <1>6
    <3> HIDE DEF k, m
    <3> QED
      BY <2>1, <3>1, SumSplits
  <2> QED
    BY <1>6, <2>2
<1>8. SumFunctionOnSet(f, k + 1 .. m) = 0
  BY <1>5, <1>6, SumZero
<1>9. SumFunctionOnSet(Shares(queue, o), 1 .. k) = SumFunctionOnSet(f, 1 .. k)
  BY <1>4, <1>6, SumAgrees
<1>10. FillsIn(queue, o) = SumFunctionOnSet(Shares(queue, o), 1 .. k) /\ FillsIn(queue, o) \in Nat
  BY FillsInShares, FillsInType
<1> QED
  BY <1>3, <1>7, <1>8, <1>9, <1>10

-----------------------------------------------------------------------------
\* The tracker has seen the NewOrder notification of o, or will: it is on the
\* channel.
Announced(o) ==
    /\ orders[o] # Null
    /\ \/ orders[o].st # "Sent"
       \/ \E j \in DOMAIN order_events : order_events[j].kind = "NewOrder" /\ order_events[j].id = o

\* An order that waits in a session's queue was recorded by the tracker and has
\* not been placed.
CommandsFresh ==
    \A s \in Sessions : \A i \in DOMAIN commands[s] :
        LET o == commands[s][i]
        IN  /\ orders[o] # Null /\ orders[o].st # "SendFailed"
            /\ venue[o].at = Null

\* No order waits twice, whatever the queue.
CommandsOnce ==
    \A s, t \in Sessions : \A i \in DOMAIN commands[s], j \in DOMAIN commands[t] :
        commands[s][i] = commands[t][j] => s = t /\ i = j

\* The order in a session's order_place() was placed by that session.
PlacingHere == \A s \in Sessions : placing[s] # Null => venue[placing[s]].at = s

\* The exchange does nothing with an order nobody placed.
VenueTyped == \A o \in Orders : venue[o].at = Null => venue[o].st = "None"

\* An order that was placed is announced, and something is left of it until it
\* is done.
VenueSound ==
    \A o \in Orders :
        /\ venue[o].at # Null =>
            /\ Announced(o)
            /\ orders[o].st # "SendFailed"
            /\ venue[o].st # "Done" => venue[o].left >= 1

\* A stream carries reports of orders its session placed, fills of at least one
\* step, and after the expiry of an order no fill of it.
StreamsSound ==
    \A s \in Sessions : \A i \in DOMAIN stream[s] :
        LET n == stream[s][i]
        IN  /\ n.kind \in {"Fill", "Cancel"}
            /\ venue[n.id].at = s
            /\ n.kind = "Fill" => n.qty >= 1
            /\ n.kind = "Cancel" =>
                /\ venue[n.id].st = "Done"
                /\ \A j \in i + 1 .. Len(stream[s]) :
                    ~(stream[s][j].kind = "Fill" /\ stream[s][j].id = n.id)

\* Announced quantities reach the tolerance; a rejection has the whole quantity.
EventsTyped ==
    \A i \in DOMAIN order_events :
        LET n == order_events[i]
        IN  /\ n.kind = "NewOrder" => n.qty >= Tolerance
            /\ n.kind = "Rejected" => n.qty = OrderQuantity

\* The channel keeps the order of things: a fill comes after the announcement of
\* its order, and an expiry after every fill of it, also of those on the stream.
EventsSound ==
    \A i \in DOMAIN order_events :
        LET n == order_events[i]
        IN  /\ n.kind \in {"NewOrder", "Fill", "Cancel"} => venue[n.id].at # Null
            /\ n.kind = "Fill" =>
                /\ n.qty >= 1
                /\ \/ orders[n.id].st # "Sent"
                   \/ \E j \in 1 .. i - 1 :
                        order_events[j].kind = "NewOrder" /\ order_events[j].id = n.id
            /\ n.kind = "Cancel" =>
                /\ venue[n.id].st = "Done"
                /\ \A j \in i + 1 .. Len(order_events) :
                    ~(order_events[j].kind = "Fill" /\ order_events[j].id = n.id)
                /\ \A j \in DOMAIN stream[venue[n.id].at] :
                    ~(stream[venue[n.id].at][j].kind = "Fill" /\ stream[venue[n.id].at][j].id = n.id)

\* A final report was published only for an order that has ended.
ClosedOnce ==
    \A o \in Orders :
        \/ closed[o] = 0
        \/ closed[o] = 1 /\ orders[o] # Null /\ orders[o].st = "Cancelled"

\* Nothing is booked or on its way that the exchange did not execute.
NeverOverbooked == \A o \in Orders : Reported(o) =< executed[o]

\* No connection or call has failed and the order sender runs.
Quiet == failures = 0 /\ place_failures = 0 /\ arbiter = "Running"

\* What the fills of o on the channel, and those on the stream of the session
\* that placed it, add up to.
Waiting(o) == FillsIn(order_events, o)

Streamed(o) == IF venue[o].at = Null THEN 0 ELSE FillsIn(stream[venue[o].at], o)

\* What order o still has coming, at the exchange or on the way.
Owed(o) == venue[o].left + Waiting(o) + Streamed(o)

\* What the tracker expects of an order is what is owed to it, and an order that
\* ended has nothing coming.
QuietOrder(o) ==
    /\ venue[o].at = Null => orders[o] = Null \/ orders[o].st \in {"Sent", "SendFailed"}
    /\ venue[o].at # Null =>
        /\ sess[venue[o].at] = "Main"
        /\ orders[o].st = "Sent" =>
            \A i \in DOMAIN order_events :
                order_events[i].kind = "NewOrder" /\ order_events[i].id = o
                    => order_events[i].qty = Owed(o)
        /\ orders[o].st = "Live" => orders[o].rem = Owed(o)
        /\ orders[o].st = "Cancelled" =>
            venue[o].st = "Done" /\ Waiting(o) = 0 /\ Streamed(o) = 0
    /\ Reported(o) = executed[o]

\* No session has died and no order was refused.
NoneLost ==
    /\ \A s \in Sessions : sess[s] # "Stopped"
    /\ \A i \in DOMAIN order_events : order_events[i].kind # "Rejected"

QuietSound == Quiet => NoneLost /\ \A o \in Orders : QuietOrder(o)

-----------------------------------------------------------------------------
\* update_order_status returns a status of the tracker, forgets no order, and
\* changes only one that was sent or is live.
LEMMA UpdateType ==
    ASSUME orders \in [Orders -> OrderStatus \cup {Null}],
           NEW o \in Orders, NEW q \in Nat, NEW is_cancel \in BOOLEAN
    PROVE  LET u == UpdateOrderStatus(o, q, is_cancel)
           IN  /\ u.next \in OrderStatus \cup {Null}
               /\ (u.next = Null) = (orders[o] = Null)
               /\ u.next # orders[o] => /\ orders[o].st \in {"Sent", "Live"}
                                        /\ u.next.st \in {"Live", "Cancelled"}
<1> DEFINE cur == orders[o]
<1>1. cur \in OrderStatus \cup {Null} /\ Null \notin OrderStatus
  BY NullAssumption
<1>2. Tolerance \in Nat /\ OrderQuantity \in Nat
  BY QuantityAssumption
<1>3. Ended \in OrderStatus
  BY DEF Ended, OrderStatus
<1>4. CASE cur = Null
  BY <1>1, <1>4 DEF UpdateOrderStatus, Update
<1>5. CASE cur \in OrderStatus
  <2>1. cur.st \in {"Sent", "Live", "Cancelled", "SendFailed"} /\ cur.rem \in Nat
    BY <1>2, <1>5 DEF OrderStatus
  <2>2. \/ UpdateOrderStatus(o, q, is_cancel).next = cur
        \/ /\ cur.st \in {"Sent", "Live"}
           /\ UpdateOrderStatus(o, q, is_cancel).next = Ended
        \/ /\ cur.st = "Live" /\ ~(cur.rem - q < Tolerance)
           /\ UpdateOrderStatus(o, q, is_cancel).next = [st |-> "Live", rem |-> cur.rem - q]
    BY <1>1, <1>5, <2>1 DEF UpdateOrderStatus, Update
  <2>3. ~(cur.rem - q < Tolerance) => [st |-> "Live", rem |-> cur.rem - q] \in OrderStatus
    BY <1>2, <2>1 DEF OrderStatus
  <2> QED
    BY <1>1, <1>3, <1>5, <2>2, <2>3 DEF Ended
<1> QED
  BY <1>1, <1>4, <1>5

-----------------------------------------------------------------------------
\* What notifications are made of.
LEMMA Notifications ==
    /\ \A s \in Sessions : /\ [kind |-> "Logon", id |-> s] \in Notification
                           /\ [kind |-> "Logout", id |-> s] \in Notification
    /\ \A o \in Orders, q \in Nat :
        \A kind \in {"NewOrder", "Fill", "Cancel", "Rejected"} : Order(kind, o, q) \in Notification
    /\ \A n \in Notification :
        \/ n.kind \in {"Logon", "Logout"} /\ n.id \in Sessions
        \/ /\ n.kind \in {"NewOrder", "Fill", "Cancel", "Rejected"}
           /\ n.id \in Orders /\ n.qty \in Nat
BY DEF Notification, Order

\* Initially the variables have their types.
LEMMA TypeInit == Init => TypeOK
<1> SUFFICES ASSUME Init PROVE TypeOK
  OBVIOUS
<1>1. trading_enabled \in [Sessions -> BOOLEAN]
  BY ModesAssumption DEF Init
<1>2. venue \in [Orders -> [st : {"None", "Open", "Done"}, left : Nat, at : Sessions \cup {Null}]]
  BY DEF Init
<1>3. /\ commands \in [Sessions -> Seq(Orders)]
      /\ stream \in [Sessions -> Seq(Notification)]
      /\ order_events \in Seq(Notification)
  BY DEF Init
<1>4. /\ orders \in [Orders -> OrderStatus \cup {Null}]
      /\ sess \in [Sessions -> SessionStates]
      /\ placing \in [Sessions -> Orders \cup {Null}]
  BY DEF Init, SessionStates
<1> QED
  BY <1>1, <1>2, <1>3, <1>4 DEF Init, TypeOK

\* The head and the rest of the channel.
LEMMA HeadTyped ==
    ASSUME TypeOK, order_events # <<>>
    PROVE  /\ Head(order_events) \in Notification
           /\ Head(order_events) = order_events[1]
           /\ 1 \in DOMAIN order_events
           /\ Tail(order_events) \in Seq(Notification)
           /\ Len(order_events) \in Nat
           /\ DOMAIN order_events = 1 .. Len(order_events)
           /\ Len(Tail(order_events)) = Len(order_events) - 1
           /\ DOMAIN Tail(order_events) = 1 .. Len(order_events) - 1
           /\ \A i \in DOMAIN Tail(order_events) : 
                /\ i + 1 \in DOMAIN order_events
                /\ Tail(order_events)[i] = order_events[i + 1]
<1>1. order_events \in Seq(Notification)
  BY DEF TypeOK
<1> QED
  BY <1>1, HeadTailProperties, LenProperties

\* Every step keeps the variables in their types.
LEMMA TypeStep ==
    ASSUME TypeOK, EventsTyped, VenueTyped, [Next]_vars
    PROVE  TypeOK'
<1> USE DEF TypeOK
<1>a. OrderQuantity \in Nat /\ \A q \in Treated : q \in Nat /\ q >= Tolerance
  BY QuantityAssumption
<1>1. CASE NewOrderBatch
  BY <1>1 DEF NewOrderBatch, trackerVars, sessionVars, venueVars, boundVars
<1>2. ASSUME NEW o \in Orders, NewOrder(o)
      PROVE  TypeOK'
  <2>1. [st |-> "SendFailed", rem |-> 0] \in OrderStatus
    BY DEF OrderStatus
  <2>2. [st |-> "Sent", rem |-> OrderQuantity] \in OrderStatus
    BY DEF OrderStatus
  <2>3. orders' \in [Orders -> OrderStatus \cup {Null}]
    <3>1. \/ orders' = orders
          \/ orders' = [orders EXCEPT ![o] = [st |-> "SendFailed", rem |-> 0]]
          \/ orders' = [orders EXCEPT ![o] = [st |-> "Sent", rem |-> OrderQuantity]]
      BY <1>2 DEF NewOrder
    <3> QED
      BY <2>1, <2>2, <3>1
  <2>4. commands' \in [Sessions -> Seq(Orders)]
    <3>1. CASE UNCHANGED commands
      BY <3>1
    <3>2. CASE session # Null /\ commands' = [commands EXCEPT ![session] = Append(@, o)]
      <4>1. Append(commands[session], o) \in Seq(Orders)
        BY <3>2, AppendProperties
      <4> QED
        BY <3>2, <4>1
    <3> QED
      BY <1>2, <3>1, <3>2 DEF NewOrder
  <2>5. sending' \subseteq requested'
    BY <1>2 DEF NewOrder
  <2> QED
    BY <1>2, <2>3, <2>4, <2>5 DEF NewOrder, sessionVars, venueVars, boundVars
<1>3. CASE HandleOrderNotification
  <2>1. order_events # <<>> => Head(order_events) \in Notification
                               /\ Tail(order_events) \in Seq(Notification)
    BY HeadTyped
  <2> DEFINE n == Head(order_events)
  <2>2. CASE HandleLogon
    <3>1. n.id \in Sessions
      BY <2>1, <2>2, Notifications DEF HandleLogon, Handle
    <3> QED
      BY <2>1, <2>2, <3>1 DEF HandleLogon, Handle, batchVars, sessionVars, venueVars, boundVars
  <2>3. CASE HandleLogout
    BY <2>1, <2>3 DEF HandleLogout, Handle, batchVars, sessionVars, venueVars, boundVars
  <2>4. CASE HandleNewOrder
    <3>1. n.id \in Orders /\ n.qty \in Nat
      BY <2>1, <2>4, Notifications DEF HandleNewOrder, Handle
    <3>2. n.qty >= Tolerance
      BY <2>4, HeadTyped DEF HandleNewOrder, Handle, EventsTyped
    <3>3. [st |-> "Live", rem |-> n.qty] \in OrderStatus
      BY <3>1, <3>2 DEF OrderStatus
    <3>4. orders' \in [Orders -> OrderStatus \cup {Null}]
      BY <2>4, <3>1, <3>3 DEF HandleNewOrder
    <3> QED
      BY <2>1, <2>4, <3>4 DEF HandleNewOrder, Handle, batchVars, sessionVars, venueVars, boundVars
  <2>5. CASE HandleRejected
    <3>1. n.id \in Orders /\ n.qty \in Nat
      BY <2>1, <2>5, Notifications DEF HandleRejected, Handle
    <3>2. UpdateOrderStatus(n.id, n.qty, TRUE).next \in OrderStatus \cup {Null}
      BY <3>1, UpdateType
    <3>3. orders' \in [Orders -> OrderStatus \cup {Null}]
      BY <2>5, <3>1, <3>2 DEF HandleRejected
    <3>4. closed' \in [Orders -> Nat]
      <4>1. \E c \in {closed[n.id], closed[n.id] + 1} : closed' = [closed EXCEPT ![n.id] = c]
        BY <2>5 DEF HandleRejected
      <4> QED
        BY <3>1, <4>1
    <3> QED
      BY <2>1, <2>5, <3>3, <3>4 DEF HandleRejected, Handle, batchVars, sessionVars, venueVars, boundVars
  <2>6. CASE HandleFill
    <3>1. n.id \in Orders /\ n.qty \in Nat
      BY <2>1, <2>6, Notifications DEF HandleFill, Handle
    <3>2. UpdateOrderStatus(n.id, n.qty, FALSE).next \in OrderStatus \cup {Null}
      BY <3>1, UpdateType
    <3>3. orders' \in [Orders -> OrderStatus \cup {Null}]
      BY <2>6, <3>1, <3>2 DEF HandleFill
    <3>4. closed' \in [Orders -> Nat]
      <4>1. \E c \in {closed[n.id], closed[n.id] + 1} : closed' = [closed EXCEPT ![n.id] = c]
        BY <2>6 DEF HandleFill
      <4> QED
        BY <3>1, <4>1
    <3>5. booked' \in [Orders -> Nat]
      <4>1. \E b \in {booked[n.id], booked[n.id] + n.qty} : booked' = [booked EXCEPT ![n.id] = b]
        BY <2>6 DEF HandleFill
      <4> QED
        BY <3>1, <4>1
    <3> QED
      BY <2>1, <2>6, <3>3, <3>4, <3>5 DEF HandleFill, Handle, batchVars, sessionVars, venueVars, boundVars
  <2>7. CASE HandleCancel
    <3>1. n.id \in Orders /\ n.qty \in Nat
      BY <2>1, <2>7, Notifications DEF HandleCancel, Handle
    <3>2. UpdateOrderStatus(n.id, n.qty, TRUE).next \in OrderStatus \cup {Null}
      BY <3>1, UpdateType
    <3>3. orders' \in [Orders -> OrderStatus \cup {Null}]
      BY <2>7, <3>1, <3>2 DEF HandleCancel
    <3>4. closed' \in [Orders -> Nat]
      <4>1. \E c \in {closed[n.id], closed[n.id] + 1} : closed' = [closed EXCEPT ![n.id] = c]
        BY <2>7 DEF HandleCancel
      <4> QED
        BY <3>1, <4>1
    <3> QED
      BY <2>1, <2>7, <3>3, <3>4 DEF HandleCancel, Handle, batchVars, sessionVars, venueVars, boundVars
  <2> QED
    BY <1>3, <2>2, <2>3, <2>4, <2>5, <2>6, <2>7 DEF HandleOrderNotification
<1>4. CASE CheckStopped
  <2>1. sess' \in [Sessions -> SessionStates]
    BY <1>4 DEF CheckStopped, SessionStates
  <2>2. commands' \in [Sessions -> Seq(Orders)]
    BY <1>4 DEF CheckStopped
  <2> QED
    BY <1>4, <2>1, <2>2 DEF CheckStopped, trackerVars, batchVars, venueVars, boundVars
<1>5. CASE StopArbiter
  BY <1>5 DEF StopArbiter, trackerVars, batchVars, venueVars, boundVars
<1>6. ASSUME NEW s \in Sessions
      PROVE  /\ AddSession(s) => TypeOK'
             /\ SetupFailed(s) => TypeOK'
             /\ SessionLost(s) => TypeOK'
             /\ SessionReady(s) => TypeOK'
  <2>1. \A n \in Notification : Append(order_events, n) \in Seq(Notification)
    BY AppendProperties
  <2>2. /\ Append(order_events, [kind |-> "Logon", id |-> s]) \in Seq(Notification)
        /\ Append(order_events, [kind |-> "Logout", id |-> s]) \in Seq(Notification)
    BY <2>1, Notifications
  <2>3. AddSession(s) => TypeOK'
    BY DEF AddSession, SessionStates, trackerVars, batchVars, venueVars, boundVars
  <2>4. SetupFailed(s) => TypeOK'
    <3>1. SetupFailed(s) => order_events' \in Seq(Notification)
      BY <2>2 DEF SetupFailed, Publish
    <3> QED
    BY <3>1 DEF SetupFailed, Publish, SessionStates, trackerVars, batchVars, venueVars
  <2>5. SessionLost(s) => TypeOK'
    BY DEF SessionLost, SessionStates, trackerVars, batchVars, venueVars
  <2>6. SessionReady(s) => TypeOK'
    BY <2>2 DEF SessionReady, Publish, SessionStates, trackerVars, batchVars, venueVars, boundVars
  <2> QED
    BY <2>3, <2>4, <2>5, <2>6
<1>7. ASSUME NEW s \in Sessions, StopSession(s)
      PROVE  TypeOK'
  <2> DEFINE logout == IF sess[s] = "Main" THEN <<[kind |-> "Logout", id |-> s]>> ELSE <<>>
             rejects == [i \in DOMAIN commands[s] |-> Order("Rejected", commands[s][i], OrderQuantity)]
  <2>1. logout \in Seq(Notification)
    <3>1. [kind |-> "Logout", id |-> s] \in Notification
      BY Notifications
    <3>2. <<[kind |-> "Logout", id |-> s]>> \in Seq(Notification)
      BY <3>1
    <3> QED
      BY <3>2
  <2>2. rejects \in Seq(Notification)
    <3>1. commands[s] \in Seq(Orders)
      OBVIOUS
    <3>2. Len(commands[s]) \in Nat /\ DOMAIN commands[s] = 1 .. Len(commands[s])
      BY <3>1, LenProperties
    <3>3. \A i \in 1 .. Len(commands[s]) : commands[s][i] \in Orders
      BY <3>1, ElementOfSeq
    <3>4. \A i \in 1 .. Len(commands[s]) : rejects[i] \in Notification
      BY <1>a, <3>2, <3>3, Notifications
    <3>5. rejects = [i \in 1 .. Len(commands[s]) |-> rejects[i]]
      BY <3>2
    <3> HIDE DEF rejects
    <3> QED
      BY <3>2, <3>4, <3>5, IsASeq
  <2>3. order_events' = order_events \o logout \o rejects
    BY <1>7 DEF StopSession
  <2> HIDE DEF logout, rejects
  <2>4. order_events' \in Seq(Notification)
    BY <2>1, <2>2, <2>3, ConcatProperties
  <2>5. sess' \in [Sessions -> SessionStates]
    BY <1>7 DEF StopSession, SessionStates
  <2> QED
    BY <1>7, <2>4, <2>5 DEF StopSession, trackerVars, batchVars, venueVars, boundVars
<1>8. ASSUME NEW s \in Sessions
      PROVE  /\ RefuseCommand(s) => TypeOK'
             /\ ExecuteCommand(s) => TypeOK'
             /\ RejectUntreated(s) => TypeOK'
  <2> SUFFICES ASSUME CanExecute(s) PROVE /\ RefuseCommand(s) => TypeOK'
                                          /\ ExecuteCommand(s) => TypeOK'
                                          /\ RejectUntreated(s) => TypeOK'
    BY DEF RefuseCommand, ExecuteCommand, RejectUntreated
  <2>1. Head(commands[s]) \in Orders /\ Tail(commands[s]) \in Seq(Orders)
    BY HeadTailProperties DEF CanExecute
  <2>2. \A q \in Nat : \A kind \in {"NewOrder", "Rejected"} :
            Append(order_events, Order(kind, Head(commands[s]), q)) \in Seq(Notification)
    BY <2>1, Notifications, AppendProperties
  <2>3. RefuseCommand(s) => TypeOK'
    BY <2>1 DEF RefuseCommand, trackerVars, batchVars, sessionVars, venueVars, boundVars
  <2>4. ASSUME ExecuteCommand(s) PROVE TypeOK'
    <3>1. PICK q \in Treated :
            /\ Publish(Order("NewOrder", Head(commands[s]), q))
            /\ venue' = [venue EXCEPT ![Head(commands[s])] = [st |-> "None", left |-> q, at |-> s]]
      BY <2>4 DEF ExecuteCommand
    <3>2. order_events' \in Seq(Notification)
      BY <1>a, <2>2, <3>1 DEF Publish
    <3>3. [st |-> "None", left |-> q, at |-> s]
            \in [st : {"None", "Open", "Done"}, left : Nat, at : Sessions \cup {Null}]
      BY <1>a
    <3>4. venue' \in [Orders -> [st : {"None", "Open", "Done"}, left : Nat,
                          at : Sessions \cup {Null}]]
      BY <2>1, <3>1, <3>3
    <3>5. commands' \in [Sessions -> Seq(Orders)] /\ placing' \in [Sessions -> Orders \cup {Null}]
      BY <2>1, <2>4 DEF ExecuteCommand
    <3> QED
      BY <2>4, <3>2, <3>4, <3>5 DEF ExecuteCommand, trackerVars, batchVars, sessionVars, boundVars
  <2>5. ASSUME RejectUntreated(s) PROVE TypeOK'
    <3>1. order_events' \in Seq(Notification)
      BY <1>a, <2>2, <2>5 DEF RejectUntreated, Publish
    <3>2. commands' \in [Sessions -> Seq(Orders)]
      BY <2>1, <2>5 DEF RejectUntreated
    <3>3. place_failures' \in Nat /\ failures' = failures
      BY <2>5 DEF RejectUntreated
    <3>4. UNCHANGED <<trackerVars, batchVars, sessionVars, placing, venueVars, stream>>
      BY <2>5 DEF RejectUntreated
    <3> QED
      BY <3>1, <3>2, <3>3, <3>4 DEF trackerVars, batchVars, sessionVars, venueVars
  <2> QED
    BY <2>3, <2>4, <2>5
<1>9. ASSUME NEW s \in Sessions
      PROVE  /\ PlaceSucceeded(s) => TypeOK'
             /\ PlaceFailed(s) => TypeOK'
             /\ VenueAccept(s) => TypeOK'
  <2>1. placing[s] # Null => Append(order_events, Order("Rejected", placing[s], OrderQuantity))
                                \in Seq(Notification)
    BY <1>a, Notifications, AppendProperties
  <2>2. PlaceSucceeded(s) => TypeOK'
    BY DEF PlaceSucceeded, trackerVars, batchVars, sessionVars, venueVars, boundVars
  <2>3. PlaceFailed(s) => TypeOK'
    <3> SUFFICES ASSUME PlaceFailed(s) PROVE TypeOK'
      OBVIOUS
    <3>1. order_events' \in Seq(Notification)
      BY <2>1 DEF PlaceFailed, Publish
    <3>2. placing' \in [Sessions -> Orders \cup {Null}]
      BY DEF PlaceFailed
    <3> QED
      BY <3>1, <3>2 DEF PlaceFailed, trackerVars, batchVars, sessionVars, venueVars
  <2>4. VenueAccept(s) => TypeOK'
    <3>1. VenueAccept(s) => venue' \in [Orders -> [st : {"None", "Open", "Done"}, left : Nat,
                                                  at : Sessions \cup {Null}]]
      <4> SUFFICES ASSUME VenueAccept(s)
                   PROVE  venue' \in [Orders -> [st : {"None", "Open", "Done"}, left : Nat,
                                                at : Sessions \cup {Null}]]
        OBVIOUS
      <4>1. PICK o \in Orders : venue' = [venue EXCEPT ![o].st = "Open"]
        BY DEF VenueAccept
      <4> QED
        <5>1. [venue[o] EXCEPT !.st = "Open"] \in [st : {"None", "Open", "Done"}, left : Nat,
                                                   at : Sessions \cup {Null}]
          OBVIOUS
        <5> QED
          BY <4>1, <5>1
    <3> QED
    BY <3>1 DEF VenueAccept, trackerVars, batchVars, sessionVars, boundVars
  <2> QED
    BY <2>2, <2>3, <2>4
<1>10. ASSUME NEW s \in Sessions, DeliverReport(s)
       PROVE  TypeOK'
  <2>1. Head(stream[s]) \in Notification /\ Tail(stream[s]) \in Seq(Notification)
    BY <1>10, HeadTailProperties DEF DeliverReport
  <2>2. Append(order_events, Head(stream[s])) \in Seq(Notification)
    BY <2>1, AppendProperties
  <2> QED
    BY <1>10, <2>1, <2>2 DEF DeliverReport, Publish, trackerVars, batchVars, sessionVars,
       venueVars, boundVars
<1>11. ASSUME NEW o \in Orders, Exchange(o)
       PROVE  TypeOK'
  <2>a. venue[o].at \in Sessions
    BY <1>11 DEF Exchange, VenueFill, VenueExpire, VenueTyped
  <2>1. \A q \in Nat : \A kind \in {"Fill", "Cancel"} :
            Append(stream[venue[o].at], Order(kind, o, q)) \in Seq(Notification)
    BY <2>a, Notifications, AppendProperties
  <2>2. \A q \in Nat : \A kind \in {"Fill", "Cancel"} :
            Report(o, Order(kind, o, q)) => stream' \in [Sessions -> Seq(Notification)]
    BY <2>a, <2>1 DEF Report
  <2>3. CASE VenueFill(o)
    <3>1. PICK q \in 1 .. venue[o].left :
            /\ venue' = [venue EXCEPT ![o] = [st |-> IF @.left = q THEN "Done" ELSE "Open",
                                              left |-> @.left - q, at |-> @.at]]
            /\ executed' = [executed EXCEPT ![o] = @ + q]
            /\ Report(o, Order("Fill", o, q))
      BY <2>3 DEF VenueFill
    <3>2. venue[o].left \in Nat /\ q \in Nat /\ venue[o].left - q \in Nat
      BY <3>1
    <3>3. venue' \in [Orders -> [st : {"None", "Open", "Done"}, left : Nat,
                          at : Sessions \cup {Null}]]
      BY <3>1, <3>2
    <3>4. stream' \in [Sessions -> Seq(Notification)]
      BY <2>2, <3>1, <3>2
    <3>5. executed' \in [Orders -> Nat]
      BY <3>1, <3>2
    <3> QED
      BY <2>3, <3>3, <3>4, <3>5 DEF VenueFill, trackerVars, batchVars, sessionVars, boundVars
  <2>4. CASE VenueExpire(o)
    BY <2>2, <2>4 DEF VenueExpire, trackerVars, batchVars, sessionVars, boundVars
  <2> QED
    BY <1>11, <2>3, <2>4 DEF Exchange
<1>12. CASE UNCHANGED vars
  BY <1>12 DEF vars, trackerVars, batchVars, sessionVars, venueVars, boundVars
<1> QED
  BY <1>1, <1>2, <1>3, <1>4, <1>5, <1>6, <1>7, <1>8, <1>9, <1>10, <1>11, <1>12
     DEF Next, Send, SessionStep

-----------------------------------------------------------------------------
\* The channel only gets longer, by logons, logouts and rejections.
Grows ==
    /\ order_events' \in Queues
    /\ Len(order_events) <= Len(order_events')
    /\ \A i \in 1 .. Len(order_events) : order_events'[i] = order_events[i]
    /\ \A i \in Len(order_events) + 1 .. Len(order_events') :
        \/ order_events'[i].kind \in {"Logon", "Logout"}
        \/ order_events'[i].kind = "Rejected" /\ order_events'[i].qty = OrderQuantity

\* Steps that leave the orders and the exchange alone: sessions come and go and
\* queues are drained.
Quietens ==
    /\ UNCHANGED <<orders, booked, closed, venue, executed>>
    /\ \A s \in Sessions :
        /\ placing'[s] \in {placing[s], Null}
        /\ stream'[s] \in {stream[s], <<>>}
        /\ \/ commands'[s] \in {commands[s], <<>>}
           \/ commands[s] # <<>> /\ commands'[s] = Tail(commands[s])
    /\ Grows

\* The backend thread takes notification n; at most the order it names changes,
\* and never one that has ended.
Handles(n) ==
    /\ order_events # <<>>
    /\ n = Head(order_events)
    /\ order_events' = Tail(order_events)
    /\ UNCHANGED <<sess, commands, placing, venue, executed, stream, arbiter, boundVars>>
    /\ \A o \in Orders :
        orders'[o] # orders[o] =>
            /\ o = n.id
            /\ orders[o] # Null /\ orders[o].st \in {"Sent", "Live"}
            /\ orders'[o] # Null /\ orders'[o].st \in {"Live", "Cancelled"}
    /\ n.kind = "NewOrder" /\ orders[n.id] # Null => orders'[n.id].st # "Sent"

\* Publishing a logon, a logout or a rejection makes the channel longer.
LEMMA EventsGrow ==
    ASSUME TypeOK, NEW n \in Notification,
           \/ n.kind \in {"Logon", "Logout"}
           \/ n.kind = "Rejected" /\ n.qty = OrderQuantity,
           Publish(n)
    PROVE  Grows
<1>1. order_events \in Seq(Notification) /\ Len(order_events) \in Nat
  BY LenProperties DEF TypeOK
<1> QED
  BY <1>1, AppendProperties DEF Publish, Grows, Queues

\* The steps of the arbiter and of the sessions that place no order.
LEMMA SomeQuieten ==
    ASSUME TypeOK,
           \/ NewOrderBatch \/ CheckStopped \/ StopArbiter \/ UNCHANGED vars
           \/ \E s \in Sessions :
                \/ AddSession(s) \/ SessionReady(s) \/ SetupFailed(s) \/ SessionLost(s)
                \/ StopSession(s) \/ RefuseCommand(s) \/ RejectUntreated(s)
                \/ PlaceSucceeded(s) \/ PlaceFailed(s)
    PROVE  Quietens
<1>1. UNCHANGED order_events => Grows
  <2>1. order_events \in Seq(Notification) /\ Len(order_events) \in Nat
    BY LenProperties DEF TypeOK
  <2> QED
    BY <2>1 DEF Grows, Queues
<1>2. OrderQuantity \in Nat
  BY QuantityAssumption
<1>3. CASE NewOrderBatch \/ StopArbiter \/ UNCHANGED vars
  BY <1>1, <1>3 DEF NewOrderBatch, StopArbiter, vars, trackerVars, batchVars, sessionVars,
     venueVars, boundVars, Quietens
<1>4. CASE CheckStopped
  BY <1>1, <1>4 DEF CheckStopped, trackerVars, batchVars, venueVars, boundVars, Quietens
<1>5. ASSUME NEW s \in Sessions, AddSession(s) \/ SessionLost(s) \/ PlaceSucceeded(s)
      PROVE  Quietens
  BY <1>1, <1>5 DEF AddSession, SessionLost, PlaceSucceeded, trackerVars, batchVars,
     sessionVars, venueVars, boundVars, Quietens, TypeOK
<1>6. ASSUME NEW s \in Sessions, SessionReady(s) \/ SetupFailed(s)
      PROVE  Quietens
  <2>1. Grows
    BY <1>1, <1>6, EventsGrow, Notifications DEF SessionReady, SetupFailed
  <2> QED
    BY <1>6, <2>1 DEF SessionReady, SetupFailed, trackerVars, batchVars, sessionVars,
       venueVars, boundVars, Quietens
<1>7. ASSUME NEW s \in Sessions, PlaceFailed(s)
      PROVE  Quietens
  <2>1. placing[s] \in Orders
    BY <1>7 DEF PlaceFailed, TypeOK
  <2>2. Order("Rejected", placing[s], OrderQuantity).kind = "Rejected"
        /\ Order("Rejected", placing[s], OrderQuantity).qty = OrderQuantity
    BY DEF Order
  <2>3. Order("Rejected", placing[s], OrderQuantity) \in Notification
    BY <1>2, <2>1, Notifications
  <2>4. Grows
    BY <1>7, <2>2, <2>3, EventsGrow DEF PlaceFailed
  <2> QED
    BY <1>7, <2>4 DEF PlaceFailed, trackerVars, batchVars, sessionVars, venueVars, Quietens, TypeOK
<1>8. ASSUME NEW s \in Sessions, RefuseCommand(s)
      PROVE  Quietens
  BY <1>1, <1>8 DEF RefuseCommand, CanExecute, trackerVars, batchVars, sessionVars, venueVars,
     boundVars, Quietens, TypeOK
<1>9. ASSUME NEW s \in Sessions, RejectUntreated(s)
      PROVE  Quietens
  <2>1. commands[s] # <<>> /\ Head(commands[s]) \in Orders
    BY <1>9, HeadTailProperties DEF RejectUntreated, CanExecute, TypeOK
  <2>2. Order("Rejected", Head(commands[s]), OrderQuantity).kind = "Rejected"
        /\ Order("Rejected", Head(commands[s]), OrderQuantity).qty = OrderQuantity
    BY DEF Order
  <2>3. Order("Rejected", Head(commands[s]), OrderQuantity) \in Notification
    BY <1>2, <2>1, Notifications
  <2>4. Grows
    BY <1>9, <2>2, <2>3, EventsGrow DEF RejectUntreated
  <2> QED
    BY <1>9, <2>1, <2>4 DEF RejectUntreated, trackerVars, batchVars, sessionVars, venueVars,
       Quietens, TypeOK
<1>10. ASSUME NEW s \in Sessions, StopSession(s)
       PROVE  Quietens
  <2>1. LET logout == IF sess[s] = "Main" THEN <<[kind |-> "Logout", id |-> s]>> ELSE <<>>
            rejects == [i \in DOMAIN commands[s] |-> Order("Rejected", commands[s][i], OrderQuantity)]
        IN  order_events' = order_events \o logout \o rejects
    BY <1>10 DEF StopSession
  <2> DEFINE logout == IF sess[s] = "Main" THEN <<[kind |-> "Logout", id |-> s]>> ELSE <<>>
             rejects == [i \in DOMAIN commands[s] |-> Order("Rejected", commands[s][i], OrderQuantity)]
  <2>2. logout \in Seq(Notification) /\ \A i \in 1 .. Len(logout) : logout[i].kind = "Logout"
    <3>1. [kind |-> "Logout", id |-> s] \in Notification
      BY Notifications
    <3>2. <<[kind |-> "Logout", id |-> s]>> \in Seq(Notification)
      BY <3>1
    <3> QED
      BY <3>2
  <2>3. /\ rejects \in Seq(Notification)
        /\ \A i \in 1 .. Len(rejects) : rejects[i].kind = "Rejected" /\ rejects[i].qty = OrderQuantity
    <3>1. commands[s] \in Seq(Orders)
      BY DEF TypeOK
    <3>2. Len(commands[s]) \in Nat /\ DOMAIN commands[s] = 1 .. Len(commands[s])
      BY <3>1, LenProperties
    <3>3. \A i \in 1 .. Len(commands[s]) : commands[s][i] \in Orders
      BY <3>1, ElementOfSeq
    <3>4. \A i \in 1 .. Len(commands[s]) :
            /\ rejects[i] \in Notification
            /\ rejects[i].kind = "Rejected" /\ rejects[i].qty = OrderQuantity
      BY <1>2, <3>2, <3>3, Notifications DEF Order
    <3>5. rejects = [i \in 1 .. Len(commands[s]) |-> rejects[i]]
      BY <3>2
    <3> HIDE DEF rejects
    <3>6. rejects \in Seq(Notification)
      <4>1. \A i \in 1 .. Len(commands[s]) : rejects[i] \in Notification
        BY <3>4
      <4> QED
        BY <3>2, <3>5, <4>1, IsASeq
    <3>7. Len(rejects) = Len(commands[s])
      BY <3>2, <3>5, <3>6, LenProperties
    <3> QED
      BY <3>4, <3>6, <3>7
  <2>4. order_events' = order_events \o logout \o rejects
    BY <2>1
  <2> HIDE DEF logout, rejects
  <2>5. /\ order_events \in Seq(Notification) /\ Len(order_events) \in Nat
        /\ Len(logout) \in Nat /\ Len(rejects) \in Nat
    BY <2>2, <2>3, LenProperties DEF TypeOK
  <2>6. /\ order_events \o logout \in Seq(Notification)
        /\ Len(order_events \o logout) = Len(order_events) + Len(logout)
        /\ \A i \in 1 .. Len(order_events) + Len(logout) :
             (order_events \o logout)[i] = IF i <= Len(order_events) THEN order_events[i]
                                           ELSE logout[i - Len(order_events)]
    BY <2>2, <2>5, ConcatProperties
  <2>7. /\ order_events' \in Seq(Notification)
        /\ Len(order_events') = Len(order_events) + Len(logout) + Len(rejects)
        /\ \A i \in 1 .. Len(order_events) + Len(logout) + Len(rejects) :
             order_events'[i] = IF i <= Len(order_events) + Len(logout)
                                THEN (order_events \o logout)[i]
                                ELSE rejects[i - (Len(order_events) + Len(logout))]
    BY <2>3, <2>4, <2>6, ConcatProperties
  <2>8. ASSUME NEW i \in Len(order_events) + 1 .. Len(order_events')
        PROVE  \/ order_events'[i].kind \in {"Logon", "Logout"}
               \/ order_events'[i].kind = "Rejected" /\ order_events'[i].qty = OrderQuantity
    <3>1. CASE i <= Len(order_events) + Len(logout)
      <4>1. i - Len(order_events) \in 1 .. Len(logout)
        BY <2>5, <3>1
      <4>2. order_events'[i] = logout[i - Len(order_events)]
        BY <2>5, <2>6, <2>7, <3>1
      <4> QED
        BY <2>2, <4>1, <4>2
    <3>2. CASE ~(i <= Len(order_events) + Len(logout))
      <4>1. i - (Len(order_events) + Len(logout)) \in 1 .. Len(rejects)
        BY <2>5, <2>7, <3>2
      <4>2. order_events'[i] = rejects[i - (Len(order_events) + Len(logout))]
        BY <2>5, <2>7, <3>2
      <4> QED
        BY <2>3, <4>1, <4>2
    <3> QED
      BY <3>1, <3>2
  <2>9. Grows
    BY <2>5, <2>6, <2>7, <2>8 DEF Grows, Queues
  <2> QED
    BY <1>10, <2>9 DEF StopSession, trackerVars, batchVars, sessionVars, venueVars, boundVars,
       Quietens, TypeOK
<1> QED
  BY <1>3, <1>4, <1>5, <1>6, <1>7, <1>8, <1>9, <1>10

\* Each handler takes the head of the channel and moves only its order on.
LEMMA SomeHandle ==
    ASSUME TypeOK, EventsTyped, HandleOrderNotification
    PROVE  \E n \in Notification : Handles(n)
<1> DEFINE n == Head(order_events)
<1>1. order_events # <<>> /\ order_events' = Tail(order_events) /\ n \in Notification
  BY HeadTyped DEF HandleOrderNotification, HandleLogon, HandleLogout, HandleNewOrder,
     HandleRejected, HandleFill, HandleCancel, Handle
<1>2. UNCHANGED <<sess, commands, placing, venue, executed, stream, arbiter, boundVars>>
  BY DEF HandleOrderNotification, HandleLogon, HandleLogout, HandleNewOrder,
     HandleRejected, HandleFill, HandleCancel, Handle, batchVars, sessionVars, venueVars
<1>3. ASSUME n.kind \in {"Logon", "Logout"}
      PROVE  UNCHANGED orders
  BY <1>3 DEF HandleOrderNotification, HandleLogon, HandleLogout, HandleNewOrder,
     HandleRejected, HandleFill, HandleCancel, Handle
<1>4. ASSUME n.kind = "NewOrder"
      PROVE  orders' = IF orders[n.id] # Null /\ orders[n.id].st = "Sent"
                       THEN [orders EXCEPT ![n.id] = [st |-> "Live", rem |-> n.qty]]
                       ELSE orders
  BY <1>4 DEF HandleOrderNotification, HandleLogon, HandleLogout, HandleNewOrder,
     HandleRejected, HandleFill, HandleCancel, Handle
<1>5. ASSUME n.kind \in {"Rejected", "Fill", "Cancel"}
      PROVE  \E is_cancel \in BOOLEAN :
                orders' = [orders EXCEPT ![n.id] = UpdateOrderStatus(n.id, n.qty, is_cancel).next]
  BY <1>5 DEF HandleOrderNotification, HandleLogon, HandleLogout, HandleNewOrder,
     HandleRejected, HandleFill, HandleCancel, Handle
<1> HIDE DEF n
<1>6. \/ n.kind \in {"Logon", "Logout"}
      \/ /\ n.kind \in {"NewOrder", "Fill", "Cancel", "Rejected"}
         /\ n.id \in Orders /\ n.qty \in Nat
  BY <1>1, Notifications
<1>7. orders \in [Orders -> OrderStatus \cup {Null}]
  BY DEF TypeOK
<1>8. CASE n.kind \in {"Logon", "Logout"}
  BY <1>1, <1>2, <1>3, <1>8 DEF Handles, n
<1>9. CASE n.kind = "NewOrder"
  <2>1. n.qty >= Tolerance /\ n.qty \in Nat /\ n.id \in Orders
    BY <1>6, <1>9, HeadTyped, <1>1 DEF EventsTyped, n
  <2>2. [st |-> "Live", rem |-> n.qty] # Null
    <3>1. [st |-> "Live", rem |-> n.qty] \in OrderStatus
      BY <2>1 DEF OrderStatus
    <3> QED
      BY <3>1, NullAssumption
  <2> QED
    BY <1>1, <1>2, <1>4, <1>7, <1>9, <2>1, <2>2 DEF Handles, n
<1>10. CASE n.kind \in {"Rejected", "Fill", "Cancel"}
  <2>1. PICK is_cancel \in BOOLEAN :
            orders' = [orders EXCEPT ![n.id] = UpdateOrderStatus(n.id, n.qty, is_cancel).next]
    BY <1>5, <1>10
  <2>2. n.id \in Orders /\ n.qty \in Nat
    BY <1>6, <1>10
  <2> DEFINE u == UpdateOrderStatus(n.id, n.qty, is_cancel)
  <2>3. /\ u.next \in OrderStatus \cup {Null}
        /\ (u.next = Null) = (orders[n.id] = Null)
        /\ u.next # orders[n.id] => /\ orders[n.id].st \in {"Sent", "Live"}
                                    /\ u.next.st \in {"Live", "Cancelled"}
    BY <1>7, <2>2, UpdateType
  <2> HIDE DEF u
  <2>4. orders' = [orders EXCEPT ![n.id] = u.next]
    BY <2>1 DEF u
  <2>5. ASSUME NEW o \in Orders, orders'[o] # orders[o]
        PROVE  /\ o = n.id
               /\ orders[o] # Null /\ orders[o].st \in {"Sent", "Live"}
               /\ orders'[o] # Null /\ orders'[o].st \in {"Live", "Cancelled"}
    BY <1>7, <2>3, <2>4, <2>5
  <2> QED
    BY <1>1, <1>2, <1>10, <2>5 DEF Handles, n
<1> QED
  BY <1>6, <1>8, <1>9, <1>10

-----------------------------------------------------------------------------
\* new_order records o and sends its command, or records that it could not.
Sends(o) ==
    /\ UNCHANGED <<booked, closed, venue, executed, stream, placing, order_events>>
    /\ orders[o] = Null
    /\ \/ /\ orders' = [orders EXCEPT ![o] = [st |-> "SendFailed", rem |-> 0]]
          /\ UNCHANGED commands
       \/ /\ orders' = [orders EXCEPT ![o] = [st |-> "Sent", rem |-> OrderQuantity]]
          /\ session \in Sessions
          /\ commands' = [commands EXCEPT ![session] = Append(@, o)]

\* Every step is of one of these shapes.
LEMMA StepShapes ==
    ASSUME TypeOK, EventsTyped, [Next]_vars
    PROVE  \/ Quietens
           \/ \E n \in Notification : HandleOrderNotification /\ Handles(n)
           \/ \E o \in Orders : Sends(o)
           \/ \E s \in Sessions : ExecuteCommand(s) \/ VenueAccept(s) \/ DeliverReport(s)
           \/ \E o \in Orders : VenueFill(o) \/ VenueExpire(o)
<1>1. ASSUME NEW o \in Orders, NewOrder(o)
      PROVE  Quietens \/ Sends(o)
  <2>1. CASE session = Null \/ orders[o] # Null
    <3>1. Grows
      <4>1. order_events \in Seq(Notification) /\ Len(order_events) \in Nat
        BY LenProperties DEF TypeOK
      <4> QED
        BY <1>1, <4>1 DEF NewOrder, Grows, Queues
    <3> QED
      BY <1>1, <2>1, <3>1 DEF NewOrder, Quietens, venueVars
  <2>2. CASE ~(session = Null \/ orders[o] # Null)
    BY <1>1, <2>2 DEF NewOrder, Sends, venueVars, TypeOK
  <2> QED
    BY <2>1, <2>2
<1>2. CASE HandleOrderNotification
  BY <1>2, SomeHandle
<1> QED
  BY <1>1, <1>2, SomeQuieten DEF Next, Send, SessionStep, Exchange

\* Queues of commands lose at most their first elements.
Shrinks ==
    \A s \in Sessions : \E d \in Nat : \A i \in DOMAIN commands'[s] :
        i \in Nat /\ i + d \in DOMAIN commands[s] /\ commands'[s][i] = commands[s][i + d]

\* The elements of a queue of commands.
LEMMA CommandFacts ==
    ASSUME TypeOK, NEW s \in Sessions
    PROVE  /\ commands[s] \in Seq(Orders) /\ Len(commands[s]) \in Nat
           /\ DOMAIN commands[s] = 1 .. Len(commands[s])
           /\ \A i \in DOMAIN commands[s] : commands[s][i] \in Orders
           /\ commands[s] # <<>> =>
                /\ 1 \in DOMAIN commands[s] /\ Head(commands[s]) = commands[s][1]
                /\ DOMAIN Tail(commands[s]) = 1 .. Len(commands[s]) - 1
                /\ \A i \in 1 .. Len(commands[s]) - 1 :
                    /\ i + 1 \in DOMAIN commands[s]
                    /\ Tail(commands[s])[i] = commands[s][i + 1]
<1>1. commands[s] \in Seq(Orders)
  BY DEF TypeOK
<1> QED
  BY <1>1, LenProperties, ElementOfSeq, HeadTailProperties

\* Neither draining a queue nor executing a command reorders it.
LEMMA SomeShrink ==
    ASSUME TypeOK, Quietens \/ \E s \in Sessions : ExecuteCommand(s)
    PROVE  Shrinks
<1> SUFFICES ASSUME NEW s \in Sessions
             PROVE  \E d \in Nat : \A i \in DOMAIN commands'[s] :
                        /\ i \in Nat /\ i + d \in DOMAIN commands[s]
                        /\ commands'[s][i] = commands[s][i + d]
  BY DEF Shrinks
<1>1. \/ commands'[s] \in {commands[s], <<>>}
      \/ commands[s] # <<>> /\ commands'[s] = Tail(commands[s])
  <2>1. CASE Quietens
    BY <2>1 DEF Quietens
  <2>2. ASSUME NEW t \in Sessions, ExecuteCommand(t)
        PROVE  \/ commands'[s] \in {commands[s], <<>>}
               \/ commands[s] # <<>> /\ commands'[s] = Tail(commands[s])
    <3>1. commands[t] # <<>> /\ commands' = [commands EXCEPT ![t] = Tail(@)]
      BY <2>2 DEF ExecuteCommand, CanExecute
    <3> QED
      BY <3>1 DEF TypeOK
  <2> QED
    BY <2>1, <2>2
<1>2. CASE commands'[s] = commands[s]
  <2>1. \A i \in DOMAIN commands'[s] : i \in Nat /\ i + 0 = i
    BY <1>2, CommandFacts
  <2> QED
    BY <1>2, <2>1
<1>3. CASE commands'[s] = <<>>
  BY <1>3
<1>4. CASE commands[s] # <<>> /\ commands'[s] = Tail(commands[s])
  <2>1. \A i \in DOMAIN commands'[s] : /\ i \in Nat /\ i + 1 \in DOMAIN commands[s]
                                       /\ commands'[s][i] = commands[s][i + 1]
    BY <1>4, CommandFacts
  <2> QED
    BY <2>1
<1> QED
  BY <1>1, <1>2, <1>3, <1>4

\* The tracker forgets no order, and an order moves on: from sent to live or
\* ended, from live to ended, and no further.
LEMMA OrdersKept ==
    ASSUME TypeOK, \/ Quietens
                   \/ \E n \in Notification : Handles(n)
                   \/ \E o \in Orders : Sends(o)
                   \/ \E s \in Sessions : ExecuteCommand(s) \/ VenueAccept(s) \/ DeliverReport(s)
                   \/ \E o \in Orders : VenueFill(o) \/ VenueExpire(o),
           NEW o \in Orders, orders[o] # Null
    PROVE  /\ orders'[o] # Null
           /\ orders'[o].st = "Sent" => orders[o].st = "Sent"
           /\ orders'[o].st = "SendFailed" => orders[o].st = "SendFailed"
           /\ orders'[o].st = "Live" => orders[o].st \in {"Sent", "Live"}
           /\ orders[o].st = "Cancelled" => orders'[o] = orders[o]
<1>1. ASSUME NEW n \in Notification, Handles(n)
      PROVE  \/ orders'[o] = orders[o]
             \/ /\ orders[o].st \in {"Sent", "Live"}
                /\ orders'[o] # Null /\ orders'[o].st \in {"Live", "Cancelled"}
  BY <1>1 DEF Handles
<1>2. ASSUME NEW x \in Orders, Sends(x)
      PROVE  orders'[o] = orders[o]
  BY <1>2 DEF Sends, TypeOK
<1>3. ASSUME \/ Quietens
             \/ \E s \in Sessions : ExecuteCommand(s) \/ VenueAccept(s) \/ DeliverReport(s)
             \/ \E x \in Orders : VenueFill(x) \/ VenueExpire(x)
      PROVE  orders'[o] = orders[o]
  BY <1>3 DEF Quietens, ExecuteCommand, VenueAccept, DeliverReport, VenueFill, VenueExpire,
     trackerVars
<1> QED
  BY <1>1, <1>2, <1>3

\* treat_price_quantity and the rejections keep EventsTyped.
LEMMA EventsTypedStep ==
    ASSUME TypeOK, EventsTyped, StreamsSound, [Next]_vars
    PROVE  EventsTyped'
<1> DEFINE Fine(n) == /\ n.kind = "NewOrder" => n.qty >= Tolerance
                      /\ n.kind = "Rejected" => n.qty = OrderQuantity
<1>1. order_events \in Seq(Notification) /\ Len(order_events) \in Nat
      /\ DOMAIN order_events = 1 .. Len(order_events)
  BY LenProperties DEF TypeOK
<1>2. \A i \in DOMAIN order_events : Fine(order_events[i])
  BY DEF EventsTyped
<1>3. SUFFICES \A i \in DOMAIN order_events' : Fine(order_events'[i])
  BY DEF EventsTyped
<1>4. CASE Quietens
  <2>1. order_events' \in Seq(Notification) /\ DOMAIN order_events' = 1 .. Len(order_events')
        /\ Len(order_events') \in Nat
    BY <1>4, LenProperties DEF Quietens, Grows, Queues
  <2>2. ASSUME NEW i \in 1 .. Len(order_events') PROVE Fine(order_events'[i])
    <3>1. CASE i \in 1 .. Len(order_events)
      BY <1>1, <1>2, <1>4, <3>1 DEF Quietens, Grows
    <3>2. CASE i \in Len(order_events) + 1 .. Len(order_events')
      BY <1>4, <3>2 DEF Quietens, Grows
    <3> QED
      BY <1>1, <2>1, <3>1, <3>2
  <2> QED
    BY <2>1, <2>2
<1>5. ASSUME NEW n \in Notification, Handles(n)
      PROVE  \A i \in DOMAIN order_events' : Fine(order_events'[i])
  BY <1>2, <1>5, HeadTyped DEF Handles
<1>6. ASSUME NEW n \in Notification, order_events' = Append(order_events, n), Fine(n)
      PROVE  \A i \in DOMAIN order_events' : Fine(order_events'[i])
  BY <1>1, <1>2, <1>6, AppendProperties
<1>7. ASSUME NEW s \in Sessions, ExecuteCommand(s)
      PROVE  \A i \in DOMAIN order_events' : Fine(order_events'[i])
  <2>1. Head(commands[s]) \in Orders
    BY <1>7, CommandFacts DEF ExecuteCommand, CanExecute
  <2>2. PICK q \in Treated : order_events' = Append(order_events, Order("NewOrder", Head(commands[s]), q))
    BY <1>7 DEF ExecuteCommand, Publish
  <2>3. q \in Nat /\ q >= Tolerance
    BY QuantityAssumption
  <2>4. Order("NewOrder", Head(commands[s]), q) \in Notification
    BY <2>1, <2>3, Notifications
  <2>5. Fine(Order("NewOrder", Head(commands[s]), q))
    BY <2>3 DEF Order
  <2> QED
    BY <1>6, <2>2, <2>4, <2>5
<1>8. ASSUME NEW s \in Sessions, DeliverReport(s)
      PROVE  \A i \in DOMAIN order_events' : Fine(order_events'[i])
  <2>1. stream[s] \in Seq(Notification) /\ stream[s] # <<>>
    BY <1>8 DEF DeliverReport, TypeOK
  <2>2. Head(stream[s]) \in Notification /\ Head(stream[s]) = stream[s][1] /\ 1 \in DOMAIN stream[s]
    BY <2>1, HeadTailProperties, LenProperties
  <2>3. Head(stream[s]).kind \in {"Fill", "Cancel"}
    BY <2>2 DEF StreamsSound
  <2> QED
    BY <1>6, <1>8, <2>2, <2>3 DEF DeliverReport, Publish
<1>9. ASSUME \/ \E o \in Orders : Sends(o) \/ VenueFill(o) \/ VenueExpire(o)
             \/ \E s \in Sessions : VenueAccept(s)
      PROVE  \A i \in DOMAIN order_events' : Fine(order_events'[i])
  <2>1. order_events' = order_events
    BY <1>9 DEF Sends, VenueFill, VenueExpire, VenueAccept
  <2> QED
    BY <1>2, <2>1
<1> HIDE DEF Fine
<1> QED
  BY <1>4, <1>5, <1>7, <1>8, <1>9, StepShapes

\* Only execute_command gives an order to the exchange, for its own session.
LEMMA VenueTypedStep ==
    ASSUME TypeOK, EventsTyped, VenueTyped, PlacingHere, CommandsFresh, [Next]_vars
    PROVE  VenueTyped' /\ PlacingHere'
<1>a. Null \notin Sessions /\ Null \notin Orders
  BY NullAssumption
<1>1. CASE \/ Quietens \/ \E o \in Orders : Sends(o)
           \/ \E n \in Notification : Handles(n)
           \/ \E s \in Sessions : DeliverReport(s)
  <2>1. venue' = venue /\ \A s \in Sessions : placing'[s] \in {placing[s], Null}
    BY <1>1 DEF Quietens, Sends, Handles, DeliverReport, venueVars
  <2> QED
    BY <2>1 DEF VenueTyped, PlacingHere
<1>2. ASSUME NEW s \in Sessions, ExecuteCommand(s)
      PROVE  VenueTyped' /\ PlacingHere'
  <2> DEFINE x == Head(commands[s])
  <2>1. x \in Orders /\ venue[x].at = Null
    BY <1>2, CommandFacts DEF ExecuteCommand, CanExecute, CommandsFresh
  <2>2. PICK q \in Treated : venue' = [venue EXCEPT ![x] = [st |-> "None", left |-> q, at |-> s]]
    BY <1>2 DEF ExecuteCommand
  <2>3. placing' = [placing EXCEPT ![s] = x]
    BY <1>2 DEF ExecuteCommand
  <2> HIDE DEF x
  <2>4. VenueTyped'
    BY <2>1, <2>2 DEF VenueTyped, TypeOK
  <2>5. PlacingHere'
    BY <1>a, <2>1, <2>2, <2>3 DEF PlacingHere, TypeOK
  <2> QED
    BY <2>4, <2>5
<1>3. ASSUME NEW s \in Sessions, VenueAccept(s)
      PROVE  VenueTyped' /\ PlacingHere'
  <2>1. PICK x \in Orders : x = placing[s] /\ venue' = [venue EXCEPT ![x].st = "Open"]
    BY <1>3 DEF VenueAccept, TypeOK
  <2>2. venue[x].at = s
    BY <1>a, <2>1 DEF PlacingHere
  <2>3. \A o \in Orders : venue'[o].at = venue[o].at
    BY <2>1 DEF TypeOK
  <2>4. \A o \in Orders \ {x} : venue'[o] = venue[o]
    BY <2>1 DEF TypeOK
  <2>5. placing' = placing
    BY <1>3 DEF VenueAccept
  <2>6. VenueTyped'
    BY <1>a, <2>2, <2>3, <2>4 DEF VenueTyped
  <2>7. PlacingHere'
    BY <2>3, <2>5 DEF PlacingHere, TypeOK
  <2> QED
    BY <2>6, <2>7
<1>4. ASSUME NEW o \in Orders, VenueFill(o) \/ VenueExpire(o)
      PROVE  VenueTyped' /\ PlacingHere'
  <2>1. venue[o].st = "Open" /\ placing' = placing
    BY <1>4 DEF VenueFill, VenueExpire
  <2>2. \A x \in Orders : venue'[x].at = venue[x].at /\ (x # o => venue'[x] = venue[x])
    <3>1. \/ \E q \in 1 .. venue[o].left :
                venue' = [venue EXCEPT ![o] = [st |-> IF @.left = q THEN "Done" ELSE "Open",
                                               left |-> @.left - q, at |-> @.at]]
          \/ venue' = [venue EXCEPT ![o].st = "Done"]
      BY <1>4 DEF VenueFill, VenueExpire
    <3> QED
      BY <3>1 DEF TypeOK
  <2>3. VenueTyped'
    BY <2>1, <2>2 DEF VenueTyped
  <2>4. PlacingHere'
    BY <2>1, <2>2 DEF PlacingHere, TypeOK
  <2> QED
    BY <2>3, <2>4
<1> QED
  BY <1>1, <1>2, <1>3, <1>4, StepShapes

\* new_order sends an order only once, and execute_command takes it off the
\* queue when it places it.
LEMMA CommandsStep ==
    ASSUME TypeOK, EventsTyped, VenueTyped, CommandsFresh, CommandsOnce, VenueSound,
           [Next]_vars
    PROVE  CommandsFresh' /\ CommandsOnce'
<1>1. ASSUME Shrinks PROVE CommandsOnce'
  <2> SUFFICES ASSUME NEW s \in Sessions, NEW t \in Sessions,
                      NEW i \in DOMAIN commands'[s], NEW j \in DOMAIN commands'[t],
                      commands'[s][i] = commands'[t][j]
               PROVE  s = t /\ i = j
    BY DEF CommandsOnce
  <2>1. PICK d \in Nat : \A k \in DOMAIN commands'[s] :
            k \in Nat /\ k + d \in DOMAIN commands[s] /\ commands'[s][k] = commands[s][k + d]
    BY <1>1 DEF Shrinks
  <2>2. PICK e \in Nat : \A k \in DOMAIN commands'[t] :
            k \in Nat /\ k + e \in DOMAIN commands[t] /\ commands'[t][k] = commands[t][k + e]
    BY <1>1 DEF Shrinks
  <2>3. s = t
    BY <2>1, <2>2 DEF CommandsOnce
  <2>4. i + d = j + d
    BY <2>1, <2>3 DEF CommandsOnce
  <2> QED
    BY <2>1, <2>3, <2>4
<1>2. CASE Quietens
  <2>1. Shrinks
    BY <1>2, SomeShrink
  <2>2. CommandsFresh'
    BY <1>2, <2>1 DEF Shrinks, CommandsFresh, Quietens
  <2> QED
    BY <1>1, <2>1, <2>2
<1>3. ASSUME NEW n \in Notification, Handles(n)
      PROVE  CommandsFresh' /\ CommandsOnce'
  <2>1. commands' = commands /\ venue' = venue
    BY <1>3 DEF Handles
  <2>2. CommandsFresh'
    BY <1>3, <2>1, OrdersKept, CommandFacts DEF CommandsFresh
  <2> QED
    BY <2>1, <2>2 DEF CommandsOnce
<1>4. ASSUME NEW x \in Orders, Sends(x)
      PROVE  CommandsFresh' /\ CommandsOnce'
  <2>1. orders[x] = Null /\ venue' = venue /\ orders' \in [Orders -> OrderStatus \cup {Null}]
    BY <1>4, TypeStep DEF Sends, TypeOK
  <2>2. venue[x].at = Null
    BY <2>1 DEF VenueSound, Announced
  <2>3. \A s \in Sessions : \A i \in DOMAIN commands[s] : commands[s][i] # x
    BY <2>1 DEF CommandsFresh
  <2>4. CASE UNCHANGED commands
    <3>1. CommandsFresh'
      BY <1>4, <2>1, <2>4, OrdersKept, CommandFacts DEF CommandsFresh
    <3> QED
      BY <2>4, <3>1 DEF CommandsOnce
  <2>5. CASE /\ session \in Sessions
             /\ orders' = [orders EXCEPT ![x] = [st |-> "Sent", rem |-> OrderQuantity]]
             /\ commands' = [commands EXCEPT ![session] = Append(@, x)]
    <3> DEFINE k == Len(commands[session])
    <3>1. /\ \A s \in Sessions \ {session} : commands'[s] = commands[s]
          /\ k \in Nat /\ DOMAIN commands'[session] = 1 .. k + 1
          /\ DOMAIN commands[session] = 1 .. k
          /\ commands'[session][k + 1] = x
          /\ \A i \in 1 .. k : commands'[session][i] = commands[session][i]
      BY <2>5, CommandFacts, AppendProperties DEF TypeOK
    <3> HIDE DEF k
    <3>2. orders'[x].st = "Sent" /\ orders'[x] # Null
      <4>1. [st |-> "Sent", rem |-> OrderQuantity] \in OrderStatus
        BY DEF OrderStatus
      <4> QED
        BY <2>5, <4>1, NullAssumption DEF TypeOK
    <3>3. ASSUME NEW s \in Sessions, NEW i \in DOMAIN commands'[s]
          PROVE  \/ s = session /\ i = k + 1 /\ commands'[s][i] = x
                 \/ i \in DOMAIN commands[s] /\ commands'[s][i] = commands[s][i]
      BY <3>1
    <3>4. CommandsFresh'
      <4> SUFFICES ASSUME NEW s \in Sessions, NEW i \in DOMAIN commands'[s]
                   PROVE  LET o == commands'[s][i]
                          IN  /\ orders'[o] # Null /\ orders'[o].st # "SendFailed"
                              /\ venue'[o].at = Null
        BY DEF CommandsFresh
      <4>1. CASE commands'[s][i] = x
        BY <2>1, <2>2, <3>2, <4>1
      <4>2. CASE i \in DOMAIN commands[s] /\ commands'[s][i] = commands[s][i]
        BY <1>4, <2>1, <4>2, OrdersKept, CommandFacts DEF CommandsFresh
      <4> QED
        BY <3>3, <4>1, <4>2
    <3>5. CommandsOnce'
      <4> SUFFICES ASSUME NEW s \in Sessions, NEW t \in Sessions,
                          NEW i \in DOMAIN commands'[s], NEW j \in DOMAIN commands'[t],
                          commands'[s][i] = commands'[t][j]
                   PROVE  s = t /\ i = j
        BY DEF CommandsOnce
      <4> QED
        BY <2>3, <3>3 DEF CommandsOnce
    <3> QED
      BY <3>4, <3>5
  <2> QED
    BY <1>4, <2>4, <2>5 DEF Sends
<1>5. ASSUME NEW s \in Sessions, ExecuteCommand(s)
      PROVE  CommandsFresh' /\ CommandsOnce'
  <2> DEFINE x == Head(commands[s])
  <2>1. Shrinks /\ orders' = orders
    BY <1>5, SomeShrink DEF ExecuteCommand, trackerVars
  <2>2. /\ commands[s] # <<>> /\ commands' = [commands EXCEPT ![s] = Tail(@)]
        /\ x = commands[s][1] /\ 1 \in DOMAIN commands[s] /\ x \in Orders
    BY <1>5, CommandFacts DEF ExecuteCommand, CanExecute
  <2>3. PICK q \in Treated : venue' = [venue EXCEPT ![x] = [st |-> "None", left |-> q, at |-> s]]
    BY <1>5 DEF ExecuteCommand
  <2> HIDE DEF x
  <2>4. ASSUME NEW t \in Sessions, NEW i \in DOMAIN commands'[t]
        PROVE  /\ commands'[t][i] # x
               /\ \E j \in DOMAIN commands[t] : commands'[t][i] = commands[t][j]
    <3>1. CASE t = s
      <4>1. i \in 1 .. Len(commands[s]) - 1 /\ i + 1 \in DOMAIN commands[s]
            /\ commands'[t][i] = commands[s][i + 1] /\ Len(commands[s]) \in Nat
        BY <2>2, <3>1, CommandFacts DEF TypeOK
      <4>2. i + 1 # 1
        BY <4>1
      <4> QED
        BY <2>2, <3>1, <4>1, <4>2 DEF CommandsOnce
    <3>2. CASE t # s
      BY <2>2, <3>2 DEF CommandsOnce, TypeOK
    <3> QED
      BY <3>1, <3>2
  <2>5. CommandsFresh'
    <3> SUFFICES ASSUME NEW t \in Sessions, NEW i \in DOMAIN commands'[t]
                 PROVE  LET o == commands'[t][i]
                        IN  /\ orders'[o] # Null /\ orders'[o].st # "SendFailed"
                            /\ venue'[o].at = Null
      BY DEF CommandsFresh
    <3>1. PICK j \in DOMAIN commands[t] : commands'[t][i] = commands[t][j]
      BY <2>4
    <3>2. commands[t][j] \in Orders /\ commands[t][j] # x
      BY <2>4, <3>1, CommandFacts
    <3>3. venue'[commands[t][j]] = venue[commands[t][j]]
      BY <2>3, <3>2 DEF TypeOK
    <3> QED
      BY <2>1, <3>1, <3>3 DEF CommandsFresh
  <2> QED
    BY <1>1, <2>1, <2>5
<1>6. ASSUME \/ \E s \in Sessions : VenueAccept(s) \/ DeliverReport(s)
             \/ \E o \in Orders : VenueFill(o) \/ VenueExpire(o)
      PROVE  CommandsFresh' /\ CommandsOnce'
  <2>1. orders' = orders /\ commands' = commands
    BY <1>6 DEF VenueAccept, DeliverReport, VenueFill, VenueExpire, trackerVars
  <2>2. \A o \in Orders : venue'[o].at = venue[o].at
    <3>1. ASSUME NEW s \in Sessions, VenueAccept(s)
          PROVE  \A o \in Orders : venue'[o].at = venue[o].at
      <4>1. PICK x \in Orders : venue' = [venue EXCEPT ![x].st = "Open"]
        BY <3>1 DEF VenueAccept, TypeOK
      <4> QED
        BY <4>1 DEF TypeOK
    <3>2. ASSUME NEW s \in Sessions, DeliverReport(s)
          PROVE  venue' = venue
      BY <3>2 DEF DeliverReport, venueVars
    <3>3. ASSUME NEW o \in Orders, VenueFill(o) \/ VenueExpire(o)
          PROVE  \A x \in Orders : venue'[x].at = venue[x].at
      <4>1. CASE VenueFill(o)
        BY <4>1 DEF VenueFill, TypeOK
      <4>2. CASE VenueExpire(o)
        BY <4>2 DEF VenueExpire, TypeOK
      <4> QED
        BY <3>3, <4>1, <4>2
    <3> QED
      BY <1>6, <3>1, <3>2, <3>3
  <2> QED
    BY <2>1, <2>2, CommandFacts DEF CommandsFresh, CommandsOnce
<1> QED
  BY <1>2, <1>3, <1>4, <1>5, <1>6, StepShapes

-----------------------------------------------------------------------------
\* The elements of the channel.
LEMMA EventFacts ==
    ASSUME TypeOK
    PROVE  /\ order_events \in Queues /\ Len(order_events) \in Nat
           /\ DOMAIN order_events = 1 .. Len(order_events)
           /\ \A i \in DOMAIN order_events : order_events[i] \in Notification
           /\ \A n \in Notification :
                /\ DOMAIN Append(order_events, n) = 1 .. Len(order_events) + 1
                /\ \A i \in 1 .. Len(order_events) : Append(order_events, n)[i] = order_events[i]
                /\ Append(order_events, n)[Len(order_events) + 1] = n
<1>1. order_events \in Seq(Notification)
  BY DEF TypeOK
<1> QED
  BY <1>1, LenProperties, ElementOfSeq, AppendProperties DEF Queues

\* The elements of a stream.
LEMMA StreamFacts ==
    ASSUME TypeOK, NEW s \in Sessions
    PROVE  /\ stream[s] \in Queues /\ Len(stream[s]) \in Nat
           /\ DOMAIN stream[s] = 1 .. Len(stream[s])
           /\ \A i \in DOMAIN stream[s] : stream[s][i] \in Notification
           /\ \A n \in Notification :
                /\ DOMAIN Append(stream[s], n) = 1 .. Len(stream[s]) + 1
                /\ Len(Append(stream[s], n)) = Len(stream[s]) + 1
                /\ \A i \in 1 .. Len(stream[s]) : Append(stream[s], n)[i] = stream[s][i]
                /\ Append(stream[s], n)[Len(stream[s]) + 1] = n
           /\ stream[s] # <<>> =>
                /\ 1 \in DOMAIN stream[s] /\ Head(stream[s]) = stream[s][1]
                /\ DOMAIN Tail(stream[s]) = 1 .. Len(stream[s]) - 1
                /\ Len(Tail(stream[s])) = Len(stream[s]) - 1
                /\ \A i \in 1 .. Len(stream[s]) - 1 : Tail(stream[s])[i] = stream[s][i + 1]
<1>1. stream[s] \in Seq(Notification)
  BY DEF TypeOK
<1> QED
  BY <1>1, LenProperties, ElementOfSeq, AppendProperties, HeadTailProperties DEF Queues

\* What a report does to the orders at the exchange and to the streams.
Reports(o, n) ==
    LET s == venue[o].at
    IN  /\ s \in Sessions
        /\ n \in Notification /\ n.id = o
        /\ venue[o].st = "Open"
        /\ venue'[o].at = s
        /\ venue'[o].st \in {"Open", "Done"}
        /\ venue'[o].left \in Nat
        /\ \A x \in Orders \ {o} : venue'[x] = venue[x]
        /\ \A t \in Sessions \ {s} : stream'[t] = stream[t]
        /\ stream'[s] = IF sess[s] = "Main" THEN Append(stream[s], n) ELSE stream[s]
        /\ UNCHANGED <<trackerVars, batchVars, sessionVars, commands, placing,
                       order_events, boundVars>>

\* An execution is reported on the stream of the session that placed the order.
LEMMA FillReports ==
    ASSUME TypeOK, VenueTyped, NEW o \in Orders, VenueFill(o)
    PROVE  \E q \in Nat \ {0} :
            LET n == Order("Fill", o, q)
            IN  /\ Reports(o, n)
                /\ n.kind = "Fill" /\ n.qty = q
                /\ q <= venue[o].left
                /\ venue'[o].left = venue[o].left - q
                /\ venue'[o].st = IF venue[o].left = q THEN "Done" ELSE "Open"
                /\ executed' = [executed EXCEPT ![o] = @ + q]
<1>1. PICK q \in 1 .. venue[o].left :
        /\ venue' = [venue EXCEPT ![o] = [st |-> IF @.left = q THEN "Done" ELSE "Open",
                                          left |-> @.left - q, at |-> @.at]]
        /\ executed' = [executed EXCEPT ![o] = @ + q]
        /\ Report(o, Order("Fill", o, q))
  BY DEF VenueFill
<1>2. /\ venue[o].left \in Nat /\ q \in Nat \ {0} /\ venue[o].left - q \in Nat /\ q <= venue[o].left
      /\ venue[o].st = "Open" /\ venue[o].at \in Sessions
  BY <1>1 DEF VenueFill, VenueTyped, TypeOK
<1>3. /\ venue'[o] = [st |-> IF venue[o].left = q THEN "Done" ELSE "Open",
                      left |-> venue[o].left - q, at |-> venue[o].at]
      /\ \A x \in Orders \ {o} : venue'[x] = venue[x]
  <2>1. venue = [x \in Orders |-> venue[x]] /\ o \in DOMAIN venue /\ DOMAIN venue = Orders
    BY DEF TypeOK
  <2> QED
    BY <1>1, <2>1
<1>4. Order("Fill", o, q) \in Notification
  BY <1>2, Notifications
<1>5. /\ \A t \in Sessions \ {venue[o].at} : stream'[t] = stream[t]
      /\ stream'[venue[o].at] = IF sess[venue[o].at] = "Main"
                                THEN Append(stream[venue[o].at], Order("Fill", o, q))
                                ELSE stream[venue[o].at]
  BY <1>1, <1>2 DEF Report, TypeOK
<1>6. Order("Fill", o, q).kind = "Fill" /\ Order("Fill", o, q).id = o /\ Order("Fill", o, q).qty = q
  BY DEF Order
<1>7. Reports(o, Order("Fill", o, q))
  BY <1>2, <1>3, <1>4, <1>5, <1>6 DEF Reports, VenueFill
<1>8. /\ q <= venue[o].left
      /\ venue'[o].left = venue[o].left - q
      /\ venue'[o].st = IF venue[o].left = q THEN "Done" ELSE "Open"
      /\ executed' = [executed EXCEPT ![o] = @ + q]
  BY <1>1, <1>2, <1>3
<1> WITNESS q \in Nat \ {0}
<1> QED
  BY <1>6, <1>7, <1>8

\* So is an expiry.
LEMMA ExpiryReports ==
    ASSUME TypeOK, VenueTyped, NEW o \in Orders, VenueExpire(o)
    PROVE  LET n == Order("Cancel", o, venue[o].left)
           IN  /\ Reports(o, n)
               /\ n.kind = "Cancel"
               /\ venue'[o].st = "Done" /\ venue'[o].left = venue[o].left
               /\ executed' = executed
<1>1. /\ venue' = [venue EXCEPT ![o].st = "Done"]
      /\ Report(o, Order("Cancel", o, venue[o].left))
      /\ executed' = executed
      /\ venue[o].left \in Nat /\ venue[o].st = "Open" /\ venue[o].at \in Sessions
  BY DEF VenueExpire, VenueTyped, TypeOK
<1>2. /\ venue'[o].st = "Done" /\ venue'[o].left = venue[o].left /\ venue'[o].at = venue[o].at
      /\ \A x \in Orders \ {o} : venue'[x] = venue[x]
  BY <1>1 DEF TypeOK
<1>3. Order("Cancel", o, venue[o].left) \in Notification
  BY <1>1, Notifications
<1>4. /\ \A t \in Sessions \ {venue[o].at} : stream'[t] = stream[t]
      /\ stream'[venue[o].at] = IF sess[venue[o].at] = "Main"
                                THEN Append(stream[venue[o].at], Order("Cancel", o, venue[o].left))
                                ELSE stream[venue[o].at]
  BY <1>1 DEF Report, TypeOK
<1>5. Order("Cancel", o, venue[o].left).kind = "Cancel" /\ Order("Cancel", o, venue[o].left).id = o
  BY DEF Order
<1>6. Reports(o, Order("Cancel", o, venue[o].left))
  BY <1>1, <1>2, <1>3, <1>4, <1>5 DEF Reports, VenueExpire
<1> QED
  BY <1>1, <1>2, <1>5, <1>6

\* Session s announces order x and hands q of it to the exchange.
Announces(s, x, q) ==
    LET n == Order("NewOrder", x, q)
    IN  /\ sess[s] = "Main" /\ s # Null
        /\ x \in Orders /\ orders[x] # Null /\ orders[x].st # "SendFailed"
        /\ venue[x].at = Null
        /\ n \in Notification /\ n.kind = "NewOrder" /\ n.id = x /\ n.qty = q
        /\ q \in Nat /\ q >= 1 /\ q >= Tolerance
        /\ order_events' = Append(order_events, n)
        /\ venue'[x] = [st |-> "None", left |-> q, at |-> s]
        /\ \A y \in Orders \ {x} : venue'[y] = venue[y]
        /\ UNCHANGED <<trackerVars, batchVars, sessionVars, executed, stream, boundVars>>

\* execute_command announces the order it places.
LEMMA CommandAnnounces ==
    ASSUME TypeOK, CommandsFresh, NEW s \in Sessions, ExecuteCommand(s)
    PROVE  \E x \in Orders : \E q \in Nat : Announces(s, x, q)
<1> DEFINE x == Head(commands[s])
<1>1. /\ x \in Orders /\ orders[x] # Null /\ orders[x].st # "SendFailed"
      /\ venue[x].at = Null /\ sess[s] = "Main"
  BY CommandFacts DEF ExecuteCommand, CanExecute, CommandsFresh
<1>2. PICK q \in Treated :
        /\ Publish(Order("NewOrder", x, q))
        /\ venue' = [venue EXCEPT ![x] = [st |-> "None", left |-> q, at |-> s]]
  BY DEF ExecuteCommand
<1>3. UNCHANGED <<trackerVars, batchVars, sessionVars, executed, stream, boundVars>>
  BY DEF ExecuteCommand
<1> HIDE DEF x
<1>4. q \in Nat /\ q >= 1 /\ q >= Tolerance /\ s # Null
  BY QuantityAssumption, NullAssumption
<1>5. Order("NewOrder", x, q) \in Notification
  BY <1>1, <1>4, Notifications
<1>6. /\ Order("NewOrder", x, q).kind = "NewOrder" /\ Order("NewOrder", x, q).id = x
      /\ Order("NewOrder", x, q).qty = q
  BY DEF Order
<1>7. venue'[x] = [st |-> "None", left |-> q, at |-> s] /\ \A y \in Orders \ {x} : venue'[y] = venue[y]
  BY <1>1, <1>2 DEF TypeOK
<1>8. Announces(s, x, q)
  BY <1>1, <1>2, <1>3, <1>4, <1>5, <1>6, <1>7 DEF Announces, Publish
<1> QED
  BY <1>1, <1>4, <1>8

\* The exchange accepts order x.
Accepts(x) ==
    /\ venue[x].at # Null /\ venue[x].st = "None"
    /\ venue'[x].st = "Open" /\ venue'[x].at = venue[x].at /\ venue'[x].left = venue[x].left
    /\ \A y \in Orders \ {x} : venue'[y] = venue[y]
    /\ UNCHANGED <<trackerVars, batchVars, sessionVars, commands, placing, executed,
                   stream, order_events, boundVars>>

\* The exchange accepts an order that a session is placing.
LEMMA AcceptAccepts ==
    ASSUME TypeOK, PlacingHere, NEW s \in Sessions, VenueAccept(s)
    PROVE  \E x \in Orders : Accepts(x)
<1>1. PICK x \in Orders : x = placing[s] /\ venue[x].st = "None" /\ venue' = [venue EXCEPT ![x].st = "Open"]
  BY DEF VenueAccept, TypeOK
<1>2. venue[x].at = s /\ s # Null
  BY <1>1, NullAssumption DEF PlacingHere
<1>3. /\ venue'[x].st = "Open" /\ venue'[x].at = venue[x].at /\ venue'[x].left = venue[x].left
      /\ \A y \in Orders \ {x} : venue'[y] = venue[y]
  BY <1>1 DEF TypeOK
<1>4. UNCHANGED <<trackerVars, batchVars, sessionVars, commands, placing, executed,
                  stream, order_events, boundVars>>
  BY DEF VenueAccept
<1> QED
  BY <1>1, <1>2, <1>3, <1>4 DEF Accepts

\* The user data callback of session s puts report n on the channel.
Delivers(s, n) ==
    /\ stream[s] # <<>> /\ n = Head(stream[s]) /\ n = stream[s][1] /\ 1 \in DOMAIN stream[s]
    /\ n \in Notification
    /\ order_events' = Append(order_events, n)
    /\ stream'[s] = Tail(stream[s])
    /\ \A t \in Sessions \ {s} : stream'[t] = stream[t]
    /\ UNCHANGED <<trackerVars, batchVars, sessionVars, commands, placing, venueVars, boundVars>>

\* DeliverReport moves the head of the stream to the channel.
LEMMA DeliverDelivers ==
    ASSUME TypeOK, NEW s \in Sessions, DeliverReport(s)
    PROVE  \E n \in Notification : Delivers(s, n)
<1>1. stream[s] # <<>> /\ Head(stream[s]) = stream[s][1] /\ 1 \in DOMAIN stream[s]
      /\ stream[s][1] \in Notification
  BY StreamFacts DEF DeliverReport
<1>2. stream'[s] = Tail(stream[s]) /\ \A t \in Sessions \ {s} : stream'[t] = stream[t]
  BY DEF DeliverReport, TypeOK
<1> QED
  BY <1>1, <1>2 DEF Delivers, DeliverReport, Publish

\* The inductive invariant.
Base ==
    /\ TypeOK /\ EventsTyped /\ VenueTyped /\ PlacingHere
    /\ CommandsFresh /\ CommandsOnce /\ VenueSound /\ StreamsSound /\ EventsSound

\* What every step does, in the terms the proofs below use.
LEMMA StepEffects ==
    ASSUME Base, [Next]_vars
    PROVE  \/ Quietens
           \/ \E n \in Notification : HandleOrderNotification /\ Handles(n)
           \/ \E o \in Orders : Sends(o)
           \/ \E s \in Sessions, x \in Orders, q \in Nat : Announces(s, x, q)
           \/ \E x \in Orders : Accepts(x)
           \/ \E s \in Sessions, n \in Notification : DeliverReport(s) /\ Delivers(s, n)
           \/ \E o \in Orders, q \in Nat \ {0} :
                LET n == Order("Fill", o, q)
                IN  /\ Reports(o, n)
                    /\ n.kind = "Fill" /\ n.qty = q
                    /\ q <= venue[o].left
                    /\ venue'[o].left = venue[o].left - q
                    /\ venue'[o].st = IF venue[o].left = q THEN "Done" ELSE "Open"
                    /\ executed' = [executed EXCEPT ![o] = @ + q]
           \/ \E o \in Orders :
                LET n == Order("Cancel", o, venue[o].left)
                IN  /\ Reports(o, n)
                    /\ n.kind = "Cancel"
                    /\ venue'[o].st = "Done" /\ venue'[o].left = venue[o].left
                    /\ executed' = executed
<1> USE DEF Base
<1>1. ASSUME NEW s \in Sessions, ExecuteCommand(s)
      PROVE  \E t \in Sessions, x \in Orders, q \in Nat : Announces(t, x, q)
  BY <1>1, CommandAnnounces
<1>2. ASSUME NEW s \in Sessions, VenueAccept(s)
      PROVE  \E x \in Orders : Accepts(x)
  BY <1>2, AcceptAccepts
<1>3. ASSUME NEW s \in Sessions, DeliverReport(s)
      PROVE  \E t \in Sessions, n \in Notification : DeliverReport(t) /\ Delivers(t, n)
  BY <1>3, DeliverDelivers
<1> QED
  BY <1>1, <1>2, <1>3, FillReports, ExpiryReports, StepShapes

-----------------------------------------------------------------------------
\* An announced order stays announced until the tracker has handled it.
LEMMA AnnouncedStays ==
    ASSUME Base, [Next]_vars, NEW o \in Orders, Announced(o)
    PROVE  Announced(o)'
<1> USE DEF Base
<1>1. orders'[o] # Null /\ (orders'[o].st = "Sent" => orders[o].st = "Sent")
  BY OrdersKept, StepShapes DEF Announced
<1>2. SUFFICES ASSUME orders'[o].st = "Sent",
                      NEW j \in DOMAIN order_events,
                      order_events[j].kind = "NewOrder", order_events[j].id = o
               PROVE  \E k \in DOMAIN order_events' :
                        order_events'[k].kind = "NewOrder" /\ order_events'[k].id = o
  BY <1>1 DEF Announced
<1>3. CASE Quietens
  <2>1. Len(order_events') \in Nat /\ DOMAIN order_events' = 1 .. Len(order_events')
    BY <1>3, LenProperties DEF Quietens, Grows, Queues
  <2>2. j \in DOMAIN order_events' /\ order_events'[j] = order_events[j]
    BY <1>3, <2>1, EventFacts DEF Quietens, Grows
  <2> QED
    BY <1>2, <2>2
<1>4. ASSUME NEW n \in Notification, Handles(n)
      PROVE  \E k \in DOMAIN order_events' :
                order_events'[k].kind = "NewOrder" /\ order_events'[k].id = o
  <2>1. n = order_events[1] /\ j \in 1 .. Len(order_events)
    BY <1>4, HeadTyped DEF Handles
  <2>2. j # 1
    BY <1>2, <1>4, <2>1 DEF Handles, Announced
  <2>3. j - 1 \in DOMAIN order_events' /\ order_events'[j - 1] = order_events[j]
    BY <1>4, <2>1, <2>2, HeadTyped DEF Handles
  <2> QED
    BY <1>2, <2>3
<1>5. ASSUME NEW n \in Notification, order_events' = Append(order_events, n)
      PROVE  \E k \in DOMAIN order_events' :
                order_events'[k].kind = "NewOrder" /\ order_events'[k].id = o
  <2>1. j \in DOMAIN order_events' /\ order_events'[j] = order_events[j]
    BY <1>5, EventFacts
  <2> QED
    BY <1>2, <2>1
<1>6. CASE order_events' = order_events
  BY <1>2, <1>6
<1> QED
  BY <1>3, <1>4, <1>5, <1>6, StepEffects DEF Sends, Announces, Accepts, Delivers, Reports

\* What a step does to one order at the exchange: it is announced, accepted,
\* executed or expires, or nothing happens to it.
LEMMA VenueEffects ==
    ASSUME Base, [Next]_vars, NEW o \in Orders
    PROVE  \/ venue'[o] = venue[o]
           \/ \E s \in Sessions, q \in Nat : Announces(s, o, q)
           \/ Accepts(o)
           \/ /\ venue[o].st = "Open" /\ venue'[o].at = venue[o].at
              /\ \E q \in Nat \ {0} :
                    /\ q <= venue[o].left
                    /\ venue'[o].left = venue[o].left - q
                    /\ venue'[o].st = IF venue[o].left = q THEN "Done" ELSE "Open"
           \/ venue[o].st = "Open" /\ venue'[o].at = venue[o].at /\ venue'[o].st = "Done"
<1> DEFINE Filled == /\ venue[o].st = "Open" /\ venue'[o].at = venue[o].at
                     /\ \E q \in Nat \ {0} :
                            /\ q <= venue[o].left
                            /\ venue'[o].left = venue[o].left - q
                            /\ venue'[o].st = IF venue[o].left = q THEN "Done" ELSE "Open"
           Expired == venue[o].st = "Open" /\ venue'[o].at = venue[o].at /\ venue'[o].st = "Done"
           Announced1 == \E s \in Sessions, q \in Nat : Announces(s, o, q)
           Stays == venue'[o] = venue[o]
<1>1. CASE venue' = venue
  BY <1>1
<1>2. ASSUME NEW s \in Sessions, NEW x \in Orders, NEW q \in Nat, Announces(s, x, q)
      PROVE  Stays \/ Announced1
  BY <1>2 DEF Announces
<1>3. ASSUME NEW x \in Orders, Accepts(x)
      PROVE  Stays \/ Accepts(o)
  BY <1>3 DEF Accepts
<1>4. ASSUME NEW x \in Orders, NEW q \in Nat \ {0}, Reports(x, Order("Fill", x, q)),
             q <= venue[x].left, venue'[x].left = venue[x].left - q,
             venue'[x].st = IF venue[x].left = q THEN "Done" ELSE "Open"
      PROVE  Stays \/ Filled
  BY <1>4 DEF Reports
<1>5. ASSUME NEW x \in Orders, Reports(x, Order("Cancel", x, venue[x].left)), venue'[x].st = "Done"
      PROVE  Stays \/ Expired
  BY <1>5 DEF Reports
<1>6. \/ venue' = venue
      \/ \E s \in Sessions, x \in Orders, q \in Nat : Announces(s, x, q)
      \/ \E x \in Orders : Accepts(x)
      \/ \E x \in Orders, q \in Nat \ {0} :
            /\ Reports(x, Order("Fill", x, q))
            /\ q <= venue[x].left /\ venue'[x].left = venue[x].left - q
            /\ venue'[x].st = IF venue[x].left = q THEN "Done" ELSE "Open"
      \/ \E x \in Orders :
            Reports(x, Order("Cancel", x, venue[x].left)) /\ venue'[x].st = "Done"
  <2>1. \/ Quietens
        \/ \E n \in Notification : Handles(n)
        \/ \E x \in Orders : Sends(x)
        \/ \E s \in Sessions, n \in Notification : Delivers(s, n)
        => venue' = venue
    BY DEF Quietens, Handles, Sends, Delivers, venueVars
  <2> QED
    BY <2>1, StepEffects
<1> HIDE DEF Filled, Expired, Announced1, Stays
<1>7. Stays \/ Announced1 \/ Accepts(o) \/ Filled \/ Expired
  BY <1>1, <1>2, <1>3, <1>4, <1>5, <1>6 DEF Stays
<1> QED
  BY <1>7 DEF Filled, Expired, Announced1, Stays

\* An order reaches the exchange announced, and executions leave something of
\* an open order.
LEMMA VenueSoundStep ==
    ASSUME Base, [Next]_vars
    PROVE  VenueSound'
<1> USE DEF Base
<1> SUFFICES ASSUME NEW o \in Orders, venue'[o].at # Null
             PROVE  /\ Announced(o)' /\ orders'[o].st # "SendFailed"
                    /\ venue'[o].st # "Done" => venue'[o].left >= 1
  BY DEF VenueSound
<1>1. ASSUME NEW x \in Orders, NEW s \in Sessions, NEW q \in Nat, Announces(s, x, q), o = x
      PROVE  /\ Announced(o)' /\ orders'[o].st # "SendFailed"
             /\ venue'[o].st # "Done" => venue'[o].left >= 1
  <2>1. orders' = orders
    BY <1>1 DEF Announces, trackerVars
  <2>2. \E k \in DOMAIN order_events' : order_events'[k].kind = "NewOrder" /\ order_events'[k].id = o
    <3>1. /\ Len(order_events) + 1 \in DOMAIN order_events'
          /\ order_events'[Len(order_events) + 1] = Order("NewOrder", x, q)
      BY <1>1, EventFacts DEF Announces
    <3> QED
      BY <1>1, <3>1 DEF Announces
  <2> QED
    BY <1>1, <2>1, <2>2 DEF Announces, Announced
<1>2. CASE venue[o].at # Null
  <2>1. Announced(o)'
    BY <1>2, AnnouncedStays DEF VenueSound
  <2>2. orders'[o].st # "SendFailed"
    BY <1>2, OrdersKept, StepShapes DEF VenueSound, Announced
  <2>3. venue'[o].st # "Done" => venue'[o].left >= 1
    <3>1. CASE venue'[o] = venue[o]
      BY <1>2, <3>1 DEF VenueSound
    <3>2. ASSUME NEW x \in Orders, Accepts(x), x = o
          PROVE  venue'[o].left >= 1
      BY <1>2, <3>2 DEF Accepts, VenueSound
    <3>3. ASSUME NEW q \in Nat \ {0}, q <= venue[o].left,
                 venue'[o].left = venue[o].left - q,
                 venue'[o].st = IF venue[o].left = q THEN "Done" ELSE "Open"
          PROVE  venue'[o].st # "Done" => venue'[o].left >= 1
      <4>1. venue[o].left \in Nat
        BY DEF TypeOK
      <4> QED
        BY <3>3, <4>1
    <3> QED
      BY <1>1, <3>1, <3>2, <3>3, VenueEffects
  <2> QED
    BY <2>1, <2>2, <2>3
<1>3. CASE venue[o].at = Null
  <2>1. \E x \in Orders : \E s \in Sessions : \E q \in Nat : Announces(s, x, q) /\ o = x
    <3>1. venue'[o] # venue[o]
      BY <1>3
    <3> QED
      BY <1>3, <3>1, VenueEffects DEF Accepts
  <2> QED
    BY <1>1, <2>1
<1> QED
  BY <1>2, <1>3

\* No fill of o comes after position i.
NoFillAfter(queue, i, o) ==
    \A j \in i + 1 .. Len(queue) : ~(queue[j].kind = "Fill" /\ queue[j].id = o)

\* Reports keep their order on the stream, and an expired order is not executed.
LEMMA StreamsSoundStep ==
    ASSUME Base, [Next]_vars
    PROVE  StreamsSound'
<1> USE DEF Base
<1> DEFINE Fine(queue, v, s, i) ==
             LET n == queue[i]
             IN  /\ n.kind \in {"Fill", "Cancel"}
                 /\ v[n.id].at = s
                 /\ n.kind = "Fill" => n.qty >= 1
                 /\ n.kind = "Cancel" => v[n.id].st = "Done" /\ NoFillAfter(queue, i, n.id)
<1>1. \A s \in Sessions : \A i \in DOMAIN stream[s] : Fine(stream[s], venue, s, i)
  BY DEF StreamsSound, NoFillAfter
<1>2. SUFFICES ASSUME NEW s \in Sessions, NEW i \in DOMAIN stream'[s]
               PROVE  Fine(stream'[s], venue', s, i)
  BY DEF StreamsSound, NoFillAfter
<1>a. \A j \in DOMAIN stream[s] : j \in Nat /\ stream[s][j] \in Notification /\ stream[s][j].id \in Orders
  <2>1. \A j \in DOMAIN stream[s] : stream[s][j].kind \in {"Fill", "Cancel"}
    BY <1>1
  <2>2. \A j \in DOMAIN stream[s] : j \in Nat /\ stream[s][j] \in Notification
    BY StreamFacts
  <2> QED
    BY <2>1, <2>2, Notifications
<1>3. ASSUME stream'[s] = stream[s],
             \A x \in Orders : venue'[x].at = venue[x].at \/ venue[x].at = Null,
             \A x \in Orders : venue[x].st = "Done" => venue'[x].st = "Done" \/ venue[x].at = Null
      PROVE  Fine(stream'[s], venue', s, i)
  BY <1>1, <1>a, <1>3, NullAssumption
<1>4. CASE Quietens
  BY <1>1, <1>2, <1>4 DEF Quietens
<1>5. ASSUME NEW t \in Sessions, NEW n \in Notification, Delivers(t, n)
      PROVE  Fine(stream'[s], venue', s, i)
  <2>1. venue' = venue
    BY <1>5 DEF Delivers, venueVars
  <2>2. CASE s # t
    BY <1>1, <1>5, <2>1, <2>2 DEF Delivers
  <2>3. CASE s = t
    <3>1. /\ i \in 1 .. Len(stream[s]) - 1 /\ Len(stream[s]) \in Nat
          /\ Len(stream'[s]) = Len(stream[s]) - 1
          /\ \A j \in 1 .. Len(stream[s]) - 1 : stream'[s][j] = stream[s][j + 1]
      <4>1. stream[s] # <<>> /\ stream'[s] = Tail(stream[s])
        BY <1>5, <2>3 DEF Delivers
      <4>2. i \in DOMAIN Tail(stream[s])
        BY <1>2, <4>1
      <4> QED
        BY <4>1, <4>2, StreamFacts
    <3>2. i + 1 \in DOMAIN stream[s] /\ stream'[s][i] = stream[s][i + 1]
      <4>1. DOMAIN stream[s] = 1 .. Len(stream[s])
        BY StreamFacts
      <4>2. i + 1 \in 1 .. Len(stream[s])
        BY <3>1
      <4> QED
        BY <3>1, <4>1, <4>2
    <3>3. \A o : NoFillAfter(stream[s], i + 1, o) => NoFillAfter(stream'[s], i, o)
      <4> SUFFICES ASSUME NEW o, NoFillAfter(stream[s], i + 1, o), NEW j \in i + 1 .. Len(stream'[s])
                   PROVE  ~(stream'[s][j].kind = "Fill" /\ stream'[s][j].id = o)
        BY DEF NoFillAfter
      <4>1. j + 1 \in (i + 1) + 1 .. Len(stream[s]) /\ stream'[s][j] = stream[s][j + 1]
        BY <3>1
      <4> QED
        BY <4>1 DEF NoFillAfter
    <3> QED
      BY <1>1, <2>1, <3>2, <3>3
  <2> QED
    BY <2>2, <2>3
<1>6. ASSUME NEW o \in Orders, NEW n, Reports(o, n), n.kind \in {"Fill", "Cancel"},
             n.kind = "Fill" => n.qty >= 1,
             n.kind = "Cancel" => venue'[o].st = "Done"
      PROVE  Fine(stream'[s], venue', s, i)
  <2>1. /\ n \in Notification /\ n.id = o /\ venue[o].st = "Open"
        /\ venue'[o].at = venue[o].at
        /\ \A x \in Orders \ {o} : venue'[x] = venue[x]
    BY <1>6 DEF Reports
  <2>2. CASE stream'[s] = stream[s]
    BY <1>3, <2>1, <2>2
  <2>3. CASE s = venue[o].at /\ stream'[s] = Append(stream[s], n)
    <3> DEFINE k == Len(stream[s])
    <3>1. /\ k \in Nat /\ i \in 1 .. k + 1 /\ Len(stream'[s]) = k + 1
          /\ \A j \in 1 .. k : stream'[s][j] = stream[s][j] /\ j \in DOMAIN stream[s]
          /\ stream'[s][k + 1] = n
      BY <2>1, <2>3, StreamFacts
    <3> HIDE DEF k
    <3>2. CASE i = k + 1
      <4>1. \A j \in i + 1 .. Len(stream'[s]) : FALSE
        BY <3>1, <3>2
      <4>2. stream'[s][i] = n
        BY <3>1, <3>2
      <4> QED
        BY <1>6, <2>1, <2>3, <4>1, <4>2 DEF NoFillAfter
    <3>3. CASE i \in 1 .. k
      <4>1. Fine(stream[s], venue, s, i) /\ stream'[s][i] = stream[s][i] /\ stream[s][i].id \in Orders
        BY <1>1, <1>a, <3>1, <3>3
      <4>2. ASSUME stream[s][i].kind = "Cancel"
            PROVE  /\ stream[s][i].id # o
                   /\ NoFillAfter(stream'[s], i, stream[s][i].id)
        <5>1. venue[stream[s][i].id].st = "Done" /\ NoFillAfter(stream[s], i, stream[s][i].id)
          BY <4>1, <4>2
        <5>2. stream[s][i].id # o
          BY <2>1, <5>1
        <5>3. \A j \in i + 1 .. k + 1 : ~(stream'[s][j].kind = "Fill" /\ stream'[s][j].id = stream[s][i].id)
          <6> TAKE j \in i + 1 .. k + 1
          <6>1. CASE j = k + 1
            BY <2>1, <3>1, <5>2, <6>1
          <6>2. CASE j \in 1 .. k
            <7>1. j \in i + 1 .. Len(stream[s])
              BY <3>3, <6>2 DEF k
            <7> QED
              BY <3>1, <5>1, <6>2, <7>1 DEF NoFillAfter
          <6> QED
            BY <3>1, <3>3, <6>1, <6>2
        <5> QED
          BY <3>1, <5>2, <5>3 DEF NoFillAfter
      <4>3. venue'[stream[s][i].id].at = s
        BY <2>1, <4>1
      <4>4. stream[s][i].kind = "Cancel" => venue'[stream[s][i].id].st = "Done"
        BY <2>1, <4>1, <4>2
      <4> QED
        BY <4>1, <4>2, <4>3, <4>4
    <3> QED
      BY <3>1, <3>2, <3>3
  <2> QED
    BY <1>6, <2>2, <2>3 DEF Reports
<1>7. ASSUME \/ \E n \in Notification : Handles(n)
             \/ \E o \in Orders : Sends(o)
             \/ \E t \in Sessions, x \in Orders, q \in Nat : Announces(t, x, q)
             \/ \E x \in Orders : Accepts(x)
      PROVE  Fine(stream'[s], venue', s, i)
  <2>1. stream' = stream
    BY <1>7 DEF Handles, Sends, Announces, Accepts
  <2>2. \A x \in Orders : venue'[x].at = venue[x].at \/ venue[x].at = Null
    BY <1>7 DEF Handles, Sends, Announces, Accepts
  <2>3. \A x \in Orders : venue[x].st = "Done" => venue'[x].st = "Done" \/ venue[x].at = Null
    BY <1>7 DEF Handles, Sends, Announces, Accepts
  <2> QED
    BY <1>3, <2>1, <2>2, <2>3
<1> HIDE DEF Fine
<1> QED
  BY <1>4, <1>5, <1>6, <1>7, StepEffects

-----------------------------------------------------------------------------
\* No fill of o waits in the queue.
NoFill(queue, o) == \A j \in DOMAIN queue : ~(queue[j].kind = "Fill" /\ queue[j].id = o)

\* Placed orders stay with their session, and done is done.
LEMMA VenueKept ==
    ASSUME Base, [Next]_vars, NEW o \in Orders, venue[o].at # Null
    PROVE  /\ venue'[o].at = venue[o].at
           /\ venue[o].st = "Done" => venue'[o].st = "Done"
<1> USE DEF Base
<1> QED
  BY VenueEffects DEF Announces, Accepts

\* No report of a fill appears for an order that is done.
LEMMA NoFillKept ==
    ASSUME Base, [Next]_vars, NEW o \in Orders, NEW s \in Sessions,
           venue[o].st = "Done", NoFill(stream[s], o)
    PROVE  NoFill(stream'[s], o)
<1> USE DEF Base
<1>1. CASE stream'[s] \in {stream[s], <<>>}
  BY <1>1 DEF NoFill
<1>2. CASE stream[s] # <<>> /\ stream'[s] = Tail(stream[s])
  <2>1. \A j \in DOMAIN stream'[s] : \E k \in DOMAIN stream[s] : stream'[s][j] = stream[s][k]
    <3> SUFFICES ASSUME NEW j \in DOMAIN stream'[s]
                 PROVE  \E k \in DOMAIN stream[s] : stream'[s][j] = stream[s][k]
      OBVIOUS
    <3>1. /\ j \in 1 .. Len(stream[s]) - 1 /\ Len(stream[s]) \in Nat
          /\ stream'[s][j] = stream[s][j + 1]
      BY <1>2, StreamFacts
    <3>2. j + 1 \in DOMAIN stream[s]
      BY <3>1, StreamFacts
    <3> QED
      BY <3>1, <3>2
  <2> QED
    BY <2>1 DEF NoFill
<1>3. ASSUME NEW x \in Orders, NEW n, Reports(x, n)
      PROVE  NoFill(stream'[s], o)
  <2>1. x # o /\ n \in Notification /\ n.id = x
    BY <1>3 DEF Reports
  <2>2. CASE stream'[s] = Append(stream[s], n)
    <3>1. /\ DOMAIN stream'[s] = 1 .. Len(stream[s]) + 1 /\ Len(stream[s]) \in Nat
          /\ DOMAIN stream[s] = 1 .. Len(stream[s])
          /\ \A i \in 1 .. Len(stream[s]) : stream'[s][i] = stream[s][i]
          /\ stream'[s][Len(stream[s]) + 1] = n
      BY <2>1, <2>2, StreamFacts
    <3> QED
      BY <2>1, <3>1 DEF NoFill
  <2>3. CASE stream'[s] = stream[s]
    BY <2>3 DEF NoFill
  <2> QED
    BY <1>3, <2>2, <2>3 DEF Reports
<1>4. stream' = stream => stream'[s] = stream[s]
  OBVIOUS
<1> QED
  BY <1>1, <1>2, <1>3, <1>4, StepEffects DEF Quietens, Handles, Sends, Announces, Accepts, Delivers

\* EventsSound for the notification at position i.
EventSound(i) ==
    LET n == order_events[i]
    IN  /\ n.kind \in {"NewOrder", "Fill", "Cancel"} => venue[n.id].at # Null
        /\ n.kind = "Fill" =>
            /\ n.qty >= 1
            /\ \/ orders[n.id].st # "Sent"
               \/ \E j \in 1 .. i - 1 : order_events[j].kind = "NewOrder" /\ order_events[j].id = n.id
        /\ n.kind = "Cancel" =>
            /\ venue[n.id].st = "Done"
            /\ NoFillAfter(order_events, i, n.id)
            /\ NoFill(stream[venue[n.id].at], n.id)

\* A notification that stays in the queue stays in order.
LEMMA EventStays ==
    ASSUME Base, [Next]_vars, NEW k \in DOMAIN order_events, NEW i,
           order_events'[i] = order_events[k],
           \A j \in 1 .. k - 1 :
                order_events[j].kind = "NewOrder" /\ order_events[j].id = order_events[k].id
                    => \/ orders'[order_events[j].id].st # "Sent"
                       \/ \E m \in 1 .. i - 1 : order_events'[m] = order_events[j],
           order_events[k].kind = "Cancel" =>
                NoFillAfter(order_events', i, order_events[k].id)
    PROVE  EventSound(i)'
<1> USE DEF Base
<1> DEFINE n == order_events[k]
<1>1. EventSound(k)
  BY DEF EventsSound, EventSound, NoFill, NoFillAfter
<1>2. n \in Notification /\ (n.kind \in {"NewOrder", "Fill", "Cancel"} => n.id \in Orders)
  BY EventFacts, Notifications
<1>3. CASE n.kind \notin {"NewOrder", "Fill", "Cancel"}
  BY <1>3 DEF EventSound
<1>4. CASE n.kind = "NewOrder"
  BY <1>1, <1>2, <1>4, VenueKept, NullAssumption DEF EventSound
<1>5. CASE n.kind = "Cancel"
  <2>1. venue[n.id].at # Null /\ venue[n.id].at \in Sessions /\ n.id \in Orders
    BY <1>1, <1>2, <1>5 DEF EventSound, TypeOK
  <2>2. venue'[n.id].at = venue[n.id].at /\ venue'[n.id].st = "Done"
    BY <1>1, <1>5, <2>1, VenueKept DEF EventSound
  <2>3. NoFill(stream'[venue[n.id].at], n.id)
    BY <1>1, <1>5, <2>1, NoFillKept DEF EventSound
  <2>4. NoFillAfter(order_events', i, n.id)
    BY <1>5
  <2> QED
    BY <1>5, <2>1, <2>2, <2>3, <2>4 DEF EventSound
<1>6. CASE n.kind = "Fill"
  <2>1. venue[n.id].at # Null /\ n.id \in Orders /\ n.qty >= 1
    BY <1>1, <1>2, <1>6 DEF EventSound
  <2>2. venue'[n.id].at # Null
    BY <2>1, VenueKept
  <2>3. orders'[n.id].st = "Sent" => orders[n.id].st = "Sent"
    BY <2>1, OrdersKept, StepShapes DEF VenueSound, Announced
  <2>4. \/ orders'[n.id].st # "Sent"
        \/ \E m \in 1 .. i - 1 : order_events'[m].kind = "NewOrder" /\ order_events'[m].id = n.id
    BY <1>1, <1>6, <2>3 DEF EventSound
  <2> QED
    BY <1>6, <2>1, <2>2, <2>4 DEF EventSound
<1> QED
  BY <1>3, <1>4, <1>5, <1>6

\* The channel keeps the order of things (EventsSound) across every step.
LEMMA EventsSoundStep ==
    ASSUME Base, [Next]_vars
    PROVE  EventsSound'
<1> USE DEF Base
<1>a. PICK len \in Nat : len = Len(order_events)
  BY EventFacts
<1>1. /\ len \in Nat /\ DOMAIN order_events = 1 .. len
      /\ \A i \in 1 .. len : order_events[i] \in Notification
      /\ \A i \in 1 .. len : EventSound(i)
  BY <1>a, EventFacts DEF EventsSound, EventSound, NoFill, NoFillAfter
<1>2. SUFFICES ASSUME NEW i \in DOMAIN order_events'
               PROVE  EventSound(i)'
  BY DEF EventsSound, EventSound, NoFill, NoFillAfter
<1>3. \A k \in 1 .. len : order_events[k].kind = "Cancel" =>
        /\ order_events[k].id \in Orders /\ venue[order_events[k].id].at \in Sessions
        /\ venue[order_events[k].id].st = "Done"
        /\ NoFillAfter(order_events, k, order_events[k].id)
        /\ NoFill(stream[venue[order_events[k].id].at], order_events[k].id)
  BY <1>1, Notifications DEF EventSound, TypeOK
\* The queue grows: what it holds keeps its place.
<1>4. ASSUME /\ Len(order_events') \in Nat /\ DOMAIN order_events' = 1 .. Len(order_events')
             /\ len <= Len(order_events')
             /\ \A k \in 1 .. len : order_events'[k] = order_events[k],
             \A k \in 1 .. len : order_events[k].kind = "Cancel" =>
                \A j \in len + 1 .. Len(order_events') :
                    ~(order_events'[j].kind = "Fill" /\ order_events'[j].id = order_events[k].id),
             i \in 1 .. len
      PROVE  EventSound(i)'
  <2>1. order_events[i].kind = "Cancel" => NoFillAfter(order_events', i, order_events[i].id)
    <3> SUFFICES ASSUME order_events[i].kind = "Cancel", NEW j \in i + 1 .. Len(order_events')
                 PROVE  ~(order_events'[j].kind = "Fill" /\ order_events'[j].id = order_events[i].id)
      BY DEF NoFillAfter
    <3>1. CASE j \in 1 .. len
      <4>1. j \in i + 1 .. Len(order_events)
        BY <1>a, <1>4, <3>1
      <4>2. order_events'[j] = order_events[j] /\ NoFillAfter(order_events, i, order_events[i].id)
        BY <1>3, <1>4, <3>1
      <4> QED
        BY <4>1, <4>2 DEF NoFillAfter
    <3>2. CASE j \in len + 1 .. Len(order_events')
      BY <1>4, <3>2
    <3> QED
      BY <1>1, <1>4, <3>1, <3>2
  <2>2. \A j \in 1 .. i - 1 : j \in 1 .. len
    BY <1>1, <1>4
  <2>3. \A j \in 1 .. i - 1 : \E m \in 1 .. i - 1 : order_events'[m] = order_events[j]
    BY <1>4, <2>2
  <2>4. i \in DOMAIN order_events /\ order_events'[i] = order_events[i]
    BY <1>1, <1>4
  <2> QED
    BY <2>1, <2>3, <2>4, EventStays
<1>5. CASE Quietens
  <2>1. /\ Len(order_events') \in Nat /\ DOMAIN order_events' = 1 .. Len(order_events')
        /\ len <= Len(order_events')
        /\ \A k \in 1 .. len : order_events'[k] = order_events[k]
        /\ \A j \in len + 1 .. Len(order_events') :
                order_events'[j].kind \in {"Logon", "Logout", "Rejected"}
    BY <1>a, <1>5, LenProperties DEF Quietens, Grows, Queues
  <2>2. CASE i \in 1 .. len
    BY <1>4, <2>1, <2>2
  <2>3. CASE i \in len + 1 .. Len(order_events')
    BY <2>1, <2>3 DEF EventSound
  <2> QED
    BY <1>1, <1>2, <2>1, <2>2, <2>3
<1>6. ASSUME NEW n \in Notification, Handles(n)
      PROVE  EventSound(i)'
  <2>1. /\ n = order_events[1] /\ len \in Nat /\ DOMAIN order_events' = 1 .. len - 1
        /\ Len(order_events') = len - 1
        /\ \A k \in 1 .. len - 1 : order_events'[k] = order_events[k + 1]
    BY <1>a, <1>6, HeadTyped DEF Handles
  <2>2. i + 1 \in DOMAIN order_events /\ order_events'[i] = order_events[i + 1] /\ i \in Nat
    BY <1>1, <1>2, <2>1
  <2>3. order_events[i + 1].kind = "Cancel" => NoFillAfter(order_events', i, order_events[i + 1].id)
    <3> SUFFICES ASSUME order_events[i + 1].kind = "Cancel", NEW j \in i + 1 .. Len(order_events')
                 PROVE  ~(order_events'[j].kind = "Fill" /\ order_events'[j].id = order_events[i + 1].id)
      BY DEF NoFillAfter
    <3>1. j + 1 \in (i + 1) + 1 .. len /\ order_events'[j] = order_events[j + 1]
      BY <2>1, <2>2
    <3> QED
      BY <1>1, <1>3, <2>2, <3>1 DEF NoFillAfter
  <2>4. ASSUME NEW j \in 1 .. (i + 1) - 1,
               order_events[j].kind = "NewOrder", order_events[j].id = order_events[i + 1].id
        PROVE  \/ orders'[order_events[j].id].st # "Sent"
               \/ \E m \in 1 .. i - 1 : order_events'[m] = order_events[j]
    <3>1. CASE j = 1
      <4>1. order_events[j].id \in Orders /\ venue[order_events[j].id].at # Null
        <5>1. j \in 1 .. len
          BY <1>1, <2>2, <2>4
        <5> QED
          BY <1>1, <2>4, <5>1, Notifications DEF EventSound
      <4>2. orders[order_events[j].id] # Null
        BY <4>1 DEF VenueSound, Announced
      <4> QED
        BY <1>6, <2>1, <2>4, <3>1, <4>2 DEF Handles
    <3>2. CASE j # 1
      <4>1. j - 1 \in 1 .. i - 1 /\ j - 1 \in 1 .. len - 1 /\ (j - 1) + 1 = j
        BY <1>1, <2>2, <2>4, <3>2
      <4>2. order_events'[j - 1] = order_events[j]
        BY <2>1, <4>1
      <4> QED
        BY <4>1, <4>2
    <3> QED
      BY <3>1, <3>2
  <2> QED
    BY <2>2, <2>3, <2>4, EventStays
<1>7. ASSUME NEW n \in Notification, order_events' = Append(order_events, n),
             \A k \in 1 .. len : order_events[k].kind = "Cancel" =>
                    ~(n.kind = "Fill" /\ n.id = order_events[k].id),
             order_events'[len + 1] = n /\ DOMAIN order_events' = 1 .. len + 1
                => EventSound(len + 1)'
      PROVE  EventSound(i)'
  <2>1. /\ DOMAIN order_events' = 1 .. len + 1 /\ Len(order_events') = len + 1 /\ len \in Nat
        /\ \A k \in 1 .. len : order_events'[k] = order_events[k]
        /\ order_events'[len + 1] = n
    BY <1>a, <1>7, EventFacts, AppendProperties DEF Queues
  <2>2. CASE i \in 1 .. len
    <3>1. \A k \in 1 .. len : order_events[k].kind = "Cancel" =>
                \A j \in len + 1 .. Len(order_events') :
                    ~(order_events'[j].kind = "Fill" /\ order_events'[j].id = order_events[k].id)
      BY <1>7, <2>1
    <3>2. len <= Len(order_events')
      BY <2>1
    <3> QED
      BY <1>4, <2>1, <2>2, <3>1, <3>2
  <2>3. CASE i = len + 1
    BY <1>7, <2>1, <2>3
  <2> QED
    BY <1>2, <2>1, <2>2, <2>3
<1>8. ASSUME NEW s \in Sessions, NEW x \in Orders, NEW q \in Nat, Announces(s, x, q)
      PROVE  EventSound(i)'
  <2> DEFINE n == Order("NewOrder", x, q)
  <2>1. n \in Notification /\ n.kind = "NewOrder" /\ n.id = x /\ order_events' = Append(order_events, n)
        /\ venue'[x].at = s /\ s # Null
    BY <1>8 DEF Announces
  <2> HIDE DEF n
  <2>2. order_events'[len + 1] = n => EventSound(len + 1)'
    BY <2>1 DEF EventSound
  <2> QED
    BY <1>7, <2>1, <2>2
<1>9. ASSUME NEW s \in Sessions, NEW n \in Notification, Delivers(s, n)
      PROVE  EventSound(i)'
  <2>1. /\ n = stream[s][1] /\ 1 \in DOMAIN stream[s] /\ order_events' = Append(order_events, n)
        /\ stream'[s] = Tail(stream[s]) /\ stream[s] # <<>>
        /\ venue' = venue /\ orders' = orders
    BY <1>9 DEF Delivers, venueVars, trackerVars
  <2>2. /\ n.kind \in {"Fill", "Cancel"} /\ venue[n.id].at = s /\ (n.kind = "Fill" => n.qty >= 1)
        /\ n.id \in Orders
        /\ n.kind = "Cancel" => venue[n.id].st = "Done" /\ NoFillAfter(stream[s], 1, n.id)
    <3>1. n.kind \in {"Fill", "Cancel"} /\ venue[n.id].at = s
      BY <2>1 DEF StreamsSound, NoFillAfter
    <3>2. n.kind = "Fill" => n.qty >= 1
      BY <2>1 DEF StreamsSound
    <3>3. n.kind = "Cancel" => venue[n.id].st = "Done" /\ NoFillAfter(stream[s], 1, n.id)
      BY <2>1 DEF StreamsSound, NoFillAfter
    <3> QED
      BY <3>1, <3>2, <3>3, Notifications
  <2>3. \A k \in 1 .. len : order_events[k].kind = "Cancel" =>
                    ~(n.kind = "Fill" /\ n.id = order_events[k].id)
    BY <1>3, <2>1, <2>2 DEF NoFill
  <2>4. ASSUME order_events'[len + 1] = n, DOMAIN order_events' = 1 .. len + 1
        PROVE  EventSound(len + 1)'
    <3>1. venue'[n.id].at = s /\ s # Null
      BY <2>1, <2>2, NullAssumption
    <3>2. CASE n.kind = "Cancel"
      <4>1. NoFill(stream'[s], n.id)
        <5>1. \A j \in DOMAIN stream'[s] : j + 1 \in 2 .. Len(stream[s]) /\ stream'[s][j] = stream[s][j + 1]
          BY <2>1, StreamFacts
        <5> QED
          BY <2>2, <3>2, <5>1 DEF NoFill, NoFillAfter
      <4>2. NoFillAfter(order_events', len + 1, n.id)
        <5>1. Len(order_events') = len + 1
          BY <1>a, <2>1, EventFacts, AppendProperties DEF Queues
        <5> QED
          BY <1>1, <5>1 DEF NoFillAfter
      <4> QED
        BY <2>1, <2>2, <2>4, <3>1, <3>2, <4>1, <4>2 DEF EventSound
    <3>3. CASE n.kind = "Fill"
      <4>1. Announced(n.id)
        BY <2>2, <3>1, <2>1 DEF VenueSound
      <4>2. \/ orders'[n.id].st # "Sent"
            \/ \E j \in 1 .. (len + 1) - 1 : order_events'[j].kind = "NewOrder" /\ order_events'[j].id = n.id
        <5>1. ASSUME NEW j \in DOMAIN order_events
              PROVE  j \in 1 .. (len + 1) - 1 /\ order_events'[j] = order_events[j]
          BY <1>a, <1>1, <2>1, EventFacts
        <5> QED
          BY <2>1, <4>1, <5>1 DEF Announced
      <4> QED
        BY <2>2, <2>4, <3>1, <3>3, <4>2 DEF EventSound
    <3> QED
      BY <2>2, <3>2, <3>3
  <2> QED
    BY <1>7, <2>1, <2>3, <2>4
<1>10. CASE order_events' = order_events
  <2>1. /\ Len(order_events') \in Nat /\ DOMAIN order_events' = 1 .. Len(order_events')
        /\ len <= Len(order_events')
        /\ \A k \in 1 .. len : order_events'[k] = order_events[k]
        /\ len + 1 .. Len(order_events') = {} /\ i \in 1 .. len
    BY <1>a, <1>1, <1>2, <1>10
  <2> QED
    BY <1>4, <2>1
<1> QED
  BY <1>5, <1>6, <1>8, <1>9, <1>10, StepEffects DEF Sends, Accepts, Reports

-----------------------------------------------------------------------------
\* The invariant holds initially.
LEMMA BaseInit == Init => Base
<1> SUFFICES ASSUME Init PROVE Base
  OBVIOUS
<1>1. TypeOK
  BY TypeInit
<1>2. EventsTyped /\ EventsSound
  BY DEF Init, EventsTyped, EventsSound
<1>3. VenueTyped /\ VenueSound
  BY NullAssumption DEF Init, VenueTyped, VenueSound
<1>4. PlacingHere /\ CommandsFresh /\ CommandsOnce /\ StreamsSound
  BY DEF Init, PlacingHere, CommandsFresh, CommandsOnce, StreamsSound
<1> QED
  BY <1>1, <1>2, <1>3, <1>4 DEF Base

\* The invariant is inductive.
LEMMA BaseStep == Base /\ [Next]_vars => Base'
<1> SUFFICES ASSUME Base, [Next]_vars PROVE Base'
  OBVIOUS
<1>1. TypeOK'
  BY TypeStep DEF Base
<1>2. EventsTyped'
  BY EventsTypedStep DEF Base
<1>3. VenueTyped' /\ PlacingHere'
  BY VenueTypedStep DEF Base
<1>4. CommandsFresh' /\ CommandsOnce'
  BY CommandsStep DEF Base
<1>5. VenueSound' /\ StreamsSound' /\ EventsSound'
  BY VenueSoundStep, StreamsSoundStep, EventsSoundStep
<1> QED
  BY <1>1, <1>2, <1>3, <1>4, <1>5 DEF Base

\* The invariant holds in every reachable state.
THEOREM BaseInvariant == Spec => []Base
BY BaseInit, BaseStep, PTL DEF Spec

\* Every variable keeps its type, whatever fails.
THEOREM Typed == Spec => []TypeOK
<1>1. Base => TypeOK
  BY DEF Base
<1> QED
  BY <1>1, BaseInvariant, PTL

\* handle_order_notification never meets a fill of an order it does not know or
\* holds for merely sent: NewOrder is published before order_place is called.
THEOREM AnnouncedFirst == Spec => []AnnouncedBeforeFilled
<1>1. Base => AnnouncedBeforeFilled
  <2> SUFFICES ASSUME Base, NEW o \in Orders, order_events # <<>>,
                      Head(order_events).kind = "Fill", Head(order_events).id = o
               PROVE  orders[o] # Null /\ orders[o].st # "Sent"
    BY DEF AnnouncedBeforeFilled
  <2>1. order_events[1] = Head(order_events) /\ 1 \in DOMAIN order_events
    BY HeadTyped DEF Base
  <2>2. orders[o].st # "Sent" /\ venue[o].at # Null
    BY <2>1 DEF Base, EventsSound
  <2> QED
    BY <2>2 DEF Base, VenueSound, Announced
<1> QED
  BY <1>1, BaseInvariant, PTL

-----------------------------------------------------------------------------
\* Each of Rejected, the last Fill and Cancel ends an order that had not ended,
\* and update_order_status lets none of them count for one that had.
LEMMA ClosedOnceStep ==
    ASSUME Base, ClosedOnce, [Next]_vars
    PROVE  ClosedOnce'
<1> USE DEF Base
<1> DEFINE Once(o) == \/ closed[o] = 0
                      \/ closed[o] = 1 /\ orders[o] # Null /\ orders[o].st = "Cancelled"
<1>1. SUFFICES ASSUME NEW o \in Orders PROVE Once(o)'
  BY DEF ClosedOnce
<1>2. Once(o)
  BY DEF ClosedOnce
<1>3. closed'[o] = closed[o] => Once(o)'
  BY <1>2, OrdersKept, StepShapes
<1>4. ASSUME NEW kind \in {"Rejected", "Fill", "Cancel"}, Handle(kind),
             NEW u, NEW b, closed' = [closed EXCEPT ![Head(order_events).id] = IF b THEN @ + 1 ELSE @],
             orders' = [orders EXCEPT ![Head(order_events).id] = u.next],
             b => /\ orders[Head(order_events).id].st \in {"Sent", "Live"}
                  /\ u.next = Ended
      PROVE  Once(o)'
  <2>1. Head(order_events).id \in Orders /\ Head(order_events).kind = kind
    BY <1>4, HeadTyped, Notifications DEF Handle
  <2>2. CASE b /\ o = Head(order_events).id
    <3>1. closed[o] = 0
      BY <1>2, <1>4, <2>2
    <3>2. closed'[o] = 1 /\ orders'[o] = Ended
      BY <1>4, <2>1, <2>2, <3>1 DEF TypeOK
    <3>3. Ended # Null /\ Ended.st = "Cancelled"
      <4>1. Ended \in OrderStatus
        BY DEF Ended, OrderStatus
      <4> QED
        BY <4>1, NullAssumption DEF Ended
    <3> QED
      BY <3>2, <3>3
  <2>3. CASE ~(b /\ o = Head(order_events).id)
    <3>1. closed'[o] = closed[o]
      BY <1>4, <2>1, <2>3 DEF TypeOK
    <3> QED
      BY <1>3, <3>1
  <2> QED
    BY <2>2, <2>3
<1>5. CASE HandleRejected
  <2> DEFINE n == Head(order_events)
             u == UpdateOrderStatus(n.id, n.qty, TRUE)
  <2>1. n.qty = OrderQuantity /\ n.qty \in Nat /\ ~(n.qty < Tolerance)
    <3>1. n.kind = "Rejected" /\ n.qty = OrderQuantity
      BY <1>5, HeadTyped DEF HandleRejected, Handle, EventsTyped
    <3> QED
      BY <3>1, QuantityAssumption
  <2>2. u.ok => orders[n.id].st \in {"Sent", "Live"} /\ u.next = Ended
    BY <2>1 DEF UpdateOrderStatus, Update
  <2>3. /\ Handle("Rejected")
        /\ closed' = [closed EXCEPT ![n.id] = IF u.ok THEN @ + 1 ELSE @]
        /\ orders' = [orders EXCEPT ![n.id] = u.next]
    BY <1>5 DEF HandleRejected
  <2> HIDE DEF u
  <2> QED
    BY <1>4, <2>2, <2>3
<1>6. CASE HandleFill
  <2> DEFINE n == Head(order_events)
             u == UpdateOrderStatus(n.id, n.qty, FALSE)
  <2>2. u.ok /\ u.is_cancelled => orders[n.id].st \in {"Sent", "Live"} /\ u.next = Ended
    BY DEF UpdateOrderStatus, Update
  <2>3. /\ Handle("Fill")
        /\ closed' = [closed EXCEPT ![n.id] = IF u.ok /\ u.is_cancelled THEN @ + 1 ELSE @]
        /\ orders' = [orders EXCEPT ![n.id] = u.next]
    BY <1>6 DEF HandleFill
  <2> HIDE DEF u
  <2> QED
    BY <1>4, <2>2, <2>3
<1>7. CASE HandleCancel
  <2> DEFINE n == Head(order_events)
             u == UpdateOrderStatus(n.id, n.qty, TRUE)
  <2>2. u.ok /\ u.was_live => orders[n.id].st \in {"Sent", "Live"} /\ u.next = Ended
    BY DEF UpdateOrderStatus, Update
  <2>3. /\ Handle("Cancel")
        /\ closed' = [closed EXCEPT ![n.id] = IF u.ok /\ u.was_live THEN @ + 1 ELSE @]
        /\ orders' = [orders EXCEPT ![n.id] = u.next]
    BY <1>7 DEF HandleCancel
  <2> HIDE DEF u
  <2> QED
    BY <1>4, <2>2, <2>3
<1>8. ASSUME closed' = closed PROVE Once(o)'
  BY <1>3, <1>8
<1> HIDE DEF Once
<1>9. CASE HandleOrderNotification
  BY <1>5, <1>6, <1>7, <1>8, <1>9 DEF HandleOrderNotification, HandleLogon, HandleLogout, HandleNewOrder
<1>10. CASE ~HandleOrderNotification
  <2>1. closed' = closed
    BY <1>10, StepEffects DEF Quietens, Sends, Announces, Accepts, Delivers, Reports, trackerVars
  <2> QED
    BY <1>8, <2>1
<1> QED
  BY <1>9, <1>10

\* The final report of an order, on which its batch completes, is published at
\* most once, however Rejected, the last fill and the expiry race.
THEOREM ReportedOnce == Spec => []OneFinalReport
<1>1. Init => ClosedOnce
  BY DEF Init, ClosedOnce
<1>2. Base /\ ClosedOnce /\ [Next]_vars => ClosedOnce'
  BY ClosedOnceStep
<1>3. ClosedOnce => OneFinalReport
  BY DEF ClosedOnce, OneFinalReport
<1> QED
  BY <1>1, <1>2, <1>3, BaseInvariant, PTL DEF Spec

-----------------------------------------------------------------------------
\* What is reported of an order is booked, on the channel or on its stream.
LEMMA FlowTypes ==
    ASSUME TypeOK, NEW o \in Orders
    PROVE  /\ Waiting(o) \in Nat /\ Streamed(o) \in Nat
           /\ booked[o] \in Nat /\ executed[o] \in Nat
           /\ Reported(o) = booked[o] + Waiting(o) + Streamed(o)
<1>1. Waiting(o) \in Nat
  BY EventFacts, FillsInType DEF Waiting
<1>2. Streamed(o) \in Nat
  <2>1. CASE venue[o].at \in Sessions
    BY <2>1, StreamFacts, FillsInType DEF Streamed
  <2>2. CASE venue[o].at = Null
    BY <2>2 DEF Streamed
  <2> QED
    BY <2>1, <2>2 DEF TypeOK
<1> QED
  BY <1>1, <1>2 DEF Reported, Waiting, Streamed, TypeOK

\* Sessions that come and go may lose reports, and add none.
LEMMA FlowQuietens ==
    ASSUME Base, Quietens, NEW o \in Orders
    PROVE  /\ Waiting(o)' = Waiting(o)
           /\ Streamed(o)' \in {Streamed(o), 0}
           /\ stream' = stream => Streamed(o)' = Streamed(o)
<1>1. Waiting(o)' = Waiting(o)
  BY EventFacts, FillsInGrows DEF Quietens, Grows, Waiting, Base
<1>2. /\ Streamed(o)' \in {Streamed(o), 0}
      /\ stream' = stream => Streamed(o)' = Streamed(o)
  <2>1. venue' = venue /\ venue[o].at \in Sessions \cup {Null}
    BY DEF Quietens, Base, TypeOK
  <2>2. \A s \in Sessions : stream'[s] \in {stream[s], <<>>}
    BY DEF Quietens
  <2> QED
    BY <2>1, <2>2, FillsInEmpty DEF Streamed
<1> QED
  BY <1>1, <1>2

\* Handling a notification takes its share off the channel.
LEMMA FlowHandles ==
    ASSUME Base, NEW n \in Notification, Handles(n), NEW o \in Orders
    PROVE  /\ Waiting(o) = Waiting(o)' + Share(n, o)
           /\ Streamed(o)' = Streamed(o)
<1>1. order_events \in Queues /\ order_events # <<>> /\ n = Head(order_events)
      /\ order_events' = Tail(order_events)
  BY EventFacts DEF Handles, Base
<1>2. venue' = venue /\ stream' = stream
  BY DEF Handles
<1> QED
  BY <1>1, <1>2, FillsInTail DEF Waiting, Streamed

\* Announcing an order moves no fill.
LEMMA FlowAnnounces ==
    ASSUME Base, NEW s \in Sessions, NEW x \in Orders, NEW q \in Nat, Announces(s, x, q),
           NEW o \in Orders
    PROVE  Waiting(o)' = Waiting(o) /\ Streamed(o)' = Streamed(o)
<1> DEFINE n == Order("NewOrder", x, q)
<1>1. /\ n \in Notification /\ n.kind = "NewOrder" /\ order_events' = Append(order_events, n)
      /\ venue[x].at = Null /\ venue'[x].at = s /\ s # Null /\ stream' = stream
      /\ \A y \in Orders \ {x} : venue'[y] = venue[y]
  BY DEF Announces
<1> HIDE DEF n
<1>2. Waiting(o)' = Waiting(o)
  <2>1. FillsIn(order_events', o) = FillsIn(order_events, o) + Share(n, o)
    BY <1>1, EventFacts, FillsInAppend DEF Base
  <2>2. Share(n, o) = 0
    BY <1>1 DEF Share
  <2> QED
    BY <2>1, <2>2, FlowTypes DEF Waiting, Base
<1>3. CASE o # x
  BY <1>1, <1>2, <1>3 DEF Streamed
<1>4. CASE o = x
  <2>1. \A i \in DOMAIN stream[s] : ~(stream[s][i].kind = "Fill" /\ stream[s][i].id = x)
    BY <1>1 DEF Base, StreamsSound
  <2>2. FillsIn(stream[s], x) = 0
    BY <2>1, StreamFacts, FillsInNone DEF Base
  <2> QED
    BY <1>1, <1>2, <1>4, <2>2 DEF Streamed
<1> QED
  BY <1>3, <1>4

\* The callback moves a share from the stream to the channel.
LEMMA FlowDelivers ==
    ASSUME Base, NEW s \in Sessions, NEW n \in Notification, Delivers(s, n), NEW o \in Orders
    PROVE  /\ Waiting(o)' = Waiting(o) + Share(n, o)
           /\ Streamed(o) = Streamed(o)' + Share(n, o)
<1>1. /\ stream[s] # <<>> /\ n = Head(stream[s]) /\ n = stream[s][1] /\ 1 \in DOMAIN stream[s]
      /\ order_events' = Append(order_events, n)
      /\ stream'[s] = Tail(stream[s])
      /\ \A t \in Sessions \ {s} : stream'[t] = stream[t]
      /\ venue' = venue
  BY DEF Delivers, venueVars
<1>2. Waiting(o)' = Waiting(o) + Share(n, o)
  BY <1>1, EventFacts, FillsInAppend DEF Waiting, Base
<1>3. CASE venue[o].at = s
  <2>1. s # Null
    BY NullAssumption
  <2>2. FillsIn(stream[s], o) = FillsIn(Tail(stream[s]), o) + Share(n, o)
    BY <1>1, StreamFacts, FillsInTail DEF Base
  <2> QED
    BY <1>1, <1>2, <1>3, <2>1, <2>2 DEF Streamed
<1>4. CASE venue[o].at # s
  <2>1. venue[n.id].at = s
    BY <1>1 DEF Base, StreamsSound
  <2>2. Share(n, o) = 0
    BY <1>4, <2>1 DEF Share
  <2>3. Streamed(o)' = Streamed(o) /\ Streamed(o) \in Nat
    <3>1. venue[o].at \in (Sessions \ {s}) \cup {Null}
      BY <1>4 DEF Base, TypeOK
    <3> QED
      BY <1>1, <3>1, FlowTypes DEF Streamed, Base
  <2> QED
    BY <1>2, <2>2, <2>3
<1> QED
  BY <1>3, <1>4

\* A report adds its share to the stream while its session listens.
LEMMA FlowReports ==
    ASSUME Base, NEW x \in Orders, NEW n, Reports(x, n), NEW o \in Orders
    PROVE  /\ Waiting(o)' = Waiting(o)
           /\ Streamed(o)' = IF sess[venue[x].at] = "Main" THEN Streamed(o) + Share(n, o)
                             ELSE Streamed(o)
<1>1. /\ venue[x].at \in Sessions /\ n \in Notification /\ n.id = x
      /\ venue'[x].at = venue[x].at
      /\ \A y \in Orders \ {x} : venue'[y] = venue[y]
      /\ order_events' = order_events
      /\ \A t \in Sessions \ {venue[x].at} : stream'[t] = stream[t]
      /\ stream'[venue[x].at] = IF sess[venue[x].at] = "Main" THEN Append(stream[venue[x].at], n)
                                ELSE stream[venue[x].at]
  BY DEF Reports
<1>2. Waiting(o)' = Waiting(o)
  BY <1>1 DEF Waiting
<1>3. venue'[o].at = venue[o].at /\ venue[o].at \in Sessions \cup {Null} /\ Null \notin Sessions
  BY <1>1, NullAssumption DEF Base, TypeOK
<1>4. \A s \in Sessions : FillsIn(Append(stream[s], n), o) = FillsIn(stream[s], o) + Share(n, o)
  BY <1>1, StreamFacts, FillsInAppend DEF Base
<1>5. Share(n, o) # 0 => o = x
  BY <1>1 DEF Share
<1>6. Streamed(o) \in Nat
  BY FlowTypes DEF Base
<1>7. CASE venue[o].at = venue[x].at
  BY <1>1, <1>2, <1>3, <1>4, <1>7 DEF Streamed
<1>8. CASE venue[o].at # venue[x].at
  <2>1. Streamed(o)' = Streamed(o)
    BY <1>1, <1>3, <1>8 DEF Streamed
  <2>2. Share(n, o) = 0
    BY <1>5, <1>8
  <2> QED
    BY <1>2, <1>6, <2>1, <2>2
<1> QED
  BY <1>7, <1>8

\* What each handler books for an order and what it leaves of it.
LEMMA HandleBooks ==
    ASSUME Base, HandleOrderNotification, NEW n \in Notification, Handles(n), NEW o \in Orders
    PROVE  /\ booked'[o] \in {booked[o], booked[o] + Share(n, o)}
           /\ n.kind = "Fill" /\ o = n.id /\ orders[o].st = "Live" =>
                /\ booked'[o] = booked[o] + n.qty
                /\ orders'[o] = IF orders[o].rem - n.qty < Tolerance THEN Ended
                                ELSE [st |-> "Live", rem |-> orders[o].rem - n.qty]
           /\ n.kind = "NewOrder" /\ o = n.id =>
                orders'[o] = IF orders[o] # Null /\ orders[o].st = "Sent"
                             THEN [st |-> "Live", rem |-> n.qty] ELSE orders[o]
           /\ n.kind = "Cancel" /\ o = n.id /\ orders[o].st \in {"Sent", "Live"} =>
                orders'[o].st = "Cancelled"
           /\ n.kind \in {"Logon", "Logout"} \/ o # n.id => orders'[o] = orders[o]
<1>1. n = Head(order_events) /\ booked \in [Orders -> Nat] /\ orders \in [Orders -> OrderStatus \cup {Null}]
  BY DEF Handles, Base, TypeOK
<1>2. CASE HandleLogon \/ HandleLogout
  BY <1>1, <1>2 DEF HandleLogon, HandleLogout, Handle
<1>3. CASE HandleNewOrder
  <2>1. n.kind = "NewOrder" /\ booked' = booked
    BY <1>1, <1>3 DEF HandleNewOrder, Handle
  <2>2. orders' = IF orders[n.id] # Null /\ orders[n.id].st = "Sent"
                  THEN [orders EXCEPT ![n.id] = [st |-> "Live", rem |-> n.qty]]
                  ELSE orders
    BY <1>1, <1>3 DEF HandleNewOrder
  <2> QED
    BY <1>1, <2>1, <2>2
<1>4. CASE HandleRejected
  <2>1. n.kind = "Rejected" /\ booked' = booked
    BY <1>1, <1>4 DEF HandleRejected, Handle
  <2>2. o # n.id => orders'[o] = orders[o]
    BY <1>1, <1>4 DEF HandleRejected
  <2> QED
    BY <2>1, <2>2
<1>5. CASE HandleCancel
  <2> DEFINE u == UpdateOrderStatus(n.id, n.qty, TRUE)
  <2>1. n.kind = "Cancel" /\ booked' = booked /\ n.id \in Orders
    BY <1>1, <1>5, Notifications DEF HandleCancel, Handle
  <2>2. orders' = [orders EXCEPT ![n.id] = u.next]
    BY <1>1, <1>5 DEF HandleCancel
  <2>3. orders[n.id].st \in {"Sent", "Live"} /\ orders[n.id] # Null => u.next = Ended
    BY DEF UpdateOrderStatus, Update
  <2>4. Ended.st = "Cancelled"
    BY DEF Ended
  <2>5. orders[n.id] # Null
    <3>1. 1 \in DOMAIN order_events /\ order_events[1] = n
      BY <1>1, HeadTyped DEF Handles, Base
    <3> QED
      BY <2>1, <3>1 DEF Base, EventsSound, VenueSound, Announced
  <2> HIDE DEF u
  <2> QED
    BY <1>1, <2>1, <2>2, <2>3, <2>4, <2>5
<1>6. CASE HandleFill
  <2> DEFINE u == UpdateOrderStatus(n.id, n.qty, FALSE)
  <2>1. n.kind = "Fill" /\ n.id \in Orders
    BY <1>1, <1>6, Notifications DEF HandleFill, Handle
  <2>2. /\ orders' = [orders EXCEPT ![n.id] = u.next]
        /\ booked' = [booked EXCEPT ![n.id] = IF u.ok THEN @ + n.qty ELSE @]
    BY <1>1, <1>6 DEF HandleFill
  <2>3. orders[n.id].st = "Live" /\ orders[n.id] # Null =>
            /\ u.ok
            /\ u.next = IF orders[n.id].rem - n.qty < Tolerance THEN Ended
                        ELSE [st |-> "Live", rem |-> orders[n.id].rem - n.qty]
    BY DEF UpdateOrderStatus, Update
  <2>4. orders[n.id] # Null
    <3>1. 1 \in DOMAIN order_events /\ order_events[1] = n
      BY <1>1, HeadTyped DEF Handles, Base
    <3> QED
      BY <2>1, <3>1 DEF Base, EventsSound, VenueSound, Announced
  <2>5. Share(n, o) = IF o = n.id THEN n.qty ELSE 0
    BY <2>1 DEF Share
  <2> HIDE DEF u
  <2>6. CASE o = n.id
    BY <1>1, <2>1, <2>2, <2>3, <2>4, <2>5, <2>6
  <2>7. CASE o # n.id
    BY <1>1, <2>1, <2>2, <2>7
  <2> QED
    BY <2>6, <2>7
<1> QED
  BY <1>2, <1>3, <1>4, <1>5, <1>6 DEF HandleOrderNotification

\* The same in the next state.
LEMMA FlowTypesNext ==
    ASSUME TypeOK', NEW o \in Orders
    PROVE  /\ Waiting(o)' \in Nat /\ Streamed(o)' \in Nat
           /\ booked'[o] \in Nat /\ executed'[o] \in Nat
           /\ Reported(o)' = booked'[o] + Waiting(o)' + Streamed(o)'
<1>1. Waiting(o)' \in Nat
  BY FillsInType DEF Waiting, TypeOK, Queues
<1>2. Streamed(o)' \in Nat
  <2>1. venue'[o].at \in Sessions \cup {Null} /\ \A s \in Sessions : stream'[s] \in Queues
    BY DEF TypeOK, Queues
  <2> QED
    BY <2>1, FillsInType DEF Streamed
<1> QED
  BY <1>1, <1>2 DEF Reported, Waiting, Streamed, TypeOK

\* No step books or reports more than the exchange executes with it.
LEMMA NeverOverbookedStep ==
    ASSUME Base, NeverOverbooked, [Next]_vars
    PROVE  NeverOverbooked'
<1> SUFFICES ASSUME NEW o \in Orders PROVE Reported(o)' =< executed'[o]
  BY DEF NeverOverbooked
<1>0. TypeOK'
  BY BaseStep DEF Base
<1>1. /\ Waiting(o) \in Nat /\ Streamed(o) \in Nat /\ booked[o] \in Nat /\ executed[o] \in Nat
      /\ Waiting(o)' \in Nat /\ Streamed(o)' \in Nat /\ booked'[o] \in Nat /\ executed'[o] \in Nat
      /\ Reported(o) = booked[o] + Waiting(o) + Streamed(o)
      /\ Reported(o)' = booked'[o] + Waiting(o)' + Streamed(o)'
      /\ Reported(o) <= executed[o]
  BY <1>0, FlowTypes, FlowTypesNext DEF NeverOverbooked, Base
<1>2. \A n \in Notification : Share(n, o) \in Nat
  BY Notifications DEF Share
<1>3. CASE Quietens
  <2>1. booked'[o] = booked[o] /\ executed'[o] = executed[o]
    BY <1>3 DEF Quietens
  <2>2. Waiting(o)' = Waiting(o) /\ Streamed(o)' \in {Streamed(o), 0}
    BY <1>3, FlowQuietens
  <2> QED
    BY <1>1, <2>1, <2>2
<1>4. ASSUME NEW n \in Notification, HandleOrderNotification, Handles(n)
      PROVE  Reported(o)' =< executed'[o]
  <2>1. executed'[o] = executed[o]
    BY <1>4 DEF Handles
  <2>2. Waiting(o) = Waiting(o)' + Share(n, o) /\ Streamed(o)' = Streamed(o)
    BY <1>4, FlowHandles
  <2>3. booked'[o] \in {booked[o], booked[o] + Share(n, o)}
    BY <1>4, HandleBooks
  <2> QED
    BY <1>1, <1>2, <2>1, <2>2, <2>3
<1>5. ASSUME NEW x \in Orders, Sends(x) \/ Accepts(x)
      PROVE  Reported(o)' =< executed'[o]
  <2>1. booked'[o] = booked[o] /\ executed'[o] = executed[o] /\ Waiting(o)' = Waiting(o)
    BY <1>5 DEF Sends, Accepts, trackerVars, Waiting
  <2>2. stream' = stream /\ venue'[o].at = venue[o].at
    BY <1>5 DEF Sends, Accepts
  <2>3. Streamed(o)' = Streamed(o)
    BY <2>2 DEF Streamed
  <2> QED
    BY <1>1, <2>1, <2>3
<1>6. ASSUME NEW s \in Sessions, NEW x \in Orders, NEW q \in Nat, Announces(s, x, q)
      PROVE  Reported(o)' =< executed'[o]
  <2>1. booked'[o] = booked[o] /\ executed'[o] = executed[o]
    BY <1>6 DEF Announces, trackerVars
  <2>2. Waiting(o)' = Waiting(o) /\ Streamed(o)' = Streamed(o)
    BY <1>6, FlowAnnounces
  <2> QED
    BY <1>1, <2>1, <2>2
<1>7. ASSUME NEW s \in Sessions, NEW n \in Notification, Delivers(s, n)
      PROVE  Reported(o)' =< executed'[o]
  <2>1. booked'[o] = booked[o] /\ executed'[o] = executed[o]
    BY <1>7 DEF Delivers, trackerVars, venueVars
  <2>2. Waiting(o)' = Waiting(o) + Share(n, o) /\ Streamed(o) = Streamed(o)' + Share(n, o)
    BY <1>7, FlowDelivers
  <2> QED
    BY <1>1, <1>2, <2>1, <2>2
<1>8. ASSUME NEW x \in Orders, NEW n, Reports(x, n),
             executed'[o] = executed[o] + Share(n, o)
      PROVE  Reported(o)' =< executed'[o]
  <2>1. booked'[o] = booked[o] /\ n \in Notification
    BY <1>8 DEF Reports, trackerVars
  <2>2. Waiting(o)' = Waiting(o) /\ Streamed(o)' \in {Streamed(o), Streamed(o) + Share(n, o)}
    BY <1>8, FlowReports
  <2> QED
    BY <1>1, <1>2, <1>8, <2>1, <2>2
<1>9. ASSUME NEW x \in Orders, NEW q \in Nat \ {0}, NEW n, Reports(x, n),
             n.kind = "Fill", n.qty = q, executed' = [executed EXCEPT ![x] = @ + q]
      PROVE  executed'[o] = executed[o] + Share(n, o)
  <2>1. n.id = x /\ executed \in [Orders -> Nat]
    BY <1>9 DEF Reports, Base, TypeOK
  <2> QED
    BY <1>1, <1>9, <2>1 DEF Share
<1>10. ASSUME NEW x \in Orders, NEW n, Reports(x, n), n.kind = "Cancel", executed' = executed
      PROVE  executed'[o] = executed[o] + Share(n, o)
  BY <1>1, <1>10 DEF Share
<1> QED
  BY <1>3, <1>4, <1>5, <1>6, <1>7, <1>8, <1>9, <1>10, StepEffects

-----------------------------------------------------------------------------
\* What has failed stays failed.
LEMMA QuietBefore ==
    ASSUME Base, [Next]_vars, Quiet'
    PROVE  Quiet
<1>1. failures \in Nat /\ place_failures \in Nat /\ arbiter \in {"Running", "Stopping"}
  BY DEF Base, TypeOK
<1>2. /\ failures' \in {failures, failures + 1}
      /\ place_failures' \in {place_failures, place_failures + 1}
      /\ arbiter' = arbiter \/ arbiter' = "Stopping"
  <2>1. CASE NewOrderBatch \/ Send
    BY <2>1 DEF NewOrderBatch, Send, NewOrder, sessionVars, boundVars
  <2>2. CASE HandleOrderNotification
    BY <2>2 DEF HandleOrderNotification, HandleLogon, HandleLogout, HandleNewOrder, HandleRejected,
       HandleFill, HandleCancel, Handle, sessionVars, boundVars
  <2>3. CASE CheckStopped \/ StopArbiter
    BY <2>3 DEF CheckStopped, StopArbiter, boundVars
  <2>4. ASSUME NEW s \in Sessions, AddSession(s) \/ SessionReady(s) \/ SetupFailed(s)
        PROVE  /\ failures' \in {failures, failures + 1}
               /\ place_failures' \in {place_failures, place_failures + 1}
               /\ arbiter' = arbiter \/ arbiter' = "Stopping"
    BY <2>4 DEF AddSession, SessionReady, SetupFailed, boundVars
  <2>5. ASSUME NEW s \in Sessions, SessionLost(s) \/ StopSession(s) \/ RefuseCommand(s)
        PROVE  /\ failures' \in {failures, failures + 1}
               /\ place_failures' \in {place_failures, place_failures + 1}
               /\ arbiter' = arbiter \/ arbiter' = "Stopping"
    BY <2>5 DEF SessionLost, StopSession, RefuseCommand, sessionVars, boundVars
  <2>6. ASSUME NEW s \in Sessions, ExecuteCommand(s) \/ RejectUntreated(s) \/ PlaceSucceeded(s)
        PROVE  /\ failures' \in {failures, failures + 1}
               /\ place_failures' \in {place_failures, place_failures + 1}
               /\ arbiter' = arbiter \/ arbiter' = "Stopping"
    BY <2>6 DEF ExecuteCommand, RejectUntreated, PlaceSucceeded, sessionVars, boundVars
  <2>7. ASSUME NEW s \in Sessions, PlaceFailed(s) \/ VenueAccept(s) \/ DeliverReport(s)
        PROVE  /\ failures' \in {failures, failures + 1}
               /\ place_failures' \in {place_failures, place_failures + 1}
               /\ arbiter' = arbiter \/ arbiter' = "Stopping"
    BY <2>7 DEF PlaceFailed, VenueAccept, DeliverReport, sessionVars, boundVars
  <2>8. ASSUME NEW o \in Orders, Exchange(o)
        PROVE  /\ failures' \in {failures, failures + 1}
               /\ place_failures' \in {place_failures, place_failures + 1}
               /\ arbiter' = arbiter \/ arbiter' = "Stopping"
    BY <2>8 DEF Exchange, VenueFill, VenueExpire, sessionVars, boundVars
  <2>9. CASE UNCHANGED vars
    BY <2>9 DEF vars, sessionVars, boundVars
  <2> QED
    BY <2>1, <2>2, <2>3, <2>4, <2>5, <2>6, <2>7, <2>8, <2>9 DEF Next, SessionStep
<1> QED
  BY <1>1, <1>2 DEF Quiet

\* While nothing fails, sessions stay, nothing is rejected and streams are only
\* read and written.
LEMMA QuietSteps ==
    ASSUME Base, [Next]_vars, Quiet', NoneLost
    PROVE  /\ Quiet
           /\ \A s \in Sessions : sess'[s] # "Stopped"
           /\ \A s \in Sessions : sess[s] = "Main" => sess'[s] = "Main"
           /\ \/ order_events' = order_events
              \/ order_events # <<>> /\ order_events' = Tail(order_events)
              \/ \E n \in Notification : n.kind # "Rejected" /\ order_events' = Append(order_events, n)
           /\ \/ stream' = stream
              \/ \E s \in Sessions : DeliverReport(s)
              \/ \E o \in Orders : VenueFill(o) \/ VenueExpire(o)
<1>0. /\ failures \in Nat /\ place_failures \in Nat /\ arbiter \in {"Running", "Stopping"}
      /\ sess \in [Sessions -> SessionStates]
  BY DEF Base, TypeOK
<1> DEFINE Calm == UNCHANGED <<failures, place_failures, arbiter>>
           Events == \/ order_events' = order_events
                     \/ order_events # <<>> /\ order_events' = Tail(order_events)
                     \/ \E n \in Notification :
                            n.kind # "Rejected" /\ order_events' = Append(order_events, n)
           Sess == /\ \A s \in Sessions : sess'[s] # "Stopped"
                   /\ \A s \in Sessions : sess[s] = "Main" => sess'[s] = "Main"
<1>1. sess' = sess => Sess
  BY DEF NoneLost
<1>2. CASE NewOrderBatch \/ Send
  <2>1. Calm /\ order_events' = order_events /\ sess' = sess /\ stream' = stream
    BY <1>2 DEF NewOrderBatch, Send, NewOrder, sessionVars, boundVars
  <2> QED
    BY <1>1, <2>1 DEF Quiet
<1>3. CASE HandleOrderNotification
  <2>1. Calm /\ order_events # <<>> /\ order_events' = Tail(order_events) /\ sess' = sess /\ stream' = stream
    BY <1>3 DEF HandleOrderNotification, HandleLogon, HandleLogout, HandleNewOrder, HandleRejected,
         HandleFill, HandleCancel, Handle, sessionVars, boundVars
  <2> QED
    BY <1>1, <2>1 DEF Quiet
<1>4. CASE CheckStopped \/ StopArbiter
  BY <1>4 DEF CheckStopped, StopArbiter, NoneLost, Quiet
<1>5. ASSUME NEW s \in Sessions, AddSession(s)
      PROVE  Calm /\ Events /\ Sess /\ stream' = stream
  <2>1. Calm /\ order_events' = order_events /\ stream' = stream
        /\ sess' = [sess EXCEPT ![s] = IF @ = "Absent" THEN "Setup" ELSE @]
    BY <1>5 DEF AddSession, boundVars
  <2> QED
    BY <1>0, <2>1 DEF NoneLost
<1>6. ASSUME NEW s \in Sessions, SessionReady(s)
      PROVE  Calm /\ Events /\ Sess /\ stream' = stream
  <2>1. /\ Calm /\ stream' = stream
        /\ sess' = [sess EXCEPT ![s] = "Main"]
        /\ order_events' = Append(order_events, [kind |-> "Logon", id |-> s])
    BY <1>6 DEF SessionReady, Publish, boundVars
  <2>2. [kind |-> "Logon", id |-> s] \in Notification /\ [kind |-> "Logon", id |-> s].kind # "Rejected"
    BY Notifications
  <2> QED
    BY <1>0, <2>1, <2>2 DEF NoneLost
<1>7. ASSUME NEW s \in Sessions, SetupFailed(s) \/ SessionLost(s) \/ StopSession(s)
                                 \/ RejectUntreated(s) \/ PlaceFailed(s)
      PROVE  FALSE
  <2>1. SetupFailed(s) \/ SessionLost(s) => failures' = failures + 1
    BY DEF SetupFailed, SessionLost
  <2>2. RejectUntreated(s) \/ PlaceFailed(s) => place_failures' = place_failures + 1
    BY DEF RejectUntreated, PlaceFailed
  <2>3. StopSession(s) => arbiter' = arbiter /\ arbiter = "Stopping"
    BY DEF StopSession
  <2> QED
    BY <1>0, <1>7, <2>1, <2>2, <2>3 DEF Quiet
<1>8. ASSUME NEW s \in Sessions, RefuseCommand(s) \/ PlaceSucceeded(s) \/ VenueAccept(s)
      PROVE  Calm /\ Events /\ sess' = sess /\ stream' = stream
  BY <1>8 DEF RefuseCommand, PlaceSucceeded, VenueAccept, sessionVars, boundVars
<1>9. ASSUME NEW s \in Sessions, ExecuteCommand(s)
      PROVE  Calm /\ Events /\ sess' = sess /\ stream' = stream
  <2>1. PICK x \in Orders, q \in Nat : Announces(s, x, q)
    BY <1>9, CommandAnnounces DEF Base
  <2>2. Events
    BY <2>1 DEF Announces
  <2> QED
    BY <1>9, <2>2 DEF ExecuteCommand, sessionVars, boundVars
<1>10. ASSUME NEW s \in Sessions, DeliverReport(s)
       PROVE  Calm /\ Events /\ sess' = sess
  <2>1. PICK n \in Notification : Delivers(s, n)
    BY <1>10, DeliverDelivers DEF Base
  <2>2. n.kind # "Rejected"
    BY <2>1 DEF Delivers, Base, StreamsSound
  <2> QED
    BY <2>1, <2>2 DEF Delivers, sessionVars, boundVars
<1>11. ASSUME NEW o \in Orders, VenueFill(o) \/ VenueExpire(o)
       PROVE  Calm /\ Events /\ sess' = sess
  BY <1>11 DEF VenueFill, VenueExpire, sessionVars, boundVars
<1>12. CASE UNCHANGED vars
  <2>1. Calm /\ order_events' = order_events /\ sess' = sess /\ stream' = stream
    BY <1>12 DEF vars, sessionVars, boundVars
  <2> QED
    BY <1>1, <2>1 DEF Quiet
<1>13. Calm => Quiet
  BY DEF Quiet
<1> HIDE DEF Calm, Sess
<1>14. ASSUME NEW s \in Sessions,
              \/ AddSession(s) \/ SetupFailed(s) \/ SessionLost(s) \/ StopSession(s)
              \/ SessionStep(s) \/ VenueAccept(s) \/ DeliverReport(s)
       PROVE  Quiet /\ Sess /\ Events /\ (stream' = stream \/ DeliverReport(s))
  BY <1>1, <1>5, <1>6, <1>7, <1>8, <1>9, <1>10, <1>13, <1>14 DEF SessionStep
<1>15. ASSUME NEW o \in Orders, Exchange(o)
       PROVE  Quiet /\ Sess /\ Events /\ (VenueFill(o) \/ VenueExpire(o))
  BY <1>1, <1>11, <1>13, <1>15 DEF Exchange
<1> QED
  BY <1>2, <1>3, <1>4, <1>12, <1>14, <1>15 DEF Next, Sess

\* While nothing fails, nothing is lost.
LEMMA NoneLostStep ==
    ASSUME Base, [Next]_vars, Quiet', NoneLost
    PROVE  NoneLost'
<1>1. \A s \in Sessions : sess'[s] # "Stopped"
  BY QuietSteps
<1>2. CASE order_events' = order_events
  BY <1>1, <1>2 DEF NoneLost
<1>3. CASE order_events # <<>> /\ order_events' = Tail(order_events)
  BY <1>1, <1>3, HeadTyped DEF NoneLost, Base
<1>4. ASSUME NEW n \in Notification, n.kind # "Rejected", order_events' = Append(order_events, n)
      PROVE  NoneLost'
  <2>1. /\ DOMAIN order_events' = 1 .. Len(order_events) + 1 /\ Len(order_events) \in Nat
        /\ \A i \in 1 .. Len(order_events) : i \in DOMAIN order_events /\ order_events'[i] = order_events[i]
        /\ order_events'[Len(order_events) + 1] = n
    BY <1>4, EventFacts DEF Base
  <2>2. \A i \in DOMAIN order_events' : order_events'[i].kind # "Rejected"
    BY <1>4, <2>1 DEF NoneLost
  <2> QED
    BY <1>1, <2>2 DEF NoneLost
<1> QED
  BY <1>2, <1>3, <1>4, QuietSteps

\* A step that changes neither the order nor the sum of what is owed to it.
LEMMA QuietKept ==
    ASSUME Base, TypeOK', NEW o \in Orders, QuietOrder(o),
           venue'[o].at = venue[o].at, orders'[o] = orders[o],
           venue[o].at # Null => sess'[venue[o].at] = "Main",
           Owed(o)' = Owed(o),
           venue[o].st = "Done" =>
                venue'[o].st = "Done" /\ Waiting(o)' + Streamed(o)' = Waiting(o) + Streamed(o),
           booked'[o] + Waiting(o)' + Streamed(o)' - executed'[o]
                = booked[o] + Waiting(o) + Streamed(o) - executed[o],
           \A i \in DOMAIN order_events' :
                order_events'[i].kind = "NewOrder" /\ order_events'[i].id = o
                    => \E k \in DOMAIN order_events : order_events'[i] = order_events[k]
    PROVE  QuietOrder(o)'
<1>1. /\ Waiting(o) \in Nat /\ Streamed(o) \in Nat /\ booked[o] \in Nat /\ executed[o] \in Nat
      /\ Waiting(o)' \in Nat /\ Streamed(o)' \in Nat /\ booked'[o] \in Nat /\ executed'[o] \in Nat
      /\ Reported(o) = booked[o] + Waiting(o) + Streamed(o)
      /\ Reported(o)' = booked'[o] + Waiting(o)' + Streamed(o)'
  BY FlowTypes, FlowTypesNext DEF Base
<1>2. Reported(o)' = executed'[o]
  BY <1>1 DEF QuietOrder
<1>3. venue'[o].at = Null => orders'[o] = Null \/ orders'[o].st \in {"Sent", "SendFailed"}
  BY DEF QuietOrder
<1>4. venue'[o].at # Null => sess'[venue'[o].at] = "Main"
  OBVIOUS
<1>5. ASSUME venue'[o].at # Null, orders'[o].st = "Sent", NEW i \in DOMAIN order_events',
             order_events'[i].kind = "NewOrder", order_events'[i].id = o
      PROVE  order_events'[i].qty = Owed(o)'
  BY <1>5 DEF QuietOrder
<1>6. venue'[o].at # Null /\ orders'[o].st = "Live" => orders'[o].rem = Owed(o)'
  BY DEF QuietOrder
<1>7. venue'[o].at # Null /\ orders'[o].st = "Cancelled" =>
        venue'[o].st = "Done" /\ Waiting(o)' = 0 /\ Streamed(o)' = 0
  BY <1>1 DEF QuietOrder
<1> QED
  BY <1>2, <1>3, <1>4, <1>5, <1>6, <1>7 DEF QuietOrder

\* Where the notifications of the next state come from.
LEMMA NewOrdersKept ==
    ASSUME Base
    PROVE  /\ order_events # <<>> /\ order_events' = Tail(order_events) =>
                \A i \in DOMAIN order_events' :
                    \E k \in DOMAIN order_events : order_events'[i] = order_events[k]
           /\ \A n \in Notification : order_events' = Append(order_events, n) =>
                \A i \in DOMAIN order_events' :
                    \/ order_events'[i] = n
                    \/ \E k \in DOMAIN order_events : order_events'[i] = order_events[k]
           /\ Grows =>
                \A i \in DOMAIN order_events' :
                    \/ order_events'[i].kind # "NewOrder"
                    \/ \E k \in DOMAIN order_events : order_events'[i] = order_events[k]
<1>1. ASSUME order_events # <<>>, order_events' = Tail(order_events)
      PROVE  \A i \in DOMAIN order_events' :
                    \E k \in DOMAIN order_events : order_events'[i] = order_events[k]
  BY <1>1, HeadTyped DEF Base
<1>2. ASSUME NEW n \in Notification, order_events' = Append(order_events, n),
             NEW i \in DOMAIN order_events'
      PROVE  \/ order_events'[i] = n
             \/ \E k \in DOMAIN order_events : order_events'[i] = order_events[k]
  <2>1. i \in 1 .. Len(order_events) + 1 /\ Len(order_events) \in Nat
    BY <1>2, EventFacts DEF Base
  <2>2. CASE i = Len(order_events) + 1
    BY <1>2, <2>2, EventFacts DEF Base
  <2>3. CASE i \in 1 .. Len(order_events)
    BY <1>2, <2>3, EventFacts DEF Base
  <2> QED
    BY <2>1, <2>2, <2>3
<1>3. ASSUME Grows, NEW i \in DOMAIN order_events'
      PROVE  \/ order_events'[i].kind # "NewOrder"
             \/ \E k \in DOMAIN order_events : order_events'[i] = order_events[k]
  <2>1. i \in 1 .. Len(order_events') /\ Len(order_events') \in Nat /\ Len(order_events) \in Nat
    BY <1>3, EventFacts, LenProperties DEF Base, Grows, Queues
  <2>2. CASE i \in 1 .. Len(order_events)
    BY <1>3, <2>2, EventFacts DEF Base, Grows
  <2>3. CASE i \in Len(order_events) + 1 .. Len(order_events')
    BY <1>3, <2>3 DEF Grows
  <2> QED
    BY <2>1, <2>2, <2>3
<1> QED
  BY <1>1, <1>2, <1>3

\* The backend thread handles a notification of order o.
LEMMA QuietHandled ==
    ASSUME Tolerance = 1, Base, TypeOK', NEW o \in Orders, QuietOrder(o), NoneLost,
           NEW n \in Notification, HandleOrderNotification, Handles(n), n.id = o,
           n.kind \in {"NewOrder", "Fill", "Cancel"}
    PROVE  QuietOrder(o)'
<1>1. /\ Waiting(o) \in Nat /\ Streamed(o) \in Nat /\ booked[o] \in Nat /\ executed[o] \in Nat
      /\ Waiting(o)' \in Nat /\ Streamed(o)' \in Nat /\ booked'[o] \in Nat /\ executed'[o] \in Nat
      /\ Reported(o) = booked[o] + Waiting(o) + Streamed(o)
      /\ Reported(o)' = booked'[o] + Waiting(o)' + Streamed(o)'
      /\ venue[o].left \in Nat
  BY FlowTypes, FlowTypesNext DEF Base, TypeOK
<1>2. /\ venue' = venue /\ sess' = sess /\ executed' = executed /\ order_events # <<>>
      /\ order_events' = Tail(order_events) /\ n = Head(order_events)
      /\ n = order_events[1] /\ 1 \in DOMAIN order_events
  BY HeadTyped DEF Handles, Base
<1>3. venue[o].at # Null /\ orders[o] # Null /\ orders[o].st # "SendFailed"
  BY <1>2 DEF Base, EventsSound, VenueSound, Announced
<1>4. Waiting(o) = Waiting(o)' + Share(n, o) /\ Streamed(o)' = Streamed(o)
  BY FlowHandles
<1>5. \A i \in DOMAIN order_events' :
            order_events'[i].kind = "NewOrder" /\ order_events'[i].id = o
                => \E k \in DOMAIN order_events : order_events'[i] = order_events[k]
  BY <1>2, NewOrdersKept
<1>6. /\ Reported(o) = executed[o] /\ sess[venue[o].at] = "Main"
      /\ orders[o].st = "Live" => orders[o].rem = venue[o].left + Waiting(o) + Streamed(o)
      /\ orders[o].st = "Cancelled" => venue[o].st = "Done" /\ Waiting(o) = 0 /\ Streamed(o) = 0
  BY <1>3 DEF QuietOrder, Owed
<1>7. Ended.st = "Cancelled"
  BY DEF Ended
<1>8. CASE n.kind \in {"NewOrder", "Cancel"} /\ orders'[o] = orders[o]
  <2>1. Share(n, o) = 0 /\ booked'[o] = booked[o]
    <3>1. Share(n, o) = 0
      BY <1>8 DEF Share
    <3>2. booked'[o] \in {booked[o], booked[o] + Share(n, o)}
      BY HandleBooks
    <3> QED
      BY <1>1, <3>1, <3>2
  <2>2. Owed(o)' = Owed(o)
    BY <1>1, <1>2, <1>4, <2>1 DEF Owed
  <2>3. /\ Waiting(o)' + Streamed(o)' = Waiting(o) + Streamed(o)
        /\ booked'[o] + Waiting(o)' + Streamed(o)' - executed'[o]
                = booked[o] + Waiting(o) + Streamed(o) - executed[o]
    BY <1>1, <1>2, <1>4, <2>1
  <2> QED
    BY <1>2, <1>5, <1>6, <1>8, <2>2, <2>3, QuietKept
<1>9. CASE n.kind = "NewOrder" /\ orders'[o] # orders[o]
  <2>1. orders[o].st = "Sent" /\ orders'[o] = [st |-> "Live", rem |-> n.qty]
    BY <1>9, HandleBooks
  <2>2. Share(n, o) = 0 /\ booked'[o] = booked[o]
    <3>1. Share(n, o) = 0
      BY <1>9 DEF Share
    <3>2. booked'[o] \in {booked[o], booked[o] + Share(n, o)}
      BY HandleBooks
    <3> QED
      BY <1>1, <3>1, <3>2
  <2>3. n.qty = Owed(o)
    BY <1>2, <1>3, <1>9, <2>1 DEF QuietOrder
  <2>4. Owed(o)' = Owed(o)
    BY <1>1, <1>2, <1>4, <2>2 DEF Owed
  <2>5. Reported(o)' = executed'[o]
    BY <1>1, <1>2, <1>4, <1>6, <2>2
  <2> QED
    BY <1>2, <1>3, <1>6, <2>1, <2>3, <2>4, <2>5 DEF QuietOrder
<1>10. CASE n.kind = "Cancel" /\ orders'[o] # orders[o]
  <2>1. orders'[o].st = "Cancelled"
    <3>1. orders[o].st \in {"Sent", "Live"}
      BY <1>10 DEF Handles
    <3> QED
      BY <1>10, <3>1, HandleBooks
  <2>2. Share(n, o) = 0 /\ booked'[o] = booked[o]
    <3>1. Share(n, o) = 0
      BY <1>10 DEF Share
    <3>2. booked'[o] \in {booked[o], booked[o] + Share(n, o)}
      BY HandleBooks
    <3> QED
      BY <1>1, <3>1, <3>2
  <2>3. venue[o].st = "Done" /\ Waiting(o) = 0 /\ Streamed(o) = 0
    <3>1. /\ venue[o].st = "Done"
          /\ NoFillAfter(order_events, 1, o)
          /\ NoFill(stream[venue[o].at], o)
      <4>1. EventSound(1)
        BY <1>2 DEF Base, EventsSound, EventSound, NoFill, NoFillAfter
      <4> QED
        BY <1>2, <1>10, <4>1 DEF EventSound
    <3>2. Waiting(o) = 0
      <4>1. \A i \in DOMAIN order_events : ~(order_events[i].kind = "Fill" /\ order_events[i].id = o)
        <5>1. \A i \in DOMAIN order_events : i = 1 \/ i \in 1 + 1 .. Len(order_events)
          BY EventFacts DEF Base
        <5> QED
          BY <1>2, <1>10, <3>1, <5>1 DEF NoFillAfter
      <4> QED
        BY <4>1, EventFacts, FillsInNone DEF Waiting, Base
    <3>3. Streamed(o) = 0
      <4>1. venue[o].at \in Sessions
        BY <1>3 DEF Base, TypeOK
      <4>2. FillsIn(stream[venue[o].at], o) = 0
        BY <3>1, <4>1, StreamFacts, FillsInNone DEF Base, NoFill
      <4> QED
        BY <4>2 DEF Streamed
    <3> QED
      BY <3>1, <3>2, <3>3
  <2>4. Waiting(o)' = 0 /\ Streamed(o)' = 0 /\ Reported(o)' = executed'[o]
    BY <1>1, <1>2, <1>4, <1>6, <2>2, <2>3
  <2> QED
    BY <1>2, <1>3, <1>6, <2>1, <2>3, <2>4 DEF QuietOrder
<1>11. CASE n.kind = "Fill"
  <2>1. Share(n, o) = n.qty /\ n.qty \in Nat /\ n.qty >= 1
    BY <1>2, <1>11, Notifications DEF Base, EventsSound, Share
  <2>2. orders[o].st = "Live"
    <3>1. orders[o].st # "Sent"
      BY <1>2, <1>11 DEF Base, EventsSound
    <3>2. orders[o].st # "Cancelled"
      BY <1>1, <1>4, <1>6, <2>1
    <3>3. orders[o].st \in {"Sent", "Live", "Cancelled", "SendFailed"}
      BY <1>3 DEF Base, TypeOK, OrderStatus
    <3> QED
      BY <1>3, <3>1, <3>2, <3>3
  <2>3. /\ booked'[o] = booked[o] + n.qty
        /\ orders'[o] = IF orders[o].rem - n.qty < Tolerance THEN Ended
                        ELSE [st |-> "Live", rem |-> orders[o].rem - n.qty]
    BY <1>11, <2>2, HandleBooks
  <2>a. Waiting(o) = Waiting(o)' + n.qty /\ Streamed(o)' = Streamed(o)
    BY <1>4, <2>1
  <2>4. Reported(o)' = executed'[o]
    <3>1. Reported(o) = executed[o] /\ executed'[o] = executed[o]
      BY <1>2, <1>6
    <3> QED
      BY <1>1, <2>1, <2>3, <2>a, <3>1
  <2>5. /\ orders[o].rem = venue[o].left + Waiting(o) + Streamed(o)
        /\ orders[o].rem - n.qty = venue'[o].left + Waiting(o)' + Streamed(o)'
    <3>1. orders[o].rem = venue[o].left + Waiting(o) + Streamed(o) /\ venue'[o].left = venue[o].left
      BY <1>2, <1>6, <2>2
    <3> QED
      BY <1>1, <2>1, <2>a, <3>1
  <2>6. CASE orders[o].rem - n.qty < 1
    <3>1. venue[o].left = 0 /\ Waiting(o)' = 0 /\ Streamed(o)' = 0
      <4>1. venue[o].left \in Nat /\ Waiting(o)' \in Nat /\ Streamed(o)' \in Nat /\ venue'[o].left \in Nat
        BY <1>1, <1>2
      <4>2. venue'[o].left = venue[o].left
        BY <1>2
      <4>3. venue[o].left + Waiting(o)' + Streamed(o)' < 1
        BY <2>5, <2>6, <4>2
      <4> QED
        BY <4>1, <4>3
    <3>2. venue[o].st = "Done"
      BY <1>3, <3>1 DEF Base, VenueSound
    <3>3. orders'[o].st = "Cancelled"
      BY <1>7, <2>3, <2>6
    <3> QED
      BY <1>2, <1>3, <1>6, <2>4, <3>1, <3>2, <3>3 DEF QuietOrder
  <2>7. CASE ~(orders[o].rem - n.qty < 1)
    <3>1. orders'[o] = [st |-> "Live", rem |-> orders[o].rem - n.qty]
      BY <2>3, <2>7
    <3> QED
      BY <1>2, <1>3, <1>6, <2>4, <2>5, <3>1 DEF QuietOrder, Owed
  <2> QED
    BY <2>6, <2>7
<1> QED
  BY <1>8, <1>9, <1>10, <1>11

\* While nothing fails, every step keeps the books of an order in balance.
LEMMA QuietOrderStep ==
    ASSUME Tolerance = 1, Base, TypeOK', Quiet', NoneLost, [Next]_vars,
           NEW o \in Orders, QuietOrder(o)
    PROVE  QuietOrder(o)'
<1>1. /\ Waiting(o) \in Nat /\ Streamed(o) \in Nat /\ booked[o] \in Nat /\ executed[o] \in Nat
      /\ Waiting(o)' \in Nat /\ Streamed(o)' \in Nat /\ booked'[o] \in Nat /\ executed'[o] \in Nat
      /\ Reported(o) = booked[o] + Waiting(o) + Streamed(o)
      /\ Reported(o)' = booked'[o] + Waiting(o)' + Streamed(o)'
      /\ venue[o].left \in Nat /\ venue'[o].left \in Nat
      /\ venue[o].at \in Sessions \cup {Null}
  BY FlowTypes, FlowTypesNext DEF Base, TypeOK
<1>2. \A s \in Sessions : sess[s] = "Main" => sess'[s] = "Main"
  BY QuietSteps
<1>3. venue[o].at # Null => sess[venue[o].at] = "Main" /\ sess'[venue[o].at] = "Main"
  BY <1>1, <1>2 DEF QuietOrder
<1> DEFINE Old == \A i \in DOMAIN order_events' :
                      order_events'[i].kind = "NewOrder" /\ order_events'[i].id = o
                            => \E k \in DOMAIN order_events : order_events'[i] = order_events[k]
<1>4. order_events' = order_events => Old
  OBVIOUS
\* Nothing about order o changes but where its reports are.
<1>5. ASSUME venue'[o] = venue[o], orders'[o] = orders[o], booked'[o] = booked[o],
             executed'[o] = executed[o],
             Waiting(o)' + Streamed(o)' = Waiting(o) + Streamed(o), Old
      PROVE  QuietOrder(o)'
  <2>1. Owed(o)' = Owed(o)
    BY <1>1, <1>5 DEF Owed
  <2>2. booked'[o] + Waiting(o)' + Streamed(o)' - executed'[o]
                = booked[o] + Waiting(o) + Streamed(o) - executed[o]
    <3>1. /\ Waiting(o)' + Streamed(o)' = Waiting(o) + Streamed(o)
          /\ booked'[o] = booked[o] /\ executed'[o] = executed[o]
      BY <1>5
    <3> HIDE DEF Old
    <3> QED
      BY <1>1, <3>1
  <2> QED
    BY <1>3, <1>5, <2>1, <2>2, QuietKept
<1>6. CASE Quietens /\ stream' = stream
  <2>1. Waiting(o)' = Waiting(o) /\ Streamed(o)' = Streamed(o)
    BY <1>6, FlowQuietens
  <2>2. Old
    BY <1>6, NewOrdersKept DEF Quietens
  <2> HIDE DEF Old
  <2> QED
    BY <1>5, <1>6, <2>1, <2>2 DEF Quietens
<1>7. ASSUME NEW n \in Notification, HandleOrderNotification, Handles(n)
      PROVE  QuietOrder(o)'
  <2>1. /\ order_events # <<>> /\ n = order_events[1] /\ 1 \in DOMAIN order_events
        /\ order_events' = Tail(order_events)
        /\ venue' = venue /\ executed' = executed
    BY <1>7, HeadTyped DEF Handles, Base
  <2>2. n.kind # "Rejected"
    BY <2>1 DEF NoneLost
  <2>3. CASE n.id = o /\ n.kind \in {"NewOrder", "Fill", "Cancel"}
    BY <1>7, <2>3, QuietHandled
  <2>4. CASE ~(n.id = o /\ n.kind \in {"NewOrder", "Fill", "Cancel"})
    <3>1. Share(n, o) = 0
      BY <2>4 DEF Share
    <3>2. n.kind \in {"Logon", "Logout"} \/ n.id # o
      BY <2>2, <2>4, Notifications
    <3>3. orders'[o] = orders[o] /\ booked'[o] \in {booked[o], booked[o] + Share(n, o)}
      BY <1>7, <3>2, HandleBooks
    <3>4. Waiting(o) = Waiting(o)' + Share(n, o) /\ Streamed(o)' = Streamed(o)
      BY <1>7, FlowHandles
    <3>5. Old
      BY <2>1, NewOrdersKept
    <3> HIDE DEF Old
    <3>6. booked'[o] = booked[o] /\ Waiting(o)' + Streamed(o)' = Waiting(o) + Streamed(o)
      BY <1>1, <3>1, <3>3, <3>4
    <3> QED
      BY <1>5, <2>1, <3>3, <3>5, <3>6
  <2> QED
    BY <2>3, <2>4
<1>8. ASSUME NEW x \in Orders, Sends(x)
      PROVE  QuietOrder(o)'
  <2>1. /\ UNCHANGED <<booked, executed, venue, stream, order_events>>
        /\ Waiting(o)' = Waiting(o) /\ Streamed(o)' = Streamed(o)
    BY <1>8 DEF Sends, Waiting, Streamed
  <2>2. CASE o # x
    <3>1. orders'[o] = orders[o]
      BY <1>8, <2>2 DEF Sends, Base, TypeOK
    <3> HIDE DEF Old
    <3> QED
      BY <1>1, <1>4, <1>5, <2>1, <3>1
  <2>3. CASE o = x
    <3>1. venue'[o].at = Null
      BY <1>8, <2>1, <2>3 DEF Sends, Base, VenueSound, Announced
    <3>2. orders'[o].st \in {"Sent", "SendFailed"}
      BY <1>8, <2>3 DEF Sends, Base, TypeOK
    <3>3. Reported(o)' = executed'[o]
      BY <1>1, <2>1 DEF QuietOrder
    <3> QED
      BY <3>1, <3>2, <3>3 DEF QuietOrder
  <2> QED
    BY <2>2, <2>3
<1>9. ASSUME NEW s \in Sessions, NEW x \in Orders, NEW q \in Nat, Announces(s, x, q)
      PROVE  QuietOrder(o)'
  <2> DEFINE n == Order("NewOrder", x, q)
  <2>1. /\ sess[s] = "Main" /\ s # Null /\ orders[x] # Null /\ orders[x].st # "SendFailed"
        /\ venue[x].at = Null
        /\ n \in Notification /\ n.kind = "NewOrder" /\ n.id = x /\ n.qty = q
        /\ order_events' = Append(order_events, n)
        /\ venue'[x] = [st |-> "None", left |-> q, at |-> s]
        /\ \A y \in Orders \ {x} : venue'[y] = venue[y]
        /\ orders' = orders /\ booked' = booked /\ executed' = executed
    BY <1>9 DEF Announces, trackerVars
  <2> HIDE DEF n
  <2>2. Waiting(o)' = Waiting(o) /\ Streamed(o)' = Streamed(o)
    BY <1>9, FlowAnnounces
  <2>3. \A i \in DOMAIN order_events' :
            order_events'[i] = n \/ \E k \in DOMAIN order_events : order_events'[i] = order_events[k]
    BY <2>1, NewOrdersKept
  <2>4. CASE o # x
    <3>1. Old
      BY <2>1, <2>3, <2>4
    <3> HIDE DEF Old
    <3> QED
      BY <1>1, <1>5, <2>1, <2>2, <2>4, <3>1
  <2>5. CASE o = x
    <3>1. orders'[o].st = "Sent"
      BY <2>1, <2>5 DEF QuietOrder
    <3>2. Waiting(o) = 0 /\ Streamed(o) = 0
      <4>1. \A i \in DOMAIN order_events : ~(order_events[i].kind = "Fill" /\ order_events[i].id = o)
        BY <2>1, <2>5 DEF Base, EventsSound
      <4>2. Waiting(o) = 0
        BY <4>1, EventFacts, FillsInNone DEF Waiting, Base
      <4> QED
        BY <2>1, <2>5, <4>2 DEF Streamed
    <3>3. Owed(o)' = q
      BY <2>1, <2>2, <2>5, <3>2 DEF Owed
    <3>4. ASSUME NEW i \in DOMAIN order_events',
                 order_events'[i].kind = "NewOrder", order_events'[i].id = o
          PROVE  order_events'[i].qty = q
      <4>1. \A k \in DOMAIN order_events : ~(order_events[k].kind = "NewOrder" /\ order_events[k].id = o)
        BY <2>1, <2>5 DEF Base, EventsSound
      <4> QED
        BY <2>1, <2>3, <3>4, <4>1
    <3>5. Reported(o)' = executed'[o]
      BY <1>1, <2>1, <2>2 DEF QuietOrder
    <3>6. venue'[o].at = s /\ sess'[s] = "Main"
      BY <1>2, <2>1, <2>5
    <3> QED
      BY <2>1, <3>1, <3>3, <3>4, <3>5, <3>6 DEF QuietOrder
  <2> QED
    BY <2>4, <2>5
<1>10. ASSUME NEW x \in Orders, Accepts(x)
       PROVE  QuietOrder(o)'
  <2>1. /\ orders' = orders /\ booked' = booked /\ executed' = executed
        /\ order_events' = order_events /\ stream' = stream
        /\ venue'[o].at = venue[o].at /\ venue'[o].left = venue[o].left
        /\ venue[o].st = "Done" => venue'[o].st = "Done"
    BY <1>10 DEF Accepts, trackerVars
  <2>2. Waiting(o)' = Waiting(o) /\ Streamed(o)' = Streamed(o)
    BY <2>1 DEF Waiting, Streamed
  <2>3. Owed(o)' = Owed(o)
    BY <2>1, <2>2 DEF Owed
  <2> QED
    BY <1>3, <1>4, <2>1, <2>2, <2>3, QuietKept
<1>11. ASSUME NEW s \in Sessions, NEW n \in Notification, Delivers(s, n)
       PROVE  QuietOrder(o)'
  <2>1. /\ orders' = orders /\ booked' = booked /\ executed' = executed /\ venue' = venue
        /\ order_events' = Append(order_events, n)
        /\ n = stream[s][1] /\ 1 \in DOMAIN stream[s]
    BY <1>11 DEF Delivers, trackerVars, venueVars
  <2>2. Waiting(o)' = Waiting(o) + Share(n, o) /\ Streamed(o) = Streamed(o)' + Share(n, o)
    BY <1>11, FlowDelivers
  <2>3. n.kind # "NewOrder"
    BY <2>1 DEF Base, StreamsSound
  <2>4. Old
    BY <2>1, <2>3, NewOrdersKept
  <2>5. Share(n, o) \in Nat
    BY Notifications DEF Share
  <2> HIDE DEF Old
  <2>6. Waiting(o)' + Streamed(o)' = Waiting(o) + Streamed(o)
    BY <1>1, <2>2, <2>5
  <2> QED
    BY <1>5, <2>1, <2>4, <2>6
<1>12. ASSUME NEW x \in Orders, NEW n, Reports(x, n), n.kind \in {"Fill", "Cancel"},
              executed'[o] = executed[o] + Share(n, o),
              venue'[o].left = venue[o].left - Share(n, o)
       PROVE  QuietOrder(o)'
  <2>1. /\ orders' = orders /\ booked' = booked /\ order_events' = order_events
        /\ venue'[o].at = venue[o].at /\ n \in Notification /\ n.id = x
        /\ venue[x].at \in Sessions /\ venue[x].st = "Open"
        /\ o # x => venue'[o] = venue[o]
    BY <1>12 DEF Reports, trackerVars
  <2>2. Share(n, o) \in Nat /\ (o # x => Share(n, o) = 0)
    BY <2>1, Notifications DEF Share
  <2>3. Waiting(o)' = Waiting(o) /\ Streamed(o)' = Streamed(o) + Share(n, o)
    <3>1. CASE o = x
      <4>1. sess[venue[x].at] = "Main"
        BY <1>3, <2>1, <3>1, NullAssumption
      <4> QED
        BY <1>12, <4>1, FlowReports
    <3>2. CASE o # x
      BY <1>1, <1>12, <2>2, <3>2, FlowReports
    <3> QED
      BY <3>1, <3>2
  <2>4. Owed(o)' = Owed(o)
    BY <1>1, <1>12, <2>2, <2>3 DEF Owed
  <2>5. booked'[o] + Waiting(o)' + Streamed(o)' - executed'[o]
                = booked[o] + Waiting(o) + Streamed(o) - executed[o]
    <3>1. booked'[o] = booked[o]
      BY <2>1
    <3> QED
      BY <1>1, <1>12, <2>2, <2>3, <3>1
  <2>6. venue[o].st = "Done" =>
            venue'[o].st = "Done" /\ Waiting(o)' + Streamed(o)' = Waiting(o) + Streamed(o)
    BY <1>1, <2>1, <2>2, <2>3
  <2> QED
    BY <1>3, <1>4, <2>1, <2>4, <2>5, <2>6, QuietKept
<1>a. ASSUME NEW x \in Orders, NEW q \in Nat \ {0}, NEW n, Reports(x, n), n.kind = "Fill", n.qty = q,
             venue'[x].left = venue[x].left - q,
             executed' = [executed EXCEPT ![x] = @ + q]
      PROVE  QuietOrder(o)'
  <2>1. n.id = x /\ executed \in [Orders -> Nat] /\ (o # x => venue'[o].left = venue[o].left)
    BY <1>a DEF Reports, Base, TypeOK
  <2>2. executed'[o] = executed[o] + Share(n, o)
    BY <1>1, <1>a, <2>1 DEF Share
  <2>3. venue'[o].left = venue[o].left - Share(n, o)
    BY <1>1, <1>a, <2>1 DEF Share
  <2> QED
    BY <1>12, <1>a, <2>2, <2>3
<1>b. ASSUME NEW x \in Orders, NEW n, Reports(x, n), n.kind = "Cancel", executed' = executed,
             venue'[x].left = venue[x].left
      PROVE  QuietOrder(o)'
  <2>1. Share(n, o) = 0
    BY <1>b DEF Share
  <2>2. venue'[o].left = venue[o].left
    BY <1>b DEF Reports
  <2> QED
    BY <1>1, <1>12, <1>b, <2>1, <2>2
<1>13. ASSUME NEW x \in Orders, VenueFill(x) \/ VenueExpire(x)
       PROVE  QuietOrder(o)'
  BY <1>13, <1>a, <1>b, FillReports, ExpiryReports DEF Base
<1>14. CASE stream' = stream
  BY <1>6, <1>7, <1>8, <1>9, <1>10, <1>11, <1>14, <1>a, <1>b, StepEffects
<1> QED
  BY <1>11, <1>13, <1>14, QuietSteps, DeliverDelivers DEF Base

\* While nothing fails, the books of all orders stay in balance.
LEMMA QuietSoundStep ==
    ASSUME Tolerance = 1, Base, QuietSound, [Next]_vars
    PROVE  QuietSound'
<1> SUFFICES ASSUME Quiet' PROVE NoneLost' /\ \A o \in Orders : QuietOrder(o)'
  BY DEF QuietSound
<1>1. TypeOK'
  BY BaseStep DEF Base
<1>2. NoneLost /\ \A o \in Orders : QuietOrder(o)
  BY QuietBefore DEF QuietSound
<1> QED
  BY <1>1, <1>2, NoneLostStep, QuietOrderStep

\* The books are in balance at the start.
LEMMA QuietSoundInit == Init => QuietSound
<1> SUFFICES ASSUME Init PROVE QuietSound
  OBVIOUS
<1>1. NoneLost
  BY DEF Init, NoneLost
<1>2. ASSUME NEW o \in Orders PROVE QuietOrder(o)
  <2>1. venue[o].at = Null /\ orders[o] = Null /\ booked[o] = 0 /\ executed[o] = 0
        /\ order_events = <<>>
    BY DEF Init
  <2>2. Reported(o) = 0
    BY <2>1, FillsInEmpty DEF Reported
  <2> QED
    BY <2>1, <2>2 DEF QuietOrder
<1> QED
  BY <1>1, <1>2 DEF QuietSound

\* What the tracker published and what is on its way to it never exceeds what
\* the exchange executed, whatever fails and for every tolerance: apply_fill is
\* fed each execution at most once.
THEOREM Overbooking == Spec => []NeverOverbooked
<1>1. Init => NeverOverbooked
  <2> SUFFICES ASSUME Init, NEW o \in Orders PROVE Reported(o) =< executed[o]
    BY DEF NeverOverbooked
  <2>1. venue[o].at = Null /\ booked[o] = 0 /\ executed[o] = 0 /\ order_events = <<>>
    BY DEF Init
  <2> QED
    BY <2>1, FillsInEmpty DEF Reported
<1>2. Base /\ NeverOverbooked /\ [Next]_vars => NeverOverbooked'
  BY NeverOverbookedStep
<1> QED
  BY <1>1, <1>2, BaseInvariant, PTL DEF Spec

\* What the exchange executed is booked exactly once while nothing fails.  With
\* quantities in steps of the tolerance: a larger tolerance than the exchange's
\* step would end an order on a fill that leaves less than it.
THEOREM BookedOnce ==
    ASSUME Tolerance = 1
    PROVE  Spec => []ExecutionsBooked
<1>1. Base /\ QuietSound /\ [Next]_vars => QuietSound'
  BY QuietSoundStep
<1>2. NeverOverbooked /\ QuietSound => ExecutionsBooked
  BY DEF NeverOverbooked, QuietSound, Quiet, QuietOrder, ExecutionsBooked
<1> QED
  BY <1>1, <1>2, QuietSoundInit, Overbooking, BaseInvariant, PTL DEF Spec

================================================================================
