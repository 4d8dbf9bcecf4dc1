------------------------- MODULE SolverClientOrders -------------------------
(***************************************************************************)
(* The solver's order intake: SolverClientOrders (solver_order.rs), the    *)
(* per-client FIFO queues with their notification queue, together with the *)
(* solver code that drives it on the solver thread (solver.rs):            *)
(* serve_more_clients and engage_more_orders in a solve() tick, and the    *)
(* event handlers that add, cancel, update, put back or ready an order.    *)
(*                                                                         *)
(* Arc<RwLock<SolverOrder>> is modelled as a reference into a heap         *)
(* `order', because queues of the solver keep an order alive after the     *)
(* order map has forgotten it, and a client may reuse its order id.        *)
(*                                                                         *)
(* A timestamp is kept as the order's age since it, saturated at           *)
(* WaitPeriod: the code only ever asks whether timestamp <= now - wait.    *)
(***************************************************************************)
EXTENDS Naturals, Sequences, FiniteSets, SequencesExt

CONSTANTS
    Clients,        \* users, a pair (chain_id, address)
    OrderIds,       \* client order ids, per user
    Arcs,           \* heap cells for SolverOrder objects
    Null,           \* "no entry" in the order map, an unused heap cell
    WaitPeriod,     \* client_wait_period, in clock steps
    MaxBatchSize,   \* max_batch_size of the solver
    ReuseIds,       \* may a client reuse the id of a finished order?
    AllowUpdates,   \* does the index order manager emit UpdateIndexOrder?
    MaxNotify,      \* bound: length of client_notify_queue
    MaxInflight     \* bound: messages in flight of one kind for one order id

ASSUME WaitAssumption == WaitPeriod \in Nat
ASSUME BatchAssumption == MaxBatchSize \in Nat \ {0}
ASSUME SwitchAssumption == ReuseIds \in BOOLEAN /\ AllowUpdates \in BOOLEAN
ASSUME BoundsAssumption == MaxNotify \in Nat /\ MaxInflight \in Nat

VARIABLES
    order,               \* the heap: arc -> SolverOrder
    client_orders,       \* client -> id -> arc
    client_order_queues, \* client -> queue of ids; <<>> is "no entry"
    client_notify_queue, \* queue of clients
    ready_orders,        \* Solver.ready_orders: queue of arcs
    engaged,             \* arcs held by the batch manager
    inflight,            \* client -> id -> messages on their way, by kind
    used,                \* client -> ids it has ever sent
    phase                \* "idle", or the part of solve() being executed

queueVars == <<client_order_queues, client_notify_queue>>
pipeVars == <<ready_orders, engaged>>
vars == <<order, client_orders, client_order_queues, client_notify_queue,
          ready_orders, engaged, inflight, used, phase>>

Statuses == {"Open", "ManageCollateral", "Ready", "Engaged", "PartlyMintable",
             "InvalidCollateral", "InternalError"}

Ages == 0 .. WaitPeriod

SolverOrder == [client : Clients, id : OrderIds, status : Statuses,
                age : Ages, paid : BOOLEAN]

ASSUME NullAssumption == Null \notin Arcs /\ Null \notin SolverOrder

(***************************************************************************)
(* Messages keyed by order id: "manage" is a request at the collateral     *)
(* manager, or its CollateralReady event; "preauth" an approved            *)
(* PreAuthResponse; "ready" the index order manager's CollateralReady.     *)
(***************************************************************************)
Messages == {"manage", "preauth", "ready"}

TypeOK ==
    /\ order \in [Arcs -> SolverOrder \cup {Null}]
    /\ client_orders \in [Clients -> [OrderIds -> Arcs \cup {Null}]]
    /\ client_order_queues \in [Clients -> Seq(OrderIds)]
    /\ client_notify_queue \in Seq(Clients)
    /\ ready_orders \in Seq(Arcs)
    /\ engaged \in SUBSET Arcs
    /\ inflight \in [Clients -> [OrderIds -> [Messages -> Nat]]]
    /\ used \in [Clients -> SUBSET OrderIds]
    /\ phase \in {"idle", "serve", "engage"}

Init ==
    /\ order = [a \in Arcs |-> Null]
    /\ client_orders = [c \in Clients |-> [o \in OrderIds |-> Null]]
    /\ client_order_queues = [c \in Clients |-> <<>>]
    /\ client_notify_queue = <<>>
    /\ ready_orders = <<>>
    /\ engaged = {}
    /\ inflight = [c \in Clients |-> [o \in OrderIds |-> [m \in Messages |-> 0]]]
    /\ used = [c \in Clients |-> {}]
    /\ phase = "idle"

-----------------------------------------------------------------------------
(***************************************************************************)
(* The data structure.                                                     *)
(***************************************************************************)
GetClientOrder(c, o) == client_orders[c][o]

Exists(c, o) == GetClientOrder(c, o) # Null

\* check_ready: the order's timestamp is at least client_wait_period ago.
CheckReady(a) == order[a].age = WaitPeriod

\* The order behind the one being processed, if it has waited long enough.
PeekNextClientOrder(c) ==
    /\ Len(client_order_queues[c]) >= 2
    /\ Exists(c, client_order_queues[c][2])
    /\ CheckReady(GetClientOrder(c, client_order_queues[c][2]))

\* The order get_next_client_order would hand out: only the client in front
\* of the notification queue is looked at, and only its oldest order.
HasNextClientOrder ==
    /\ client_notify_queue # <<>>
    /\ LET c == Head(client_notify_queue) IN
        /\ client_order_queues[c] # <<>>
        /\ Exists(c, Head(client_order_queues[c]))
        /\ CheckReady(GetClientOrder(c, Head(client_order_queues[c])))

NextClientOrder ==
    LET c == Head(client_notify_queue)
    IN  GetClientOrder(c, Head(client_order_queues[c]))

Notify(c) ==
    /\ Len(client_notify_queue) < MaxNotify
    /\ client_notify_queue' = Append(client_notify_queue, c)

\* Mutant of PutBack: the client is not notified again.
PutBack_NoNotify(a, status) ==
    /\ order' = [order EXCEPT ![a].status = status, ![a].age = 0]
    /\ UNCHANGED client_notify_queue

\* put_back of one order; the callers pass Open or Ready.
PutBack(a, status) ==
    /\ order' = [order EXCEPT ![a].status = status, ![a].age = 0]
    /\ Notify(order[a].client)

\* Is the order still in the map? Its cell lives on while it is, and while a
\* queue of the solver or the batch manager refers to it.
InMap(a) == client_orders[order[a].client][order[a].id] = a

SetStatus(a, status) == order' = [order EXCEPT ![a].status = status]

Send(c, o, m) ==
    /\ inflight[c][o][m] < MaxInflight
    /\ inflight' = [inflight EXCEPT ![c][o][m] = @ + 1]

\* Mutant of Consume: an answer nobody asked for.
Consume_Unasked(c, o, m) ==
    /\ phase = "idle"
    /\ inflight' = [inflight EXCEPT ![c][o][m] = @ - 1]

Consume(c, o, m) ==
    /\ phase = "idle"
    /\ inflight[c][o][m] > 0
    /\ inflight' = [inflight EXCEPT ![c][o][m] = @ - 1]

-----------------------------------------------------------------------------
(***************************************************************************)
(* handle_index_order: events from the index order manager.                *)
(***************************************************************************)
\* Mutant of AddClientOrder: the new order goes to the front of its queue.
AddClientOrder_PushFront(c, o, a, age) ==
    /\ phase = "idle"
    /\ ~Exists(c, o)
    /\ order[a] = Null
    /\ ReuseIds \/ o \notin used[c]
    /\ order' = [order EXCEPT ![a] = [client |-> c, id |-> o, status |-> "Open",
                                      age |-> age, paid |-> FALSE]]
    /\ client_orders' = [client_orders EXCEPT ![c][o] = a]
    /\ client_order_queues' = [client_order_queues EXCEPT ![c] = <<o>> \o @]
    /\ Notify(c)
    /\ used' = [used EXCEPT ![c] = @ \cup {o}]
    /\ UNCHANGED <<pipeVars, inflight, phase>>

\* NewIndexOrder. The event's timestamp may lie in the past when handled.
AddClientOrder(c, o, a, age) ==
    /\ phase = "idle"
    /\ ~Exists(c, o)
    /\ order[a] = Null
    /\ ReuseIds \/ o \notin used[c]
    /\ order' = [order EXCEPT ![a] = [client |-> c, id |-> o, status |-> "Open",
                                      age |-> age, paid |-> FALSE]]
    /\ client_orders' = [client_orders EXCEPT ![c][o] = a]
    /\ client_order_queues' = [client_order_queues EXCEPT ![c] = Append(@, o)]
    /\ IF client_order_queues[c] = <<>>
         THEN Notify(c)
         ELSE UNCHANGED client_notify_queue
    /\ used' = [used EXCEPT ![c] = @ \cup {o}]
    /\ UNCHANGED <<pipeVars, inflight, phase>>

\* Mutant of CancelClientOrder: the next order of the client is not announced.
CancelClientOrder_NoNotify(c, o) ==
    /\ phase = "idle"
    /\ Exists(c, o)
    /\ client_orders' = [client_orders EXCEPT ![c][o] = Null]
    /\ \E i \in DOMAIN client_order_queues[c] :
        /\ client_order_queues[c][i] = o
        /\ client_order_queues' = [client_order_queues EXCEPT ![c] = RemoveAt(@, i)]
    /\ LET a == GetClientOrder(c, o)
       IN  order' = IF a \in engaged \cup Range(ready_orders)
                      THEN order
                      ELSE [order EXCEPT ![a] = Null]
    /\ UNCHANGED <<client_notify_queue, pipeVars, inflight, used, phase>>

\* Mutant of CancelClientOrder: an order behind the first stays queued.
CancelClientOrder_KeepQueued(c, o) ==
    /\ phase = "idle"
    /\ Exists(c, o)
    /\ client_orders' = [client_orders EXCEPT ![c][o] = Null]
    /\ IF Head(client_order_queues[c]) = o
         THEN client_order_queues' = [client_order_queues EXCEPT ![c] = Tail(@)]
         ELSE UNCHANGED client_order_queues
    /\ IF Head(client_order_queues[c]) = o /\ Len(client_order_queues[c]) > 1
         THEN Notify(c)
         ELSE UNCHANGED client_notify_queue
    /\ LET a == GetClientOrder(c, o)
       IN  order' = IF a \in engaged \cup Range(ready_orders)
                      THEN order
                      ELSE [order EXCEPT ![a] = Null]
    /\ UNCHANGED <<pipeVars, inflight, used, phase>>

\* CancelIndexOrder: the user cancelled, or the order failed or was minted.
CancelClientOrder(c, o) ==
    /\ phase = "idle"
    /\ Exists(c, o)
    /\ client_orders' = [client_orders EXCEPT ![c][o] = Null]
    /\ \E i \in DOMAIN client_order_queues[c] :
        /\ client_order_queues[c][i] = o
        /\ client_order_queues' = [client_order_queues EXCEPT ![c] = RemoveAt(@, i)]
        /\ IF i = 1 /\ Len(client_order_queues[c]) > 1
             THEN Notify(c)
             ELSE UNCHANGED client_notify_queue
    /\ LET a == GetClientOrder(c, o)
       IN  order' = IF a \in engaged \cup Range(ready_orders)
                      THEN order
                      ELSE [order EXCEPT ![a] = Null]
    /\ UNCHANGED <<pipeVars, inflight, used, phase>>

\* The first entry of c, if there is one, moves to the back of the
\* notification queue.
MoveToBack(c) ==
    \/ /\ \A i \in DOMAIN client_notify_queue : client_notify_queue[i] # c
       /\ UNCHANGED client_notify_queue
    \/ \E i \in DOMAIN client_notify_queue :
        /\ client_notify_queue[i] = c
        /\ \A j \in 1 .. i - 1 : client_notify_queue[j] # c
        /\ client_notify_queue' = Append(RemoveAt(client_notify_queue, i), c)

\* UpdateIndexOrder: the user reduced the collateral of the order.
UpdateClientOrder(c, o) ==
    /\ AllowUpdates
    /\ phase = "idle"
    /\ Exists(c, o)
    /\ LET a == GetClientOrder(c, o) IN
        /\ order' = [order EXCEPT ![a].age = 0]
        /\ IF order[a].status = "Open"
             THEN MoveToBack(c)
             ELSE UNCHANGED client_notify_queue
    /\ UNCHANGED <<client_orders, client_order_queues, pipeVars, inflight, used, phase>>

\* CollateralReady from the index order manager: one half of the handshake
\* that readies an order, the approved pre-authorisation is the other.
HandleReadyAck(c, o) ==
    /\ Consume(c, o, "ready")
    /\ LET a == GetClientOrder(c, o) IN
        IF ~Exists(c, o)
          THEN UNCHANGED <<order, ready_orders>>
          ELSE /\ order' = [order EXCEPT ![a].status = "Ready", ![a].age = 0]
               /\ ready_orders' = IF order[a].status = "Ready"
                                    THEN Append(ready_orders, a)
                                    ELSE ready_orders
    /\ UNCHANGED <<client_orders, queueVars, engaged, used, phase>>

-----------------------------------------------------------------------------
(***************************************************************************)
(* handle_collateral_event: answers of the collateral manager. They name   *)
(* the order by id and find whatever order has that id by then.            *)
(***************************************************************************)
\* CollateralReady, CheckLater: try again after the wait period, or give up
\* when another order of the client waits or the order is too old (expired).
CollateralCheckLater(c, o, expired) ==
    /\ Consume(c, o, "manage")
    /\ LET a == GetClientOrder(c, o) IN
        IF ~Exists(c, o)
          THEN UNCHANGED <<order, client_notify_queue>>
          ELSE IF PeekNextClientOrder(c) \/ expired
            THEN SetStatus(a, "InvalidCollateral") /\ UNCHANGED client_notify_queue
            ELSE PutBack(a, "Open")
    /\ UNCHANGED <<client_orders, client_order_queues, pipeVars, used, phase>>

\* CollateralReady, NotReady: the order fails.
CollateralNotReady(c, o) ==
    /\ Consume(c, o, "manage")
    /\ IF Exists(c, o)
         THEN SetStatus(GetClientOrder(c, o), "InvalidCollateral")
         ELSE UNCHANGED order
    /\ UNCHANGED <<client_orders, queueVars, pipeVars, used, phase>>

\* CollateralReady, Ready: pre-authorise the payment and tell the index order
\* manager. Either may decline, then its half of the handshake never comes.
CollateralRouted(c, o, preauth, ready) ==
    /\ phase = "idle"
    /\ inflight[c][o]["manage"] > 0
    /\ LET acks == (IF preauth THEN {"preauth"} ELSE {})
                    \cup (IF ready THEN {"ready"} ELSE {})
       IN  /\ \A m \in acks : Exists(c, o) /\ inflight[c][o][m] < MaxInflight
           /\ inflight' = [inflight EXCEPT ![c][o] =
                [m \in Messages |-> IF m = "manage" THEN @[m] - 1
                                    ELSE IF m \in acks THEN @[m] + 1 ELSE @[m]]]
    /\ UNCHANGED <<order, client_orders, queueVars, pipeVars, used, phase>>

\* PreAuthResponse, Approved. A second payment id for the same order is an
\* error and leaves the status alone.
PreAuthApproved(c, o) ==
    /\ Consume(c, o, "preauth")
    /\ LET a == GetClientOrder(c, o) IN
        IF ~Exists(c, o)
          THEN UNCHANGED <<order, ready_orders>>
          ELSE /\ order' = [order EXCEPT
                    ![a].paid = TRUE,
                    ![a].status = IF order[a].paid THEN @ ELSE "Ready"]
               /\ ready_orders' =
                    IF ~order[a].paid /\ order[a].status = "Ready"
                      THEN Append(ready_orders, a)
                      ELSE ready_orders
    /\ UNCHANGED <<client_orders, queueVars, engaged, used, phase>>

-----------------------------------------------------------------------------
(***************************************************************************)
(* solve(): one tick of the solver thread. Events are handled between      *)
(* ticks only.                                                             *)
(***************************************************************************)
BeginSolve ==
    /\ phase = "idle"
    /\ phase' = "serve"
    /\ UNCHANGED <<order, client_orders, queueVars, pipeVars, inflight, used>>

\* One round of the loop in serve_more_clients.
\*  Open: ask the collateral manager to route the client's deposit.
ServeOpen ==
    /\ order[NextClientOrder].status = "Open"
    /\ LET c == order[NextClientOrder].client
           o == order[NextClientOrder].id
       IN  \/ /\ SetStatus(NextClientOrder, "ManageCollateral")
              /\ Send(c, o, "manage")
           \/ \* query_collateral_management failed
              /\ SetStatus(NextClientOrder, "InternalError")
              /\ UNCHANGED inflight
    /\ UNCHANGED ready_orders

\*  Ready: the order was put back, and only needs to be engaged again.
ServeReady ==
    /\ order[NextClientOrder].status = "Ready"
    /\ ready_orders' = Append(ready_orders, NextClientOrder)
    /\ UNCHANGED <<order, inflight>>

\*  anything else is the "Programming error" branch: the order fails.
ServeUnexpected ==
    /\ order[NextClientOrder].status \notin {"Open", "Ready"}
    /\ SetStatus(NextClientOrder, "InternalError")
    /\ UNCHANGED <<ready_orders, inflight>>

ServeNextClient ==
    /\ phase = "serve"
    /\ HasNextClientOrder
    /\ client_notify_queue' = Tail(client_notify_queue)
    /\ ServeOpen \/ ServeReady \/ ServeUnexpected
    /\ UNCHANGED <<client_orders, client_order_queues, engaged, used, phase>>

EndServe ==
    /\ phase = "serve"
    /\ ~HasNextClientOrder
    /\ phase' = "engage"
    /\ UNCHANGED <<order, client_orders, queueVars, pipeVars, inflight, used>>

\* get_order_batch: the first MaxBatchSize ready orders.
BatchLen == IF Len(ready_orders) < MaxBatchSize THEN Len(ready_orders) ELSE MaxBatchSize

\* engage_more_orders. The strategy splits the batch: the positions listed by
\* `back' are put back as Ready, in that order (no prices, or the whole call
\* failed), `taken' go to the batch manager, the others are dropped (failed
\* or unusable).
EngageMoreOrders(back, taken) ==
    /\ phase = "engage"
    /\ IsInjective(back)
    /\ Len(client_notify_queue) + Len(back) <= MaxNotify
    /\ LET put == {ready_orders[i] : i \in Range(back)}
           batch == {ready_orders[i] : i \in 1 .. BatchLen}
           gone(a) == a \in batch /\ ~InMap(a)
                        /\ a \notin engaged' \cup Range(ready_orders')
       IN  /\ taken \subseteq batch \ put
           /\ engaged' = engaged \cup taken
           /\ ready_orders' = SubSeq(ready_orders, BatchLen + 1, Len(ready_orders))
           /\ client_notify_queue' = client_notify_queue \o
                    [i \in 1 .. Len(back) |-> order[ready_orders[back[i]]].client]
           /\ order' = [a \in Arcs |->
                    IF gone(a) THEN Null
                    ELSE IF a \in put
                      THEN [order[a] EXCEPT !.status = "Ready", !.age = 0]
                      ELSE order[a]]
    /\ phase' = "idle"
    /\ UNCHANGED <<client_orders, client_order_queues, inflight, used>>

EngageAny ==
    \E n \in 0 .. BatchLen : \E back \in [1 .. n -> 1 .. BatchLen], taken \in SUBSET Arcs :
        EngageMoreOrders(back, taken)

-----------------------------------------------------------------------------
(***************************************************************************)
(* The batch manager's effect on the orders it holds.                      *)
(***************************************************************************)
\* handle_engage_index_order
OrderEngaged(a) ==
    /\ phase = "idle"
    /\ a \in engaged
    /\ SetStatus(a, "Engaged")
    /\ UNCHANGED <<client_orders, queueVars, pipeVars, inflight, used, phase>>

\* BatchComplete with the order among the continued ones
OrderContinued(a) ==
    /\ phase = "idle"
    /\ a \in engaged
    /\ order[a].status = "Engaged"
    /\ SetStatus(a, "PartlyMintable")
    /\ engaged' = engaged \ {a}
    /\ ready_orders' = Append(ready_orders, a)
    /\ UNCHANGED <<client_orders, queueVars, inflight, used, phase>>

\* The order was minted or its batch is gone; CancelIndexOrder follows.
OrderReleased(a) ==
    /\ phase = "idle"
    /\ a \in engaged
    /\ engaged' = engaged \ {a}
    /\ order' = IF InMap(a) \/ a \in Range(ready_orders)
                  THEN order
                  ELSE [order EXCEPT ![a] = Null]
    /\ UNCHANGED <<client_orders, queueVars, ready_orders, inflight, used, phase>>

\* Time passes for the orders that still exist.
Clock ==
    /\ phase = "idle"
    /\ LET young == {a \in Arcs : order[a] # Null /\ order[a].age < WaitPeriod}
       IN  /\ young # {}
           /\ order' = [a \in Arcs |-> IF a \in young
                            THEN [order[a] EXCEPT !.age = @ + 1]
                            ELSE order[a]]
    /\ UNCHANGED <<client_orders, queueVars, pipeVars, inflight, used, phase>>

Next ==
    \/ \E c \in Clients, o \in OrderIds :
        \/ \E a \in Arcs, age \in Ages : AddClientOrder(c, o, a, age)
        \/ CancelClientOrder(c, o)
        \/ UpdateClientOrder(c, o)
        \/ HandleReadyAck(c, o)
        \/ \E expired \in BOOLEAN : CollateralCheckLater(c, o, expired)
        \/ CollateralNotReady(c, o)
        \/ \E preauth, ready \in BOOLEAN : CollateralRouted(c, o, preauth, ready)
        \/ PreAuthApproved(c, o)
    \/ BeginSolve
    \/ ServeNextClient
    \/ EndServe
    \/ EngageAny
    \/ \E a \in Arcs : OrderEngaged(a) \/ OrderContinued(a) \/ OrderReleased(a)
    \/ Clock

(***************************************************************************)
(* The solver loop keeps ticking and time passes (between ticks, hence SF: *)
(* ticks interrupt the enabledness of Clock for ever). No fairness of      *)
(* clients, the collateral manager or the batch manager is assumed.        *)
(***************************************************************************)
Fairness ==
    /\ WF_vars(BeginSolve)
    /\ WF_vars(ServeNextClient)
    /\ WF_vars(EndServe)
    /\ WF_vars(EngageAny)
    /\ SF_vars(Clock)

Spec == Init /\ [][Next]_vars

FairSpec == Spec /\ Fairness

-----------------------------------------------------------------------------
(***************************************************************************)
(* Properties.                                                             *)
(***************************************************************************)
FrontOrder(c) == GetClientOrder(c, Head(client_order_queues[c]))

\* The order map and the queues of ids describe the same orders: every id is
\* queued once, exactly while its order is in the map, and the map's object is
\* the order of that client and id (add_client_order, cancel_client_order).
QueueHoldsOrders ==
    \A c \in Clients :
        /\ \A i, j \in DOMAIN client_order_queues[c] :
            client_order_queues[c][i] = client_order_queues[c][j] => i = j
        /\ \A o \in OrderIds :
            Exists(c, o) <=> \E i \in DOMAIN client_order_queues[c] :
                                client_order_queues[c][i] = o
        /\ \A o \in OrderIds :
            Exists(c, o) => /\ order[GetClientOrder(c, o)] # Null
                            /\ order[GetClientOrder(c, o)].client = c
                            /\ order[GetClientOrder(c, o)].id = o

\* No wake-up is lost: a client whose oldest order waits to be served is in
\* the notification queue, the only thing serve_more_clients looks at.
NoLostNotification ==
    \A c \in Clients :
        client_order_queues[c] # <<>> /\ order[FrontOrder(c)].status = "Open"
            => \E i \in DOMAIN client_notify_queue : client_notify_queue[i] = c

\* "Only single order from single user can be actively executed, and all other
\* orders from that user need to wait": an order that is not the oldest of its
\* client is untouched since it was added.
OneOrderAtATime ==
    \A c \in Clients : \A i \in DOMAIN client_order_queues[c] :
        LET a == GetClientOrder(c, client_order_queues[c][i])
        IN  i > 1 => /\ order[a].status = "Open"
                     /\ ~order[a].paid
                     /\ \A k \in DOMAIN ready_orders : ready_orders[k] # a
                     /\ a \notin engaged

\* "We wouldn't have any entry in the client_queue for user for whom we are
\* already processing an order": what serve_more_clients takes is Open or Ready.
NotifiedOnlyWhenWaiting ==
    \A c \in Range(client_notify_queue) :
        client_order_queues[c] # <<>> => order[FrontOrder(c)].status \in {"Open", "Ready"}

\* The order that waits at the head of its client's queue is due.
Waiting(c) ==
    /\ client_order_queues[c] # <<>>
    /\ order[FrontOrder(c)].status = "Open"
    /\ CheckReady(FrontOrder(c))

\* The client in front of the notification queue has no orders any more.
StaleFront ==
    /\ client_notify_queue # <<>>
    /\ client_order_queues[Head(client_notify_queue)] = <<>>

\* "solve() will pick order from the queue above at next tick": an order that
\* is due does not wait for ever.
DueOrderServed == \A c \in Clients : ~<>[]Waiting(c)

\* A due order waits for ever only behind the notification of a client all of
\* whose orders were cancelled.
StarvesOnlyBehindStale == \A c \in Clients : <>[]Waiting(c) => <>[]StaleFront

=============================================================================
