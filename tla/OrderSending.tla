----------------------------- MODULE OrderSending -----------------------------
(***************************************************************************)
(* From the solver to the exchange and back: InventoryManager's            *)
(* new_order_batch, the OrderTracker (order_tracker.rs), the Binance       *)
(* connector with its sessions and arbiter (libs/binance-order-sending)    *)
(* and the channel on which the connector's notifications reach the        *)
(* tracker on the backend thread.                                          *)
(*                                                                         *)
(* Quantities are in steps of the tracker's tolerance, so "less than the   *)
(* tolerance" is "less than Tolerance = 1".  The exchange is external: an  *)
(* IOC limit order is executed in any number of parts and what is left     *)
(* expires.                                                                *)
(***************************************************************************)
EXTENDS Integers, Sequences, FiniteSets, SequencesExt

CONSTANTS
    Orders,           \* order ids handed to new_order_batch
    Sessions,         \* session ids: one per subaccount
    Null,
    OrderQuantity,    \* quantity of every asset order
    Treated,          \* what treat_price_quantity may make of the quantity
    Tolerance,        \* zero threshold of the tracker
    TradingModes,     \* values should_enable_trading() may have
    MaxFailures,      \* bound: failed setups and lost connections
    MaxPlaceFailures  \* bound: order_place calls that fail

ASSUME QuantityAssumption ==
    /\ Tolerance \in Nat \ {0}
    /\ OrderQuantity \in Nat /\ OrderQuantity >= Tolerance
    /\ \A q \in Treated : q \in Nat /\ q >= Tolerance
ASSUME ModesAssumption == TradingModes \subseteq BOOLEAN
VARIABLES
    \* OrderTracker
    session,          \* the connected session, or Null
    orders,           \* order id -> OrderStatus with its remaining quantity
    \* the new_order_batch call in progress, and what was ever asked for
    sending,          \* asset orders of the batch still to be sent
    requested,        \* orders of the batches handed over so far
    \* the connector
    credentials,      \* accounts on their way to the arbiter
    arbiter,          \* "Running", "Stopping"
    sess,             \* session -> state of its entry and task
    trading_enabled,  \* session -> BOOLEAN
    commands,         \* session -> queue of NewOrder commands
    placing,          \* session -> order in order_place(), or Null
    \* the exchange and its user data stream
    venue,            \* order -> state at the exchange, quantity left, session
    executed,         \* order -> quantity executed at the exchange
    stream,           \* session -> execution reports on their way
    \* the backend thread's channel, and what the tracker published
    order_events,     \* OrderConnectorNotifications on their way
    booked,           \* order -> quantity published in Fill notifications
    closed,           \* order -> final notifications published
    failures, place_failures

trackerVars == <<session, orders, booked, closed>>
batchVars == <<sending, requested>>
sessionVars == <<credentials, arbiter, sess, trading_enabled>>
venueVars == <<venue, executed>>
boundVars == <<failures, place_failures>>
vars == <<trackerVars, batchVars, sessionVars, commands, placing, venueVars,
          stream, order_events, boundVars>>

\* OrderStatus: Sent keeps order_quantity, Live what remains, at least the
\* tolerance; nothing remains of an order that ended.
OrderStatus ==
    [st : {"Sent"}, rem : {OrderQuantity}]
        \cup [st : {"Live"}, rem : {q \in Nat : q >= Tolerance}]
        \cup [st : {"Cancelled", "SendFailed"}, rem : {0}]

ASSUME NullAssumption == Null \notin Orders \cup Sessions \cup OrderStatus

\* Sent commands wait in "Setup", are executed in "Main"; the task of a
\* "Stopped" session has ended but its entry is still in the map; "Absent"
\* sessions have no entry.
SessionStates == {"Absent", "Setup", "Main", "Stopped"}

Notification ==
    [kind : {"Logon", "Logout"}, id : Sessions]
        \cup [kind : {"NewOrder", "Fill", "Cancel", "Rejected"}, id : Orders, qty : Nat]

TypeOK ==
    /\ session \in Sessions \cup {Null}
    /\ orders \in [Orders -> OrderStatus \cup {Null}]
    /\ sending \subseteq requested
    /\ requested \subseteq Orders
    /\ credentials \subseteq Sessions
    /\ arbiter \in {"Running", "Stopping"}
    /\ sess \in [Sessions -> SessionStates]
    /\ trading_enabled \in [Sessions -> BOOLEAN]
    /\ commands \in [Sessions -> Seq(Orders)]
    /\ placing \in [Sessions -> Orders \cup {Null}]
    /\ venue \in [Orders -> [st : {"None", "Open", "Done"}, left : Nat,
                          at : Sessions \cup {Null}]]
    /\ executed \in [Orders -> Nat]
    /\ stream \in [Sessions -> Seq(Notification)]
    /\ order_events \in Seq(Notification)
    /\ booked \in [Orders -> Nat]
    /\ closed \in [Orders -> Nat]
    /\ failures \in Nat
    /\ place_failures \in Nat

Init ==
    /\ session = Null
    /\ orders = [o \in Orders |-> Null]
    /\ sending = {}
    /\ requested = {}
    /\ credentials = Sessions
    /\ arbiter = "Running"
    /\ sess = [s \in Sessions |-> "Absent"]
    /\ trading_enabled \in [Sessions -> TradingModes]
    /\ commands = [s \in Sessions |-> <<>>]
    /\ placing = [s \in Sessions |-> Null]
    /\ venue = [o \in Orders |-> [st |-> "None", left |-> 0, at |-> Null]]
    /\ executed = [o \in Orders |-> 0]
    /\ stream = [s \in Sessions |-> <<>>]
    /\ order_events = <<>>
    /\ booked = [o \in Orders |-> 0]
    /\ closed = [o \in Orders |-> 0]
    /\ failures = 0
    /\ place_failures = 0

Publish(n) == order_events' = Append(order_events, n)

Order(kind, o, q) == [kind |-> kind, id |-> o, qty |-> q]

-----------------------------------------------------------------------------
(***************************************************************************)
(* Sending: the solver thread calls new_order_batch, which holds the       *)
(* tracker's lock for the whole batch and stops at the first order that    *)
(* cannot be sent.                                                         *)
(***************************************************************************)
NewOrderBatch ==
    /\ sending = {}
    /\ \E batch \in SUBSET (Orders \ requested) \ {{}} :
        /\ sending' = batch
        /\ requested' = requested \cup batch
    /\ UNCHANGED <<trackerVars, sessionVars, commands, placing, venueVars,
                   stream, order_events, boundVars>>

\* OrderTracker::new_order with the connector's send_order.
NewOrder(o) ==
    /\ o \in sending
    /\ IF session = Null \/ orders[o] # Null
       THEN /\ sending' = {}
            /\ UNCHANGED <<orders, commands>>
       ELSE IF sess[session] = "Absent"
       THEN /\ orders' = [orders EXCEPT ![o] = [st |-> "SendFailed", rem |-> 0]]
            /\ sending' = {}
            /\ UNCHANGED commands
       ELSE /\ orders' = [orders EXCEPT ![o] = [st |-> "Sent", rem |-> OrderQuantity]]
            /\ commands' = [commands EXCEPT ![session] = Append(@, o)]
            /\ sending' = sending \ {o}
    /\ UNCHANGED <<session, booked, closed, requested, sessionVars, placing,
                   venueVars, stream, order_events, boundVars>>

-----------------------------------------------------------------------------
(***************************************************************************)
(* The connector: the arbiter task and one task per session.               *)
(***************************************************************************)
AddSession(s) ==
    /\ arbiter = "Running"
    /\ s \in credentials
    /\ credentials' = credentials \ {s}
    /\ sess' = [sess EXCEPT ![s] = IF @ = "Absent" THEN "Setup" ELSE @]
    /\ UNCHANGED <<trackerVars, batchVars, arbiter, trading_enabled, commands,
                   placing, venueVars, stream, order_events, boundVars>>

SessionReady(s) ==
    /\ sess[s] = "Setup"
    /\ sess' = [sess EXCEPT ![s] = "Main"]
    /\ Publish([kind |-> "Logon", id |-> s])
    /\ UNCHANGED <<trackerVars, batchVars, credentials, arbiter, trading_enabled,
                   commands, placing, venueVars, stream, boundVars>>

\* Only a failure to build the trading session is published as a logout.
SetupFailed(s) ==
    /\ sess[s] = "Setup"
    /\ failures < MaxFailures
    /\ failures' = failures + 1
    /\ sess' = [sess EXCEPT ![s] = "Stopped"]
    /\ \/ Publish([kind |-> "Logout", id |-> s])
       \/ UNCHANGED order_events
    /\ UNCHANGED <<trackerVars, batchVars, credentials, arbiter, trading_enabled,
                   commands, placing, venueVars, stream, place_failures>>

\* A ping fails: the main loop returns the error and the task ends, and the
\* websocket goes with it; no logout is published.
SessionLost(s) ==
    /\ sess[s] = "Main"
    /\ placing[s] = Null
    /\ failures < MaxFailures
    /\ failures' = failures + 1
    /\ sess' = [sess EXCEPT ![s] = "Stopped"]
    /\ stream' = [stream EXCEPT ![s] = <<>>]
    /\ UNCHANGED <<trackerVars, batchVars, credentials, arbiter, trading_enabled,
                   commands, placing, venueVars, order_events, place_failures>>

\* The arbiter's tick: check_stopped drops the entries of ended sessions in
\* its retain() and finds none of them afterwards, so nothing is left for
\* process_session_completion and the queued commands are gone.
CheckStopped ==
    /\ arbiter = "Running"
    /\ \E s \in Sessions : sess[s] = "Stopped"
    /\ sess' = [s \in Sessions |-> IF sess[s] = "Stopped" THEN "Absent" ELSE sess[s]]
    /\ commands' = [s \in Sessions |-> IF sess[s] = "Stopped" THEN <<>> ELSE commands[s]]
    /\ UNCHANGED <<trackerVars, batchVars, credentials, arbiter, trading_enabled,
                   placing, venueVars, stream, order_events, boundVars>>

\* BinanceOrderSending::stop cancels the arbiter's loop.
StopArbiter ==
    /\ arbiter = "Running"
    /\ arbiter' = "Stopping"
    /\ UNCHANGED <<trackerVars, batchVars, credentials, sess, trading_enabled, commands,
                   placing, venueVars, stream, order_events, boundVars>>

\* The remaining sessions are drained from the map and stopped; the commands
\* they have not processed are answered with Rejected.
StopSession(s) ==
    /\ arbiter = "Stopping"
    /\ sess[s] \in {"Main", "Stopped"}
    /\ placing[s] = Null
    /\ sess' = [sess EXCEPT ![s] = "Absent"]
    /\ LET logout == IF sess[s] = "Main" THEN <<[kind |-> "Logout", id |-> s]>> ELSE <<>>
           reject(o) == Order("Rejected", o, OrderQuantity)
       IN  order_events' = order_events \o logout
               \o [i \in DOMAIN commands[s] |-> reject(commands[s][i])]
    /\ commands' = [commands EXCEPT ![s] = <<>>]
    /\ stream' = [stream EXCEPT ![s] = <<>>]
    /\ UNCHANGED <<trackerVars, batchVars, credentials, arbiter, trading_enabled,
                   placing, venueVars, boundVars>>

CanExecute(s) == sess[s] = "Main" /\ placing[s] = Null /\ commands[s] # <<>>

\* send_command with trading disabled: an error in the log, no answer.
RefuseCommand(s) ==
    /\ CanExecute(s)
    /\ ~trading_enabled[s]
    /\ commands' = [commands EXCEPT ![s] = Tail(@)]
    /\ UNCHANGED <<trackerVars, batchVars, sessionVars, placing, venueVars, stream,
                   order_events, boundVars>>

\* Mutant of ExecuteCommand: an order is placed without being announced.
ExecuteCommand_Unannounced(s) ==
    /\ CanExecute(s)
    /\ trading_enabled[s]
    /\ LET o == Head(commands[s]) IN
        /\ commands' = [commands EXCEPT ![s] = Tail(@)]
        /\ venue' = [venue EXCEPT ![o] =
                        [st |-> "None", left |-> OrderQuantity, at |-> s]]
        /\ placing' = [placing EXCEPT ![s] = o]
    /\ UNCHANGED <<trackerVars, batchVars, sessionVars, executed, stream, order_events,
                   boundVars>>

\* new_order_single: price and quantity are treated, and the order is
\* announced before it is placed.
ExecuteCommand(s) ==
    /\ CanExecute(s)
    /\ trading_enabled[s]
    /\ LET o == Head(commands[s]) IN
        /\ commands' = [commands EXCEPT ![s] = Tail(@)]
        /\ \E q \in Treated :
            /\ Publish(Order("NewOrder", o, q))
            /\ venue' = [venue EXCEPT ![o] =
                                [st |-> "None", left |-> q, at |-> s]]
        /\ placing' = [placing EXCEPT ![s] = o]
    /\ UNCHANGED <<trackerVars, batchVars, sessionVars, executed, stream, boundVars>>

\* new_order_single when the market rejects price or quantity.
RejectUntreated(s) ==
    /\ CanExecute(s)
    /\ trading_enabled[s]
    /\ place_failures < MaxPlaceFailures
    /\ place_failures' = place_failures + 1
    /\ commands' = [commands EXCEPT ![s] = Tail(@)]
    /\ Publish(Order("Rejected", Head(commands[s]), OrderQuantity))
    /\ UNCHANGED <<trackerVars, batchVars, sessionVars, placing, venueVars, stream, failures>>

\* order_place returns.
PlaceSucceeded(s) ==
    /\ placing[s] # Null
    /\ venue[placing[s]].st # "None"
    /\ placing' = [placing EXCEPT ![s] = Null]
    /\ UNCHANGED <<trackerVars, batchVars, sessionVars, commands, venueVars, stream,
                   order_events, boundVars>>

\* Mutant of PlaceFailed: the failed call is not reported.
PlaceFailed_Silent(s) ==
    /\ placing[s] # Null
    /\ place_failures < MaxPlaceFailures
    /\ place_failures' = place_failures + 1
    /\ placing' = [placing EXCEPT ![s] = Null]
    /\ UNCHANGED <<trackerVars, batchVars, sessionVars, commands, venueVars, stream,
                   order_events, failures>>

\* order_place fails: rate limit, refusal, or an error of the connection,
\* after which the exchange may or may not have the order.
PlaceFailed(s) ==
    /\ placing[s] # Null
    /\ place_failures < MaxPlaceFailures
    /\ place_failures' = place_failures + 1
    /\ Publish(Order("Rejected", placing[s], OrderQuantity))
    /\ placing' = [placing EXCEPT ![s] = Null]
    /\ UNCHANGED <<trackerVars, batchVars, sessionVars, commands, venueVars, stream, failures>>

-----------------------------------------------------------------------------
(***************************************************************************)
(* The exchange (external).                                                *)
(***************************************************************************)
\* The report reaches the user data stream if its session still listens.
Report(o, n) ==
    LET s == venue[o].at
    IN  stream' = IF sess[s] = "Main" THEN [stream EXCEPT ![s] = Append(@, n)] ELSE stream

VenueAccept(s) ==
    /\ placing[s] # Null
    /\ venue[placing[s]].st = "None"
    /\ venue' = [venue EXCEPT ![placing[s]].st = "Open"]
    /\ UNCHANGED <<trackerVars, batchVars, sessionVars, commands, placing, executed,
                   stream, order_events, boundVars>>

VenueFill(o) ==
    /\ venue[o].st = "Open"
    /\ \E q \in 1 .. venue[o].left :
        /\ venue' = [venue EXCEPT ![o] = [st |-> IF @.left = q THEN "Done" ELSE "Open",
                                          left |-> @.left - q, at |-> @.at]]
        /\ executed' = [executed EXCEPT ![o] = @ + q]
        /\ Report(o, Order("Fill", o, q))
    /\ UNCHANGED <<trackerVars, batchVars, sessionVars, commands, placing,
                   order_events, boundVars>>

VenueExpire(o) ==
    /\ venue[o].st = "Open"
    /\ venue' = [venue EXCEPT ![o].st = "Done"]
    /\ Report(o, Order("Cancel", o, venue[o].left))
    /\ UNCHANGED <<trackerVars, batchVars, sessionVars, commands, placing, executed,
                   order_events, boundVars>>

\* Mutant of DeliverReport: a report is handed over twice.
DeliverReport_Twice(s) ==
    /\ sess[s] = "Main"
    /\ stream[s] # <<>>
    /\ order_events' = order_events \o <<Head(stream[s]), Head(stream[s])>>
    /\ stream' = [stream EXCEPT ![s] = Tail(@)]
    /\ UNCHANGED <<trackerVars, batchVars, sessionVars, commands, placing, venueVars, boundVars>>

\* The callback of TradingUserData::subscribe publishes a FILLED or
\* PARTIALLY_FILLED report as Fill and an EXPIRED one as Cancel.
DeliverReport(s) ==
    /\ sess[s] = "Main"
    /\ stream[s] # <<>>
    /\ Publish(Head(stream[s]))
    /\ stream' = [stream EXCEPT ![s] = Tail(@)]
    /\ UNCHANGED <<trackerVars, batchVars, sessionVars, commands, placing, venueVars, boundVars>>

-----------------------------------------------------------------------------
(***************************************************************************)
(* OrderTracker::handle_order_notification on the backend thread.          *)
(***************************************************************************)
Ended == [st |-> "Cancelled", rem |-> 0]

Update(ok, was_live, is_cancelled, next) ==
    [ok |-> ok, was_live |-> was_live, is_cancelled |-> is_cancelled, next |-> next]

\* Mutant of UpdateOrderStatus: a cancel of an order that has ended counts.
UpdateOrderStatus_Reopen(o, q, is_cancel) ==
    LET cur == orders[o]
        rem == cur.rem - q
    IN  CASE cur = Null -> Update(FALSE, FALSE, FALSE, cur)
          [] cur # Null /\ is_cancel -> Update(TRUE, TRUE, TRUE, Ended)
          [] cur # Null /\ ~is_cancel /\ cur.st # "Live" -> Update(FALSE, FALSE, FALSE, cur)
          [] OTHER -> IF rem < Tolerance THEN Update(TRUE, TRUE, TRUE, Ended)
                      ELSE Update(TRUE, TRUE, FALSE, [st |-> "Live", rem |-> rem])

\* Mutant of UpdateOrderStatus: an order with nothing left stays live.
UpdateOrderStatus_Zero(o, q, is_cancel) ==
    LET cur == orders[o]
        rem == cur.rem - q
        error == Update(FALSE, FALSE, FALSE, cur)
    IN  CASE cur = Null -> error
          [] cur # Null /\ is_cancel /\ cur.st \in {"Sent", "Live"} ->
                Update(TRUE, TRUE, TRUE, Ended)
          [] cur # Null /\ ~is_cancel /\ cur.st = "Live" ->
                IF rem < 0 THEN Update(TRUE, TRUE, TRUE, Ended)
                ELSE Update(TRUE, TRUE, FALSE, [st |-> "Live", rem |-> rem])
          [] OTHER -> error

UpdateOrderStatus(o, q, is_cancel) ==
    LET cur == orders[o]
        rem == cur.rem - q
        error == Update(FALSE, FALSE, FALSE, cur)
    IN  CASE cur = Null -> error
          [] cur # Null /\ cur.st \in {"Sent", "Live"} /\ is_cancel ->
                Update(TRUE, TRUE, TRUE, Ended)
          [] cur # Null /\ cur.st = "Sent" /\ ~is_cancel -> error
          [] cur # Null /\ cur.st = "Live" /\ ~is_cancel ->
                IF rem < Tolerance THEN Update(TRUE, TRUE, TRUE, Ended)
                ELSE Update(TRUE, TRUE, FALSE, [st |-> "Live", rem |-> rem])
          [] OTHER -> IF is_cancel /\ q < Tolerance
                      THEN Update(TRUE, FALSE, TRUE, cur)
                      ELSE error

Handle(kind) ==
    /\ sending = {}
    /\ order_events # <<>>
    /\ Head(order_events).kind = kind
    /\ order_events' = Tail(order_events)
    /\ UNCHANGED <<batchVars, sessionVars, commands, placing, venueVars, stream, boundVars>>

HandleLogon ==
    /\ Handle("Logon")
    /\ session' = Head(order_events).id
    /\ UNCHANGED <<orders, booked, closed>>

HandleLogout ==
    /\ Handle("Logout")
    /\ session' = Null
    /\ UNCHANGED <<orders, booked, closed>>

\* update_order_new
HandleNewOrder ==
    /\ Handle("NewOrder")
    /\ LET n == Head(order_events) IN
        orders' = IF orders[n.id] # Null /\ orders[n.id].st = "Sent"
                  THEN [orders EXCEPT ![n.id] = [st |-> "Live", rem |-> n.qty]]
                  ELSE orders
    /\ UNCHANGED <<session, booked, closed>>

\* Every update that succeeds is published, also that of an ended order.
HandleRejected ==
    /\ Handle("Rejected")
    /\ LET n == Head(order_events)
           u == UpdateOrderStatus(n.id, n.qty, TRUE)
       IN  /\ orders' = [orders EXCEPT ![n.id] = u.next]
           /\ closed' = [closed EXCEPT ![n.id] = IF u.ok THEN @ + 1 ELSE @]
    /\ UNCHANGED <<session, booked>>

\* Fill{quantity}; one that ends the order carries is_cancelled, on which the
\* inventory manager publishes the order's Cancel event.
HandleFill ==
    /\ Handle("Fill")
    /\ LET n == Head(order_events)
           u == UpdateOrderStatus(n.id, n.qty, FALSE)
       IN  /\ orders' = [orders EXCEPT ![n.id] = u.next]
           /\ booked' = [booked EXCEPT ![n.id] = IF u.ok THEN @ + n.qty ELSE @]
           /\ closed' = [closed EXCEPT ![n.id] = IF u.ok /\ u.is_cancelled THEN @ + 1 ELSE @]
    /\ UNCHANGED session

HandleCancel ==
    /\ Handle("Cancel")
    /\ LET n == Head(order_events)
           u == UpdateOrderStatus(n.id, n.qty, TRUE)
       IN  /\ orders' = [orders EXCEPT ![n.id] = u.next]
           /\ closed' = [closed EXCEPT ![n.id] = IF u.ok /\ u.was_live THEN @ + 1 ELSE @]
    /\ UNCHANGED <<session, booked>>

HandleOrderNotification ==
    \/ HandleLogon \/ HandleLogout \/ HandleNewOrder
    \/ HandleRejected \/ HandleFill \/ HandleCancel

-----------------------------------------------------------------------------
Send == \E o \in Orders : NewOrder(o)

SessionStep(s) ==
    \/ SessionReady(s) \/ RefuseCommand(s) \/ ExecuteCommand(s) \/ RejectUntreated(s)
    \/ PlaceSucceeded(s) \/ PlaceFailed(s)

Exchange(o) == VenueFill(o) \/ VenueExpire(o)

Next ==
    \/ NewOrderBatch
    \/ Send
    \/ HandleOrderNotification
    \/ CheckStopped
    \/ StopArbiter
    \/ \E s \in Sessions :
        \/ AddSession(s) \/ SetupFailed(s) \/ SessionLost(s) \/ StopSession(s)
        \/ SessionStep(s) \/ VenueAccept(s) \/ DeliverReport(s)
    \/ \E o \in Orders : Exchange(o)

Spec == Init /\ [][Next]_vars

(***************************************************************************)
(* The threads keep running, the arbiter's interval keeps ticking, and an  *)
(* exchange answers what it was sent: an IOC order is filled or expires.   *)
(***************************************************************************)
Fairness ==
    /\ WF_vars(Send)
    /\ WF_vars(HandleOrderNotification)
    /\ WF_vars(CheckStopped)
    /\ \A s \in Sessions :
        /\ WF_vars(AddSession(s))
        /\ WF_vars(StopSession(s))
        /\ WF_vars(SessionStep(s))
        /\ WF_vars(VenueAccept(s))
        /\ WF_vars(DeliverReport(s))
    /\ \A o \in Orders : WF_vars(Exchange(o))

FairSpec == Spec /\ Fairness

-----------------------------------------------------------------------------
(***************************************************************************)
(* Properties.                                                             *)
(***************************************************************************)
\* An order is reported as finished once: the batch manager completes a
\* batch on the last of these reports, and a second one would complete it
\* again.  Rejected, a last fill and an expiry race for it.
OneFinalReport == \A o \in Orders : closed[o] =< 1

\* Quantity of order o in the Fill reports of a queue.
FillsIn(queue, o) ==
    SumFunction([i \in DOMAIN queue |->
        IF queue[i].kind = "Fill" /\ queue[i].id = o THEN queue[i].qty ELSE 0])

Reported(o) ==
    booked[o] + FillsIn(order_events, o)
        + (IF venue[o].at = Null THEN 0 ELSE FillsIn(stream[venue[o].at], o))

\* What the exchange executed is booked in the inventory exactly once: never
\* more than that, and, while no connection or call failed and the order
\* sender runs, nothing is missing.
ExecutionsBooked ==
    \A o \in Orders :
        /\ Reported(o) =< executed[o]
        /\ failures = 0 /\ place_failures = 0 /\ arbiter = "Running"
               => Reported(o) = executed[o]

\* "Invalid order state for applying fill": an order is announced before the
\* exchange gets it, so no execution reaches the tracker first.
AnnouncedBeforeFilled ==
    \A o \in Orders :
        order_events # <<>> /\ Head(order_events).kind = "Fill" /\ Head(order_events).id = o
            => orders[o] # Null /\ orders[o].st # "Sent"

\* "We shouldn't be getting fills for an order that was cancelled".
NoFillAfterCancel ==
    \A o \in Orders :
        order_events # <<>> /\ Head(order_events).kind = "Fill" /\ Head(order_events).id = o
            => orders[o].st # "Cancelled"

Queued(o) == \E s \in Sessions : o \in Range(commands[s])

Answered(o) == orders[o] # Null /\ orders[o].st \in {"Live", "Cancelled"}

\* "We must reply to all unprocessed commands, otherwise client will be
\* waiting indefinitely for reply": a queued order becomes live or ends.
CommandsAnswered ==
    \A o \in Orders : Queued(o) ~> Answered(o)

\* An order that was sent ends, with the one final report its batch waits for,
\* however its quantity was rounded, unless a connection is lost, the order
\* sender is stopped or trading is not enabled.
SentOrdersEnd ==
    \A o \in Orders : Queued(o) ~> \/ closed[o] = 1
                                   \/ arbiter = "Stopping" \/ failures > 0
                                   \/ \E s \in Sessions : ~trading_enabled[s]

===============================================================================
