------------------------------ MODULE IndexOrders ------------------------------
(* IndexOrderManager with its index orders, the mint invoice manager, and     *)
(* their files. The state is that of one client: the manager finds everything *)
(* by client. Messages of the client and calls of the solver take turns, each *)
(* under the manager's lock; the solver hears of orders through a channel.    *)
EXTENDS IndexOrder, FiniteSets

CONSTANTS OrderIds, Symbols,
          Indexed,      \* symbols added with add_index_symbol
          Amounts,      \* collateral of an order
          Fees,         \* fees of routing its collateral
          ReuseIds,     \* whether a client uses an id again after an order ended
          CancelEngaged,\* whether it cancels an order the solver engaged with
          MaxOrders,    \* bound: orders accepted
          MaxCrashes    \* bound: crashes

VARIABLES indexOrders,   \* index_orders: index order of a symbol
          orderEvents,   \* IndexOrderEvents the solver has not seen
          serving,       \* solver: orders of the client, in the order of arrival
          invoices,      \* MintInvoiceManager.metadata
          files,         \* what the two managers stored
          storing,       \* order_request_minted still has to store the manager
          reported,      \* last report to the client: [spent, remaining] by id
          refused, cancelled, minted, \* ids that the client was told so
          accepted, crashes \* how much of the bounds is used
vars == <<indexOrders, orderEvents, serving, invoices, files, storing, reported,
          refused, cancelled, minted, accepted, crashes>>
told == <<refused, cancelled, minted>>

NoOrders == [s \in {} |-> 0]

Init == /\ indexOrders = NoOrders
        /\ orderEvents = <<>> /\ serving = <<>>
        /\ invoices = <<>>
        /\ files = [orders |-> NoOrders, invoices |-> <<>>]
        /\ storing = FALSE
        /\ reported = NoOrders
        /\ refused = {} /\ cancelled = {} /\ minted = {}
        /\ accepted = 0 /\ crashes = 0

Put(f, k, v) == [x \in DOMAIN f \cup {k} |-> IF x = k THEN v ELSE f[x]]
Drop(f, k) == [x \in DOMAIN f \ {k} |-> f[x]]
Tell(type, id, s, amount) == [type |-> type, id |-> id, symbol |-> s, amount |-> amount]

-------------------------------------------------------------------------------
(* Messages of the client.                                                    *)

Duplicate(id) == \E s \in DOMAIN indexOrders : FindOrderUpdate(indexOrders[s], id)
Used(id) == id \in DOMAIN reported

\* new_index_order: too many decimals, a sell, no basket, or an id that waits.
\* Only a refusal as duplicate depends on the state; nothing changes.
RefuseNewIndexOrder(id, s, precise, side) ==
    /\ ~storing
    /\ ~precise \/ side = "sell" \/ s \notin Indexed \/ Duplicate(id)
    /\ UNCHANGED vars

\* NewIndexOrderAck.
NewIndexOrder(id, s, amount) ==
    /\ ~storing
    /\ accepted < MaxOrders
    /\ s \in Indexed /\ ~Duplicate(id)
    /\ Used(id) => ReuseIds
    /\ LET order == IF s \in DOMAIN indexOrders THEN indexOrders[s] ELSE EmptyIndexOrder("buy")
       IN  indexOrders' = Put(indexOrders, s, UpdateOrder(order, id, "buy", amount).order)
    /\ orderEvents' = Append(orderEvents, Tell("new", id, s, amount))
    /\ reported' = Put(reported, id, [spent |-> 0, remaining |-> amount, original |-> amount])
    /\ accepted' = accepted + 1
    /\ UNCHANGED <<serving, invoices, files, storing, crashes>> /\ UNCHANGED told

\* CancelIndexOrderAck, whether or not an update has the id; a NAK if the client
\* never ordered the index.
CancelIndexOrder(id, s) ==
    /\ ~storing
    /\ s \in DOMAIN indexOrders
    /\ ~CancelEngaged =>
         \A u \in Range(indexOrders[s].updates \o indexOrders[s].engagedUpdates) :
             u.id = id => ~u.touched
    /\ Used(id) /\ id \notin cancelled
    /\ indexOrders' = [indexOrders EXCEPT ![s] = SolverCancel(@, id)]
    /\ orderEvents' = Append(orderEvents, Tell("cancel", id, s, 0))
    /\ cancelled' = cancelled \cup {id}
    /\ UNCHANGED <<serving, invoices, files, storing, reported, refused, minted, accepted, crashes>>

-------------------------------------------------------------------------------
(* The solver: which call comes next for an order is what batches, payments   *)
(* and prices decide. It works on the oldest order of the client, and on      *)
(* those it took up before they were cancelled.                               *)

Order(e) == [id |-> e.id, symbol |-> e.symbol, remaining |-> e.amount, engaged |-> 0,
             phase |-> "open", dropped |-> FALSE]
IsServed(id) == \E i \in DOMAIN serving : serving[i].id = id /\ ~serving[i].dropped
TakenUp == {"ready", "engaged", "unengaged"}

HandleIndexOrderEvent ==
    /\ ~storing
    /\ orderEvents # <<>>
    /\ orderEvents' = Tail(orderEvents)
    /\ LET e == Head(orderEvents)
           Other(o) == o.id # e.id
           dropped == [i \in DOMAIN serving |->
                         IF Other(serving[i]) THEN serving[i] ELSE [serving[i] EXCEPT !.dropped = TRUE]]
       IN  serving' = IF e.type = "cancel"
                      THEN SelectSeq(dropped, LAMBDA o : Other(o) \/ o.phase \in TakenUp)
                      ELSE IF IsServed(e.id) THEN serving ELSE Append(serving, Order(e))
    /\ UNCHANGED <<indexOrders, invoices, files, storing, reported, accepted, crashes>>
    /\ UNCHANGED told

\* Order i may be worked on.
Call(i, phase) == /\ ~storing /\ serving[i].phase = phase
                  /\ \A j \in 1 .. i - 1 : serving[j].dropped

\* Mutant: the fee is taken off the update alone.
CollateralReady_UpdateOnly(i, fee) ==
    /\ Call(i, "open")
    /\ LET o == serving[i]
           order == indexOrders[o.symbol]
           k == Min({j \in DOMAIN order.updates : order.updates[j].id = o.id})
           u == [order.updates[k] EXCEPT !.remaining = @ - fee, !.spent = @ + fee]
       IN  /\ o.symbol \in DOMAIN indexOrders /\ FindOrderUpdate(order, o.id)
           /\ fee < o.remaining
           /\ indexOrders' = [indexOrders EXCEPT ![o.symbol].updates[k] = u,
                                                 ![o.symbol].spent = @ + fee]
           /\ reported' = [reported EXCEPT ![o.id] =
                             [@ EXCEPT !.spent = u.spent, !.remaining = u.remaining]]
           /\ serving' = [serving EXCEPT ![i].phase = "ready", ![i].remaining = u.remaining]
    /\ UNCHANGED <<orderEvents, invoices, files, storing, accepted, crashes>> /\ UNCHANGED told

\* collateral_ready: the fee is taken off the update and reported as spent.
CollateralReady(i, fee) ==
    /\ Call(i, "open")
    /\ LET o == serving[i]
           order == indexOrders[o.symbol]
           k == Min({j \in DOMAIN order.updates : order.updates[j].id = o.id})
           u == [order.updates[k] EXCEPT !.remaining = @ - fee, !.spent = @ + fee]
       IN  /\ o.symbol \in DOMAIN indexOrders /\ FindOrderUpdate(order, o.id)
           /\ fee < o.remaining
           /\ indexOrders' = [indexOrders EXCEPT ![o.symbol].updates[k] = u,
                                                 ![o.symbol].remaining = @ - fee,
                                                 ![o.symbol].spent = @ + fee]
           /\ reported' = [reported EXCEPT ![o.id] =
                             [@ EXCEPT !.spent = u.spent, !.remaining = u.remaining]]
           /\ serving' = [serving EXCEPT ![i].phase = "ready", ![i].remaining = u.remaining]
    /\ UNCHANGED <<orderEvents, invoices, files, storing, accepted, crashes>> /\ UNCHANGED told

\* engage_orders. It is an error when another update is in front, as after a
\* cancel that came between: nothing is told and the order waits.
EngageOrders(i, amount) ==
    /\ Call(i, "ready")
    /\ amount <= serving[i].remaining
    /\ LET o == serving[i]
           order == indexOrders[o.symbol]
           engaged == SolverEngageOne(order, o.id, amount)
       IN  IF o.symbol \in DOMAIN indexOrders /\ CanEngageOne(order, o.id, amount)
           THEN /\ indexOrders' = [indexOrders EXCEPT ![o.symbol] = engaged.order]
                /\ files' = [orders |-> indexOrders', invoices |-> invoices]
                /\ serving' = [serving EXCEPT ![i].phase = "engaged",
                                              ![i].engaged = engaged.engaged,
                                              ![i].remaining = engaged.remaining]
           ELSE /\ serving' = [serving EXCEPT ![i].phase = "unengaged"]
                /\ UNCHANGED <<indexOrders, files>>
    /\ UNCHANGED <<orderEvents, invoices, storing, reported, accepted, crashes>> /\ UNCHANGED told

\* fill_order_request: update and index order book what the fill spent.
FillOrderRequest(i, spent) ==
    /\ Call(i, "engaged")
    /\ spent <= serving[i].engaged
    /\ LET o == serving[i]
           order == indexOrders[o.symbol]
           at == FindEngagedUpdate(order, o.id)
           u == order[at[1]][at[2]]
           left == u.engaged - spent
       IN  /\ o.symbol \in DOMAIN indexOrders /\ at # <<>>
           /\ indexOrders' = [indexOrders EXCEPT
                 ![o.symbol][at[1]][at[2]] = [u EXCEPT !.spent = @ + spent, !.engaged = left],
                 ![o.symbol].spent = @ + spent,
                 ![o.symbol].engaged = @ - spent]
           /\ reported' = [reported EXCEPT ![o.id] =
                 [@ EXCEPT !.spent = u.spent + spent, !.remaining = left + u.remaining]]
           /\ serving' = [serving EXCEPT ![i].engaged = @ - spent]
    /\ UNCHANGED <<orderEvents, invoices, files, storing, accepted, crashes>> /\ UNCHANGED told

\* What a batch left unfilled is engaged again by the next one.
EngageAgain(i) == /\ Call(i, "engaged")
                  /\ serving[i].engaged = 0 /\ serving[i].remaining > 0
                  /\ serving' = [serving EXCEPT ![i].phase = "ready"]
                  /\ UNCHANGED <<indexOrders, orderEvents, invoices, files, storing, reported,
                                 accepted, crashes>>
                  /\ UNCHANGED told

\* remove_index_order drops an index order when no update waits in it.
RemoveIndexOrder(s, order) == IF order.updates = <<>> THEN Drop(indexOrders, s)
                              ELSE Put(indexOrders, s, [order EXCEPT !.closedUpdates = <<>>])

\* MintInvoice::try_new.
MintInvoice(order, id, s) ==
    LET u == Last(SelectSeq(order.closedUpdates, LAMBDA x : x.id = id))
    IN  [id |-> id, symbol |-> s, total |-> u.original, amountRemaining |-> u.original - u.spent]

\* add_invoice: a file of its own, then the metadata, which is all that load reads.
AddInvoice(invoice) ==
    /\ invoices' = Append(invoices, invoice)
    /\ files' = [files EXCEPT !.invoices = Append(invoices, invoice)]
LoadInvoices == invoices' = files.invoices

\* get_invoice answers from the file, for an order the metadata has.
GetInvoice(id) ==
    {v \in Range(files.invoices) : v.id = id /\ \E m \in Range(invoices) : m.id = id}

\* Mutant: the invoice is stored with the manager.
OrderRequestMinted_Later(i) ==
    /\ Call(i, "engaged")
    /\ LET o == serving[i]
           order == SolverComplete(indexOrders[o.symbol], o.id)
           invoice == MintInvoice(order, o.id, o.symbol)
       IN  /\ o.symbol \in DOMAIN indexOrders /\ HasEngaged(indexOrders[o.symbol], o.id)
           /\ indexOrders' = RemoveIndexOrder(o.symbol, order)
           /\ orderEvents' = Append(orderEvents, Tell("cancel", o.id, o.symbol, 0))
           /\ invoices' = Append(invoices, invoice)
           /\ minted' = minted \cup {invoice}
           /\ serving' = RemoveAt(serving, i)
           /\ storing' = TRUE
    /\ UNCHANGED <<files, reported, refused, cancelled, accepted, crashes>>

\* order_request_minted up to the answer: the invoice is stored, then the
\* metadata, and the client gets it.
OrderRequestMinted(i) ==
    /\ Call(i, "engaged")
    /\ LET o == serving[i]
           order == SolverComplete(indexOrders[o.symbol], o.id)
           invoice == MintInvoice(order, o.id, o.symbol)
       IN  /\ o.symbol \in DOMAIN indexOrders /\ HasEngaged(indexOrders[o.symbol], o.id)
           /\ indexOrders' = RemoveIndexOrder(o.symbol, order)
           /\ orderEvents' = Append(orderEvents, Tell("cancel", o.id, o.symbol, 0))
           /\ AddInvoice(invoice)
           /\ minted' = minted \cup {invoice}
           /\ serving' = RemoveAt(serving, i)
           /\ storing' = TRUE
    /\ UNCHANGED <<reported, refused, cancelled, accepted, crashes>>

\* ... and its last statement.
StoreMinted == /\ storing
               /\ storing' = FALSE
               /\ files' = [orders |-> indexOrders, invoices |-> invoices]
               /\ UNCHANGED <<indexOrders, orderEvents, serving, invoices, reported,
                              accepted, crashes>>
               /\ UNCHANGED told

\* order_failed: the client gets a NAK.
OrderFailed(i) ==
    /\ \E phase \in {"open", "ready"} : Call(i, phase)
    /\ LET o == serving[i]
       IN  /\ o.symbol \in DOMAIN indexOrders
           /\ indexOrders' = [indexOrders EXCEPT ![o.symbol] = SolverCancel(@, o.id)]
           /\ orderEvents' = Append(orderEvents, Tell("cancel", o.id, o.symbol, 0))
           /\ refused' = refused \cup {o.id}
           /\ serving' = RemoveAt(serving, i)
    /\ UNCHANGED <<invoices, files, storing, reported, cancelled, minted, accepted, crashes>>

\* load() after a crash at any point. The solver finds no order: it stores its
\* own state on a graceful stop only.
Restart ==
    /\ crashes < MaxCrashes
    /\ crashes' = crashes + 1
    /\ indexOrders' = files.orders
    /\ LoadInvoices
    /\ orderEvents' = <<>> /\ serving' = <<>> /\ storing' = FALSE
    /\ UNCHANGED <<files, reported, accepted>> /\ UNCHANGED told

Next == \/ \E id \in OrderIds, s \in Symbols :
             \/ \E precise \in BOOLEAN, side \in {"buy", "sell"} :
                   RefuseNewIndexOrder(id, s, precise, side)
             \/ \E amount \in Amounts : NewIndexOrder(id, s, amount)
             \/ CancelIndexOrder(id, s)
        \/ HandleIndexOrderEvent \/ StoreMinted \/ Restart
        \/ \E i \in DOMAIN serving :
             \/ EngageAgain(i) \/ OrderRequestMinted(i) \/ OrderFailed(i)
             \/ \E fee \in Fees : CollateralReady(i, fee)
             \/ \E amount \in 1 .. Max(Amounts) :
                   EngageOrders(i, amount) \/ FillOrderRequest(i, amount)

Spec == Init /\ [][Next]_vars

-------------------------------------------------------------------------------
(* Properties.                                                                *)

LiveUpdates(order) == order.updates \o order.engagedUpdates

(***************************************************************************)
(* An index order agrees with its updates: what remains of it is what      *)
(* remains of those that wait, it has engaged at least what they have      *)
(* (an update that is minted leaves the rest of its engagement behind),    *)
(* every update splits its collateral into remaining, engaged and spent,   *)
(* and only the first of the queue is engaged in part, which is where      *)
(* fills look for it. This also holds of what is loaded after a crash.     *)
(***************************************************************************)
CollateralAccounted ==
    \A s \in DOMAIN indexOrders :
        LET o == indexOrders[s]
        IN  /\ o.remaining = Remaining(o.updates)
            /\ o.engaged >= SumOf(LAMBDA u : u.engaged, LiveUpdates(o))
            /\ \A u \in Range(LiveUpdates(o)) : u.original = u.remaining + u.engaged + u.spent
            /\ \A i \in DOMAIN o.updates : o.updates[i].touched => i = 1
            /\ \A u \in Range(o.engagedUpdates) : u.remaining = 0

(***************************************************************************)
(* An invoice the client was sent is never lost, whatever moment the crash *)
(* comes at: it is in the file and in the metadata that queries read, once. *)
(***************************************************************************)
InvoicesDurable ==
    /\ \A v \in minted : v \in GetInvoice(v.id)
    /\ \A i, j \in DOMAIN invoices : invoices[i].id = invoices[j].id => i = j

(***************************************************************************)
(* Fills are booked to the update they are for: the reports of an order    *)
(* add up to its collateral and are never behind what its update books,    *)
(* although the update is looked up by id in two queues.                   *)
(***************************************************************************)
ReportsAddUp ==
    /\ \A id \in DOMAIN reported :
          reported[id].spent + reported[id].remaining = reported[id].original
    /\ \A s \in DOMAIN indexOrders : \A u \in Range(LiveUpdates(indexOrders[s])) :
          u.original = reported[u.id].original /\ u.spent <= reported[u.id].spent

\* Index orders, reports and invoices agree with each other and with the files.
OrdersAgree == CollateralAccounted /\ ReportsAddUp /\ InvoicesDurable

(***************************************************************************)
(* A cancel that was acknowledged is honoured: no invoice follows for that *)
(* order, in whatever order the cancel, its event and the engagement of    *)
(* the order come. The client may not cancel what is engaged here          *)
(* (CancelEngaged): the manager acknowledges that as well, and the order   *)
(* goes on.                                                                *)
(***************************************************************************)
CancelHonoured == [][\A v \in minted' \ minted : v.id \notin cancelled]_vars
================================================================================
