----------------------------- MODULE Collateral -----------------------------
(***************************************************************************)
(* The collateral of one client: deposits seen on chain, the lots and      *)
(* balances of CollateralPosition, the requests of CollateralManager, the  *)
(* transfers CollateralRouter sends hop by hop, and what the solver does   *)
(* with the answers, from the first request of an order to its payment.    *)
(*                                                                         *)
(* Only the credit side (Buy) is modelled: routing for Sell is todo!() in  *)
(* the code.  Amounts are whole multiples of a unit larger than            *)
(* zero_threshold, so that comparisons with it are comparisons with 0.     *)
(*                                                                         *)
(* The solver thread handles one event or request at a time, in the order  *)
(* of each channel; the client, the chain and the bridges act any time.    *)
(***************************************************************************)
EXTENDS Integers, Sequences, FiniteSets, FiniteSetsExt, SequencesExt

CONSTANTS
    Deposits,       \* sequence numbers of the deposits on chain
    DepositAmount,  \* amount of each deposit
    OrderIds,       \* client order ids, in the order the client sends them
    OrderAmount,    \* collateral of each order
    Hops,           \* hops of the route
    Fees,           \* fees a hop may charge
    MaxNotices,     \* times the chain connector reports one deposit (bound)
    MaxConfirms,    \* times the solver confirms the payment of an order
    Cancels,        \* orders the client may cancel
    BridgeErrors,   \* whether transfer_funds of a bridge may return an error
    FeeErrors       \* whether a bridge may fail to compute its fee

Orders == ToSet(OrderIds)

\* Payment ids: next_payment_id gives every order one of its own, since it is
\* preauthorised once; routing fees and written off collateral share theirs.
PaymentIds == Orders \cup {"Charges", "System"}

ASSUME ConstantsAssumption ==
    /\ IsFiniteSet(Deposits) /\ DepositAmount \in [Deposits -> Nat \ {0}]
    /\ OrderAmount \in [Orders -> Nat \ {0}]
    /\ OrderIds \in Seq(Orders)
    /\ \A i, j \in DOMAIN OrderIds : OrderIds[i] = OrderIds[j] => i = j
    /\ {"Charges", "System"} \cap Orders = {}
    /\ {Hops, MaxNotices, MaxConfirms} \subseteq Nat \ {0}
    /\ IsFiniteSet(Fees) /\ Fees \subseteq Nat /\ Fees # {}
    /\ \A o \in Orders, f \in Fees : Hops * f < OrderAmount[o]
    /\ Cancels \subseteq Orders /\ {BridgeErrors, FeeErrors} \subseteq BOOLEAN

VARIABLES
    side_cr,    \* CollateralPosition::side_cr
    requests,   \* orders in CollateralManager::collateral_management_requests
    transfers,  \* transfers on their way between two designations
    events,     \* CollateralEvents waiting for the solver
    acks,       \* IndexOrderEvent::CollateralReady waiting for the solver
    order,      \* SolverOrder
    notices,    \* times each deposit was reported
    confirms    \* times the payment of each order was confirmed

vars == <<side_cr, requests, transfers, events, acks, order, notices, confirms>>

NoSpends == [p \in PaymentIds |-> [preauth |-> 0, spent |-> 0]]

CollateralLot == [seq_num: Deposits, unconfirmed: Nat, ready: Nat, preauth: Nat, spent: Nat,
                  spends: [PaymentIds -> [preauth: Nat, spent: Nat]]]

CollateralSide == [open_lots: Seq(CollateralLot), closed_lots: Seq(CollateralLot),
                   unconfirmed: Nat, ready: Nat, preauth: Nat, spent: Nat]

Transfer == [order: Orders, hop: 1..Hops, amount: Nat, fee: Nat]

\* SolverOrderStatus; "Queued" is Ready and pushed to ready_orders.  An order
\* that is Minted, Failed or Cancelled is no longer in client_orders.
SolverOrder == [status: {"New", "Open", "ManageCollateral", "Ready", "Queued",
                         "Minted", "Failed", "Cancelled"},
                routed: Nat, seq_num: Deposits \cup {0}]

Known(o) == order[o].status \in {"Open", "ManageCollateral", "Ready", "Queued"}

Init ==
    /\ side_cr = [open_lots |-> <<>>, closed_lots |-> <<>>,
                  unconfirmed |-> 0, ready |-> 0, preauth |-> 0, spent |-> 0]
    /\ requests = {}
    /\ transfers = {}
    /\ events = <<>>
    /\ acks = <<>>
    /\ order = [o \in Orders |-> [status |-> "New", routed |-> 0, seq_num |-> 0]]
    /\ notices = [d \in Deposits |-> 0]
    /\ confirms = [o \in Orders |-> 0]

-----------------------------------------------------------------------------
(* Lots by the place where they are, and what they hold.                   *)

\* The elements of a sequence at some places, in their order.
Picked(s, places) ==
    LET upTo[i \in 0 .. Len(s)] ==
          IF i = 0 THEN <<>>
          ELSE IF i \in places THEN Append(upTo[i - 1], s[i]) ELSE upTo[i - 1]
    IN  upTo[Len(s)]

Unconfirmed(lots) == [i \in DOMAIN lots |-> lots[i].unconfirmed]
Ready(lots) == [i \in DOMAIN lots |-> lots[i].ready]
Preauth(lots) == [i \in DOMAIN lots |-> lots[i].preauth]
SpentIn(lots) == [i \in DOMAIN lots |-> lots[i].spent]
Authorised(lots, p) == [i \in DOMAIN lots |-> lots[i].spends[p].preauth]
Paid(lots, p) == [i \in DOMAIN lots |-> lots[i].spends[p].spent]

Total(held) == SumFunctionOnSet(held, DOMAIN held)

-----------------------------------------------------------------------------
(* CollateralSide: an amount is taken from the lots in the order they were *)
(* opened, from each as much as it holds.                                  *)

Taken(held, amount) ==
    LET left(i) == amount - SumFunctionOnSet(held, 1 .. i - 1)
    IN  [i \in DOMAIN held |-> IF left(i) <= 0 THEN 0
                               ELSE IF held[i] <= left(i) THEN held[i] ELSE left(i)]

\* Mutant: a deposit that is reported twice is booked twice.
OpenLot_Again(s, d) ==
    [s EXCEPT !.unconfirmed = @ + DepositAmount[d],
              !.open_lots = Append(@, [seq_num |-> d, unconfirmed |-> DepositAmount[d],
                                       ready |-> 0, preauth |-> 0, spent |-> 0,
                                       spends |-> NoSpends])]

OpenLot(s, d) ==
    IF \E lot \in ToSet(s.open_lots \o s.closed_lots) : lot.seq_num = d THEN s
    ELSE [s EXCEPT !.unconfirmed = @ + DepositAmount[d],
                   !.open_lots = Append(@, [seq_num |-> d, unconfirmed |-> DepositAmount[d],
                                            ready |-> 0, preauth |-> 0, spent |-> 0,
                                            spends |-> NoSpends])]

\* Mutant: more can be confirmed than was deposited.
CanAddReady_Always(s, amount) == TRUE

CanAddReady(s, amount) == amount <= s.unconfirmed

\* What is confirmed of a lot moves to what is ready.
Readied(lot, amount) == [lot EXCEPT !.unconfirmed = @ - amount, !.ready = @ + amount]

AddReady(s, amount) ==
    LET t == Taken(Unconfirmed(s.open_lots), amount)
    IN  [s EXCEPT !.unconfirmed = @ - amount, !.ready = @ + amount,
                  !.open_lots = [i \in DOMAIN t |-> Readied(s.open_lots[i], t[i])]]

CanPreauth(s, amount) == amount <= s.ready

\* What is ready is set aside for a payment.
Preauthed(lot, p, amount) ==
    [lot EXCEPT !.ready = @ - amount, !.preauth = @ + amount, !.spends[p].preauth = @ + amount]

PreauthPayment(s, p, amount) ==
    LET t == Taken(Ready(s.open_lots), amount)
    IN  [s EXCEPT !.ready = @ - amount, !.preauth = @ + amount,
                  !.open_lots = [i \in DOMAIN t |-> Preauthed(s.open_lots[i], p, t[i])]]

\* Only the balance of the whole side is checked.
CanConfirm(s, amount) == amount <= s.preauth

\* Mutant: the spend keeps what was authorised.
Spent_Kept(lot, p, amount) ==
    [lot EXCEPT !.preauth = @ - amount, !.spent = @ + amount, !.spends[p].spent = @ + amount]

\* A spend that is paid in part loses the rest of what was authorised.
Spent(lot, p, amount) ==
    IF amount = 0 THEN lot
    ELSE [lot EXCEPT !.preauth = @ - amount, !.spent = @ + amount,
                     !.spends[p] = [preauth |-> 0, spent |-> @.spent + amount]]

\* Mutant: every open lot is reported.
SeqNums_Open(s, p, amount) == [i \in DOMAIN s.open_lots |-> s.open_lots[i].seq_num]

\* Deposits the payment is taken from, in the order of their lots.
SeqNums(s, p, amount) ==
    LET t == Taken(Authorised(s.open_lots, p), amount)
    IN  Picked([i \in DOMAIN t |-> s.open_lots[i].seq_num], {i \in DOMAIN t : t[i] > 0})

\* Nothing is left in a lot.
Over(lot) == lot.unconfirmed = 0 /\ lot.ready = 0 /\ lot.preauth = 0

Spend(s, p, amount) ==
    LET t == Taken(Authorised(s.open_lots, p), amount)
    IN  [s EXCEPT !.preauth = @ - amount, !.spent = @ + amount,
                  !.open_lots = [i \in DOMAIN t |-> Spent(s.open_lots[i], p, t[i])]]

\* Mutant: lots with nothing left are dropped.
CloseLots_Dropped(s) ==
    LET over == {i \in DOMAIN s.open_lots : Over(s.open_lots[i])}
    IN  [s EXCEPT !.open_lots = Picked(s.open_lots, DOMAIN s.open_lots \ over)]

\* Lots with nothing left are closed.
CloseLots(s) ==
    LET over == {i \in DOMAIN s.open_lots : Over(s.open_lots[i])}
    IN  [s EXCEPT !.open_lots = Picked(s.open_lots, DOMAIN s.open_lots \ over),
                  !.closed_lots = @ \o Picked(s.open_lots, over)]

\* Mutant: the payment takes whatever is authorised, for whichever order.
ConfirmPayment_Any(s, p, amount) ==
    LET t == Taken(Preauth(s.open_lots), amount)
    IN  [s EXCEPT !.preauth = @ - amount, !.spent = @ + amount,
                  !.open_lots = [i \in DOMAIN t |-> Spent(s.open_lots[i], p, t[i])]]

ConfirmPayment(s, p, amount) == CloseLots(Spend(s, p, amount))

Pay(s, p, amount) == ConfirmPayment(PreauthPayment(AddReady(s, amount), p, amount), p, amount)

-----------------------------------------------------------------------------
(* CollateralManager and CollateralRouter.                                 *)

HandleDeposit(d) ==
    /\ notices[d] < MaxNotices
    /\ notices' = [notices EXCEPT ![d] = @ + 1]
    /\ side_cr' = OpenLot(side_cr, d)
    /\ UNCHANGED <<requests, transfers, events, acks, order, confirms>>

CollateralReady(o, status, amount) ==
    [type |-> "CollateralReady", order |-> o, status |-> status, amount |-> amount]

InOrder(os) == Picked(OrderIds, {i \in DOMAIN OrderIds : OrderIds[i] \in os})

\* Mutant: an order that has to wait gets no answer.
Answers_Routed(os, status) ==
    [i \in DOMAIN InOrder(IF status = "CheckLater" THEN {} ELSE os) |->
        CollateralReady(InOrder(os)[i], status, OrderAmount[InOrder(os)[i]])]

Answers(os, status) ==
    [i \in DOMAIN InOrder(os) |->
        CollateralReady(InOrder(os)[i], status, OrderAmount[InOrder(os)[i]])]

\* A transfer starts at the first bridge of its route, free of charge.
FirstHop(o) == [order |-> o, hop |-> 1, amount |-> OrderAmount[o], fee |-> 0]

\* Every request is compared with the whole balance, and nothing is set aside
\* for those that are routed.  Transfers whose first hop fails (failed) are
\* answered at once.
ProcessCollateral(failed) ==
    /\ requests # {}
    /\ requests' = {}
    /\ LET ready == {o \in requests : OrderAmount[o] <= side_cr.unconfirmed}
       IN  /\ failed \subseteq ready
           /\ events' = events \o Answers(requests \ ready, "CheckLater")
                               \o Answers(failed, "NotReady")
           /\ transfers' = transfers \cup {FirstHop(o) : o \in ready \ failed}
    /\ UNCHANGED <<side_cr, acks, order, notices, confirms>>

\* All collateral of the client that is not confirmed is written off.
CloseAllLots(s) == Pay(s, "System", s.unconfirmed)

\* Mutant: the fee is not booked.
BookRecords_NoFee(s, amount, fee) == AddReady(s, amount)

\* Mutant: the fee is charged to what is ready.
BookRecords_FeeReady(s, amount, fee) ==
    LET r == AddReady(s, amount)
    IN  IF CanPreauth(r, fee)
        THEN ConfirmPayment(PreauthPayment(r, "Charges", fee), "Charges", fee) ELSE r

\* What arrived is ready, and the fee is spent.
BookRecords(s, amount, fee) == Pay(AddReady(s, amount), "Charges", fee)

TransferComplete(o, amount, fee) ==
    LET booked == CanAddReady(side_cr, amount + fee)
    IN  /\ side_cr' = IF booked THEN BookRecords(side_cr, amount, fee)
                      ELSE CloseAllLots(side_cr)
        /\ events' = Append(events,
                         CollateralReady(o, IF booked THEN "Ready" ELSE "NotReady", amount))

TransferFailed(o, amount, fee) ==
    /\ side_cr' = CloseAllLots(IF CanAddReady(side_cr, fee) THEN BookRecords(side_cr, 0, fee)
                               ELSE side_cr)
    /\ events' = Append(events, CollateralReady(o, "NotReady", amount))

\* A bridge has moved the amount for a fee; the last hop completes the route.
\* The next bridge may refuse the transfer (error): nobody is told.  When the
\* fee cannot be computed (lost), the fees of earlier hops are forgotten too.
HopComplete(t, fee, error, lost) ==
    LET amount == IF lost THEN t.amount ELSE t.amount - fee
        cumulative == IF lost THEN 0 ELSE t.fee + fee
    IN  IF t.hop = Hops
        THEN /\ transfers' = transfers \ {t}
             /\ TransferComplete(t.order, amount, cumulative)
             /\ UNCHANGED <<requests, acks, order, notices, confirms>>
        ELSE /\ transfers' = (transfers \ {t}) \cup
                  (IF error THEN {} ELSE {[t EXCEPT !.hop = @ + 1, !.amount = amount,
                                                    !.fee = cumulative]})
             /\ UNCHANGED <<side_cr, events, requests, acks, order, notices, confirms>>

\* A bridge reports that it could not move the amount.
HopFailed(t) ==
    /\ transfers' = transfers \ {t}
    /\ TransferFailed(t.order, t.amount, t.fee)
    /\ UNCHANGED <<requests, acks, order, notices, confirms>>

-----------------------------------------------------------------------------
(* The client and the solver.                                              *)

\* The client sends its orders one after the other.
NewOrder(i) ==
    /\ order[OrderIds[i]].status = "New"
    /\ \A j \in 1..(i - 1) : order[OrderIds[j]].status # "New"
    /\ order' = [order EXCEPT ![OrderIds[i]].status = "Open"]
    /\ UNCHANGED <<side_cr, requests, transfers, events, acks, notices, confirms>>

\* The request stays with the manager, the transfer on its way.
CancelOrder(o) ==
    /\ o \in Cancels /\ Known(o)
    /\ order' = [order EXCEPT ![o].status = "Cancelled"]
    /\ UNCHANGED <<side_cr, requests, transfers, events, acks, notices, confirms>>

\* Mutant: orders of the client are served side by side.
Served_Any(i) == TRUE

\* An order is served once those before it have left client_orders.
Served(i) == \A j \in 1..(i - 1) : ~Known(OrderIds[j])

\* Solver::manage_collateral: the client's oldest order is served.
ManageCollateral(i) ==
    /\ order[OrderIds[i]].status = "Open" /\ Served(i)
    /\ order' = [order EXCEPT ![OrderIds[i]].status = "ManageCollateral"]
    /\ requests' = requests \cup {OrderIds[i]}
    /\ UNCHANGED <<side_cr, transfers, events, acks, notices, confirms>>

\* The amount is authorised if there is enough of it; the answer is an event
\* behind those that wait (evs).
AskPreauth(o, amount, evs) ==
    LET approved == CanPreauth(side_cr, amount)
    IN  /\ side_cr' = IF approved THEN PreauthPayment(side_cr, o, amount) ELSE side_cr
        /\ events' = Append(evs, [type |-> "PreAuthResponse", order |-> o,
                         status |-> IF approved THEN "Approved" ELSE "NotEnoughFunds"])

\* The amount authorised is spent, with the sequence numbers of its deposits.
AskConfirm(o, amount) ==
    LET paid == CanConfirm(side_cr, amount)
    IN  /\ side_cr' = IF paid THEN ConfirmPayment(side_cr, o, amount) ELSE side_cr
        /\ events' = Append(events, [type |-> "ConfirmResponse", order |-> o,
                         status |-> IF paid THEN "Authorized" ELSE "NotEnoughFunds",
                         seq_nums |-> IF paid THEN SeqNums(side_cr, o, amount) ELSE <<>>])

\* Payment is authorised, and the index order manager acknowledges.
RoutingReady(o, amount) ==
    /\ order' = [order EXCEPT ![o].routed = amount]
    /\ AskPreauth(o, amount, Tail(events))
    /\ acks' = Append(acks, o)

\* The order is put back, unless it is too old or another one has waited long
\* enough (expired: time is not modelled).
RoutingCheckLater(o, expired) ==
    /\ order' = [order EXCEPT ![o].status = IF expired THEN "Failed" ELSE "Open"]
    /\ events' = Tail(events)
    /\ UNCHANGED <<side_cr, acks>>

\* The second of the two answers an order waits for makes it ready.
MadeReady(o) ==
    [order EXCEPT ![o].status = IF @ = "Ready" THEN "Queued" ELSE "Ready"]

HandleCollateralReady(expired) ==
    /\ events # <<>> /\ Head(events).type = "CollateralReady"
    /\ LET e == Head(events)
       IN  \/ /\ ~Known(e.order)
              /\ events' = Tail(events)
              /\ UNCHANGED <<side_cr, acks, order>>
           \/ Known(e.order) /\ e.status = "Ready" /\ RoutingReady(e.order, e.amount)
           \/ Known(e.order) /\ e.status = "CheckLater" /\ RoutingCheckLater(e.order, expired)
           \/ /\ Known(e.order) /\ e.status = "NotReady"
              /\ order' = [order EXCEPT ![e.order].status = "Failed"]
              /\ events' = Tail(events)
              /\ UNCHANGED <<side_cr, acks>>
    /\ UNCHANGED <<requests, transfers, notices, confirms>>

\* NotEnoughFunds is only logged.
HandlePreAuthResponse ==
    /\ events # <<>> /\ Head(events).type = "PreAuthResponse"
    /\ LET e == Head(events)
       IN  order' = IF Known(e.order) /\ e.status = "Approved" THEN MadeReady(e.order) ELSE order
    /\ events' = Tail(events)
    /\ UNCHANGED <<side_cr, requests, transfers, acks, notices, confirms>>

HandleReadyAck ==
    /\ acks # <<>>
    /\ order' = IF Known(Head(acks)) THEN MadeReady(Head(acks)) ELSE order
    /\ acks' = Tail(acks)
    /\ UNCHANGED <<side_cr, requests, transfers, events, notices, confirms>>

\* Solver::mint_index_order, once the order is filled.
MintIndexOrder(o) ==
    /\ order[o].status = "Queued"
    /\ confirms[o] < MaxConfirms
    /\ confirms' = [confirms EXCEPT ![o] = @ + 1]
    /\ AskConfirm(o, order[o].routed)
    /\ UNCHANGED <<requests, transfers, acks, order, notices>>

\* The index is minted with the sequence number of the last deposit used.
HandleConfirmResponse ==
    /\ events # <<>> /\ Head(events).type = "ConfirmResponse"
    /\ LET e == Head(events)
       IN  order' = IF ~Known(e.order) THEN order
                    ELSE IF e.status = "NotEnoughFunds"
                    THEN [order EXCEPT ![e.order].status = "Failed"]
                    ELSE [order EXCEPT ![e.order].status = "Minted",
                                       ![e.order].seq_num =
                                           IF e.seq_nums = <<>> THEN 0 ELSE Last(e.seq_nums)]
    /\ events' = Tail(events)
    /\ UNCHANGED <<side_cr, requests, transfers, acks, notices, confirms>>

\* Mutant: an order is refused after it was paid for.
RefuseOrder_Late(o) ==
    /\ order[o].status = "Queued"
    /\ order' = [order EXCEPT ![o].status = "Failed"]
    /\ UNCHANGED <<side_cr, requests, transfers, events, acks, notices, confirms>>

\* The order is refused before it is paid for; what is authorised stays so.
RefuseOrder(o) ==
    /\ order[o].status = "Queued" /\ confirms[o] = 0
    /\ order' = [order EXCEPT ![o].status = "Failed"]
    /\ UNCHANGED <<side_cr, requests, transfers, events, acks, notices, confirms>>

ClientStep ==
    \/ \E d \in Deposits : HandleDeposit(d)
    \/ \E i \in DOMAIN OrderIds : NewOrder(i)
    \/ \E o \in Orders : CancelOrder(o)

BridgeStep ==
    \E t \in transfers :
        \/ \E fee \in Fees, error \in {FALSE, BridgeErrors}, lost \in {FALSE, FeeErrors} :
               HopComplete(t, fee, error, lost)
        \/ HopFailed(t)

SolverStep ==
    \/ \E i \in DOMAIN OrderIds : ManageCollateral(i)
    \/ \E failed \in IF BridgeErrors THEN SUBSET requests ELSE {{}} : ProcessCollateral(failed)
    \/ \E expired \in BOOLEAN : HandleCollateralReady(expired)
    \/ HandlePreAuthResponse
    \/ HandleReadyAck
    \/ \E o \in Orders : MintIndexOrder(o) \/ RefuseOrder(o)
    \/ HandleConfirmResponse

Next == ClientStep \/ BridgeStep \/ SolverStep

Spec == Init /\ [][Next]_vars

-----------------------------------------------------------------------------
(* Properties.                                                             *)

AllLots == side_cr.open_lots \o side_cr.closed_lots

\* Type invariant.  Natural numbers here say that no balance, no lot and no
\* spend of a lot is ever overdrawn.
TypeOK ==
    /\ side_cr \in CollateralSide
    /\ requests \subseteq Orders
    /\ transfers \subseteq Transfer
    /\ \A i \in DOMAIN events : events[i].order \in Orders
    /\ acks \in Seq(Orders)
    /\ order \in [Orders -> SolverOrder]
    /\ notices \in [Deposits -> 0..MaxNotices]
    /\ confirms \in [Orders -> 0..MaxConfirms]

\* The balances of the position are what its lots add up to.
BalancesMatchLots ==
    /\ side_cr.unconfirmed = Total(Unconfirmed(AllLots))
    /\ side_cr.ready = Total(Ready(AllLots))
    /\ side_cr.preauth = Total(Preauth(AllLots))
    /\ side_cr.spent = Total(SpentIn(AllLots))

\* Every deposit the chain reported is in the balances once, whatever was
\* routed, authorised, spent or written off since.
DepositsAccounted ==
    side_cr.unconfirmed + side_cr.ready + side_cr.preauth + side_cr.spent
        = SumFunctionOnSet(DepositAmount, {d \in Deposits : notices[d] > 0})

\* What a lot has authorised and spent is what its payments say.
LotsMatchSpends ==
    \A lot \in ToSet(AllLots) :
        /\ lot.preauth = Total([p \in PaymentIds |-> lot.spends[p].preauth])
        /\ lot.spent = Total([p \in PaymentIds |-> lot.spends[p].spent])

\* An order is minted for exactly what was routed for it, with the sequence
\* number of a deposit that paid for it.
MintedPaid ==
    \A o \in Orders : order[o].status = "Minted" =>
        /\ Total(Paid(AllLots, o)) = order[o].routed
        /\ \E lot \in ToSet(AllLots) : lot.seq_num = order[o].seq_num /\ lot.spends[o].spent > 0

\* An order whose collateral is managed has a request, a transfer or an
\* answer outstanding, and a request nobody else answers.
Attended ==
    \A o \in Orders : order[o].status = "ManageCollateral" =>
        \/ o \in requests
        \/ \E t \in transfers : t.order = o
        \/ \E i \in DOMAIN events : events[i].order = o
        \/ o \in ToSet(acks)

\* What is on its way to the exchange is covered by what the client deposited
\* and has not been confirmed there.
RoutedCovered ==
    Total([t \in transfers |-> t.amount + t.fee]) <= side_cr.unconfirmed

\* Collateral that was spent for an order is minted, or about to be.
PaidMinted ==
    \A o \in Orders : Total(Paid(AllLots, o)) > 0 =>
        \/ order[o].status = "Minted"
        \/ \E i \in DOMAIN events : events[i].type = "ConfirmResponse" /\ events[i].order = o

\* What routing announced as ready is there when the solver takes ownership of
\* it: it is never told NotEnoughFunds for an order whose collateral arrived.
ReadyReserved ==
    LET promised(e) == IF e.type = "CollateralReady" /\ e.status = "Ready" THEN e.amount ELSE 0
    IN  side_cr.ready >= Total([i \in DOMAIN events |-> promised(events[i])])

\* The accounts of CollateralPosition agree with each other, with the chain and
\* with what the answers to the solver promise.
AccountsAgree == BalancesMatchLots /\ DepositsAccounted /\ LotsMatchSpends /\ ReadyReserved

\* Every order on its way from request to mint is attended to and covered, and
\* what is paid and what is minted correspond, whatever transfers fail.
RoutesSettle == Attended /\ RoutedCovered /\ PaidMinted /\ MintedPaid

\* A route that completes leaves nothing dangling: all that was taken for the
\* order is confirmed, or charged as a fee.
RouteBooked ==
    [][LET e == Last(events')
       IN  Len(events') > Len(events) /\ e.type = "CollateralReady" /\ e.status = "Ready" =>
               side_cr.unconfirmed - side_cr'.unconfirmed = OrderAmount[e.order]]_vars

\* A payment takes from each lot no more than what was authorised there for
\* the same order, whatever other orders have authorised in the same lot.
SpendsOwn ==
    [][\A lot \in ToSet(AllLots), o \in Orders :
          \A after \in ToSet(AllLots') : after.seq_num = lot.seq_num =>
              after.spends[o].spent <= lot.spends[o].spent + lot.spends[o].preauth]_vars

=============================================================================
