---------------------------- MODULE BatchManager ----------------------------
(***************************************************************************)
(* From a ready index order to its mint: the engage, batch and mint steps  *)
(* of Solver::solve, the quantities SimpleSolver gives a batch, the batch  *)
(* manager that shares out the fills of a batch and carries the rest over, *)
(* and what the index order manager keeps of an order's collateral.        *)
(*                                                                         *)
(* All orders buy the same index.  Amounts are whole multiples of the      *)
(* smallest amount that matters (zero_threshold); divisions round down.    *)
(* Index quantities and collateral have the same unit: an index costs 1,   *)
(* so that the collateral a fill spends is the quantity it fills.  Asset a *)
(* is counted in its own unit, Weight[a] of which make one index.          *)
(*                                                                         *)
(* The solver thread handles one event or one step of a tick at a time and *)
(* starts a tick only when no event waits (tick); clients and the exchange *)
(* act at any time.                                                        *)
(***************************************************************************)
EXTENDS Integers, Sequences, FiniteSets, FiniteSetsExt, SequencesExt

CONSTANTS
    Orders,          \* index orders, each of a client of its own
    Assets,          \* assets of the basket
    Weight,          \* quantity of each asset in one index
    Collateral,      \* collateral of each order
    Slots,           \* batches in the batch manager at one time (bound)
    MaxBatchSize,    \* orders in a batch
    MaxOrderVolley,  \* SimpleSolver::max_order_volley_size
    MaxVolley,       \* SimpleSolver::max_volley_size
    MinAssetVolley,  \* SimpleSolver::min_asset_volley_size
    VolleyStep,      \* SimpleSolver::asset_volley_step_size
    MaxTotalVolley,  \* SimpleSolver::max_total_volley_size
    MinTotalVolley,  \* SimpleSolver::min_total_volley_available
    Liquidity,       \* liquidities of the market a tick may find
    ZeroThreshold,   \* zero_threshold, tolerance
    MintPct, FillPct,\* mint_threshold and fill_threshold, in percent
    CancelBy,        \* orders whose client may cancel
    Unpriced,        \* whether a price may be missing
    Unsent,          \* sets of assets whose order the exchange may not be sent
    MaxShort         \* orders the exchange closes before they are filled (bound)

ASSUME ConstantsAssumption ==
    /\ IsFiniteSet(Orders) /\ IsFiniteSet(Assets) /\ Assets # {}
    /\ IsFiniteSet(Slots)
    /\ Weight \in [Assets -> Nat \ {0}]
    /\ {Collateral, MaxBatchSize, MaxOrderVolley, MaxVolley, VolleyStep, ZeroThreshold}
         \subseteq Nat \ {0}
    /\ {MinAssetVolley, MaxTotalVolley, MinTotalVolley, MaxShort} \subseteq Nat
    /\ Liquidity \subseteq Nat
    /\ MintPct \in 0..100 /\ FillPct \in MintPct..100
    /\ CancelBy \subseteq Orders /\ Unpriced \in BOOLEAN
    /\ Unsent \subseteq SUBSET Assets

VARIABLES
    tick,          \* step of Solver::solve to run next, or "idle"
    order,         \* SolverOrder
    update,        \* IndexOrderUpdate of the order in the index order manager
    put_back,      \* orders put back for the client to be served again
    ready_orders,  \* Solver::ready_orders
    ready_mints,   \* Solver::ready_mints
    engage_event,  \* EngageIndexOrder waiting for the solver: <<>> or <<event>>
    confirms,      \* ConfirmResponse events waiting for the solver
    batch,         \* engagement and BatchOrderStatus of each slot
    carry_overs,   \* quantity carried over of each asset
    bm_mints,      \* BatchManager::ready_mints
    total_volley,  \* BatchManager::total_volley_size
    short,         \* orders the exchange closed early
    bought,        \* quantity of each asset bought so far (history)
    paid,          \* confirm_payment calls for each order (history)
    minted,        \* mint_index calls for each order (history)
    answer         \* how the client was told its order ended (history)

vars == <<tick, order, update, put_back, ready_orders, ready_mints, engage_event,
          confirms, batch, carry_overs, bm_mints, total_volley, short, bought, paid, minted, answer>>

Ticks == {"idle", "serve", "engage", "batches"}

Status == {"Open", "Ready", "Engaged", "PartlyMintable", "FullyMintable", "Minted",
           "InternalError"}

SolverOrder == [status: Status, remaining: Int, engaged: Int, carried: Int, spent: Int]

\* Where the update is: order_updates, engaged_updates, or in neither.
IndexOrderUpdate == [place: {"queued", "engaged", "closed"}, remaining: Int]

SolverOrderEngagement == [order: Orders, quantity: Nat, new: Int, filled: Nat]

\* total: quantity of the batch before it is capped, the denominator of the
\* contribution fractions.  ordered: quantity in the asset orders, padded.
\* live: what is left of each asset order on the exchange; pending: assets
\* whose order the exchange has not closed.
Batch == [phase: {"free", "engaging", "ready", "sent"},
          engaged_orders: Seq(SolverOrderEngagement),
          total: Nat, ordered: Nat,
          position: [Assets -> Nat], open: [Assets -> Nat],
          live: [Assets -> Nat], pending: SUBSET Assets, cancelled: SUBSET Assets]

NoQuantity == [a \in Assets |-> 0]

Free == [phase |-> "free", engaged_orders |-> <<>>, total |-> 0, ordered |-> 0,
         position |-> NoQuantity, open |-> NoQuantity, live |-> NoQuantity,
         pending |-> {}, cancelled |-> {}]

Init ==
    /\ tick = "idle"
    /\ order = [o \in Orders |-> [status |-> "Open", remaining |-> 0, engaged |-> 0,
                                  carried |-> 0, spent |-> 0]]
    /\ update = [o \in Orders |-> [place |-> "queued", remaining |-> Collateral]]
    /\ put_back = {}
    /\ ready_orders = <<>>
    /\ ready_mints = <<>>
    /\ engage_event = <<>>
    /\ confirms = <<>>
    /\ batch = [b \in Slots |-> Free]
    /\ carry_overs = NoQuantity
    /\ bm_mints = {}
    /\ total_volley = 0
    /\ short = 0
    /\ bought = NoQuantity
    /\ paid = [o \in Orders |-> 0]
    /\ minted = [o \in Orders |-> 0]
    /\ answer = [o \in Orders |-> "none"]

-----------------------------------------------------------------------------
(***************************************************************************)
(* The part of the state that filling and completing a batch change: the   *)
(* operators below take it and return it, because the code chains them.    *)
(***************************************************************************)
Books == [order |-> order, batch |-> batch, carry |-> carry_overs, mints |-> bm_mints,
          volley |-> total_volley, ready |-> ready_orders, mintable |-> ready_mints]

Become(s) ==
    /\ order' = s.order
    /\ batch' = s.batch
    /\ carry_overs' = s.carry
    /\ bm_mints' = s.mints
    /\ total_volley' = s.volley
    /\ ready_orders' = s.ready
    /\ ready_mints' = s.mintable

EngagedOrders(bt) == {bt.engaged_orders[i].order : i \in DOMAIN bt.engaged_orders}

\* Mutant: every order may take the whole position.
AvailableQuantity_Whole(bt, e) ==
    Min({Min({bt.position[a], Weight[a] * e.quantity}) \div Weight[a] : a \in Assets})

\* What the fills so far give the engagement: its fraction of the scarcest
\* position, at most what it contributed.
AvailableQuantity(bt, e) ==
    Min({Min({(bt.position[a] * e.quantity) \div bt.total, Weight[a] * e.quantity})
            \div Weight[a] : a \in Assets})

FilledDelta(bt, e) == AvailableQuantity(bt, e) - e.filled

\* fill_rate > pct of the collateral of the order
FillRateAbove(o, pct) == 100 * o.spent > pct * (o.spent + o.remaining + o.engaged)

Improvable == {"Engaged", "PartlyMintable"}

IsFilled(s, b, e) ==
    /\ s.order[e.order].status \in Improvable
    /\ FilledDelta(s.batch[b], e) >= ZeroThreshold

\* fill_index_order returns an error: the order is in no state to be filled,
\* or it was filled and the index order manager does not know it any more.
FillFails(s, b, e) ==
    \/ s.order[e.order].status \notin Improvable \cup {"FullyMintable"}
    \/ IsFilled(s, b, e) /\ update[e.order].place = "closed"

FilledOrder(o, delta) ==
    LET f == [o EXCEPT !.engaged = @ - delta, !.spent = @ + delta]
    IN  [f EXCEPT !.status =
            IF FillRateAbove(f, FillPct) THEN "FullyMintable"
            ELSE IF @ = "Engaged" /\ FillRateAbove(f, MintPct) THEN "PartlyMintable"
            ELSE @]

FillError(s, b) ==
    \E i \in DOMAIN s.batch[b].engaged_orders : FillFails(s, b, s.batch[b].engaged_orders[i])

\* Mutant: fills stop at the first order there is nothing to fill of.
LastFilled_Stopped(s, b) ==
    LET es == s.batch[b].engaged_orders
    IN  Min({Len(es)} \cup {i \in DOMAIN es : FillFails(s, b, es[i]) \/ ~IsFilled(s, b, es[i])})

\* Fills stop at the first order that fails, which is itself still filled.
LastFilled(s, b) ==
    LET es == s.batch[b].engaged_orders
    IN  Min({Len(es)} \cup {i \in DOMAIN es : FillFails(s, b, es[i])})

\* Lots for the filled indexes are taken off the open lots of every asset.
AllocateLots(bt, filled) == [a \in Assets |-> bt.open[a] - Weight[a] * filled]

FillBatchOrders(s, b) ==
    LET bt == s.batch[b]
        es == bt.engaged_orders
        filled == {i \in 1..LastFilled(s, b) : IsFilled(s, b, es[i])}
        delta(i) == IF i \in filled THEN FilledDelta(bt, es[i]) ELSE 0
        orders == [o \in Orders |->
                     IF \E i \in filled : es[i].order = o
                     THEN FilledOrder(s.order[o],
                                      delta(CHOOSE i \in filled : es[i].order = o))
                     ELSE s.order[o]]
    IN  [s EXCEPT
           !.order = orders,
           !.mints = @ \cup {es[i].order : i \in {i \in filled :
                        /\ s.order[es[i].order].status = "Engaged"
                        /\ FillRateAbove(orders[es[i].order], MintPct)}},
           !.batch[b].engaged_orders = [i \in DOMAIN es |->
                        [es[i] EXCEPT !.filled = @ + delta(i)]],
           !.batch[b].open = AllocateLots(bt, MapThenSumSet(delta, filled))]

\* Mutant: the batch keeps the collateral it carries over.
Continued_Kept(o) == IF o.status \in Improvable THEN [o EXCEPT !.carried = o.engaged] ELSE o

\* What complete_batch does with an order of the batch it closes: the
\* collateral it did not spend stays with an order that can improve.
Continued(o) ==
    IF o.status \in Improvable THEN [o EXCEPT !.carried = o.engaged, !.engaged = 0] ELSE o

\* Mutant: the lots carried over before are replaced.
CarriedOver_Replaced(s, b) ==
    [a \in Assets |-> IF s.batch[b].open[a] > 0 THEN s.batch[b].open[a] ELSE s.carry[a]]

CarriedOver(s, b) == [a \in Assets |-> s.carry[a] + s.batch[b].open[a]]

\* The lots left over are carried over, every order that reached its fill
\* threshold or waited long enough (waited) is handed over for minting, and
\* the other orders of the batch go back to the solver.
CompleteBatch(s, b, waited) ==
    LET bt == s.batch[b]
        ripe == {o \in s.mints : \/ s.order[o].status = "FullyMintable"
                                 \/ s.order[o].status = "PartlyMintable" /\ o \in waited}
        orders == [o \in Orders |->
                     IF o \in ripe THEN [s.order[o] EXCEPT !.status = "FullyMintable"]
                     ELSE s.order[o]]
        es == bt.engaged_orders
        continued == SelectSeq([i \in DOMAIN es |-> es[i].order],
                               LAMBDA o : orders[o].status \in Improvable)
    IN  [order |-> [o \in Orders |-> IF o \in EngagedOrders(bt) THEN Continued(orders[o])
                                     ELSE orders[o]],
         batch |-> [s.batch EXCEPT ![b].open = NoQuantity],
         carry |-> CarriedOver(s, b),
         mints |-> s.mints \ ripe,
         volley |-> s.volley - bt.ordered,
         ready |-> s.ready \o continued,
         mintable |-> s.mintable \o SetToSeq(ripe)]

-----------------------------------------------------------------------------
(* Solver::solve: mint, serve, engage and batches, in that order.          *)

\* The order's collateral is routed and its payment authorised.
OrderReady(o) ==
    /\ tick = "idle"
    /\ order[o].status = "Open"
    /\ update[o].place = "queued"
    /\ order' = [order EXCEPT ![o].status = "Ready", ![o].remaining = Collateral]
    /\ ready_orders' = Append(ready_orders, o)
    /\ UNCHANGED <<tick, update, put_back, ready_mints, engage_event, confirms, batch,
                   carry_overs, bm_mints, total_volley, short, bought, paid, minted, answer>>

\* The tick starts when no event waits.
MintIndexes ==
    /\ tick = "idle"
    /\ engage_event = <<>> /\ confirms = <<>>
    /\ tick' = "serve"
    /\ confirms' = ready_mints
    /\ paid' = [o \in Orders |-> paid[o] + Cardinality({i \in DOMAIN ready_mints : ready_mints[i] = o})]
    /\ ready_mints' = <<>>
    /\ UNCHANGED <<order, update, put_back, ready_orders, engage_event, batch, carry_overs,
                   bm_mints, total_volley, short, bought, minted, answer>>

\* Orders put back whose waiting period is over (os) are ready again, if their
\* client did not cancel them.
ServeMoreClients(os) ==
    /\ tick = "serve"
    /\ tick' = "engage"
    /\ ready_orders' = ready_orders \o SetToSeq({o \in os : answer[o] = "none"})
    /\ put_back' = put_back \ os
    /\ UNCHANGED <<order, update, ready_mints, engage_event, confirms, batch, carry_overs,
                   bm_mints, total_volley, short, bought, paid, minted, answer>>

NextOrders == SubSeq(ready_orders, 1, Min({Len(ready_orders), MaxBatchSize}))
OtherOrders == SubSeq(ready_orders, Len(NextOrders) + 1, Len(ready_orders))

\* Usable collateral of an order: what remains and what a batch left of it.
Usable(o) == Min({order[o].remaining + order[o].carried, MaxOrderVolley})

\* SimpleSolver: each order gets its share of the liquidity liq, then the
\* batch is capped to the volley that is left.  The quantity ordered of the
\* assets is the one before the cap, padded.
FittingQuantity(os, liq) ==
    LET total == MapThenSumSet(Usable, ToSet(os))
    IN  [o \in ToSet(os) |-> Min({Usable(o), (liq * Usable(o)) \div total})]

VolleyLeft == MaxTotalVolley - total_volley

CappedQuantity(fit, total) ==
    LET max == Min({MaxVolley, VolleyLeft})
    IN  [o \in DOMAIN fit |-> IF total < max THEN fit[o] ELSE (fit[o] * max) \div total]

Padded(total) ==
    VolleyStep * ((Max({total, MinAssetVolley}) + VolleyStep - 1) \div VolleyStep)

\* IndexOrderManager::order_failed and cancel_index_order: the client is told,
\* and the update is closed unless it is fully engaged.
FailOrders(os) ==
    [o \in Orders |-> IF o \in os /\ update[o].place = "queued"
                      THEN [update[o] EXCEPT !.place = "closed"] ELSE update[o]]

Answer(os, what) ==
    answer' = [o \in Orders |-> IF o \in os /\ answer[o] = "none" THEN what ELSE answer[o]]

\* match_engage_one: the update takes the new collateral, and an update that
\* is fully engaged takes none.
CanEngage(u, new) == u.place = "queued" \/ (u.place = "engaged" /\ new < ZeroThreshold)

Matched(u, new) == Min({new, u.remaining})

\* Mutant: an update with nothing left stays in the queue.
EngagedUpdate_Queued(u, new) == [u EXCEPT !.remaining = @ - Matched(u, new)]

EngagedUpdate(u, new) ==
    IF u.place = "engaged" THEN u
    ELSE [place |-> IF u.remaining - Matched(u, new) < ZeroThreshold
                    THEN "engaged" ELSE "queued",
          remaining |-> u.remaining - Matched(u, new)]

EngagedIndexOrder(o, u, new) ==
    IF u.place = "engaged"
    THEN [order |-> o, engaged |-> new, remaining |-> 0]
    ELSE [order |-> o,
          engaged |-> IF new - Matched(u, new) < ZeroThreshold THEN new ELSE Matched(u, new),
          remaining |-> u.remaining - Matched(u, new)]

\* The index order manager engages the orders one after the other and gives
\* up, without an event, at the first it cannot engage.
EngageOrders(b, us, es) ==
    LET refused == {i \in DOMAIN es : ~CanEngage(us[es[i].order], es[i].new)}
        done == IF refused = {} THEN DOMAIN es ELSE 1..(Min(refused) - 1)
        new(o) == es[CHOOSE i \in done : es[i].order = o].new
    IN  /\ update' = [o \in Orders |-> IF o \in {es[i].order : i \in done}
                                       THEN EngagedUpdate(us[o], new(o)) ELSE us[o]]
        /\ engage_event' =
             IF refused # {} THEN <<>>
             ELSE <<[batch |-> b,
                     reports |-> {EngagedIndexOrder(es[i].order, us[es[i].order], es[i].new)
                                    : i \in DOMAIN es}]>>

\* Engagements of negligible size are left out: a mintable order among them
\* is minted as it is, any other is refused.
EngageSolved(b, os, liq) ==
    LET fit == FittingQuantity(os, liq)
        total == MapThenSumSet(LAMBDA o : fit[o], DOMAIN fit)
        quantity == CappedQuantity(fit, total)
        engaged == SelectSeq(os, LAMBDA o : ZeroThreshold < quantity[o])
        unengaged == SelectSeq(os, LAMBDA o : ZeroThreshold >= quantity[o])
        unusable == {o \in ToSet(unengaged) : order[o].status # "PartlyMintable"}
        es == [i \in DOMAIN engaged |->
                 [order |-> engaged[i], quantity |-> quantity[engaged[i]],
                  new |-> quantity[engaged[i]] - order[engaged[i]].carried, filled |-> 0]]
    IN  /\ ready_mints' = ready_mints \o SelectSeq(unengaged, LAMBDA o : o \notin unusable)
        /\ Answer(unusable, "Nak")
        /\ IF engaged = <<>>
           THEN update' = FailOrders(unusable) /\ UNCHANGED <<batch, engage_event>>
           ELSE /\ batch' = [batch EXCEPT ![b] =
                                [Free EXCEPT !.phase = "engaging", !.engaged_orders = es,
                                             !.total = total, !.ordered = Padded(total)]]
                /\ EngageOrders(b, FailOrders(unusable), es)
        /\ UNCHANGED <<order, put_back>>

\* An asset whose liquidity is below the smallest order fails the orders.
\* Clients are told one after the other, up to an order that is minted.
EngageIlliquid(os) ==
    LET minted_ones == {i \in DOMAIN os : answer[os[i]] = "Invoice"}
        told == {os[i] : i \in {i \in DOMAIN os : \A j \in minted_ones : i < j}}
    IN  /\ order' = [o \in Orders |-> IF o \in ToSet(os)
                                      THEN [order[o] EXCEPT !.status = "InternalError"]
                                      ELSE order[o]]
        /\ update' = FailOrders(told)
        /\ Answer(told, "Nak")
        /\ UNCHANGED <<batch, engage_event, put_back, ready_mints>>

\* Mutant: the orders get their status back, and no queue.
EngageUnpriced_Dropped(os) ==
    /\ order' = [o \in Orders |-> IF o \in ToSet(os)
                                  THEN [order[o] EXCEPT !.status = "Ready"] ELSE order[o]]
    /\ UNCHANGED <<update, answer, batch, engage_event, put_back, ready_mints>>

\* A price is missing: the orders are put back.
EngageUnpriced(os) ==
    /\ order' = [o \in Orders |-> IF o \in ToSet(os)
                                  THEN [order[o] EXCEPT !.status = "Ready"] ELSE order[o]]
    /\ put_back' = put_back \cup ToSet(os)
    /\ UNCHANGED <<update, answer, batch, engage_event, ready_mints>>

\* The orders are taken off ready_orders first, whatever comes of them; with
\* too little volley left the strategy returns nothing.
EngageMoreOrders ==
    /\ tick = "engage"
    /\ tick' = "batches"
    /\ UNCHANGED <<confirms, carry_overs, bm_mints, total_volley, short, bought, paid, minted>>
    /\ IF NextOrders = <<>> \/ {b \in Slots : batch[b].phase = "free"} = {}
       THEN UNCHANGED <<ready_orders, order, update, put_back, ready_mints, engage_event,
                        batch, answer>>
       ELSE /\ ready_orders' = OtherOrders
            /\ \/ /\ VolleyLeft < MinTotalVolley
                  /\ UNCHANGED <<order, update, put_back, ready_mints, engage_event,
                                 batch, answer>>
               \/ /\ VolleyLeft >= MinTotalVolley
                  /\ \/ \E liq \in Liquidity :
                         IF liq < MinAssetVolley THEN EngageIlliquid(NextOrders)
                         ELSE EngageSolved(CHOOSE b \in Slots : batch[b].phase = "free",
                                           NextOrders, liq)
                     \/ Unpriced /\ EngageUnpriced(NextOrders)

\* Every asset is ordered in the quantity that was engaged of it.
BatchOrder(bt) == [a \in Assets |-> Weight[a] * bt.ordered]

\* Mutant: the position carried in stays open, with no order to close it.
CarriedIn_Open(bt) ==
    LET sent == {a \in Assets : carry_overs[a] = 0}
    IN  [bt EXCEPT !.phase = "sent", !.position = carry_overs, !.open = carry_overs,
                   !.live = [a \in Assets |-> IF a \in sent THEN Weight[a] * bt.ordered ELSE 0],
                   !.pending = sent]

\* Quantities carried over are used instead of an asset order, and the
\* position of such an asset is closed at once.
CarriedIn(bt) ==
    LET carried == {a \in Assets : carry_overs[a] > 0}
        sent == {a \in Assets \ carried : ZeroThreshold < BatchOrder(bt)[a]}
    IN  [bt EXCEPT !.phase = "sent",
                   !.position = carry_overs,
                   !.open = carry_overs,
                   !.live = [a \in Assets |-> IF a \in sent THEN BatchOrder(bt)[a] ELSE 0],
                   !.pending = sent,
                   !.cancelled = carried]

IsCancelled(bt) == bt.phase = "sent" /\ bt.cancelled = Assets

SendBatch(b) ==
    [Books EXCEPT !.batch[b] = CarriedIn(@),
                  !.carry = NoQuantity,
                  !.volley = @ + batch[b].ordered]

\* process_batches: the ready batch is sent, filled from what was carried in
\* and completed if nothing of it is on the exchange; then the batches that
\* are closed are dropped.  After an error nothing of what follows is done: a
\* batch that could not be sent keeps the asset orders that were (not unsent).
ProcessBatches(unsent, waited) ==
    /\ tick = "batches"
    /\ tick' = "idle"
    /\ LET ready == {b \in Slots : batch[b].phase = "ready"}
           failed(s, b) == [s EXCEPT
               !.batch[b].live = [a \in Assets |-> IF a \in unsent THEN 0 ELSE @[a]],
               !.batch[b].pending = @ \ unsent]
           completed(s, b) == IF IsCancelled(s.batch[b]) THEN CompleteBatch(s, b, waited) ELSE s
           cleanup(s) == [s EXCEPT !.batch = [b \in Slots |->
                            IF IsCancelled(s.batch[b]) THEN Free ELSE s.batch[b]]]
           processed(b) ==
               LET s == SendBatch(b)
                   f == FillBatchOrders(s, b)
               IN  IF unsent \cap s.batch[b].pending # {} THEN failed(s, b)
                   ELSE IF FillError(s, b) THEN f
                   ELSE cleanup(completed(f, b))
       IN  IF ready = {} THEN Become(cleanup(Books))
           ELSE \E b \in ready : Become(processed(b))
    /\ UNCHANGED <<update, put_back, engage_event, confirms, short, bought, paid, minted, answer>>

-----------------------------------------------------------------------------
(* Events the solver handles between two ticks.                            *)

\* EngageIndexOrder: the collateral of each order becomes what it carried and
\* what was engaged now, and the batch may be sent.
HandleEngageIndexOrder ==
    /\ tick = "idle"
    /\ engage_event # <<>>
    /\ LET ev == Head(engage_event)
           report(o) == CHOOSE r \in ev.reports : r.order = o
       IN  /\ order' = [o \in Orders |->
                IF o \notin EngagedOrders(batch[ev.batch]) THEN order[o]
                ELSE [order[o] EXCEPT !.engaged = report(o).engaged + order[o].carried,
                                      !.remaining = report(o).remaining,
                                      !.carried = 0,
                                      !.status = IF @ = "Ready" THEN "Engaged" ELSE @]]
           /\ batch' = [batch EXCEPT ![ev.batch].phase = "ready"]
    /\ engage_event' = <<>>
    /\ UNCHANGED <<tick, update, put_back, ready_orders, ready_mints, confirms, carry_overs,
                   bm_mints, total_volley, short, bought, paid, minted, answer>>

\* k more of the asset are bought for the batch, in a lot that is open.
WithLot(bt, a, k) ==
    [bt EXCEPT !.position[a] = @ + k, !.open[a] = @ + k, !.live[a] = @ - k]

\* The exchange is done with the order for the asset.
WithCancel(bt, a) ==
    [bt EXCEPT !.cancelled = @ \cup {a}, !.pending = @ \ {a}, !.live[a] = 0]

\* OpenLot: k more of asset a bought for batch b.
HandleNewLot(b, a, k) ==
    /\ tick = "idle"
    /\ batch[b].phase = "sent"
    /\ k \in 1..batch[b].live[a]
    /\ Become(FillBatchOrders([Books EXCEPT !.batch[b] = WithLot(@, a, k)], b))
    /\ bought' = [bought EXCEPT ![a] = @ + k]
    /\ UNCHANGED <<tick, update, put_back, engage_event, confirms, short, paid, minted, answer>>

\* Cancel: the exchange is done with the asset order, filled or not.
HandleCancelOrder(b, a, waited) ==
    /\ tick = "idle"
    /\ batch[b].phase = "sent"
    /\ a \in batch[b].pending
    /\ batch[b].live[a] = 0 \/ short < MaxShort
    /\ short' = IF batch[b].live[a] = 0 THEN short ELSE short + 1
    /\ LET s == [Books EXCEPT !.batch[b] = WithCancel(@, a)]
       IN  Become(IF IsCancelled(s.batch[b]) THEN CompleteBatch(s, b, waited) ELSE s)
    /\ UNCHANGED <<tick, update, put_back, engage_event, confirms, bought, paid, minted, answer>>

\* ConfirmResponse: the index is minted on chain, and the client invoiced if
\* the index order manager finds the update among the engaged ones.  All that
\* was authorised is spent the first time: a second response says that there
\* are not enough funds, and the order fails.
HandleConfirmResponse ==
    /\ tick = "idle"
    /\ confirms # <<>>
    /\ LET o == Head(confirms)
       IN  \/ /\ answer[o] # "none"
              /\ UNCHANGED <<order, update, minted, answer>>
           \/ /\ answer[o] = "none" /\ minted[o] = 0
              /\ minted' = [minted EXCEPT ![o] = 1]
              /\ IF update[o].place = "engaged"
                 THEN /\ update' = [update EXCEPT ![o].place = "closed"]
                      /\ order' = [order EXCEPT ![o].status = "Minted"]
                      /\ Answer({o}, "Invoice")
                 ELSE UNCHANGED <<update, order, answer>>
           \/ /\ answer[o] = "none" /\ minted[o] > 0
              /\ update' = FailOrders({o})
              /\ Answer({o}, "Nak")
              /\ UNCHANGED <<order, minted>>
    /\ confirms' = Tail(confirms)
    /\ UNCHANGED <<tick, put_back, ready_orders, ready_mints, engage_event, batch,
                   carry_overs, bm_mints, total_volley, short, bought, paid>>

-----------------------------------------------------------------------------
(* Clients.                                                                *)

\* The client cancels; the index order manager keeps a fully engaged update.
CancelIndexOrder(o) ==
    /\ o \in CancelBy
    /\ answer[o] = "none"
    /\ update' = FailOrders({o})
    /\ Answer({o}, "Cancel")
    /\ UNCHANGED <<tick, order, put_back, ready_orders, ready_mints, engage_event, confirms,
                   batch, carry_overs, bm_mints, total_volley, short, bought, paid, minted>>

\* The steps of a tick, and the events the solver causes itself.
SolverStep ==
    \/ MintIndexes
    \/ \E os \in SUBSET put_back : ServeMoreClients(os)
    \/ EngageMoreOrders
    \/ \E unsent \in Unsent, waited \in SUBSET Orders : ProcessBatches(unsent, waited)
    \/ HandleEngageIndexOrder
    \/ HandleConfirmResponse

ExchangeStep ==
    \E b \in Slots, a \in Assets :
        \/ \E k \in 1..batch[b].live[a] : HandleNewLot(b, a, k)
        \/ \E waited \in SUBSET Orders : HandleCancelOrder(b, a, waited)

Next ==
    \/ \E o \in Orders : OrderReady(o) \/ CancelIndexOrder(o)
    \/ SolverStep
    \/ ExchangeStep

Spec == Init /\ [][Next]_vars

\* The solver thread keeps ticking, and before a tick it handles the events that
\* wait.  The exchange fills or closes the orders it was sent: an event of the
\* exchange stays in its channel until the solver takes it, which is the strong
\* fairness of ExchangeStep, written with the condition that enables it.
ExchangeBusy == tick = "idle" /\ \E b \in Slots : batch[b].pending # {}

FairSpec ==
    /\ Spec
    /\ WF_tick(tick' \in Ticks)
    /\ []<>ExchangeBusy => []<><<ExchangeStep>>_vars

-----------------------------------------------------------------------------
(* Properties.                                                             *)

\* Type invariant.  That positions and open lots are natural numbers says in
\* particular that try_allocate_lots always finds the lots it is asked for.
TypeOK ==
    /\ tick \in Ticks
    /\ order \in [Orders -> SolverOrder]
    /\ update \in [Orders -> IndexOrderUpdate]
    /\ put_back \subseteq Orders
    /\ {ready_orders, ready_mints, confirms} \subseteq Seq(Orders)
    /\ Len(engage_event) <= 1
    /\ batch \in [Slots -> Batch]
    /\ carry_overs \in [Assets -> Nat]
    /\ bm_mints \subseteq Orders
    /\ total_volley \in Nat
    /\ short \in 0..MaxShort
    /\ bought \in [Assets -> Nat]
    /\ {paid, minted} \subseteq [Orders -> Nat]
    /\ answer \in [Orders -> {"none", "Invoice", "Nak", "Cancel"}]

\* No lot is lost or allocated twice: all that was bought of an asset is with
\* an order, open in a batch, or carried over.
LotsConserved ==
    \A a \in Assets :
        bought[a] = Weight[a] * MapThenSumSet(LAMBDA o : order[o].spent, Orders)
                    + MapThenSumSet(LAMBDA b : batch[b].open[a], Slots)
                    + carry_overs[a]

\* The collateral of an order is at any time split between what is spent, in
\* a batch, carried and remaining: none of it disappears from the fill rate.
CollateralConserved ==
    \A o \in Orders : order[o].status # "Open" =>
        order[o].spent + order[o].engaged + order[o].carried + order[o].remaining = Collateral

\* An order whose client waits for an answer is in some queue or batch.
Held(o) ==
    \/ o \in ToSet(ready_orders) \cup put_back \cup ToSet(ready_mints) \cup ToSet(confirms)
    \/ o \in bm_mints
    \/ \E b \in Slots : /\ o \in EngagedOrders(batch[b])
                        /\ batch[b].phase = "engaging" => engage_event # <<>>

OrdersHeld ==
    \A o \in Orders : (order[o].status # "Open" /\ answer[o] = "none" /\ minted[o] = 0) => Held(o)

\* An index that was minted on chain is invoiced to its client.
MintInvoiced == \A o \in Orders : minted[o] > 0 => answer[o] = "Invoice"

\* confirm_payment is asked for once for an order.
PaidOnce == \A o \in Orders : paid[o] <= 1

\* An order on which collateral was spent is not refused.
RefusedUnspent == \A o \in Orders : answer[o] = "Nak" => order[o].spent = 0

\* Between two events every order that can improve has got all that the fills
\* of its batch give it.
FillsShared ==
    \A b \in Slots : batch[b].phase = "sent" =>
        \A i \in DOMAIN batch[b].engaged_orders :
            ~IsFilled(Books, b, batch[b].engaged_orders[i])

\* An order that was accepted ends with an invoice or a refusal.
OrdersAnswered == \A o \in Orders : order[o].status = "Ready" ~> answer[o] # "none"

\* The batches on the exchange stay within the volley the strategy allows,
\* rounded up to whole steps.
VolleyCapped == total_volley <= Padded(MaxTotalVolley)

=============================================================================
