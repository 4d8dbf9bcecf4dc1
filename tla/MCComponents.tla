----------------------------- MODULE MCComponents -----------------------------
(***************************************************************************)
(* The components around the order path, which share no state here: part   *)
(* says which of them moves, the others stay where they begin.  The bounds *)
(* of each stand with its instance, those of the inventory in the .cfg.    *)
(***************************************************************************)
EXTENDS Inventory, Rationals, TLC

VARIABLES part,
          side_cr, requests, transfers, events, acks, order, notices, confirms,
          indexOrders, orderEvents, serving, invoices, files, storing, reported, refused,
          cancelled, minted, accepted, crashes,
          indexOrder, deposited, calls,
          exchange, ticked, wanted, subscribers, books, streams, streaming, orphans, shown,
          price, dropped, faults,
          book, told,
          batch, asks, live, answer,
          info, market, asked, treated,
          top, baskets, setAt, observed, basketEvents, onChain, known, changes,
          configs, weights, time, passed, waiter, limitCalls

collateralVars == <<side_cr, requests, transfers, events, acks, order, notices, confirms>>
indexOrderVars == <<indexOrders, orderEvents, serving, invoices, files, storing, reported,
                    refused, cancelled, minted, accepted, crashes>>
callVars == <<indexOrder, deposited, calls>>
marketVars == <<exchange, ticked, wanted, subscribers, books, streams, streaming, orphans,
                shown, price, dropped, faults>>
levelVars == <<book, told>>
batchVars == <<batch, asks, live, answer>>
filterVars == <<info, market, asked, treated>>
basketVars == <<top, baskets, setAt, observed, basketEvents, onChain, known, changes>>
limitVars == <<configs, weights, time, passed, waiter, limitCalls>>
allVars == <<part, vars, collateralVars, indexOrderVars, callVars, marketVars,
          levelVars, batchVars, filterVars, basketVars, limitVars>>

-------------------------------------------------------------------------------
(* The instances.                                                             *)

\* The first order needs both of the first two deposits, the others share a lot.
Routes == INSTANCE Collateral WITH
    Deposits <- 1 .. 3, DepositAmount <- [d \in 1 .. 3 |-> d + 2],
    OrderIds <- <<"o1", "o2", "o3">>, OrderAmount <- [o1 |-> 5, o2 |-> 3, o3 |-> 4],
    Hops <- 2, Fees <- {0, 1}, MaxNotices <- 2, MaxConfirms <- 1, Cancels <- {},
    BridgeErrors <- FALSE, FeeErrors <- FALSE

\* One index with a basket; ids are used once, what is engaged is not cancelled.
Managers == INSTANCE IndexOrders WITH
    OrderIds <- {1, 2}, Symbols <- {"i", "j"}, Indexed <- {"i"}, Amounts <- {2}, Fees <- {0, 1},
    ReuseIds <- FALSE, CancelEngaged <- FALSE, MaxOrders <- 2, MaxCrashes <- 1

Calls == INSTANCE IndexOrderCalls WITH CallAmounts <- {1, 2}, MaxCalls <- 5

Feeds == INSTANCE MarketData WITH
    Symbols <- {"s1", "s2"}, Capacity <- 2, SlowSnapshots <- FALSE, MaxUpdates <- 2, MaxFaults <- 1

\* Prices lie further apart than the tolerance.
Levels == INSTANCE PriceLevels WITH
    Tolerance <- 1, Prices <- {2, 4, 6}, Quantities <- {0, 1, 3}

\* No, little, deep, many-levelled liquidity, and a best level that is large.
Level(p, q) == [price |-> p, quantity |-> q]
AskBooks == {<<>>, <<Level(2, 1)>>, <<Level(2, 3)>>,
             <<Level(4, 4), Level(5, 9), Level(6, 90)>>, <<Level(2, 40), Level(4, 9)>>}
Strategy == INSTANCE Engagements WITH
    Orders <- {"o1", "o2"}, Assets <- {"a", "b"}, Baskets <- [i |-> [a |-> 1, b |-> 2], j |-> [b |-> 1]],
    Amounts <- {10, 60}, Carried <- {0, 5}, Books <- AskBooks, Live <- {0, 70, 95},
    PriceThreshold <- Ratio(1, 2), MaxLevels <- 2, FeeFactor <- Ratio(5, 4),
    MaxOrderVolley <- Int2Ratio(40), MaxVolley <- Int2Ratio(50), MinAssetVolley <- Int2Ratio(4),
    VolleyStep <- Int2Ratio(3), MaxTotalVolley <- Int2Ratio(100), MinTotalVolley <- Int2Ratio(10),
    order <- batch

\* Filters in the orders in which PRICE_FILTER comes first, one of no use among
\* them; two digits, which is enough for what is padded.
Filter(type, min, max, step) ==
    [type |-> type, min |-> Int2Ratio(min), max |-> Int2Ratio(max), step |-> step]
MarketFilters == {Filter("PRICE_FILTER", 2, 8, Int2Ratio(2)), Filter("LOT_SIZE", 1, 40, Ratio(1, 2)),
                  Filter("NOTIONAL", 13, 1000, Int2Ratio(1)), Filter("ICEBERG_PARTS", 1, 10, Int2Ratio(1))}
PriceFirst(fs) == \A i, j \in DOMAIN fs :
    fs[i].type = "PRICE_FILTER" /\ fs[j].type \in {"LOT_SIZE", "NOTIONAL"} => i < j
Filters == INSTANCE TradingFilters WITH
    Infos <- [complete : BOOLEAN, unit : {[price |-> Ratio(1, 10), quantity |-> Ratio(1, 100)]},
              filters : {fs \in SetToSeqs(MarketFilters) : PriceFirst(fs)}],
    Prices <- {Ratio(1, 3), Int2Ratio(4), Ratio(9, 2), Int2Ratio(50)},
    Quantities <- {Ratio(1, 100), Int2Ratio(3), Ratio(25, 7), Int2Ratio(60)},
    Pads <- BOOLEAN

Top(bid, ask, bids, sizes) == [bid |-> bid, ask |-> ask, bids |-> bids, asks |-> sizes]
Curators == INSTANCE Baskets WITH
    Symbols <- {"i", "j"}, Assets <- {"a", "b"},
    Weights <- {[a |-> 1, b |-> 3], [b |-> 2], [a |-> 2, b |-> 0]},
    Tops <- {Top(2, 4, 1, 3), Top(5, 5, 2, 0), Top(0, 0, 1, 1)},
    TargetPrice <- Int2Ratio(10), MaxChanges <- 4

\* A short period, and a longer one that allows less than two of them.
Limiters == INSTANCE RateWindows WITH
    Limits <- {[limit |-> 2, period |-> 2], [limit |-> 3, period |-> 4]},
    MaxCount <- 2, MaxTime <- 6, MaxCalls <- 5, calls <- limitCalls

-------------------------------------------------------------------------------
Parts == {"inventory", "routes", "index orders", "calls", "market data", "levels",
          "strategy", "filters", "baskets", "limits"}

\* Only the part that moves begins in more than one way.
InitParts ==
    /\ part \in Parts
    /\ Init /\ Routes!Init /\ Managers!Init /\ Calls!InitCalls /\ Levels!Init /\ Limiters!Init
    /\ IF part = "market data" THEN Feeds!Init
       ELSE Feeds!Init /\ wanted = <<"s1", "s2">>
    /\ IF part = "strategy" THEN Strategy!Init
       ELSE /\ batch = <<>> /\ asks = <<>> /\ live = 0 /\ answer = Strategy!None
    /\ IF part = "filters" THEN Filters!Init
       ELSE info = Filters!None /\ market = Filters!None /\ asked = <<>> /\ treated = Filters!None
    /\ Curators!Init
    /\ part = "baskets" \/ baskets = <<>>

NextParts ==
    \/ /\ part = "inventory" /\ Next
       /\ UNCHANGED <<part, collateralVars, indexOrderVars, callVars, marketVars, levelVars,
                      batchVars, filterVars, basketVars, limitVars>>
    \/ /\ part = "routes" /\ Routes!Next
       /\ UNCHANGED <<part, vars, indexOrderVars, callVars, marketVars, levelVars,
                      batchVars, filterVars, basketVars, limitVars>>
    \/ /\ part = "index orders" /\ Managers!Next
       /\ UNCHANGED <<part, vars, collateralVars, callVars, marketVars, levelVars,
                      batchVars, filterVars, basketVars, limitVars>>
    \/ /\ part = "calls" /\ Calls!NextCalls
       /\ UNCHANGED <<part, vars, collateralVars, indexOrderVars, marketVars, levelVars,
                      batchVars, filterVars, basketVars, limitVars>>
    \/ /\ part = "market data" /\ Feeds!Next
       /\ UNCHANGED <<part, vars, collateralVars, indexOrderVars, callVars, levelVars,
                      batchVars, filterVars, basketVars, limitVars>>
    \/ /\ part = "levels" /\ Levels!Next
       /\ UNCHANGED <<part, vars, collateralVars, indexOrderVars, callVars, marketVars,
                      batchVars, filterVars, basketVars, limitVars>>
    \/ /\ part = "strategy" /\ Strategy!Next
       /\ UNCHANGED <<part, vars, collateralVars, indexOrderVars, callVars, marketVars,
                      levelVars, filterVars, basketVars, limitVars>>
    \/ /\ part = "filters" /\ Filters!Next
       /\ UNCHANGED <<part, vars, collateralVars, indexOrderVars, callVars, marketVars,
                      levelVars, batchVars, basketVars, limitVars>>
    \/ /\ part = "baskets" /\ Curators!Next
       /\ UNCHANGED <<part, vars, collateralVars, indexOrderVars, callVars, marketVars,
                      levelVars, batchVars, filterVars, limitVars>>
    \/ /\ part = "limits" /\ Limiters!Next
       /\ UNCHANGED <<part, vars, collateralVars, indexOrderVars, callVars, marketVars,
                      levelVars, batchVars, filterVars, basketVars>>

SpecParts == InitParts /\ [][NextParts]_allVars

\* The assets of the inventory are alike.
Symmetry == Permutations(Symbols)

-------------------------------------------------------------------------------
(* Properties, most of them of the module they come from; PositionsSound is    *)
(* the inventory's.                                                           *)

\* Every order on its way from request to mint is attended to and covered, and
\* what is paid and what is minted correspond (process_collateral, the router,
\* mint_index_order).
RoutesSettle == Routes!RoutesSettle

\* A route that completes confirms or charges all that was taken for the order
\* (CollateralManager, book of the route's records).
RouteBooked == Routes!RouteBooked

\* Index orders, their updates, the reports to the client and the invoices agree,
\* whatever is filled, minted or crashes between them, and an index order does
\* with its updates whatever is bought, sold and cancelled (IndexOrderManager,
\* IndexOrder, MintInvoiceManager).
IndexOrdersAgree == Managers!OrdersAgree /\ Calls!UpdatesAddUp

\* No invoice follows for an order whose cancel was acknowledged
\* (cancel_index_order, order_request_minted); what is engaged is not cancelled
\* here.
CancelHonoured == Managers!CancelHonoured

\* What the strategy reads is right: the books with what they know of themselves,
\* their levels and liquidity, and the baskets with their prices, known to chain
\* and managers (Book, PricePointEntries, BasketManager).
InputsRight == /\ Feeds!BookComplete
               /\ Levels!LevelsIndependent /\ Levels!LiquidityAgrees
               /\ Curators!PricedAtTarget /\ Curators!BasketsFollowed

\* A batch is engaged within what its orders and the books have, at the quoted
\* price, and its asset orders are enough for it (solve_engagements).
EngagedSoundly == Strategy!EngagedSoundly

\* What goes out is what the exchange accepts: orders that pass every filter of
\* their market, no more of them in any window than its limits allow, and none
\* given up that has waited as told (treat_price_quantity, MultiLimiter).
ExchangeRulesKept ==
    Filters!FiltersHappy /\ Limiters!WindowsBound /\ Limiters!WaitSuffices
================================================================================
