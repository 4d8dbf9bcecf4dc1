---------------------------- MODULE TradingFilters ----------------------------
(* What the exchange accepts of a price and a quantity, and how an order is   *)
(* treated before it is placed                                                *)
(* (libs/binance-order-sending/src/trading_markets.rs).                       *)
EXTENDS Rationals

CONSTANTS Infos,      \* what the exchange says of a symbol
          Prices, Quantities,
          Pads        \* allow_pad: a session places an order with TRUE

VARIABLES info,     \* exchange info on its way, None when it is ingested
          market,   \* TradingMarkets.markets
          asked,    \* price and quantity of the order
          treated   \* what it is placed with, or that it is not
vars == <<info, market, asked, treated>>

None == [state |-> "none"]

Init == /\ info \in Infos \cup {None}
        /\ market = None
        /\ asked \in [price : Prices, quantity : Quantities, pad : Pads]
        /\ treated = None

-------------------------------------------------------------------------------
(* Exchange info: a filter has [type, ...]; "type" is unknown for the filters *)
(* the code has no use of, and those with a field missing are malformed.      *)

Types == {"PRICE_FILTER", "LOT_SIZE", "MIN_NOTIONAL", "NOTIONAL"}

\* Filters that cannot be read are left out, with a warning; a symbol without
\* its assets is left out altogether.
IngestExchangeInfo ==
    /\ info # None
    /\ info' = None
    /\ market' = IF info.complete
                 THEN [state |-> "listed", unit |-> info.unit,
                       filters |-> SelectSeq(info.filters, LAMBDA f : f.type \in Types)]
                 ELSE market
    /\ UNCHANGED <<asked, treated>>

-------------------------------------------------------------------------------
(* Filters. x is the order: price, quantity, and whether a filter refused it. *)

Floor(x) == Int2Ratio(x[1] \div x[2])
Aligned(x, step, up) == Times(IF up THEN Ceiling(Over(x, step)) ELSE Floor(Over(x, step)), step)

PriceFilter(f, x) ==
    LET p == Aligned(x.price, f.step, asked.pad)
        q == IF asked.pad THEN Greatest(p, f.min) ELSE p
    IN  [x EXCEPT !.price = Least(q, f.max), !.bad = @ \/ Below(q, f.min)]

\* Padding does not raise a quantity to the minimum, it only says so.
LotSize(f, x) ==
    LET q == Aligned(x.quantity, f.step, asked.pad)
    IN  IF ~asked.pad /\ Below(q, f.min) THEN [x EXCEPT !.quantity = f.min, !.bad = TRUE]
        ELSE [x EXCEPT !.quantity = Least(q, f.max)]

\* Padding takes the minimum also of a quantity that is more.
MinNotional(f, x) ==
    LET min == Over(f.min, x.price)
    IN  IF asked.pad THEN [x EXCEPT !.quantity = min]
        ELSE [x EXCEPT !.bad = @ \/ Below(x.quantity, min)]

Notional(f, x) ==
    LET min == Over(f.min, x.price)
        max == Over(f.max, x.price)
    IN  IF ~asked.pad /\ Below(x.quantity, min) THEN [x EXCEPT !.bad = TRUE]
        ELSE [x EXCEPT !.quantity = Least(Greatest(@, min), max)]

ApplyFilter(x, f) == CASE f.type = "PRICE_FILTER" -> PriceFilter(f, x)
                       [] f.type = "LOT_SIZE"     -> LotSize(f, x)
                       [] f.type = "MIN_NOTIONAL" -> MinNotional(f, x)
                       [] f.type = "NOTIONAL"     -> Notional(f, x)

\* The nearest number of so many digits.
Rescale(x, unit) == Times(Floor(Plus(Over(x, unit), Ratio(1, 2))), unit)

\* MarketInfo: all filters see the order, also after one has refused it.
TreatByMarket(x) ==
    FoldLeft(ApplyFilter, [x EXCEPT !.price = Rescale(@, market.unit.price),
                                    !.quantity = Rescale(@, market.unit.quantity)],
             market.filters)

\* Mutant: one round.
Treat_Once(x) == TreatByMarket(x)

\* A second round, unless the first one failed.
Treat(x) == LET y == TreatByMarket(x) IN IF y.bad THEN y ELSE TreatByMarket(y)

TreatPriceQuantity ==
    /\ treated = None
    /\ LET x == Treat([price |-> asked.price, quantity |-> asked.quantity, bad |-> FALSE])
       IN  treated' = IF market = None \/ x.bad THEN [state |-> "refused"]
                      ELSE [state |-> "placed", price |-> x.price, quantity |-> x.quantity]
    /\ UNCHANGED <<info, market, asked>>

Next == IngestExchangeInfo \/ TreatPriceQuantity

Spec == Init /\ [][Next]_vars

-------------------------------------------------------------------------------
(* Properties.                                                                *)

IsMultiple(x, step) == Over(x, step)[2] = 1
Between(f, x) == AtMost(f.min, x) /\ AtMost(x, f.max)

\* What the exchange demands.
Accepts(f, p, q) ==
    CASE f.type = "PRICE_FILTER" -> Between(f, p) /\ IsMultiple(p, f.step)
      [] f.type = "LOT_SIZE"     -> Between(f, q) /\ IsMultiple(q, f.step)
      [] f.type = "MIN_NOTIONAL" -> AtMost(f.min, Times(p, q))
      [] f.type = "NOTIONAL"     -> Between(f, Times(p, q))

(***************************************************************************)
(* An order that is placed passes every filter of its market: one that a   *)
(* later filter has changed is right for the earlier ones after the second *)
(* round (treat_price_quantity: "ensure all filters are happy"). It takes  *)
(* a PRICE_FILTER ahead of the others, a NOTIONAL that is not exceeded and *)
(* no MIN_NOTIONAL, and as many digits as padding needs.                   *)
(***************************************************************************)
FiltersHappy ==
    treated.state = "placed" =>
        \A i \in DOMAIN market.filters : Accepts(market.filters[i], treated.price, treated.quantity)
================================================================================
