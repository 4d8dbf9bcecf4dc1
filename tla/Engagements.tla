------------------------------ MODULE Engagements ------------------------------
(* The strategy: what a batch of index orders buys of each asset, and how the *)
(* fills will be shared (src/solver/solvers/simple_solver.rs), for buys; a    *)
(* sell stops the program there ("Selling isn't fully supported yet").        *)
EXTENDS Rationals

CONSTANTS Orders,
          Assets,
          Baskets,         \* index -> asset -> quantity in its basket (index/basket.rs)
          Amounts,         \* remaining collateral of an order
          Carried,         \* collateral that its last batch left of it
          Books,           \* levels of an asset's asks, the best first: [price, quantity]
          Live,            \* volley of the batches on the exchange
          PriceThreshold, MaxLevels, FeeFactor, MaxOrderVolley, MaxVolley,
          MinAssetVolley, VolleyStep, MaxTotalVolley, MinTotalVolley  \* of SimpleSolver

VARIABLES order,   \* what is asked for: [index, remaining, carried]
          asks,    \* book of an asset
          live,    \* get_total_volley_size
          answer   \* what solve_engagements says
vars == <<order, asks, live, answer>>

None == [state |-> "none"]

Init == /\ order \in [Orders -> [index : DOMAIN Baskets, remaining : Amounts, carried : Carried]]
        /\ asks \in [Assets -> Books]
        /\ live \in Live
        /\ answer = None

Zero == Int2Ratio(0)
Basket(o) == Baskets[order[o].index]
Needed == UNION {DOMAIN Basket(o) : o \in Orders}

-------------------------------------------------------------------------------
(* Prices and liquidity.                                                      *)

\* The best price and the threshold above it.
PriceLimit(a) == Times(Int2Ratio(asks[a][1].price), Plus(Int2Ratio(1), PriceThreshold))

SumLevels(levels) == FoldLeft(LAMBDA sum, x : sum + x.quantity, 0, levels)

GetLiquidity(a, limit) ==
    Int2Ratio(SumLevels(SelectSeq(asks[a], LAMBDA x : AtMost(Int2Ratio(x.price), limit))))

\* Mutant: the price of the last level is taken whatever its liquidity.
CapAssetLiquidity_Any(a) ==
    LET levels == SubSeq(asks[a], 1, Min({MaxLevels, Len(asks[a])}))
        price == Int2Ratio(Last(levels).price)
        quantity == Int2Ratio(SumLevels(levels))
    IN  [price |-> price, liquidity |-> quantity]

\* Where the first MaxLevels hold less than there is up to the limit, they are
\* the limit, unless too little is left.
CapAssetLiquidity(a) ==
    LET limit == PriceLimit(a)
        levels == SubSeq(asks[a], 1, Min({MaxLevels, Len(asks[a])}))
        price == Int2Ratio(Last(levels).price)
        quantity == Int2Ratio(SumLevels(levels))
    IN  IF /\ Below(quantity, GetLiquidity(a, limit))
           /\ ~Below(Times(price, quantity), MinAssetVolley)
        THEN [price |-> price, liquidity |-> quantity]
        ELSE [price |-> limit, liquidity |-> GetLiquidity(a, limit)]

\* Basket::get_current_price.
IndexPrice(basket, price) ==
    SumOver(LAMBDA a : Times(Int2Ratio(basket[a]), price[a]), DOMAIN basket)

\* solve_quotes quotes an index at the limits, before they are capped.
QuotedPrice(o) == IndexPrice(Basket(o), [a \in DOMAIN Basket(o) |-> PriceLimit(a)])

-------------------------------------------------------------------------------
(* Quantities. m is the market: price and liquidity of the assets.            *)

EngagedPrice(m, o) == IndexPrice(Basket(o), [a \in DOMAIN Basket(o) |-> m[a].price])

\* Mutant: the cap of an order's volley is taken before the fees.
ComputeQuantity_FeeOnTop(m, o) ==
    Over(Least(Int2Ratio(order[o].remaining + order[o].carried), MaxOrderVolley), EngagedPrice(m, o))

\* What the collateral buys once the fees are paid, up to an order's volley.
ComputeQuantity(m, o) ==
    Over(Least(Over(Int2Ratio(order[o].remaining + order[o].carried), FeeFactor), MaxOrderVolley),
         EngagedPrice(m, o))

\* Asset quantities of orders, one by one and summed up: q is their quantities.
AssetQuantity(q, o, a) == Times(Int2Ratio(Basket(o)[a]), q[o])
SummariseAssetQuantities(q) ==
    [a \in UNION {DOMAIN Basket(o) : o \in DOMAIN q} |->
        SumOver(LAMBDA o : AssetQuantity(q, o, a), {o \in DOMAIN q : a \in DOMAIN Basket(o)})]

\* Orders that need an asset whose liquidity is too small fail, the others go on.
Liquid(m) == {o \in Orders : \A a \in DOMAIN Basket(o) :
                                ~Below(Times(m[a].liquidity, m[a].price), MinAssetVolley)}

\* Mutant: each order is given all the liquidity.
ComputeContribution_Whole(m, q, o) ==
    FoldSet(LAMBDA a, least : Least(least, Over(m[a].liquidity, Int2Ratio(Basket(o)[a]))),
            q[o], DOMAIN Basket(o))

\* An order fits with its share of every asset's liquidity.
ComputeContribution(m, q, o) ==
    LET total == SummariseAssetQuantities(q)
        Possible(a) ==
            LET share == Over(AssetQuantity(q, o, a), total[a])
            IN  Over(Times(Times(m[a].liquidity, share), q[o]), AssetQuantity(q, o, a))
    IN  FoldSet(LAMBDA a, least : Least(least, Possible(a)), q[o], DOMAIN Basket(o))

VolleySize(m, total) == SumOver(LAMBDA a : Times(m[a].price, total[a]), DOMAIN total)

\* All orders shrink alike when the batch is more than what is left.
CapVolleySize(q, volley, max) ==
    IF Below(volley, max) THEN q ELSE [o \in DOMAIN q |-> Times(q[o], Over(max, volley))]

\* Mutant: the size is aligned downwards.
PadAssetVolleySize_Down(price, total) ==
    LET size == Greatest(Times(price, total), MinAssetVolley)
        steps == Over(size, VolleyStep)
    IN  Over(Times(Int2Ratio(steps[1] \div steps[2]), VolleyStep), price)

\* An asset order has a least size, in steps.
PadAssetVolleySize(price, total) ==
    LET size == Greatest(Times(price, total), MinAssetVolley)
    IN  Over(Times(Ceiling(Over(size, VolleyStep)), VolleyStep), price)

-------------------------------------------------------------------------------
(* The batch: the fractions are of the capped quantities, but of totals that  *)
(* are not, and these are what is ordered.                                    *)

Engaged(max) ==
    LET m == [a \in Needed |-> CapAssetLiquidity(a)]
        computed == [o \in Orders |-> ComputeQuantity(m, o)]
        fitting == [o \in Liquid(m) |-> ComputeContribution(m, computed, o)]
        total == SummariseAssetQuantities(fitting)
        capped == CapVolleySize(fitting, VolleySize(m, total), max)
    IN  [state |-> "engaged", market |-> m, quantity |-> capped,
         price |-> [o \in Liquid(m) |-> EngagedPrice(m, o)],
         fraction |-> [o \in Liquid(m) |->
             [a \in DOMAIN Basket(o) |-> Over(AssetQuantity(capped, o, a), total[a])]],
         ordered |-> [a \in DOMAIN total |-> PadAssetVolleySize(m[a].price, total[a])]]

\* The volley is checked first; a price that is missing fails all orders.
SolveEngagements ==
    /\ answer = None
    /\ LET left == Minus(MaxTotalVolley, Int2Ratio(live))
       IN  answer' = IF Below(left, MinTotalVolley) THEN [state |-> "wait"]
                     ELSE IF \E a \in Needed : asks[a] = <<>> THEN [state |-> "failed"]
                     ELSE Engaged(Least(MaxVolley, left))
    /\ UNCHANGED <<order, asks, live>>

Next == SolveEngagements

Spec == Init /\ [][Next]_vars

-------------------------------------------------------------------------------
(* Properties.                                                                *)

IsEngaged == answer.state = "engaged"
EngagedOrders == DOMAIN answer.quantity

(***************************************************************************)
(* The engaged collateral of an order, its fees with it, is within what    *)
(* remains of it and what was carried over.                                *)
(***************************************************************************)
WithinCollateral ==
    IsEngaged => \A o \in EngagedOrders :
        AtMost(Times(Times(answer.price[o], answer.quantity[o]), FeeFactor),
               Int2Ratio(order[o].remaining + order[o].carried))

(***************************************************************************)
(* Together the orders of a batch take no more of an asset than the book   *)
(* has up to the price limit, though each is computed by itself.           *)
(***************************************************************************)
WithinLiquidity ==
    IsEngaged => LET total == SummariseAssetQuantities(answer.quantity)
                 IN  \A a \in DOMAIN total : AtMost(total[a], answer.market[a].liquidity)

(***************************************************************************)
(* When the asset orders are filled, every index order's fraction of each  *)
(* of them is enough for the quantity it was engaged with, and nothing is  *)
(* promised twice.                                                         *)
(***************************************************************************)
FillsSuffice ==
    IsEngaged =>
        /\ \A o \in EngagedOrders : \A a \in DOMAIN Basket(o) :
              AtMost(AssetQuantity(answer.quantity, o, a),
                     Times(answer.fraction[o][a], answer.ordered[a]))
        /\ \A a \in DOMAIN answer.ordered :
              AtMost(SumOver(LAMBDA o : answer.fraction[o][a],
                             {o \in EngagedOrders : a \in DOMAIN Basket(o)}),
                     Int2Ratio(1))

(***************************************************************************)
(* An order is never engaged at a price above the one quoted for it.       *)
(***************************************************************************)
PriceAsQuoted == IsEngaged => \A o \in EngagedOrders : AtMost(answer.price[o], QuotedPrice(o))

\* A batch is engaged within what its orders and the books have, at the quoted
\* price, and its asset orders are enough for what was engaged.
EngagedSoundly == WithinCollateral /\ WithinLiquidity /\ PriceAsQuoted /\ FillsSuffice

(***************************************************************************)
(* simple_solver.rs:51: "Cap the total amount of collateral all orders in  *)
(* the batch can potentially consume", but for what padding adds. What is  *)
(* ordered is not capped.                                                  *)
(***************************************************************************)
BatchCapped ==
    IsEngaged =>
        AtMost(VolleySize(answer.market, answer.ordered),
               Plus(MaxVolley, SumOver(LAMBDA a : Plus(MinAssetVolley, VolleyStep),
                                       DOMAIN answer.ordered)))
================================================================================
