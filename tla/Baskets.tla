-------------------------------- MODULE Baskets --------------------------------
(* Baskets: the curator's weights become quantities at the prices of the      *)
(* moment (index-core/src/index/basket.rs, basket_manager.rs), and the solver *)
(* tells chain and managers of the baskets there are                          *)
(* (handle_chain_event, handle_basket_event of src/solver/solver.rs).         *)
EXTENDS Rationals

CONSTANTS Symbols, Assets,
          Weights,       \* of a BasketDefinition: [assets -> weight]
          Tops,          \* tops of book: [bid, ask, bids, asks]
          TargetPrice,   \* of a basket when it is set
          MaxChanges     \* bound: weights set and prices changed

VARIABLES top,       \* PriceTracker.prices, NoTop before the first
          baskets,   \* BasketManager.baskets: quantity of each asset
          setAt,     \* history: the prices a basket was made with
          observed,  \* whether the manager has an observer
          basketEvents,  \* what it was told
          onChain,   \* the last solver_weights_set of a symbol
          known,     \* index symbols of the quote and index order managers
          changes    \* how much of the bound is used
vars == <<top, baskets, setAt, observed, basketEvents, onChain, known, changes>>

NoTop == [bid |-> 0, ask |-> 0, bids |-> 0, asks |-> 0]

\* Files name quantities; no weights and prices come with them.
Init == /\ top = [a \in Assets |-> NoTop]
        /\ \E loaded \in SUBSET Symbols : baskets = [s \in loaded |-> [a \in Assets |-> Int2Ratio(1)]]
        /\ setAt = <<>>
        /\ observed = FALSE
        /\ basketEvents = <<>>
        /\ onChain = <<>> /\ known = {}
        /\ changes = 0

Change == changes < MaxChanges /\ changes' = changes + 1

-------------------------------------------------------------------------------
(* Prices and quantities.                                                     *)

VolumeWeighted(t) == Ratio(t.bid * t.bids + t.ask * t.asks, t.bids + t.asks)

GetPrices(assets) == [a \in {x \in assets : top[x] # NoTop} |-> VolumeWeighted(top[a])]

\* Mutant: weights are taken as they come.
TryNew_Raw(weights) == [a \in DOMAIN weights |-> Int2Ratio(weights[a])]

\* A definition's weights are shares of their sum.
TryNew(weights) ==
    LET total == FoldSet(LAMBDA a, sum : sum + weights[a], 0, DOMAIN weights)
    IN  [a \in DOMAIN weights |-> Ratio(weights[a], total)]

\* Without a price, or a weight, there is no quantity, and then no basket.
Quantified(weights, prices) ==
    \A a \in DOMAIN weights : weights[a] > 0 /\ a \in DOMAIN prices /\ prices[a][1] > 0

NewWithPrices(weights, prices) ==
    [a \in DOMAIN weights |-> Times(Over(TargetPrice, prices[a]), TryNew(weights)[a])]

GetCurrentPrice(basket, prices) == SumOver(LAMBDA a : Times(prices[a], basket[a]), DOMAIN basket)

-------------------------------------------------------------------------------
(* The manager.                                                               *)

\* Mutant: only a new basket is told of.
SetBasket_AddedOnly(s, basket) ==
    /\ baskets' = (s :> basket) @@ baskets
    /\ basketEvents' = IF observed /\ s \notin DOMAIN baskets
                       THEN Append(basketEvents, [symbol |-> s, basket |-> basket]) ELSE basketEvents

SetBasket(s, basket) ==
    /\ baskets' = (s :> basket) @@ baskets
    /\ basketEvents' = IF observed
                       THEN Append(basketEvents, [symbol |-> s, basket |-> basket]) ELSE basketEvents

\* run_solver observes the manager and has it tell of what it has, in any order.
LoadBaskets ==
    /\ ~observed
    /\ observed' = TRUE
    /\ \E order \in SetToSeqs(DOMAIN baskets) :
          basketEvents' = [i \in DOMAIN order |-> [symbol |-> order[i], basket |-> baskets[order[i]]]]
    /\ UNCHANGED <<top, baskets, setAt, onChain, known, changes>>

\* CuratorWeightsSet. When it cannot be made the basket that was stays.
SetCuratorWeights(s, weights) ==
    /\ observed
    /\ Change
    /\ LET prices == GetPrices(DOMAIN weights)
       IN  IF Quantified(weights, prices)
           THEN SetBasket(s, NewWithPrices(weights, prices)) /\ setAt' = (s :> prices) @@ setAt
           ELSE UNCHANGED <<baskets, basketEvents, setAt>>
    /\ UNCHANGED <<top, observed, onChain, known>>

-------------------------------------------------------------------------------
(* Those who follow.                                                          *)

UpdateTop(a, t) ==
    /\ t # top[a]
    /\ Change
    /\ top' = [top EXCEPT ![a] = t]
    /\ UNCHANGED <<baskets, setAt, observed, basketEvents, onChain, known>>

HandleBasketEvent ==
    /\ basketEvents # <<>>
    /\ basketEvents' = Tail(basketEvents)
    /\ LET e == Head(basketEvents)
       IN  onChain' = (e.symbol :> e.basket) @@ onChain /\ known' = known \cup {e.symbol}
    /\ UNCHANGED <<top, baskets, setAt, observed, changes>>

Next == \/ LoadBaskets \/ HandleBasketEvent
        \/ \E s \in Symbols, weights \in Weights : SetCuratorWeights(s, weights)
        \/ \E a \in Assets, t \in Tops : UpdateTop(a, t)

Spec == Init /\ [][Next]_vars

-------------------------------------------------------------------------------
(* Properties.                                                                *)

(***************************************************************************)
(* At the prices it was made with a basket is worth the target price,      *)
(* whatever the curator's weights add up to (set_basket_from_definition).  *)
(***************************************************************************)
PricedAtTarget ==
    \A s \in DOMAIN setAt : GetCurrentPrice(baskets[s], setAt[s]) = TargetPrice

(***************************************************************************)
(* When the solver has seen all events, chain and managers know of every   *)
(* basket there is, as it is now: also of one that was loaded before there *)
(* was an observer, and of one that was set in between (handle_basket_     *)
(* event).                                                                 *)
(***************************************************************************)
BasketsFollowed ==
    observed /\ basketEvents = <<>> => onChain = baskets /\ known = DOMAIN baskets
================================================================================
