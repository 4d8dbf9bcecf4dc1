------------------------------ MODULE RateWindows ------------------------------
(* The order limits of a trading session on the exchange                      *)
(* (libs/binance-order-sending/src/trading_session.rs): each order consumes a *)
(* weight of 1, a refused one waits and tries once more, and responses tell   *)
(* of the limits and what the exchange has counted.                           *)
EXTENDS RateLimits, FiniteSets

CONSTANTS Limits,    \* the exchange's limits of orders
          MaxCount,  \* bound: what it says it has counted
          MaxTime, MaxCalls  \* bounds: of the time, of orders and responses

VARIABLES configs, weights,  \* order_limit: none before the first response
          time,
          passed,    \* history: orders that passed at a time, since there were limits
          waiter,    \* the order that sleeps: [until], and whether a window was overfull
          calls      \* how much of the bound is used
vars == <<configs, weights, time, passed, waiter, calls>>

Nobody == [until |-> 0, overfull |-> FALSE]
NonePassed == [t \in 1 .. MaxTime |-> 0]

Init == /\ configs = {}
        /\ weights = <<>>
        /\ time = 1
        /\ passed = NonePassed
        /\ waiter = Nobody
        /\ calls = 0

Call == waiter = Nobody /\ calls < MaxCalls /\ calls' = calls + 1

\* More in a window than its limit: sent while there were none, or adjusted.
Overfull == \E config \in configs : ~CheckLimit(weights, config, 0, time)

\* Half of the smallest limit is waited for, at least one order.
ReleaseWeight == Max({1, Min({config.limit : config \in configs}) \div 2})

Pass == passed' = IF configs = {} THEN passed ELSE [passed EXCEPT ![time] = @ + 1]

WillSendOrder ==
    /\ Call
    /\ weights' = Consume(weights, configs, 1, time)
    /\ \/ Allowed(weights, configs, 1, time) /\ Pass /\ UNCHANGED waiter
       \/ /\ ~Allowed(weights, configs, 1, time)
          /\ waiter' = [until |-> time + WaitFor(weights', configs, ReleaseWeight, time),
                        overfull |-> Overfull]
          /\ UNCHANGED passed
    /\ UNCHANGED <<configs, time>>

\* It tries once more, or is given up.
Retry == /\ waiter # Nobody /\ time >= waiter.until
         /\ weights' = Consume(weights, configs, 1, time)
         /\ IF Allowed(weights, configs, 1, time) THEN Pass ELSE UNCHANGED passed
         /\ waiter' = Nobody
         /\ UNCHANGED <<configs, time, calls>>

\* A response that tells of the order limits; one after the other is taken.
UpdateLimits ==
    /\ Call
    /\ \E count \in [Limits -> 0 .. MaxCount] :
          weights' = FoldLeft(LAMBDA ws, config : Refit(ws, config, count[config], time),
                              weights, SetToSeq(Limits))
    /\ configs' = Limits
    /\ <<configs, weights>>' # <<configs, weights>>
    /\ UNCHANGED <<time, passed, waiter>>

\* One that tells of others only: then there are none.
ForgetLimits ==
    /\ Call
    /\ configs # {}
    /\ configs' = {}
    /\ passed' = NonePassed
    /\ UNCHANGED <<weights, time, waiter>>

Clock == /\ time < MaxTime
         /\ time' = time + 1
         /\ UNCHANGED <<configs, weights, passed, waiter, calls>>

Next == WillSendOrder \/ Retry \/ UpdateLimits \/ ForgetLimits \/ Clock

Spec == Init /\ [][Next]_vars

-------------------------------------------------------------------------------
(* Properties.                                                                *)

(***************************************************************************)
(* In no period, wherever it begins, are more orders sent than its limit,  *)
(* since the session knows the limits: refused orders purge old weights,   *)
(* which a longer period must not need. A response that tells only of      *)
(* other limits makes the session forget these.                            *)
(***************************************************************************)
WindowsBound ==
    \A config \in configs : \A t \in 1 .. MaxTime - config.period + 1 :
        FoldFunctionOnSet(+, 0, passed, t .. t + config.period - 1) <= config.limit

(***************************************************************************)
(* An order that has waited as long as waiting_period_half_smallest_limit  *)
(* told is not given up, unless a window held more than its limit: half of *)
(* it is waited for, not what there is too much.                           *)
(***************************************************************************)
WaitSuffices ==
    waiter # Nobody /\ time >= waiter.until /\ ~waiter.overfull => Allowed(weights, configs, 1, time)
================================================================================
