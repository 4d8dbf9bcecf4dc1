--------------------------- MODULE IndexOrderCalls ----------------------------
(* One index order under any sequence of its operations, on both sides, as    *)
(* its tests use it. The manager refuses sells, so that it comes to fewer of  *)
(* these states (IndexOrders); cancel_updates is not called at all.           *)
EXTENDS IndexOrder, FiniteSets

CONSTANTS CallAmounts, MaxCalls  \* bound: operations

VARIABLES indexOrder, deposited, \* history: collateral put in by updates, per side
          calls

InitCalls == /\ indexOrder = EmptyIndexOrder("buy")
             /\ deposited = 0
             /\ calls = 0

Step == calls < MaxCalls /\ calls' = calls + 1

Update(side, amount) ==
    /\ Step
    /\ LET u == UpdateOrder(indexOrder, calls, side, amount)
       IN  /\ indexOrder' = u.order
           /\ deposited' = CASE u.outcome = "push" -> deposited + amount
                             [] u.outcome = "flip" -> u.order.remaining
                             [] u.outcome = "reduce" ->
                                  deposited - (indexOrder.remaining - u.order.remaining)

SolverEngages(amount) ==
    /\ Step
    /\ indexOrder' = SolverEngage(indexOrder, amount)
    /\ UNCHANGED deposited

SolverEngagesOne(id, amount) ==
    /\ Step
    /\ CanEngageOne(indexOrder, id, amount)
    /\ indexOrder' = SolverEngageOne(indexOrder, id, amount).order
    /\ UNCHANGED deposited

SolverCompletes(id) ==
    /\ Step
    /\ HasEngaged(indexOrder, id)
    /\ indexOrder' = SolverComplete(indexOrder, id)
    /\ UNCHANGED deposited

SolverCancels(id) ==
    /\ Step
    /\ indexOrder' = SolverCancel(indexOrder, id)
    /\ deposited' = deposited - (indexOrder.remaining - indexOrder'.remaining)

NextCalls == \E amount \in CallAmounts, id \in 0 .. MaxCalls :
                \/ \E side \in {"buy", "sell"} : Update(side, amount)
                \/ SolverEngages(amount) \/ SolverEngagesOne(id, amount)
                \/ SolverCompletes(id) \/ SolverCancels(id)

SpecCalls == InitCalls /\ [][NextCalls]_<<indexOrder, deposited, calls>>

(***************************************************************************)
(* Whatever is bought, sold, cancelled and engaged in whatever order: what *)
(* remains is what remains of the queued updates, all of them on the side  *)
(* of the order and only the first engaged in part, and what was put in is *)
(* there or engaged. match_cancel works from the newest update, engagement *)
(* from the oldest; they may meet in one update.                           *)
(***************************************************************************)
UpdatesAddUp ==
    /\ indexOrder.remaining = Remaining(indexOrder.updates)
    /\ \A u \in Range(indexOrder.updates) : u.side = indexOrder.side /\ u.remaining > 0
    /\ \A i \in DOMAIN indexOrder.updates : indexOrder.updates[i].touched => i = 1
    /\ deposited = indexOrder.remaining + indexOrder.engaged
================================================================================
