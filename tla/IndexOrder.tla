------------------------------ MODULE IndexOrder ------------------------------
(* IndexOrder (solver/index_order.rs): the updates of one client for one      *)
(* index, and what each operation makes of them. Amounts are multiples of     *)
(* more than the tolerance. Sums are checked in the code; none is negative    *)
(* where an operation is called.                                              *)
EXTENDS Integers, SequencesExt

IndexOrderUpdate(id, side, amount) ==
    [id |-> id, side |-> side, original |-> amount, remaining |-> amount,
     touched |-> FALSE,   \* engaged_collateral.is_some()
     engaged |-> 0, spent |-> 0]

EmptyIndexOrder(side) ==
    [side |-> side, remaining |-> 0, engagedSide |-> FALSE, engaged |-> 0, spent |-> 0,
     updates |-> <<>>, engagedUpdates |-> <<>>, closedUpdates |-> <<>>]

Opposite(side) == IF side = "buy" THEN "sell" ELSE "buy"

SumOf(field(_), updates) == FoldLeft(LAMBDA n, u : n + field(u), 0, updates)
Remaining(updates) == SumOf(LAMBDA u : u.remaining, updates)

\* What is left of amount after the first k updates of the sequence took theirs.
Left(amount, updates, k) == amount - Remaining(SubSeq(updates, 1, k))

Engage(u, amount) ==
    [u EXCEPT !.touched = TRUE, !.engaged = @ + amount, !.remaining = @ - amount]

-------------------------------------------------------------------------------
(***************************************************************************)
(* match_cancel takes amount from the newest update backwards. It stops at *)
(* the update that has more than is left, which it reduces, or at one that *)
(* the solver engaged with, which gives up what it still has and counts as *)
(* fully engaged. The others are closed. unmatched is what was not found,  *)
(* if the queue ran out.                                                   *)
(***************************************************************************)
MatchCancel(order, amount) ==
    LET newest == Reverse(order.updates)
        Stops(k) == Left(amount, newest, k) <= 0 \/ newest[k].touched
        stops == {k \in DOMAIN newest : Stops(k)}
        k == IF stops = {} THEN Len(newest) ELSE Min(stops)
        left == Left(amount, newest, k)
        kept == SubSeq(order.updates, 1, Len(newest) - k)
        closed == [i \in 1 .. k - 1 |-> newest[i]]
    IN  IF stops = {}
        THEN [ranOut |-> TRUE, unmatched |-> left,
              order |-> [order EXCEPT !.updates = <<>>, !.closedUpdates = @ \o newest]]
        ELSE IF left < 0
        THEN [ranOut |-> FALSE, unmatched |-> 0,
              order |-> [order EXCEPT !.updates = Append(kept, [newest[k] EXCEPT !.remaining = -left]),
                                      !.closedUpdates = @ \o closed]]
        ELSE IF newest[k].touched
        THEN [ranOut |-> TRUE, unmatched |-> left,
              order |-> [order EXCEPT !.updates = kept,
                                      !.engagedUpdates = Append(@, [newest[k] EXCEPT !.remaining = 0]),
                                      !.closedUpdates = @ \o closed]]
        ELSE [ranOut |-> FALSE, unmatched |-> 0,
              order |-> [order EXCEPT !.updates = kept,
                                      !.closedUpdates = @ \o Append(closed, newest[k])]]

\* Mutant: the order is flipped although the solver engaged with it.
UpdateOrder_Flips(order, id, side, amount) ==
    LET update == IndexOrderUpdate(id, side, amount)
        match == MatchCancel(order, amount)
    IN  IF side = order.side
        THEN [outcome |-> "push",
              order |-> [order EXCEPT !.remaining = @ + amount, !.updates = Append(@, update)]]
        ELSE IF ~match.ranOut
        THEN [outcome |-> "reduce", order |-> [match.order EXCEPT !.remaining = @ - amount]]
        ELSE [outcome |-> "flip",
              order |-> [match.order EXCEPT
                           !.remaining = match.unmatched, !.side = side,
                           !.updates = Append(@, [update EXCEPT !.remaining = match.unmatched])]]

\* An update on the order's side is queued. One on the other side cancels, and
\* flips the order when all of it is cancelled and the solver has not engaged.
UpdateOrder(order, id, side, amount) ==
    LET update == IndexOrderUpdate(id, side, amount)
        match == MatchCancel(order, amount)
    IN  IF side = order.side
        THEN [outcome |-> "push",
              order |-> [order EXCEPT !.remaining = @ + amount, !.updates = Append(@, update)]]
        ELSE IF ~match.ranOut
        THEN [outcome |-> "reduce", order |-> [match.order EXCEPT !.remaining = @ - amount]]
        ELSE IF order.engagedSide
        THEN [outcome |-> "reduce", order |-> [match.order EXCEPT !.remaining = 0]]
        ELSE [outcome |-> "flip",
              order |-> [match.order EXCEPT
                           !.remaining = match.unmatched, !.side = side,
                           !.updates = Append(@, [update EXCEPT !.remaining = match.unmatched])]]

\* match_engage and solver_engage take amount from the oldest update forwards.
SolverEngage(order, amount) ==
    LET done == {k \in DOMAIN order.updates : Left(amount, order.updates, k) <= 0}
        k == IF done = {} THEN Len(order.updates) ELSE Min(done)
        left == Left(amount, order.updates, k)
        whole == [i \in 1 .. IF left < 0 THEN k - 1 ELSE k |->
                     Engage(order.updates[i], order.updates[i].remaining)]
        rest == SubSeq(order.updates, k + 1, Len(order.updates))
        taken == IF done = {} THEN amount - left ELSE amount
    IN  [order EXCEPT
           !.updates = IF left < 0
                       THEN <<Engage(order.updates[k], order.updates[k].remaining + left)>> \o rest
                       ELSE rest,
           !.engagedUpdates = @ \o whole,
           !.engaged = @ + taken, !.remaining = @ - taken, !.engagedSide = TRUE]

-------------------------------------------------------------------------------
\* match_engage_one: only the oldest update may be engaged, and none again that
\* was fully engaged last.
FullyEngagedLast(order, id) ==
    order.engagedUpdates # <<>> /\ Last(order.engagedUpdates).id = id

CanEngageOne(order, id, amount) ==
    IF FullyEngagedLast(order, id) THEN amount <= 0
    ELSE order.updates # <<>> /\ Head(order.updates).id = id

\* solver_engage_one, and what it leaves on the update.
SolverEngageOne(order, id, amount) ==
    LET front == Head(order.updates)
        matched == Min({amount, front.remaining})
        update == Engage(front, matched)
        whole == update.remaining <= 0
    IN  IF FullyEngagedLast(order, id)
        THEN [order |-> [order EXCEPT !.engaged = @ + amount, !.remaining = @ - amount,
                                      !.engagedSide = TRUE],
              engaged |-> amount, remaining |-> 0]
        ELSE [order |-> [order EXCEPT
                 !.updates = IF whole THEN Tail(@) ELSE <<update>> \o Tail(@),
                 !.engagedUpdates = IF whole THEN Append(@, update) ELSE @,
                 !.engaged = @ + matched, !.remaining = @ - matched, !.engagedSide = TRUE],
              engaged |-> matched, remaining |-> update.remaining]

HasEngaged(order, id) == \E u \in Range(order.engagedUpdates) : u.id = id

\* The first fully engaged update with the id is closed.
SolverComplete(order, id) ==
    LET i == Min({j \in DOMAIN order.engagedUpdates : order.engagedUpdates[j].id = id})
    IN  [order EXCEPT !.engagedUpdates = RemoveAt(@, i),
                      !.closedUpdates = Append(@, order.engagedUpdates[i])]

\* Mutant: an update that paid a fee stays.
SolverCancel_Charged(order, id) ==
    LET Named(u) == u.id = id /\ u.spent = 0
        named == SelectSeq(order.updates, Named)
    IN  [order EXCEPT !.updates = SelectSeq(@, LAMBDA u : ~Named(u)),
                      !.closedUpdates = @ \o named,
                      !.remaining = @ - Remaining(named)]

\* Updates that wait are closed, also one that is engaged in part.
SolverCancel(order, id) ==
    LET Named(u) == u.id = id
        named == SelectSeq(order.updates, Named)
    IN  [order EXCEPT !.updates = SelectSeq(@, LAMBDA u : ~Named(u)),
                      !.closedUpdates = @ \o named,
                      !.remaining = @ - Remaining(named)]

FindOrderUpdate(order, id) == \E u \in Range(order.updates) : u.id = id

\* Mutant: the front is taken without a look at its id.
FindEngagedUpdate_Front(order, id) ==
    IF order.updates # <<>> /\ Head(order.updates).touched THEN <<"updates", 1>>
    ELSE IF HasEngaged(order, id) THEN <<"engagedUpdates", 1>> ELSE <<>>

\* find_engaged_update: the front of the queue, then the engaged ones. Where is
\* a pair of the queue and the place in it, or <<>>.
FindEngagedUpdate(order, id) ==
    LET engaged == {j \in DOMAIN order.engagedUpdates : order.engagedUpdates[j].id = id}
    IN  IF order.updates # <<>> /\ Head(order.updates).id = id THEN <<"updates", 1>>
        ELSE IF engaged # {} THEN <<"engagedUpdates", Min(engaged)>>
        ELSE <<>>
================================================================================
