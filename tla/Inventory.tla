------------------------------- MODULE Inventory -------------------------------
(***************************************************************************)
(* The inventory: Position with its FIFO queue of lots (position.rs) and   *)
(* the InventoryManager that turns the order tracker's fills into OpenLot  *)
(* and CloseLot events for the solver, attaches index orders to lots and   *)
(* persists its positions (inventory_manager.rs).                          *)
(*                                                                         *)
(* Every fill has its own execution id and time, so both are the number of *)
(* the fill.                                                               *)
(***************************************************************************)
EXTENDS Integers, Sequences, FiniteSets, SequencesExt

CONSTANTS
    Symbols,      \* base assets
    Sides,        \* sides of the orders the batch manager sends
    Quantities,   \* quantities of fills
    Unit,         \* the step of all quantities
    Tolerance,    \* zero threshold of the inventory manager, below a step
    Null,
    MaxFills,     \* bound: fills, over all symbols
    MaxRestarts   \* bound: crashes

ASSUME SidesAssumption == Sides \subseteq {"Buy", "Sell"}
ASSUME QuantitiesAssumption ==
    /\ Tolerance \in Nat \ {0} /\ Unit \in Nat /\ Tolerance < Unit
    /\ \A q \in Quantities : q \in Nat /\ \E k \in 1 .. q : q = k * Unit
ASSUME MaxFillsAssumption == MaxFills \in Nat
ASSUME MaxRestartsAssumption == MaxRestarts \in Nat

VARIABLES
    positions,   \* symbol -> Position, or Null when there is none
    saved,       \* the positions in the persistence file
    fills,       \* fills so far
    report,      \* what the last fill was and what the solver heard of it
    restarts

vars == <<positions, saved, fills, report, restarts>>

Lot == [id : 1 .. MaxFills, original : Nat, remaining : Nat, updated : 1 .. MaxFills,
        last_closed : Nat, assigned : BOOLEAN]

Position == [side : {"Buy", "Sell"}, balance : Nat, updated : 1 .. MaxFills, open_lots : Seq(Lot)]

TypeOK ==
    /\ positions \in [Symbols -> Position \cup {Null}]
    /\ saved \in [Symbols -> Position \cup {Null}]
    /\ fills \in 0 .. MaxFills
    /\ report \in [symbol : Symbols \cup {Null}, side : {"Buy", "Sell"},
                   quantity : Nat, opened : Nat, closed : Nat]
    /\ restarts \in 0 .. MaxRestarts

Init ==
    /\ positions = [x \in Symbols |-> Null]
    /\ saved = [x \in Symbols |-> Null]
    /\ fills = 0
    /\ report = [symbol |-> Null, side |-> "Buy", quantity |-> 0, opened |-> 0, closed |-> 0]
    /\ restarts = 0

-----------------------------------------------------------------------------
(***************************************************************************)
(* Position.                                                               *)
(***************************************************************************)
\* Position::create_lot at fill n.
CreateLot(p, q, n) ==
    [p EXCEPT !.updated = n,
              !.balance = @ + q,
              !.open_lots = Append(@, [id |-> n, original |-> q, remaining |-> q,
                                       updated |-> n, last_closed |-> 0,
                                       assigned |-> FALSE])]

\* Mutant of CloseSome: the operands of the subtraction are swapped.
CloseSome_Swapped(lot, quantity, n) ==
    [lot EXCEPT !.remaining = quantity - @, !.last_closed = quantity, !.updated = n]

\* A lot after `quantity' of it was closed at fill n.
CloseSome(lot, quantity, n) ==
    [lot EXCEPT !.remaining = IF @ - quantity < Tolerance THEN 0 ELSE @ - quantity,
                !.last_closed = quantity, !.updated = n]

\* One turn of the loop: the lot takes what is left of the fill, or as much as it has.
MatchLot(m, lot, n) ==
    LET rest == lot.remaining - m.left
    IN  IF m.finished THEN m
        ELSE IF rest < Tolerance
        THEN [m EXCEPT !.left = IF rest < -Tolerance THEN -rest ELSE 0,
                       !.finished = ~(rest < -Tolerance),
                       !.balance = @ - lot.remaining,
                       !.closed_lots = Append(@, CloseSome(lot, lot.remaining, n))]
        ELSE [m EXCEPT !.left = 0, !.finished = TRUE,
                       !.balance = @ - m.left,
                       !.front_lot_update = <<CloseSome(lot, m.left, n)>>]

\* The loop over the open lots.
MatchLoop(p, q, n) ==
    LET after[i \in 0 .. Len(p.open_lots)] ==
          IF i = 0
          THEN [left |-> q, finished |-> FALSE, balance |-> p.balance,
                closed_lots |-> <<>>, front_lot_update |-> <<>>]
          ELSE MatchLot(after[i - 1], p.open_lots[i], n)
    IN  after[Len(p.open_lots)]

\* "Commit Transaction": drain(count..) keeps the first `count' lots.
CommitLots(p, m) ==
    LET kept == SubSeq(p.open_lots, 1, Len(m.closed_lots))
    IN  IF m.front_lot_update = <<>> THEN kept
        ELSE m.front_lot_update \o (IF kept = <<>> THEN <<>> ELSE Tail(kept))

\* Mutant of MatchLots: what no open lot could take of a fill is lost.
MatchLots_DropRest(p, q, n) ==
    LET m == MatchLoop(p, q, n)
    IN  [position |-> [p EXCEPT !.updated = n, !.balance = m.balance,
                                !.open_lots = CommitLots(p, m)],
         closed_lots |-> m.closed_lots,
         unmatched |-> 0]

\* Position::match_lots against a fill on the other side.
MatchLots(p, q, n) ==
    LET m == MatchLoop(p, q, n)
    IN  [position |-> [p EXCEPT !.updated = n, !.balance = m.balance,
                                !.open_lots = CommitLots(p, m)],
         closed_lots |-> m.closed_lots,
         unmatched |-> IF Tolerance < m.left THEN m.left ELSE 0]

\* drain_closed_lots_and_callback_on_updated: the lots for which CloseLot is
\* published, the closed ones and the front lot if it looks just updated.
Called(p, closed_lots) ==
    IF /\ p.open_lots # <<>>
       /\ Head(p.open_lots).remaining # Head(p.open_lots).original
       /\ Head(p.open_lots).updated = p.updated
    THEN Append(closed_lots, Head(p.open_lots))
    ELSE closed_lots

QuantityClosed(lots) == SumFunctionOnSet([i \in DOMAIN lots |-> lots[i].last_closed], DOMAIN lots)

-----------------------------------------------------------------------------
(***************************************************************************)
(* InventoryManager.                                                       *)
(***************************************************************************)
NewPosition(side, n) == [side |-> side, balance |-> 0, updated |-> n, open_lots |-> <<>>]

\* handle_fill_report: match against open lots, open a lot for the rest.
HandleFill(x, side, q) ==
    LET n == fills + 1
        p == positions[x]
        matched == IF p = Null
                   THEN [position |-> NewPosition(side, n), lots |-> <<>>, unmatched |-> q]
                   ELSE IF p.side = side
                   THEN [position |-> p, lots |-> Called(p, <<>>), unmatched |-> q]
                   ELSE LET m == MatchLots(p, q, n)
                        IN  [position |-> m.position,
                             lots |-> Called(m.position, m.closed_lots),
                             unmatched |-> m.unmatched]
    IN  /\ fills < MaxFills
        /\ fills' = n
        /\ positions' = [positions EXCEPT ![x] =
                            IF matched.unmatched = 0 THEN matched.position
                            ELSE CreateLot(matched.position, matched.unmatched, n)]
        /\ report' = [symbol |-> x, side |-> side, quantity |-> q,
                      opened |-> matched.unmatched, closed |-> QuantityClosed(matched.lots)]
        /\ UNCHANGED <<saved, restarts>>

\* assign_lots for lots of one symbol: the lots that are still open get the
\* assignment, and the positions are stored.
AssignLots(x, ids) ==
    /\ positions[x] # Null
    /\ LET assign(lot) == [lot EXCEPT !.assigned = @ \/ lot.id \in ids] IN
        positions' = [positions EXCEPT ![x].open_lots = [i \in DOMAIN @ |-> assign(@[i])]]
    /\ saved' = positions'
    /\ UNCHANGED <<fills, report, restarts>>

\* Store on a graceful stop.
Store ==
    /\ saved # positions
    /\ saved' = positions
    /\ UNCHANGED <<positions, fills, report, restarts>>

\* Crash and load: fills since the last store are gone.
Restart ==
    /\ restarts < MaxRestarts
    /\ restarts' = restarts + 1
    /\ positions' = saved
    /\ UNCHANGED <<saved, fills, report>>

\* What is sold is what the inventory holds.
Holds(x, side, q) ==
    side = "Sell" => positions[x] # Null /\ q =< positions[x].balance

Next ==
    \/ \E x \in Symbols, side \in Sides, q \in Quantities :
        Holds(x, side, q) /\ HandleFill(x, side, q)
    \/ \E x \in Symbols, n \in 1 .. MaxFills : n =< fills /\ AssignLots(x, {n})
    \/ Store
    \/ Restart

Spec == Init /\ [][Next]_vars

-----------------------------------------------------------------------------
(***************************************************************************)
(* Properties.                                                             *)
(***************************************************************************)
SumRemaining(lots) == SumFunctionOnSet([i \in DOMAIN lots |-> lots[i].remaining], DOMAIN lots)

\* The balance of a position is what remains in its open lots, also after a
\* restart: "Lots open on the side", and "We closed the lot ...we move it to
\* closed_lots".
LotsMatchBalance ==
    \A x \in Symbols :
        positions[x] # Null => SumRemaining(positions[x].open_lots) = positions[x].balance

\* A Sell is reported to the solver in full: what its CloseLot events close
\* and what it opens add up to the fill, over any number of lots.
SellFullyReported ==
    report.side = "Sell" => report.closed + report.opened = report.quantity

\* No balance and no lot is ever overdrawn, and the solver hears all of a sell,
\* also when a crash took back what was not stored.
PositionsSound == TypeOK /\ SellFullyReported

\* "When we get an execution of the Buy order, then we open a lot": a fill on
\* the side of the position is reported as one new lot and closes nothing.
BuyOpensOnly ==
    report.side = "Buy" => report.closed = 0

=============================================================================
