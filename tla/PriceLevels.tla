------------------------------ MODULE PriceLevels ------------------------------
(* The order book of a symbol: quantities by price on two sides, found with a *)
(* tolerance (symm-core/src/market_data/order_book). Prices and quantities    *)
(* are integers; a side is a function from its prices to quantities.          *)
EXTENDS Integers, SequencesExt

CONSTANTS Tolerance,   \* zero_threshold: of prices and of quantities
          Prices,      \* prices of the exchange's updates
          Quantities   \* and their quantities; 0 removes a price

VARIABLES book,    \* PricePointBook: bid_entries and ask_entries
          told     \* history: the quantity last told of a price
vars == <<book, told>>

BookSides == {"buy", "sell"}
None == [price |-> -1, quantity |-> 0]

Init == /\ book = [side \in BookSides |-> <<>>]
        /\ told = [side \in BookSides |-> [p \in Prices |-> 0]]

-------------------------------------------------------------------------------
(* Entries.                                                                   *)

\* Mutant: the next price above is taken for the same.
FindEntry_Above(entries, p) ==
    LET above == {q \in DOMAIN entries : q >= p - Tolerance}
    IN  IF above = {} THEN {} ELSE {Min(above)}

\* The lowest price from p - Tolerance on, if it is within the tolerance.
FindEntry(entries, p) ==
    LET above == {q \in DOMAIN entries : q >= p - Tolerance}
    IN  IF above # {} /\ Min(above) < p + Tolerance THEN {Min(above)} ELSE {}

\* An entry that is found keeps its price. A quantity within the tolerance
\* removes it.
UpdateEntry(entries, e) ==
    LET found == FindEntry(entries, e.price)
        price == IF found = {} THEN e.price ELSE Min(found)
    IN  IF e.quantity > Tolerance
        THEN [q \in DOMAIN entries \cup {price} |-> IF q = price THEN e.quantity ELSE entries[q]]
        ELSE Restrict(entries, DOMAIN entries \ found)

\* The prices of a side, the best first.
FromTop(side, entries) ==
    SetToSortSeq(DOMAIN entries, LAMBDA p, q : IF side = "buy" THEN p > q ELSE p < q)

\* Mutant: the tolerance makes the limit stricter.
Within_Strict(side, p, limit) ==
    IF side = "buy" THEN p >= limit + Tolerance ELSE p <= limit - Tolerance

Within(side, p, limit) == IF side = "buy" THEN p >= limit - Tolerance ELSE p <= limit + Tolerance

GetLiquidity(side, entries, limit) ==
    FoldLeft(LAMBDA sum, p : IF Within(side, p, limit) THEN sum + entries[p] ELSE sum,
             0, FromTop(side, entries))

\* The last of the first n prices, with the quantity of all of them.
GetLiquidityLevels(side, entries, n) ==
    FoldLeft(LAMBDA x, p : [price |-> p, quantity |-> x.quantity + entries[p]],
             None, SubSeq(FromTop(side, entries), 1, Min({n, Cardinality(DOMAIN entries)})))

GetTopLevel(side, entries) ==
    IF entries = <<>> THEN None
    ELSE LET p == Head(FromTop(side, entries)) IN [price |-> p, quantity |-> entries[p]]

-------------------------------------------------------------------------------
(* What the feed tells of a symbol: a change of one side, or all of it.       *)

Updates == UNION {[1 .. n -> [price : Prices, quantity : Quantities]] : n \in 1 .. 2}

Hears(old, updates) == FoldLeft(LAMBDA x, e : [x EXCEPT ![e.price] = e.quantity], old, updates)

UpdateEntries(side, old, updates) == [book EXCEPT ![side] = FoldLeft(UpdateEntry, old, updates)]

Delta(side, updates) ==
    /\ book' = UpdateEntries(side, book[side], updates)
    /\ told' = [told EXCEPT ![side] = Hears(@, updates)]

\* It clears both sides; here it has prices on one of them.
Snapshot(side, updates) ==
    /\ book' = [other \in BookSides |-> IF other = side THEN FoldLeft(UpdateEntry, <<>>, updates) ELSE <<>>]
    /\ told' = [other \in BookSides |-> IF other = side THEN Hears([p \in Prices |-> 0], updates)
                                    ELSE [p \in Prices |-> 0]]

Next == \E side \in BookSides, updates \in Updates : Delta(side, updates) \/ Snapshot(side, updates)

Spec == Init /\ [][Next]_vars

-------------------------------------------------------------------------------
(* Properties.                                                                *)

(***************************************************************************)
(* The book has a price just when the last that was told of it is more     *)
(* than the tolerance, and with that quantity: prices do not disturb each  *)
(* other. It takes prices further apart than the tolerance.                *)
(***************************************************************************)
LevelsIndependent ==
    \A side \in BookSides :
        LET live == {p \in Prices : told[side][p] > Tolerance}
        IN  DOMAIN book[side] = live /\ \A p \in live : book[side][p] = told[side][p]

(***************************************************************************)
(* The strategy asks for the liquidity up to a price, and for that of the  *)
(* first levels; the two agree: up to the price of the n-th level there is *)
(* what the first n levels have, and the first level is the top of book.   *)
(***************************************************************************)
LiquidityAgrees ==
    \A side \in BookSides : \A n \in 1 .. Cardinality(DOMAIN book[side]) :
        LET level == GetLiquidityLevels(side, book[side], n)
        IN  /\ GetLiquidity(side, book[side], level.price) = level.quantity
            /\ n = 1 => GetTopLevel(side, book[side]) = level
================================================================================
