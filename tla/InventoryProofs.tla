--------------------------- MODULE InventoryProofs ---------------------------
(***************************************************************************)
(* Proofs about the inventory: for all sets of symbols, all quantities in  *)
(* steps larger than the zero threshold, and any number of fills and       *)
(* crashes.                                                                *)
(***************************************************************************)
EXTENDS Inventory, CollectionTheorems

-----------------------------------------------------------------------------
(* The inductive invariant.                                                *)

Multiples == {k * Unit : k \in Int}

\* An open lot has something left, and was last touched by fill n or before.
LotSound(lot, n) ==
    /\ lot.remaining \in Multiples
    /\ 0 < lot.remaining /\ lot.remaining <= lot.original
    /\ lot.updated <= n

\* Only what was bought is held, in whole steps.
PositionSound(p, n) ==
    /\ p \in Position
    /\ p.side = "Buy"
    /\ p.balance \in Multiples
    /\ \A i \in DOMAIN p.open_lots : LotSound(p.open_lots[i], n)

Sound(ps, n) == \A x \in Symbols : ps[x] # Null => PositionSound(ps[x], n)

\* The inductive invariant: memory and file are sound, and so is the last report.
Inv == PositionsSound /\ Sound(positions, fills) /\ Sound(saved, fills)

-----------------------------------------------------------------------------
(* Steps of quantity.                                                      *)

LEMMA UnitFacts == Unit \in Int /\ Tolerance \in Int /\ 0 < Tolerance /\ Tolerance < Unit
BY QuantitiesAssumption

\* Whole steps are added and subtracted to whole steps.
LEMMA MultiplesFacts ==
    ASSUME NEW a \in Multiples, NEW b \in Multiples
    PROVE  a \in Int /\ a + b \in Multiples /\ a - b \in Multiples
<1>1. PICK k \in Int : a = k * Unit
  BY DEF Multiples
<1>2. PICK l \in Int : b = l * Unit
  BY DEF Multiples
<1>3. Unit \in Int
  BY UnitFacts
<1>4. k + l \in Int /\ k - l \in Int
  OBVIOUS
<1>5. (k + l) * Unit = k * Unit + l * Unit /\ (k - l) * Unit = k * Unit - l * Unit
  BY <1>3
<1>6. a + b = (k + l) * Unit /\ a - b = (k - l) * Unit
  BY <1>1, <1>2, <1>5
<1>7. a + b \in Multiples /\ a - b \in Multiples
  BY <1>4, <1>6 DEF Multiples
<1> QED  BY <1>1, <1>3, <1>7

\* What is less than a step is nothing, and nothing else is within the zero threshold.
LEMMA SmallMultiples ==
    ASSUME NEW a \in Multiples
    PROVE  /\ a \in Int
           /\ a < Unit => a <= 0
           /\ -Unit < a => 0 <= a
<1>1. PICK k \in Int : a = k * Unit
  BY DEF Multiples
<1>2. Unit \in Int /\ 0 < Unit
  BY UnitFacts
<1>3. ASSUME a < Unit PROVE a <= 0
  <2>1. CASE k <= 0
    BY <1>1, <1>2, <2>1
  <2>2. CASE k >= 1
    <3>1. k * Unit >= 1 * Unit
      BY <1>2, <2>2
    <3> QED  BY <1>1, <1>2, <1>3, <3>1
  <2> QED  BY <2>1, <2>2
<1>4. ASSUME -Unit < a PROVE 0 <= a
  <2>1. CASE k >= 0
    BY <1>1, <1>2, <2>1
  <2>2. CASE k <= -1
    <3>1. k * Unit <= (-1) * Unit
      BY <1>2, <2>2
    <3> QED  BY <1>1, <1>2, <1>4, <3>1
  <2> QED  BY <2>1, <2>2
<1> QED  BY <1>1, <1>2, <1>3, <1>4

\* Fills are whole steps.
LEMMA QuantityFacts ==
    ASSUME NEW q \in Quantities
    PROVE  q \in Multiples /\ q \in Nat /\ 0 < q
<1>1. q \in Nat /\ \E k \in 1 .. q : q = k * Unit
  BY QuantitiesAssumption
<1>2. PICK k \in 1 .. q : q = k * Unit
  BY <1>1
<1>3. Unit \in Int /\ 0 < Unit
  BY UnitFacts
<1>4. k \in Int /\ k >= 1
  BY <1>1, <1>2
<1>5. k * Unit > 0
  BY <1>3, <1>4
<1> QED  BY <1>1, <1>2, <1>4, <1>5 DEF Multiples

-----------------------------------------------------------------------------
(* What a fill closes.                                                     *)

LEMMA LotFields ==
    ASSUME NEW lot \in Lot
    PROVE  /\ lot.id \in 1 .. MaxFills /\ lot.original \in Nat /\ lot.remaining \in Nat
           /\ lot.updated \in 1 .. MaxFills /\ lot.last_closed \in Nat /\ lot.assigned \in BOOLEAN
BY DEF Lot

LEMMA NothingClosed == QuantityClosed(<<>>) = 0
<1>1. DOMAIN <<>> = {}
  OBVIOUS
<1> QED  BY <1>1, SumEmpty DEF QuantityClosed

\* What lots report as closed adds up as they are appended.
LEMMA ClosedAppended ==
    ASSUME NEW lots \in Seq(Lot), NEW lot \in Lot
    PROVE  /\ QuantityClosed(lots) \in Nat
           /\ QuantityClosed(Append(lots, lot)) = QuantityClosed(lots) + lot.last_closed
<1> DEFINE all == Append(lots, lot)
           f == [i \in DOMAIN lots |-> lots[i].last_closed]
           g == [i \in DOMAIN all |-> all[i].last_closed]
           n == Len(lots)
<1>1. /\ n \in Nat /\ DOMAIN lots = 1 .. n
      /\ \A i \in 1 .. n : lots[i] \in Lot
  BY LenProperties, ElementOfSeq
<1>2. /\ DOMAIN all = 1 .. n + 1
      /\ all[n + 1] = lot /\ \A i \in 1 .. n : all[i] = lots[i]
  BY <1>1, AppendProperties
<1> HIDE DEF all, n
<1>3. \A i \in 1 .. n : f[i] \in Nat /\ g[i] = f[i]
  BY <1>1, <1>2, LotFields
<1>4. g[n + 1] = lot.last_closed /\ lot.last_closed \in Nat
  BY <1>1, <1>2, LotFields
<1>5. QuantityClosed(lots) = SumFunctionOnSet(f, 1 .. n)
  BY <1>1 DEF QuantityClosed
<1>6. QuantityClosed(all) = SumFunctionOnSet(g, 1 .. n + 1)
  BY <1>2 DEF QuantityClosed
<1> HIDE DEF f, g
<1>7. IsFiniteSet(1 .. n)
  BY <1>1, FS_Interval
<1>8. SumFunctionOnSet(f, 1 .. n) \in Nat
  BY <1>3, <1>7, SumNatural
<1>9. SumFunctionOnSet(g, 1 .. n) = SumFunctionOnSet(f, 1 .. n)
  <2>1. \A i \in 1 .. n : f[i] \in Int /\ g[i] \in Int /\ g[i] = f[i]
    BY <1>3
  <2> QED  BY <1>7, <2>1, SumAgrees
<1>10. \A i \in 1 .. n + 1 : g[i] \in Int
  <2> SUFFICES ASSUME NEW i \in 1 .. n + 1 PROVE g[i] \in Int
    OBVIOUS
  <2>1. i \in 1 .. n \/ i = n + 1
    BY <1>1
  <2> QED  BY <1>3, <1>4, <2>1
<1>11. SumFunctionOnSet(g, 1 .. n + 1) = SumFunctionOnSet(g, 1 .. n) + g[n + 1]
  BY <1>1, <1>10, SumLast
<1> QED  BY <1>4, <1>5, <1>6, <1>8, <1>9, <1>11 DEF all

\* What lots report as closed is an amount.
LEMMA ClosedTyped ==
    ASSUME NEW lots \in Seq(Lot)
    PROVE  QuantityClosed(lots) \in Nat
<1> DEFINE f == [i \in DOMAIN lots |-> lots[i].last_closed]
<1>1. Len(lots) \in Nat /\ DOMAIN lots = 1 .. Len(lots) /\ \A i \in 1 .. Len(lots) : lots[i] \in Lot
  BY LenProperties, ElementOfSeq
<1>2. IsFiniteSet(DOMAIN lots)
  BY <1>1, FS_Interval
<1>3. \A i \in DOMAIN lots : f[i] \in Nat
  BY <1>1, LotFields
<1> QED  BY <1>2, <1>3, SumNatural DEF QuantityClosed

-----------------------------------------------------------------------------
(* One turn of match_lots, and all of them.                                *)

Matching == [left : Nat, finished : BOOLEAN, balance : Nat,
             closed_lots : Seq(Lot), front_lot_update : Seq(Lot)]

\* The front lot as a fill leaves it that closed a part of it.
FrontSound(lot, n) ==
    /\ lot \in Lot /\ LotSound(lot, n)
    /\ lot.remaining < lot.original /\ lot.updated = n

\* After i lots: what the fill q took from the balance and closed is what it has
\* not left, and a lot closed in part is the last one.
LoopSound(m, i, balance, q, n) ==
    /\ m \in Matching
    /\ m.left \in Multiples /\ (m.left = 0 => m.finished)
    /\ m.left <= q /\ m.balance = balance - (q - m.left)
    /\ Len(m.closed_lots) <= i
    /\ \/ m.front_lot_update = <<>> /\ QuantityClosed(m.closed_lots) + m.left = q
       \/ /\ m.finished /\ m.left = 0
          /\ \E lot : /\ m.front_lot_update = <<lot>> /\ FrontSound(lot, n)
                      /\ QuantityClosed(m.closed_lots) + lot.last_closed = q

\* What CloseSome makes of a lot.
LEMMA CloseFacts ==
    ASSUME NEW lot \in Lot, NEW quantity \in Nat, NEW n \in 1 .. MaxFills,
           quantity <= lot.remaining
    PROVE  /\ CloseSome(lot, quantity, n) \in Lot
           /\ CloseSome(lot, quantity, n).last_closed = quantity
           /\ CloseSome(lot, quantity, n).updated = n
           /\ CloseSome(lot, quantity, n).original = lot.original
           /\ lot.remaining - quantity >= Tolerance
                => CloseSome(lot, quantity, n).remaining = lot.remaining - quantity
<1> DEFINE rest == IF lot.remaining - quantity < Tolerance THEN 0 ELSE lot.remaining - quantity
<1>1. lot.remaining \in Nat /\ Tolerance \in Int
  BY LotFields, UnitFacts
<1>2. rest \in Nat /\ (lot.remaining - quantity >= Tolerance => rest = lot.remaining - quantity)
  BY <1>1
<1>3. CloseSome(lot, quantity, n)
        = [lot EXCEPT !.remaining = rest, !.last_closed = quantity, !.updated = n]
  BY DEF CloseSome
<1> HIDE DEF rest
<1> QED  BY <1>2, <1>3 DEF Lot

\* One lot of the loop.
LEMMA TurnSound ==
    ASSUME NEW n \in 1 .. MaxFills, NEW balance \in Nat, NEW q \in Multiples,
           0 < q, q <= balance, NEW i \in Nat, NEW m, LoopSound(m, i, balance, q, n),
           NEW lot \in Lot, LotSound(lot, n - 1)
    PROVE  LoopSound(MatchLot(m, lot, n), i + 1, balance, q, n)
<1> DEFINE rest == lot.remaining - m.left
           y == MatchLot(m, lot, n)
<1>1. /\ m \in Matching /\ m.left \in Multiples /\ m.left \in Nat /\ m.balance \in Nat
      /\ m.finished \in BOOLEAN /\ m.closed_lots \in Seq(Lot) /\ m.front_lot_update \in Seq(Lot)
      /\ m.left <= q /\ m.balance = balance - (q - m.left)
      /\ Len(m.closed_lots) <= i
  BY DEF LoopSound, Matching
<1>2. /\ lot.remaining \in Multiples /\ lot.remaining \in Nat /\ lot.original \in Nat
      /\ 0 < lot.remaining /\ lot.remaining <= lot.original
  BY LotFields DEF LotSound
<1>3. q \in Nat
  BY MultiplesFacts
<1>4. rest \in Multiples /\ rest \in Int
  BY <1>1, <1>2, MultiplesFacts
<1>5. rest < Unit => rest <= 0
  BY <1>4, SmallMultiples
<1>6. -Unit < rest => 0 <= rest
  BY <1>4, SmallMultiples
<1>7. Len(m.closed_lots) \in Nat
  BY <1>1, LenProperties
<1> HIDE DEF Multiples, Lot
<1>8. CASE m.finished
  <2>1. y = m
    BY <1>8 DEF MatchLot
  <2>2. Len(m.closed_lots) <= i + 1
    BY <1>1, <1>7
  <2> HIDE DEF y
  <2>3. LoopSound(y, i + 1, balance, q, n)
    BY <2>1, <2>2 DEF LoopSound
  <2> QED  BY <2>3 DEF y
<1>9. CASE ~m.finished /\ rest < Tolerance
  <2> DEFINE closed == CloseSome(lot, lot.remaining, n)
             left == IF rest < -Tolerance THEN -rest ELSE 0
             lots == Append(m.closed_lots, closed)
  <2>1. y = [m EXCEPT !.left = left, !.finished = ~(rest < -Tolerance),
                      !.balance = @ - lot.remaining, !.closed_lots = lots]
    BY <1>9 DEF MatchLot
  <2>2. closed \in Lot /\ closed.last_closed = lot.remaining
    <3> HIDE DEF closed
    <3>1. lot.remaining <= lot.remaining
      BY <1>2
    <3> QED  BY <1>2, <3>1, CloseFacts DEF closed
  <2> HIDE DEF closed
  <2>3. left = m.left - lot.remaining /\ left \in Nat /\ (left = 0 => ~(rest < -Tolerance))
    <3>1. CASE rest < -Tolerance
      BY <1>1, <1>2, <3>1, UnitFacts
    <3>2. CASE ~(rest < -Tolerance)
      <4>1. rest = 0
        BY <1>4, <1>5, <1>6, <1>9, <3>2, UnitFacts
      <4> QED  BY <1>1, <1>2, <3>2, <4>1
    <3> QED  BY <3>1, <3>2
  <2> HIDE DEF left
  <2>4. left \in Multiples
    BY <1>1, <1>2, <2>3, MultiplesFacts
  <2>5. lots \in Seq(Lot) /\ Len(lots) = Len(m.closed_lots) + 1
    BY <1>1, <2>2, AppendProperties
  <2>6. /\ QuantityClosed(m.closed_lots) \in Nat
        /\ QuantityClosed(lots) = QuantityClosed(m.closed_lots) + lot.remaining
    BY <1>1, <2>2, ClosedAppended
  <2> HIDE DEF lots
  <2>7. m.front_lot_update = <<>> /\ QuantityClosed(m.closed_lots) + m.left = q
    BY <1>9 DEF LoopSound
  <2>8. m.balance - lot.remaining = balance - (q - left) /\ m.balance - lot.remaining \in Nat
    <3>1. left <= q /\ left \in Int /\ lot.remaining \in Int
      BY <1>1, <1>2, <1>3, <2>3
    <3>2. m.balance - lot.remaining = balance - (q - left)
      <4>1. /\ m.balance = balance - (q - m.left) /\ left = m.left - lot.remaining
            /\ m.balance \in Int /\ m.left \in Int /\ q \in Int /\ balance \in Int
        BY <1>1, <1>3, <2>3
      <4>2. \A a, b, c, d \in Int : a - (b - c) - d = a - (b - (c - d))
        OBVIOUS
      <4>3. balance - (q - m.left) - lot.remaining = balance - (q - (m.left - lot.remaining))
        BY <3>1, <4>1, <4>2
      <4> QED  BY <4>1, <4>3
    <3>3. balance - (q - left) \in Nat
      BY <1>3, <2>3, <3>1
    <3> QED  BY <3>2, <3>3
  <2>9. y = [left |-> left, finished |-> ~(rest < -Tolerance), balance |-> m.balance - lot.remaining,
             closed_lots |-> lots, front_lot_update |-> m.front_lot_update]
    BY <1>1, <2>1 DEF Matching
  <2> HIDE DEF y, rest
  <2>10. /\ y.left = left /\ y.finished = ~(rest < -Tolerance)
         /\ y.balance = m.balance - lot.remaining /\ y.closed_lots = lots
         /\ y.front_lot_update = m.front_lot_update
    BY <2>9
  <2>11. y \in Matching
    BY <1>1, <2>3, <2>5, <2>8, <2>9 DEF Matching
  <2>12. left <= q /\ Len(lots) <= i + 1 /\ QuantityClosed(lots) + left = q
    <3>1. left <= q
      BY <1>1, <1>2, <1>3, <2>3
    <3>2. Len(lots) <= i + 1
      BY <1>1, <1>7, <2>5
    <3>3. QuantityClosed(lots) + left = q
      BY <1>1, <1>2, <1>3, <2>3, <2>6, <2>7
    <3> QED  BY <3>1, <3>2, <3>3
  <2>13. LoopSound(y, i + 1, balance, q, n)
    BY <2>3, <2>4, <2>7, <2>8, <2>10, <2>11, <2>12 DEF LoopSound
  <2> QED  BY <2>13 DEF y
<1>10. CASE ~m.finished /\ ~(rest < Tolerance)
  <2> DEFINE front == CloseSome(lot, m.left, n)
  <2>1. y = [m EXCEPT !.left = 0, !.finished = TRUE, !.balance = @ - m.left,
                      !.front_lot_update = <<front>>]
    BY <1>10 DEF MatchLot
  <2>2. m.left # 0 /\ m.front_lot_update = <<>> /\ QuantityClosed(m.closed_lots) + m.left = q
    BY <1>10 DEF LoopSound
  <2>3. m.left <= lot.remaining /\ lot.remaining - m.left >= Tolerance
    BY <1>1, <1>2, <1>10, UnitFacts
  <2>4. /\ front \in Lot /\ front.last_closed = m.left /\ front.updated = n
        /\ front.original = lot.original /\ front.remaining = rest
    BY <1>1, <2>3, CloseFacts
  <2> HIDE DEF front
  <2>5. 0 < rest /\ rest < lot.original
    BY <1>1, <1>2, <1>10, <2>2, UnitFacts
  <2>6. FrontSound(front, n)
    BY <1>2, <1>4, <2>4, <2>5 DEF FrontSound, LotSound
  <2>7. <<front>> \in Seq(Lot)
    BY <2>4
  <2>8. 0 \in Multiples
    BY <1>1, <1>4, MultiplesFacts, m.left - m.left = 0
  <2>9. m.balance - m.left = balance - (q - 0) /\ m.balance - m.left \in Nat
    BY <1>1, <1>3
  <2>10. y = [left |-> 0, finished |-> TRUE, balance |-> m.balance - m.left,
              closed_lots |-> m.closed_lots, front_lot_update |-> <<front>>]
    BY <1>1, <2>1 DEF Matching
  <2> HIDE DEF y, rest
  <2>11. /\ y.left = 0 /\ y.finished = TRUE /\ y.balance = m.balance - m.left
         /\ y.closed_lots = m.closed_lots /\ y.front_lot_update = <<front>>
    BY <2>10
  <2>12. y \in Matching
    BY <1>1, <2>7, <2>9, <2>10 DEF Matching
  <2>13. 0 <= q /\ Len(m.closed_lots) <= i + 1 /\ QuantityClosed(m.closed_lots) + front.last_closed = q
    BY <1>1, <1>3, <1>7, <2>2, <2>4
  <2>14. LoopSound(y, i + 1, balance, q, n)
    BY <2>6, <2>8, <2>9, <2>11, <2>12, <2>13 DEF LoopSound
  <2> QED  BY <2>14 DEF y
<1> QED  BY <1>8, <1>9, <1>10

\* The whole loop: MatchLoop is its recursion, turn by turn.
LEMMA LoopHolds ==
    ASSUME NEW n \in 1 .. MaxFills, NEW p, PositionSound(p, n - 1),
           NEW q \in Multiples, 0 < q, q <= p.balance
    PROVE  LoopSound(MatchLoop(p, q, n), Len(p.open_lots), p.balance, q, n)
<1> DEFINE L == Len(p.open_lots)
           start == [left |-> q, finished |-> FALSE, balance |-> p.balance,
                     closed_lots |-> <<>>, front_lot_update |-> <<>>]
           Rec(g, k) == g = [i \in 0 .. k |-> IF i = 0 THEN start
                                              ELSE MatchLot(g[i - 1], p.open_lots[i], n)]
<1>1. /\ p.balance \in Nat /\ p.open_lots \in Seq(Lot) /\ L \in Nat
      /\ DOMAIN p.open_lots = 1 .. L
      /\ \A i \in 1 .. L : p.open_lots[i] \in Lot /\ LotSound(p.open_lots[i], n - 1)
  <2>1. p.balance \in Nat /\ p.open_lots \in Seq(Lot)
    BY DEF PositionSound, Position
  <2> QED  BY <2>1, LenProperties, ElementOfSeq DEF PositionSound
<1>2. \E g : Rec(g, L)
  <2> DEFINE T == {k \in Nat : \E g : Rec(g, k)}
  <2>1. 0 \in T
    <3>1. Rec([i \in 0 .. 0 |-> start], 0)
      OBVIOUS
    <3> QED  BY <3>1
  <2>2. ASSUME NEW k \in T PROVE k + 1 \in T
    <3>1. PICK g : Rec(g, k)
      OBVIOUS
    <3> DEFINE h == [i \in 0 .. k + 1 |-> IF i = k + 1 THEN MatchLot(g[k], p.open_lots[k + 1], n)
                                                       ELSE g[i]]
    <3>2. \A i \in 0 .. k : g[i] = IF i = 0 THEN start ELSE MatchLot(g[i - 1], p.open_lots[i], n)
      BY <3>1
    <3> HIDE DEF start
    <3>3. \A i \in 0 .. k + 1 : h[i] = IF i = 0 THEN start ELSE MatchLot(h[i - 1], p.open_lots[i], n)
      <4> SUFFICES ASSUME NEW i \in 0 .. k + 1
                   PROVE  h[i] = IF i = 0 THEN start ELSE MatchLot(h[i - 1], p.open_lots[i], n)
        OBVIOUS
      <4>1. CASE i = k + 1
        <5>1. h[i - 1] = g[k] /\ h[i] = MatchLot(g[k], p.open_lots[k + 1], n) /\ i # 0
          BY <4>1
        <5> QED  BY <4>1, <5>1
      <4>2. CASE i # k + 1
        <5>1. i \in 0 .. k /\ h[i] = g[i] /\ (i # 0 => i - 1 \in 0 .. k + 1 /\ h[i - 1] = g[i - 1])
          BY <4>2
        <5> QED  BY <3>2, <5>1
      <4> QED  BY <4>1, <4>2
    <3>4. h = [i \in 0 .. k + 1 |-> h[i]]
      OBVIOUS
    <3> HIDE DEF h
    <3>5. Rec(h, k + 1)
      BY <3>3, <3>4
    <3>6. k + 1 \in Nat
      OBVIOUS
    <3>7. \E f : Rec(f, k + 1)
      BY <3>5
    <3> HIDE DEF Rec
    <3> QED  BY <3>6, <3>7
  <2> HIDE DEF T
  <2>3. T \subseteq Nat
    BY DEF T
  <2>4. T = Nat
    BY <2>1, <2>2, <2>3, NatSetInduction
  <2> QED  BY <1>1, <2>4 DEF T
<1>3. PICK g : Rec(g, L) /\ MatchLoop(p, q, n) = g[L]
  <2> DEFINE after == CHOOSE g : Rec(g, L)
  <2>1. Rec(after, L)
    BY <1>2
  <2>2. MatchLoop(p, q, n) = after[L]
    BY DEF MatchLoop
  <2> QED  BY <2>1, <2>2
<1>4. \A i \in 0 .. L : g[i] = IF i = 0 THEN start ELSE MatchLot(g[i - 1], p.open_lots[i], n)
  BY <1>3
<1> DEFINE Good == {k \in Nat : k <= L => LoopSound(g[k], k, p.balance, q, n)}
<1>5. 0 \in Good
  <2>1. g[0] = start
    <3> HIDE DEF start
    <3> QED  BY <1>1, <1>4
  <2>2. q \in Nat /\ q - q = 0
    BY MultiplesFacts
  <2>3. <<>> \in Seq(Lot) /\ Len(<<>>) = 0
    BY EmptySeq
  <2>4. /\ start \in Matching /\ start.left = q /\ start.balance = p.balance
        /\ start.closed_lots = <<>> /\ start.front_lot_update = <<>>
    <3> HIDE DEF Lot
    <3> QED  BY <1>1, <2>2, <2>3 DEF Matching
  <2> HIDE DEF start
  <2>5. p.balance = p.balance - (q - q) /\ 0 + q = q
    BY <1>1, <2>2
  <2>6. LoopSound(start, 0, p.balance, q, n)
    BY <2>2, <2>3, <2>4, <2>5, NothingClosed DEF LoopSound
  <2> QED  BY <2>1, <2>6
<1> HIDE DEF start
<1>6. ASSUME NEW k \in Good PROVE k + 1 \in Good
  <2> SUFFICES ASSUME k + 1 <= L PROVE LoopSound(g[k + 1], k + 1, p.balance, q, n)
    OBVIOUS
  <2>1. LoopSound(g[k], k, p.balance, q, n) /\ k \in Nat
    BY <1>1
  <2>2. /\ g[k + 1] = MatchLot(g[k], p.open_lots[k + 1], n)
        /\ p.open_lots[k + 1] \in Lot /\ LotSound(p.open_lots[k + 1], n - 1)
    BY <1>1, <1>4
  <2> HIDE DEF Good
  <2> QED  BY <1>1, <2>1, <2>2, TurnSound
<1> HIDE DEF Good
<1>7. Good \subseteq Nat
  BY DEF Good
<1>8. Good = Nat
  BY <1>5, <1>6, <1>7, NatSetInduction
<1>9. L \in Good
  BY <1>1, <1>8
<1> QED  BY <1>3, <1>9 DEF Good

-----------------------------------------------------------------------------
(* What match_lots commits, and what is reported of it.                    *)

\* Lots that were sound at an earlier fill still are.
LEMMA LaterSound ==
    ASSUME NEW lot \in Lot, NEW n \in Int, LotSound(lot, n - 1)
    PROVE  LotSound(lot, n) /\ lot.updated # n
<1>1. lot.updated \in Int
  BY LotFields
<1> QED  BY <1>1 DEF LotSound

\* CloseLot is published once for each lot that the fill closed, wholly or in part,
\* and what is published adds up to what the fill took (match_lots and
\* drain_closed_lots_and_callback_on_updated).
LEMMA MatchSound ==
    ASSUME NEW n \in 1 .. MaxFills, NEW p, PositionSound(p, n - 1),
           NEW q \in Multiples, 0 < q, q <= p.balance
    PROVE  LET m == MatchLots(p, q, n)
           IN  /\ PositionSound(m.position, n)
               /\ m.unmatched \in Multiples /\ m.unmatched \in Nat
               /\ QuantityClosed(Called(m.position, m.closed_lots)) \in Nat
               /\ QuantityClosed(Called(m.position, m.closed_lots)) + m.unmatched = q
<1> DEFINE m == MatchLoop(p, q, n)
           kept == SubSeq(p.open_lots, 1, Len(m.closed_lots))
           lots == CommitLots(p, m)
           r == MatchLots(p, q, n)
<1>1. LoopSound(m, Len(p.open_lots), p.balance, q, n)
  BY LoopHolds
<1> HIDE DEF m
<1>2. /\ m \in Matching /\ m.left \in Multiples /\ m.left \in Nat /\ m.balance \in Nat
      /\ m.closed_lots \in Seq(Lot)
      /\ m.balance = p.balance - (q - m.left) /\ Len(m.closed_lots) <= Len(p.open_lots)
  BY <1>1 DEF LoopSound, Matching
<1>3. /\ p \in Position /\ p.side = "Buy" /\ p.balance \in Multiples /\ p.open_lots \in Seq(Lot)
      /\ \A i \in DOMAIN p.open_lots : LotSound(p.open_lots[i], n - 1)
  BY DEF PositionSound, Position
<1>4. /\ Len(m.closed_lots) \in Nat /\ Len(p.open_lots) \in Nat
      /\ DOMAIN p.open_lots = 1 .. Len(p.open_lots)
      /\ \A i \in 1 .. Len(p.open_lots) : p.open_lots[i] \in Lot
  BY <1>2, <1>3, LenProperties, ElementOfSeq
<1>5. /\ kept \in Seq(Lot) /\ Len(kept) = Len(m.closed_lots)
      /\ \A i \in 1 .. Len(kept) : /\ kept[i] \in Lot /\ LotSound(kept[i], n)
                                   /\ kept[i].updated # n
  <2>1. \A i \in 1 .. Len(m.closed_lots) : p.open_lots[i] \in Lot
    BY <1>2, <1>4
  <2>2. /\ kept \in Seq(Lot)
        /\ Len(kept) = IF 1 <= Len(m.closed_lots) THEN Len(m.closed_lots) - 1 + 1 ELSE 0
        /\ \A i \in 1 .. Len(m.closed_lots) - 1 + 1 : kept[i] = p.open_lots[1 + i - 1]
    BY <1>4, <2>1, SubSeqProperties
  <2>3. Len(kept) = Len(m.closed_lots) /\ Len(m.closed_lots) - 1 + 1 = Len(m.closed_lots)
    BY <1>4, <2>2
  <2>4. ASSUME NEW i \in 1 .. Len(m.closed_lots)
        PROVE  kept[i] \in Lot /\ LotSound(kept[i], n) /\ kept[i].updated # n
    <3>1. kept[i] = p.open_lots[i] /\ i \in DOMAIN p.open_lots
      BY <1>2, <1>4, <2>2, <2>3
    <3> QED  BY <1>3, <1>4, <3>1, LaterSound
  <2> QED  BY <2>2, <2>3, <2>4
<1> HIDE DEF kept
<1>6. r = [position |-> [p EXCEPT !.updated = n, !.balance = m.balance, !.open_lots = lots],
           closed_lots |-> m.closed_lots,
           unmatched |-> IF Tolerance < m.left THEN m.left ELSE 0]
  BY DEF MatchLots, m
<1>7. r.unmatched = m.left /\ r.closed_lots = m.closed_lots
  <2>1. m.left < Unit => m.left = 0
    BY <1>2, SmallMultiples
  <2> QED  BY <1>2, <1>6, <2>1, UnitFacts
<1>8. m.balance \in Multiples
  <2>1. q - m.left \in Multiples
    BY <1>2, MultiplesFacts
  <2> QED  BY <1>2, <1>3, <2>1, MultiplesFacts
<1>9. /\ lots \in Seq(Lot)
      /\ \A i \in DOMAIN lots : LotSound(lots[i], n)
      /\ QuantityClosed(Called(r.position, m.closed_lots)) \in Nat
      /\ QuantityClosed(Called(r.position, m.closed_lots)) + m.left = q
  <2>1. r.position.open_lots = lots /\ r.position.updated = n
    <3> HIDE DEF lots
    <3>1. r.position = [p EXCEPT !.updated = n, !.balance = m.balance, !.open_lots = lots]
      BY <1>6
    <3> HIDE DEF r
    <3>2. r.position = [side |-> p.side, balance |-> m.balance, updated |-> n, open_lots |-> lots]
      BY <1>3, <3>1 DEF Position
    <3> QED  BY <3>2
  <2> HIDE DEF r
  <2>2. Called(r.position, m.closed_lots)
          = IF lots # <<>> /\ Head(lots).remaining # Head(lots).original /\ Head(lots).updated = n
            THEN Append(m.closed_lots, Head(lots)) ELSE m.closed_lots
    BY <2>1 DEF Called
  <2>3. CASE m.front_lot_update = <<>> /\ QuantityClosed(m.closed_lots) + m.left = q
    <3>1. lots = kept
      BY <2>3 DEF CommitLots, kept
    <3>2. kept # <<>> => Head(kept) = kept[1] /\ 1 \in 1 .. Len(kept)
      BY <1>5, EmptySeq
    <3>3. Called(r.position, m.closed_lots) = m.closed_lots
      BY <1>5, <2>2, <3>1, <3>2
    <3>4. DOMAIN kept = 1 .. Len(kept)
      BY <1>5, LenProperties
    <3>5. QuantityClosed(m.closed_lots) \in Nat
      BY <1>2, ClosedTyped
    <3> QED  BY <1>5, <2>3, <3>1, <3>3, <3>4, <3>5
  <2>4. CASE m.left = 0 /\ \E lot : /\ m.front_lot_update = <<lot>> /\ FrontSound(lot, n)
                                    /\ QuantityClosed(m.closed_lots) + lot.last_closed = q
    <3>1. PICK lot : /\ m.front_lot_update = <<lot>> /\ FrontSound(lot, n)
                     /\ QuantityClosed(m.closed_lots) + lot.last_closed = q
      BY <2>4
    <3>2. lot \in Lot /\ LotSound(lot, n) /\ lot.remaining # lot.original /\ lot.updated = n
      BY <3>1, LotFields DEF FrontSound
    <3> DEFINE rest == IF kept = <<>> THEN <<>> ELSE Tail(kept)
    <3>3. lots = <<lot>> \o rest
      <4>1. <<lot>> # <<>>
        OBVIOUS
      <4> QED  BY <3>1, <4>1 DEF CommitLots, kept
    <3>4. rest \in Seq(Lot) /\ \A i \in 1 .. Len(rest) : LotSound(rest[i], n)
      <4>1. CASE kept = <<>>
        BY <4>1, EmptySeq
      <4>2. CASE kept # <<>>
        <5>1. /\ Tail(kept) \in Seq(Lot) /\ Len(Tail(kept)) = Len(kept) - 1
              /\ \A i \in 1 .. Len(Tail(kept)) : Tail(kept)[i] = kept[i + 1]
          BY <1>5, <4>2, HeadTailProperties
        <5>2. Len(kept) \in Nat
          BY <1>5, LenProperties
        <5>3. \A i \in 1 .. Len(Tail(kept)) : i + 1 \in 1 .. Len(kept)
          BY <5>1, <5>2
        <5> QED  BY <1>5, <4>2, <5>1, <5>3
      <4> QED  BY <4>1, <4>2
    <3> HIDE DEF rest
    <3>5. <<lot>> \in Seq(Lot) /\ Len(<<lot>>) = 1 /\ <<lot>>[1] = lot
      BY <3>2
    <3>6. /\ lots \in Seq(Lot) /\ Len(lots) = 1 + Len(rest)
          /\ \A i \in 1 .. 1 + Len(rest) : lots[i] = IF i <= 1 THEN <<lot>>[i] ELSE rest[i - 1]
      BY <3>3, <3>4, <3>5, ConcatProperties
    <3> HIDE DEF lots
    <3>7. Len(rest) \in Nat /\ DOMAIN lots = 1 .. 1 + Len(rest)
      BY <3>4, <3>6, LenProperties
    <3>8. lots[1] = lot
      BY <3>5, <3>6, <3>7
    <3>9. ASSUME NEW i \in DOMAIN lots PROVE LotSound(lots[i], n)
      <4>1. CASE i = 1
        BY <3>2, <3>8, <4>1
      <4>2. CASE i # 1
        <5>1. i - 1 \in 1 .. Len(rest) /\ lots[i] = rest[i - 1]
          BY <3>6, <3>7, <4>2
        <5> QED  BY <3>4, <5>1
      <4> QED  BY <4>1, <4>2
    <3>10. lots # <<>> /\ Head(lots) = lot
      BY <3>6, <3>7, <3>8
    <3>11. Called(r.position, m.closed_lots) = Append(m.closed_lots, lot)
      BY <2>2, <3>2, <3>10
    <3>12. /\ QuantityClosed(m.closed_lots) \in Nat
           /\ QuantityClosed(Append(m.closed_lots, lot))
                = QuantityClosed(m.closed_lots) + lot.last_closed
      BY <1>2, <3>2, ClosedAppended
    <3>13. q \in Nat /\ lot.last_closed \in Nat
      BY <3>2, LotFields, MultiplesFacts
    <3> QED  BY <2>4, <3>1, <3>6, <3>9, <3>11, <3>12, <3>13
  <2> QED  BY <1>1, <2>3, <2>4 DEF LoopSound
<1>10. PositionSound(r.position, n)
  <2> DEFINE s == r.position
  <2> HIDE DEF lots
  <2>1. s = [p EXCEPT !.updated = n, !.balance = m.balance, !.open_lots = lots]
    BY <1>6
  <2> HIDE DEF s
  <2>2. s \in Position /\ s.side = "Buy" /\ s.balance = m.balance /\ s.open_lots = lots
    <3> HIDE DEF Lot
    <3> QED  BY <1>2, <1>3, <1>9, <2>1 DEF Position
  <2>3. PositionSound(s, n)
    BY <1>8, <1>9, <2>2 DEF PositionSound
  <2> QED  BY <2>3 DEF s
<1> HIDE DEF lots, r
<1> QED  BY <1>2, <1>7, <1>9, <1>10 DEF r

-----------------------------------------------------------------------------
(* The steps of the inventory manager.                                     *)

\* A lot opened for what a fill leaves is sound (Position::create_lot).
LEMMA CreateSound ==
    ASSUME NEW n \in 1 .. MaxFills, NEW p, PositionSound(p, n),
           NEW q \in Multiples, 0 < q
    PROVE  PositionSound(CreateLot(p, q, n), n)
<1> DEFINE lot == [id |-> n, original |-> q, remaining |-> q, updated |-> n,
                   last_closed |-> 0, assigned |-> FALSE]
           lots == Append(p.open_lots, lot)
           r == CreateLot(p, q, n)
<1>1. q \in Nat
  <2>1. q \in Int
    BY SmallMultiples
  <2> QED  BY <2>1
<1>2. lot \in Lot /\ LotSound(lot, n)
  BY <1>1 DEF Lot, LotSound
<1> HIDE DEF lot
<1>3. /\ p \in Position /\ p.open_lots \in Seq(Lot) /\ p.balance \in Nat
      /\ p.balance \in Multiples /\ p.side = "Buy"
      /\ \A i \in DOMAIN p.open_lots : LotSound(p.open_lots[i], n)
  BY DEF PositionSound, Position
<1>4. Len(p.open_lots) \in Nat /\ DOMAIN p.open_lots = 1 .. Len(p.open_lots)
  BY <1>3, LenProperties
<1>5. /\ lots \in Seq(Lot) /\ DOMAIN lots = 1 .. Len(p.open_lots) + 1
      /\ lots[Len(p.open_lots) + 1] = lot
      /\ \A i \in 1 .. Len(p.open_lots) : lots[i] = p.open_lots[i]
  BY <1>2, <1>3, <1>4, AppendProperties
<1>6. r = [p EXCEPT !.updated = n, !.balance = @ + q, !.open_lots = lots]
  BY DEF CreateLot, lot
<1> HIDE DEF lots, r
<1>7. ASSUME NEW i \in DOMAIN lots PROVE LotSound(lots[i], n)
  <2>1. i = Len(p.open_lots) + 1 \/ i \in 1 .. Len(p.open_lots)
    BY <1>4, <1>5
  <2> QED  BY <1>2, <1>3, <1>4, <1>5, <2>1
<1>8. p.balance + q \in Nat /\ p.balance + q \in Multiples
  <2>1. p.balance + q \in Multiples
    BY <1>3, MultiplesFacts
  <2> QED  BY <1>1, <1>3, <2>1
<1>9. r \in Position /\ r.side = "Buy" /\ r.balance = p.balance + q /\ r.open_lots = lots
  <2> HIDE DEF Lot
  <2> QED  BY <1>3, <1>5, <1>6, <1>8 DEF Position
<1>10. PositionSound(r, n)
  BY <1>7, <1>8, <1>9 DEF PositionSound
<1> QED  BY <1>10 DEF r

\* A position that no fill touches stays sound.
LEMMA LaterPosition ==
    ASSUME NEW n \in Nat, NEW p, PositionSound(p, n)
    PROVE  PositionSound(p, n + 1)
<1>1. /\ p.open_lots \in Seq(Lot) /\ DOMAIN p.open_lots = 1 .. Len(p.open_lots)
      /\ \A i \in 1 .. Len(p.open_lots) : p.open_lots[i] \in Lot
  BY LenProperties, ElementOfSeq DEF PositionSound, Position
<1>2. ASSUME NEW i \in DOMAIN p.open_lots PROVE LotSound(p.open_lots[i], n + 1)
  <2>1. LotSound(p.open_lots[i], n) /\ p.open_lots[i].updated \in Int
    BY <1>1, LotFields DEF PositionSound
  <2> QED  BY <2>1 DEF LotSound
<1> QED  BY <1>2 DEF PositionSound

\* One fill: what it matches, opens and reports (handle_fill_report).
LEMMA FillKeeps ==
    ASSUME Inv, NEW x \in Symbols, NEW side \in {"Buy", "Sell"}, NEW q \in Quantities,
           Holds(x, side, q), HandleFill(x, side, q)
    PROVE  Inv'
<1> DEFINE n == fills + 1
           p == positions[x]
           matched == IF p = Null
                      THEN [position |-> NewPosition(side, n), lots |-> <<>>, unmatched |-> q]
                      ELSE IF p.side = side
                      THEN [position |-> p, lots |-> Called(p, <<>>), unmatched |-> q]
                      ELSE LET m == MatchLots(p, q, n)
                           IN  [position |-> m.position,
                                lots |-> Called(m.position, m.closed_lots),
                                unmatched |-> m.unmatched]
           position == IF matched.unmatched = 0 THEN matched.position
                       ELSE CreateLot(matched.position, matched.unmatched, n)
           closed == QuantityClosed(matched.lots)
<1>1. /\ TypeOK /\ SellFullyReported /\ Sound(positions, fills) /\ Sound(saved, fills)
  BY DEF Inv, PositionsSound
<1>2. q \in Multiples /\ q \in Nat /\ 0 < q
  BY QuantityFacts
<1>3. fills \in Nat /\ n \in 1 .. MaxFills /\ n - 1 = fills
  BY <1>1, MaxFillsAssumption DEF TypeOK, HandleFill
<1>4. /\ positions' = [positions EXCEPT ![x] = position]
      /\ report' = [symbol |-> x, side |-> side, quantity |-> q,
                    opened |-> matched.unmatched, closed |-> closed]
      /\ fills' = n /\ saved' = saved /\ restarts' = restarts
  BY DEF HandleFill
<1>5. /\ PositionSound(matched.position, n)
      /\ matched.unmatched \in Multiples /\ matched.unmatched \in Nat
      /\ closed \in Nat
      /\ side = "Sell" => closed + matched.unmatched = q
  <2> HIDE DEF n
  <2>1. CASE p = Null
    <3>1. side = "Buy"
      BY <2>1 DEF Holds
    <3>2. /\ matched.position = NewPosition(side, n) /\ matched.lots = <<>>
          /\ matched.unmatched = q
      BY <2>1
    <3> DEFINE r == NewPosition(side, n)
    <3>3. <<>> \in Seq(Lot) /\ DOMAIN <<>> = {} /\ 0 \in Multiples
      <4>1. 0 * Unit = 0
        BY UnitFacts
      <4> QED  BY <4>1, EmptySeq DEF Multiples
    <3>4. r \in Position /\ r.side = "Buy" /\ r.balance = 0 /\ r.open_lots = <<>>
      <4> HIDE DEF Lot
      <4> QED  BY <1>3, <3>1, <3>3 DEF NewPosition, Position
    <3> HIDE DEF r, matched
    <3>5. PositionSound(r, n)
      BY <3>3, <3>4 DEF PositionSound
    <3>6. closed = 0
      BY <3>2, NothingClosed
    <3> QED  BY <1>2, <3>1, <3>2, <3>5, <3>6 DEF r
  <2>2. CASE p # Null /\ p.side = side
    <3>1. PositionSound(p, fills)
      BY <1>1, <2>2 DEF Sound
    <3>2. side = "Buy"
      BY <2>2, <3>1 DEF PositionSound
    <3>3. PositionSound(p, n)
      BY <1>3, <3>1, LaterPosition DEF n
    <3>4. /\ matched.position = p /\ matched.lots = Called(p, <<>>) /\ matched.unmatched = q
      BY <2>2
    <3>5. Called(p, <<>>) \in Seq(Lot)
      <4>1. <<>> \in Seq(Lot) /\ p.open_lots \in Seq(Lot)
        BY <3>1, EmptySeq DEF PositionSound, Position
      <4>2. p.open_lots # <<>> => Head(p.open_lots) \in Lot
        BY <4>1, HeadTailProperties
      <4>3. p.open_lots # <<>> => Append(<<>>, Head(p.open_lots)) \in Seq(Lot)
        BY <4>1, <4>2, AppendProperties
      <4> QED  BY <4>1, <4>3 DEF Called
    <3> HIDE DEF matched
    <3>6. closed \in Nat
      BY <3>4, <3>5, ClosedTyped
    <3> QED  BY <1>2, <3>2, <3>3, <3>4, <3>6
  <2>3. CASE p # Null /\ p.side # side
    <3>1. PositionSound(p, n - 1)
      BY <1>1, <1>3, <2>3 DEF Sound
    <3>2. side = "Sell"
      BY <2>3, <3>1 DEF PositionSound
    <3>3. q <= p.balance
      BY <3>2 DEF Holds
    <3> DEFINE m == MatchLots(p, q, n)
    <3>4. /\ matched.position = m.position /\ matched.lots = Called(m.position, m.closed_lots)
          /\ matched.unmatched = m.unmatched
      BY <2>3
    <3>5. /\ PositionSound(m.position, n)
          /\ m.unmatched \in Multiples /\ m.unmatched \in Nat
          /\ QuantityClosed(Called(m.position, m.closed_lots)) \in Nat
          /\ QuantityClosed(Called(m.position, m.closed_lots)) + m.unmatched = q
      <4> HIDE DEF matched
      <4> QED  BY <1>2, <1>3, <3>1, <3>3, MatchSound
    <3> HIDE DEF matched, m
    <3> QED  BY <3>4, <3>5
  <2> QED  BY <2>1, <2>2, <2>3
<1> HIDE DEF matched, closed
<1>6. PositionSound(position, n)
  <2>1. CASE matched.unmatched = 0
    BY <1>5, <2>1
  <2>2. CASE matched.unmatched # 0
    <3>1. 0 < matched.unmatched
      BY <1>5, <2>2
    <3> HIDE DEF n
    <3>2. PositionSound(CreateLot(matched.position, matched.unmatched, n), n)
      BY <1>3, <1>5, <3>1, CreateSound
    <3> QED  BY <2>2, <3>2
  <2> QED  BY <2>1, <2>2
<1> HIDE DEF position
<1>7. position \in Position
  BY <1>6 DEF PositionSound
<1>8. TypeOK'
  <2>1. positions' \in [Symbols -> Position \cup {Null}] /\ saved' \in [Symbols -> Position \cup {Null}]
    BY <1>1, <1>4, <1>7 DEF TypeOK
  <2>2. fills' \in 0 .. MaxFills /\ restarts' \in 0 .. MaxRestarts
    BY <1>1, <1>3, <1>4 DEF TypeOK
  <2>3. report' \in [symbol : Symbols \cup {Null}, side : {"Buy", "Sell"},
                     quantity : Nat, opened : Nat, closed : Nat]
    BY <1>2, <1>4, <1>5
  <2> QED  BY <2>1, <2>2, <2>3 DEF TypeOK
<1>9. SellFullyReported'
  BY <1>4, <1>5 DEF SellFullyReported
<1>10. Sound(positions', fills')
  <2> SUFFICES ASSUME NEW y \in Symbols, positions'[y] # Null
               PROVE  PositionSound(positions'[y], n)
    BY <1>4 DEF Sound
  <2>1. CASE y = x
    <3>1. positions'[y] = position
      BY <1>1, <1>4, <2>1 DEF TypeOK
    <3> QED  BY <1>6, <3>1
  <2>2. CASE y # x
    <3>1. positions'[y] = positions[y]
      BY <1>1, <1>4, <2>2 DEF TypeOK
    <3>2. PositionSound(positions[y], fills)
      BY <1>1, <3>1 DEF Sound
    <3> QED  BY <1>3, <3>1, <3>2, LaterPosition
  <2> QED  BY <2>1, <2>2
<1>11. Sound(saved', fills')
  <2> SUFFICES ASSUME NEW y \in Symbols, saved[y] # Null
               PROVE  PositionSound(saved[y], n)
    BY <1>4 DEF Sound
  <2>1. PositionSound(saved[y], fills)
    BY <1>1 DEF Sound
  <2> QED  BY <1>3, <2>1, LaterPosition
<1> QED  BY <1>8, <1>9, <1>10, <1>11 DEF Inv, PositionsSound

\* An assignment changes nothing but itself (assign_lots).
LEMMA AssignKeeps ==
    ASSUME Inv, NEW x \in Symbols, NEW ids, AssignLots(x, ids)
    PROVE  Inv'
<1> DEFINE p == positions[x]
           lots == [i \in DOMAIN p.open_lots |->
                       [p.open_lots[i] EXCEPT !.assigned = @ \/ p.open_lots[i].id \in ids]]
           r == [p EXCEPT !.open_lots = lots]
<1>1. /\ TypeOK /\ SellFullyReported /\ Sound(positions, fills) /\ p # Null
  BY DEF Inv, PositionsSound, AssignLots
<1>2. PositionSound(p, fills)
  BY <1>1 DEF Sound
<1>3. /\ p \in Position /\ p.open_lots \in Seq(Lot)
      /\ DOMAIN p.open_lots = 1 .. Len(p.open_lots) /\ Len(p.open_lots) \in Nat
      /\ \A i \in DOMAIN p.open_lots : p.open_lots[i] \in Lot /\ LotSound(p.open_lots[i], fills)
  BY <1>2, LenProperties, ElementOfSeq DEF PositionSound, Position
<1>4. positions' = [positions EXCEPT ![x] = r]
  BY <1>1 DEF AssignLots, TypeOK
<1>5. \A i \in DOMAIN p.open_lots : lots[i] \in Lot /\ LotSound(lots[i], fills)
  <2> SUFFICES ASSUME NEW i \in DOMAIN p.open_lots PROVE lots[i] \in Lot /\ LotSound(lots[i], fills)
    OBVIOUS
  <2> DEFINE lot == p.open_lots[i]
             flag == lot.assigned \/ lot.id \in ids
  <2>1. lots[i] = [lot EXCEPT !.assigned = flag]
    BY <1>3 DEF Lot
  <2>2. lot \in Lot /\ LotSound(lot, fills)
    BY <1>3
  <2>3. flag \in BOOLEAN
    OBVIOUS
  <2> HIDE DEF lot, flag, lots
  <2> QED  BY <2>1, <2>2, <2>3 DEF Lot, LotSound
<1>6. lots \in Seq(Lot) /\ DOMAIN lots = DOMAIN p.open_lots
  <2>1. lots \in [1 .. Len(p.open_lots) -> Lot]
    BY <1>3, <1>5
  <2> QED  BY <1>3, <2>1, SeqDef
<1> HIDE DEF lots
<1>7. r \in Position /\ r.side = p.side /\ r.balance = p.balance /\ r.open_lots = lots
  <2> HIDE DEF Lot
  <2> QED  BY <1>3, <1>6 DEF Position
<1> HIDE DEF r
<1>8. PositionSound(r, fills)
  BY <1>2, <1>5, <1>6, <1>7 DEF PositionSound
<1>9. saved' = positions' /\ UNCHANGED <<fills, report, restarts>>
  BY DEF AssignLots
<1>10. Sound(positions', fills)
  BY <1>1, <1>4, <1>8 DEF Sound, TypeOK
<1>11. positions' \in [Symbols -> Position \cup {Null}]
  BY <1>1, <1>4, <1>7 DEF TypeOK
<1> QED  BY <1>1, <1>9, <1>10, <1>11 DEF Inv, PositionsSound, TypeOK, SellFullyReported

-----------------------------------------------------------------------------
(* The theorem.                                                            *)

LEMMA InitSound == ASSUME Init PROVE Inv
<1>1. 0 \in 0 .. MaxFills
  BY MaxFillsAssumption
<1>2. 0 \in 0 .. MaxRestarts
  BY MaxRestartsAssumption
<1> QED  BY <1>1, <1>2 DEF Init, Inv, PositionsSound, TypeOK, SellFullyReported, Sound

LEMMA StepSound == ASSUME Inv, [Next]_vars PROVE Inv'
<1>1. ASSUME NEW x \in Symbols, NEW side \in Sides, NEW q \in Quantities,
             Holds(x, side, q), HandleFill(x, side, q)
      PROVE  Inv'
  <2>1. side \in {"Buy", "Sell"}
    BY SidesAssumption
  <2> QED  BY <1>1, <2>1, FillKeeps
<1>2. ASSUME NEW x \in Symbols, NEW n \in 1 .. MaxFills, AssignLots(x, {n}) PROVE Inv'
  BY <1>2, AssignKeeps
<1>3. ASSUME Store PROVE Inv'
  BY <1>3 DEF Store, Inv, PositionsSound, TypeOK, SellFullyReported
<1>4. ASSUME Restart PROVE Inv'
  <2>1. restarts' \in 0 .. MaxRestarts
    BY <1>4, MaxRestartsAssumption DEF Restart, Inv, PositionsSound, TypeOK
  <2> QED  BY <1>4, <2>1 DEF Restart, Inv, PositionsSound, TypeOK, SellFullyReported
<1>5. ASSUME UNCHANGED vars PROVE Inv'
  BY <1>5 DEF vars, Inv, PositionsSound, TypeOK, SellFullyReported
<1> QED  BY <1>1, <1>2, <1>3, <1>4, <1>5 DEF Next

\* No balance and no lot is ever overdrawn, and the solver hears all of a sell, also after
\* a load and although the commit of match_lots keeps the wrong lots.
THEOREM PositionsStaySound == Spec => []PositionsSound
<1>1. Inv => PositionsSound
  BY DEF Inv
<1> QED  BY <1>1, InitSound, StepSound, PTL DEF Spec

=============================================================================
